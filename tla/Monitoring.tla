----------------------------- MODULE Monitoring -----------------------------
(***************************************************************************)
(* Who watches the connector: the script that registers it, the exporter   *)
(* that reads its status and the alert rules, side by side with the        *)
(* connector, which comes and goes as it likes.                            *)
(***************************************************************************)
EXTENDS Registration, Exporter

vars == <<connect, registration, exporter>>

Init == ConnectInit /\ RegistrationInit /\ ExporterInit

ConnectStep == Assign \/ TaskStarts

ConnectNext == ConnectStep \/ Fails \/ OperatorRestarts \/ WorkerStops \/ WorkerStarts

RegistrationNext == RegistrationStep \/ LoadFails \/ PutFails \/ DeadlinePasses \/ OperatorReregisters

\* A target does not answer, from one query on.
PostgresFails   == \E n \in 0 .. Len(PostgresQueries) - 1 : CollectPostgres(n)
ClickhouseFails == \E n \in 0 .. Len(ClickhouseQueries) - 1 : CollectClickhouse(n)

Scrape ==
  \/ BeginScrape
  \/ PostgresFails \/ CollectPostgres(Len(PostgresQueries))
  \/ ClickhouseFails \/ CollectClickhouse(Len(ClickhouseQueries))
  \/ CollectConnect

Next ==
  \/ ConnectNext /\ UNCHANGED <<registration, exporter>>
  \/ RegistrationNext /\ UNCHANGED exporter
  \/ (Scrape \/ ExporterStarts \/ ExporterDies) /\ UNCHANGED <<connect, registration>>

Spec == Init /\ [][Next]_vars

(* The worker works, the script runs and is run again, the exporter's       *)
(* `while True' goes round and `restart: unless-stopped' brings it back.    *)
FairSpec ==
  /\ Spec
  /\ WF_vars(ConnectStep /\ UNCHANGED <<registration, exporter>>)
  /\ WF_vars(RegistrationStep /\ UNCHANGED exporter)
  /\ WF_vars(Scrape /\ UNCHANGED <<connect, registration>>)
  /\ WF_vars(ExporterStarts /\ UNCHANGED <<connect, registration>>)

---------------------------------------------------------------------------
(* Properties.                                                              *)

TypeOK == ConnectTypeOK /\ RegistrationTypeOK /\ ExporterTypeOK

Down(t) == up[t] = "0"

(* "Failed scrapes stop exporting stale values", as far as it is true: when *)
(* a scrape is over, a value older than it is exported only with the flag   *)
(* of its target down, or for row parity that of PostgreSQL, or task counts *)
(* next to a connector reported down.  The lag, a slot and a mart may also  *)
(* stand still unflagged, and nothing else may.                             *)
FreshOrFlagged ==
  xpc = "sleep" => \A g \in Gauges \ Skippable :
    age[g] = "old" => \/ Down(TargetOf(g))
                      \/ g = "parity" /\ Down("postgres")
                      \/ g = "tasks" /\ running = "0"

\* The connector delivers nothing and will not by itself.
Broken == ~worker \/ status \in {"absent", "task failed", "connector failed"}


(* When everything answers and the connector runs, every alert ends: no     *)
(* gauge keeps the trace of an earlier failure.                             *)
AlertsEnd ==
  /\ <>[](worker /\ status = "running")
  /\ <>[][~ExporterDies /\ ~PostgresFails /\ ~ClickhouseFails]_vars
  => <>[](\A a \in Alerts : ~Holds(a))

(* Whatever went wrong before, the connector ends up registered and running *)
(* if from some moment on the template resolves, the worker answers, no     *)
(* deadline passes and no task fails: the script is idempotent and is run   *)
(* again until it has seen the connector run.                               *)
ConnectorIsRegistered ==
  /\ <>[]worker
  /\ <>[][~LoadFails /\ ~PutFails /\ ~DeadlinePasses /\ ~Fails /\ ~OperatorReregisters]_vars
  /\ []<>(status \notin {"task failed", "connector failed"})
  => <>[](code = "0" /\ status = "running")

=============================================================================
