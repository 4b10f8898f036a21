------------------------------ MODULE Exporter ------------------------------
(***************************************************************************)
(* exporter/main.py and the alert rules that watch the CDC path and the    *)
(* exporter itself (infra/prometheus/alerts.yml).                          *)
(*                                                                         *)
(* The exporter asks three targets in turn.  A target's queries are made   *)
(* one after the other and each sets its gauges at once, so a collector    *)
(* that fails has set those of the queries before.  Prometheus scrapes the *)
(* gauges at any moment, in the middle of a collector too.                 *)
(*                                                                         *)
(* Of a gauge the model keeps how old the value it exports is; of those    *)
(* the rules below read, the value.                                        *)
(***************************************************************************)
EXTENDS Connect, Integers, Sequences

VARIABLES
  xpc,       \* the target asked next, "sleep" or "down"
  age,       \* gauge -> "absent", "current" (set in this scrape) or "old"
  stats,     \* is pg_stats, a local of scrape_once, there and not None?
  up,        \* exporter_target_up: target -> "absent", "0" or "1"
  slot,      \* cdc_replication_slot_active
  running,   \* cdc_connector_running
  failed     \* is cdc_connector_tasks{state="FAILED"} exported?

gauges   == <<age, up, slot, running, failed>>
exporter == <<xpc, stats, gauges>>

Targets == {"postgres", "clickhouse", "kafka-connect"}

(* The gauges each query sets, in the order of the queries: slots, the      *)
(* parity window (of which nothing is exported); the landing table (its     *)
(* gauges stand for the lag), row parity, the marts.  Row counts, dead      *)
(* letters, parts and dbt tests go stale as row parity does and are left    *)
(* out.                                                                     *)
PostgresQueries   == << {"slot"}, {} >>
ClickhouseQueries == << {"lag"}, {"parity"}, {"marts"} >>

PostgresGauges   == {"slot"}
ClickhouseGauges == {"lag", "parity", "marts"}
ConnectGauges    == {"connector", "tasks"}
Gauges           == PostgresGauges \cup ClickhouseGauges \cup ConnectGauges

TargetOf(g) == IF g \in PostgresGauges THEN "postgres"
               ELSE IF g \in ClickhouseGauges THEN "clickhouse" ELSE "kafka-connect"

(* What a query that succeeds may yet leave as it is: the lag if no row     *)
(* arrived for 15 minutes, a slot that is gone, a mart that answers with an *)
(* HTTP error.                                                              *)
Skippable == {"lag", "slot", "marts"}

---------------------------------------------------------------------------
(* The exporter.                                                            *)

SetBy(queries, n) == UNION {queries[i] : i \in 1 .. n}

Refresh(S) == age' = [g \in Gauges |-> IF g \in S THEN "current" ELSE age[g]]

\* Slip: a failed collector leaves its flag alone.
GuardedQuietly(target, ok) == up' = IF ok THEN [up EXCEPT ![target] = "1"] ELSE up

\* guarded: the flag of the target, and on with the next one.
Guarded(target, ok) == up' = [up EXCEPT ![target] = IF ok THEN "1" ELSE "0"]

\* scrape_once begins: what was set by the scrape before is old now.
BeginScrape ==
  /\ xpc = "sleep" /\ xpc' = "postgres"
  /\ age' = [g \in Gauges |-> IF age[g] = "current" THEN "old" ELSE age[g]]
  /\ UNCHANGED <<stats, up, slot, running, failed>>

\* A slot is active while the connector's task streams from it.
Streaming == worker /\ status = "running"

CollectPostgres(n) ==
  LET ok == n = Len(PostgresQueries)
  IN  /\ xpc = "postgres" /\ xpc' = "clickhouse"
      /\ \E skipped \in SUBSET (Skippable \cap PostgresGauges) :
           LET S == SetBy(PostgresQueries, n) \ skipped
           IN  /\ "slot" \in skipped => ~Streaming
               /\ Refresh(S)
               /\ slot' = IF "slot" \in S THEN (IF Streaming THEN "1" ELSE "0") ELSE slot
      /\ stats' = ok
      /\ Guarded("postgres", ok)
      /\ UNCHANGED <<running, failed>>

\* Row parity needs the count PostgreSQL gave in this scrape.
CollectClickhouse(n) ==
  /\ xpc = "clickhouse" /\ xpc' = "kafka-connect"
  /\ \E skipped \in SUBSET (Skippable \cap ClickhouseGauges) :
       Refresh(SetBy(ClickhouseQueries, n)
                 \ (skipped \cup IF stats THEN {} ELSE {"parity"}))
  /\ Guarded("clickhouse", n = Len(ClickhouseQueries))
  /\ stats' = FALSE
  /\ UNCHANGED <<slot, running, failed>>


\* 404: the connector is not registered.  The task counts stay as they are.
NotRegistered ==
  /\ worker /\ status = "absent"
  /\ running' = "0" /\ Refresh({"connector"})
  /\ UNCHANGED failed

\* Slip: the task counts are not cleared before they are set.
StatusReadUncleared ==
  /\ worker /\ status # "absent"
  /\ running' = IF status = "connector failed" THEN "0" ELSE "1"
  /\ failed' = (failed \/ status = "task failed")
  /\ Refresh({"connector", "tasks"})

StatusRead ==
  /\ worker /\ status # "absent"
  /\ running' = IF status = "connector failed" THEN "0" ELSE "1"
  /\ failed' = (status = "task failed")
  /\ Refresh({"connector", "tasks"})

\* An error status or a body that is no JSON of a live worker counts as no answer
\* here: like one, it raises before a gauge is touched.
CollectConnect ==
  /\ xpc = "kafka-connect" /\ xpc' = "sleep"
  /\ \/ NotRegistered \/ StatusRead
     \/ ~worker /\ UNCHANGED <<age, running, failed>>
  /\ Guarded("kafka-connect", worker)
  /\ UNCHANGED <<stats, slot>>

\* A process that starts, or is gone, exports nothing yet, or nothing any more.
NoGauges ==
  /\ age' = [g \in Gauges |-> "absent"] /\ up' = [t \in Targets |-> "absent"]
  /\ slot' = "absent" /\ running' = "absent" /\ failed' = FALSE /\ stats' = FALSE

ExporterStarts == xpc = "down" /\ xpc' = "postgres" /\ NoGauges

ExporterDies == xpc # "down" /\ xpc' = "down" /\ NoGauges

---------------------------------------------------------------------------
(* Prometheus.                                                              *)

Alerts ==
  {<<"DebeziumConnectorDown", "">>, <<"DebeziumTaskFailed", "">>,
   <<"ReplicationSlotInactive", "">>, <<"PrometheusTargetDown", "">>}
  \cup ({"ExporterTargetDown"} \X Targets)

(* Does the expression of the alert hold?  A series that is absent          *)
(* satisfies none.  An alert whose expression holds from some moment on     *)
(* fires, whatever its `for:'; one whose expression is interrupted starts   *)
(* its `for:' again.                                                        *)
Holds(a) ==
  \/ a[1] = "DebeziumConnectorDown" /\ running = "0"
  \/ a[1] = "DebeziumTaskFailed" /\ failed
  \/ a[1] = "ReplicationSlotInactive" /\ slot = "0"
  \/ a[1] = "PrometheusTargetDown" /\ xpc = "down"
  \/ a[1] = "ExporterTargetDown" /\ up[a[2]] = "0"

---------------------------------------------------------------------------
ExporterInit ==
  /\ xpc = "down"
  /\ age = [g \in Gauges |-> "absent"] /\ up = [t \in Targets |-> "absent"]
  /\ slot = "absent" /\ running = "absent" /\ failed = FALSE /\ stats = FALSE

ExporterTypeOK ==
  /\ xpc \in Targets \cup {"sleep", "down"}
  /\ age \in [Gauges -> {"absent", "current", "old"}]
  /\ stats \in BOOLEAN /\ failed \in BOOLEAN
  /\ up \in [Targets -> {"absent", "0", "1"}]
  /\ slot \in {"absent", "0", "1"} /\ running \in {"absent", "0", "1"}

=============================================================================
