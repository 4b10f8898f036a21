-------------------------- MODULE MonitoringProofs --------------------------
(***************************************************************************)
(* Proofs about Monitoring: what the exporter's gauges are worth when a    *)
(* scrape is over, whatever the connector, its registration and the        *)
(* targets did meanwhile.                                                  *)
(***************************************************************************)
EXTENDS Monitoring, TLAPS

---------------------------------------------------------------------------
(* The inductive invariant: what the scrape has established by the time it  *)
(* gets to each target.                                                     *)

\* Row parity lacks the count of PostgreSQL only next to its flag.
StatsOrFlagged == xpc = "clickhouse" => stats \/ Down("postgres")

ParityOrFlagged ==
  xpc \in {"kafka-connect", "sleep"} =>
    (age["parity"] = "old" => Down("postgres") \/ Down("clickhouse"))

ConnectOrFlagged ==
  xpc = "sleep" =>
    /\ age["connector"] = "old" => Down("kafka-connect")
    /\ age["tasks"] = "old" => Down("kafka-connect") \/ running = "0"

Flagged == StatsOrFlagged /\ ParityOrFlagged /\ ConnectOrFlagged

---------------------------------------------------------------------------
(* Types.                                                                   *)

LEMMA GaugesAre == Gauges = {"slot", "lag", "parity", "marts", "connector", "tasks"}
BY DEF Gauges, PostgresGauges, ClickhouseGauges, ConnectGauges

LEMMA InitType == Init => TypeOK
BY DEF Init, TypeOK, ConnectInit, RegistrationInit, ExporterInit, ConnectTypeOK,
       RegistrationTypeOK, ExporterTypeOK, Statuses

LEMMA ConnectType ==
  ASSUME TypeOK, ConnectNext, UNCHANGED <<registration, exporter>>
  PROVE  TypeOK'
<1> USE DEF TypeOK, ConnectTypeOK, Statuses
<1>1. ConnectTypeOK'
  <2>1. CASE Assign \/ TaskStarts
    BY <2>1 DEF Assign, TaskStarts
  <2>2. CASE Fails \/ OperatorRestarts
    BY <2>2 DEF Fails, OperatorRestarts
  <2>3. CASE WorkerStops \/ WorkerStarts
    BY <2>3 DEF WorkerStops, WorkerStarts
  <2> QED BY <2>1, <2>2, <2>3 DEF ConnectNext, ConnectStep
<1> QED BY <1>1 DEF registration, exporter, gauges, RegistrationTypeOK, ExporterTypeOK

LEMMA RegistrationType ==
  ASSUME TypeOK, RegistrationNext, UNCHANGED exporter
  PROVE  TypeOK'
<1> USE DEF TypeOK, ConnectTypeOK, RegistrationTypeOK, Statuses, Exit, GoTo, connect
<1>1. ConnectTypeOK' /\ RegistrationTypeOK'
  <2>1. CASE Load \/ WaitForConnect \/ Poll \/ Restart
    BY <2>1 DEF Load, WaitForConnect, Poll, Restart
  <2>2. CASE Put \/ PutFails
    BY <2>2 DEF Put, PutFails
  <2>3. CASE LoadFails \/ DeadlinePasses
    BY <2>3 DEF LoadFails, DeadlinePasses
  <2>4. CASE OperatorReregisters
    BY <2>4 DEF OperatorReregisters
  <2> QED BY <2>1, <2>2, <2>3, <2>4 DEF RegistrationNext, RegistrationStep
<1> QED BY <1>1 DEF exporter, gauges, ExporterTypeOK

LEMMA RefreshType ==
  ASSUME ExporterTypeOK, NEW S, Refresh(S)
  PROVE  age' \in [Gauges -> {"absent", "current", "old"}]
BY DEF ExporterTypeOK, Refresh

LEMMA GuardedType ==
  ASSUME ExporterTypeOK, NEW t \in Targets, NEW ok \in BOOLEAN, Guarded(t, ok)
  PROVE  up' \in [Targets -> {"absent", "0", "1"}]
BY DEF ExporterTypeOK, Guarded

(* The collectors, each as the flag, the rest of its state and its gauges.  *)
LEMMA PostgresCollected ==
  ASSUME ExporterTypeOK, NEW n \in 0 .. Len(PostgresQueries), CollectPostgres(n)
  PROVE  /\ ExporterTypeOK'
         /\ xpc' = "clickhouse"
         /\ stats' \/ up'["postgres"] = "0"
<1> DEFINE ok == n = Len(PostgresQueries)
<1>1. /\ xpc' = "clickhouse" /\ stats' = ok /\ Guarded("postgres", ok)
      /\ UNCHANGED <<running, failed>>
  BY DEF CollectPostgres
<1>2. ok \in BOOLEAN /\ "postgres" \in Targets
  BY DEF Targets
<1> HIDE DEF ok
<1>3. up' \in [Targets -> {"absent", "0", "1"}]
  BY <1>1, <1>2, GuardedType
<1>4. age' \in [Gauges -> {"absent", "current", "old"}]
  BY RefreshType DEF CollectPostgres
<1>5. slot' \in {"absent", "0", "1"}
  BY DEF CollectPostgres, ExporterTypeOK
<1>6. stats' \/ up'["postgres"] = "0"
  BY <1>1, <1>2 DEF Guarded, ExporterTypeOK
<1> QED BY <1>1, <1>2, <1>3, <1>4, <1>5, <1>6 DEF ExporterTypeOK, Targets

LEMMA ClickhouseCollected ==
  ASSUME ExporterTypeOK, StatsOrFlagged,
         NEW n \in 0 .. Len(ClickhouseQueries), CollectClickhouse(n)
  PROVE  /\ ExporterTypeOK'
         /\ xpc' = "kafka-connect"
         /\ age'["parity"] = "old" => up'["postgres"] = "0" \/ up'["clickhouse"] = "0"
<1> DEFINE ok == n = Len(ClickhouseQueries)
<1>1. /\ xpc = "clickhouse" /\ xpc' = "kafka-connect" /\ stats' = FALSE
      /\ Guarded("clickhouse", ok) /\ UNCHANGED <<slot, running, failed>>
  BY DEF CollectClickhouse
<1>2. ok \in BOOLEAN /\ "clickhouse" \in Targets /\ "postgres" \in Targets
  BY DEF Targets
<1>3. PICK skipped \in SUBSET (Skippable \cap ClickhouseGauges) :
        Refresh(SetBy(ClickhouseQueries, n) \ (skipped \cup IF stats THEN {} ELSE {"parity"}))
  BY DEF CollectClickhouse
<1>4. "parity" \in Gauges /\ "parity" \notin skipped
  BY GaugesAre DEF Skippable
<1>5. ok => "parity" \in SetBy(ClickhouseQueries, n)
  <2>1. Len(ClickhouseQueries) = 3 /\ ClickhouseQueries[2] = {"parity"}
    BY DEF ClickhouseQueries
  <2>2. ok => 2 \in 1 .. n
    BY <2>1
  <2> QED BY <2>1, <2>2 DEF SetBy
<1>6. up' \in [Targets -> {"absent", "0", "1"}]
  BY <1>1, <1>2, GuardedType
<1>7. age' \in [Gauges -> {"absent", "current", "old"}]
  BY <1>3, RefreshType
<1> HIDE DEF ok
<1>8. up'["postgres"] = up["postgres"] /\ (~ok => up'["clickhouse"] = "0")
  BY <1>1, <1>2 DEF Guarded, ExporterTypeOK
<1>9. ok /\ stats => age'["parity"] = "current"
  BY <1>3, <1>4, <1>5 DEF Refresh
<1>10. ~stats => up["postgres"] = "0"
  BY <1>1 DEF StatsOrFlagged, Down
<1> QED BY <1>1, <1>2, <1>6, <1>7, <1>8, <1>9, <1>10 DEF ExporterTypeOK, Targets

LEMMA ConnectCollected ==
  ASSUME ExporterTypeOK, worker \in BOOLEAN, ParityOrFlagged, CollectConnect
  PROVE  ExporterTypeOK' /\ Flagged'
<1>1. /\ xpc = "kafka-connect" /\ xpc' = "sleep" /\ UNCHANGED <<stats, slot>>
      /\ Guarded("kafka-connect", worker)
  BY DEF CollectConnect
<1>2. {"kafka-connect", "postgres", "clickhouse"} \subseteq Targets
  BY DEF Targets
<1>3. up' \in [Targets -> {"absent", "0", "1"}]
  BY <1>1, <1>2, GuardedType
<1>4. /\ up'["postgres"] = up["postgres"] /\ up'["clickhouse"] = up["clickhouse"]
      /\ ~worker => up'["kafka-connect"] = "0"
  BY <1>1, <1>2 DEF Guarded, ExporterTypeOK
<1>5. {"parity", "connector", "tasks"} \subseteq Gauges
  BY GaugesAre
<1>6. /\ age' \in [Gauges -> {"absent", "current", "old"}]
      /\ age'["parity"] = age["parity"]
      /\ running' \in {"absent", "0", "1"} /\ failed' \in BOOLEAN
      /\ worker => age'["connector"] = "current"
      /\ worker => age'["tasks"] = "current" \/ running' = "0"
  <2>1. CASE NotRegistered
    BY <2>1, <1>5 DEF NotRegistered, Refresh, ExporterTypeOK
  <2>2. CASE StatusRead
    BY <2>2, <1>5 DEF StatusRead, Refresh, ExporterTypeOK
  <2>3. CASE ~worker /\ UNCHANGED <<age, running, failed>>
    BY <2>3 DEF ExporterTypeOK
  <2> QED BY <2>1, <2>2, <2>3 DEF CollectConnect
<1>7. ExporterTypeOK'
  BY <1>1, <1>3, <1>6 DEF ExporterTypeOK
<1>8. age'["parity"] = "old" => up'["postgres"] = "0" \/ up'["clickhouse"] = "0"
  BY <1>1, <1>4, <1>6 DEF ParityOrFlagged, Down
<1> QED BY <1>1, <1>4, <1>6, <1>7, <1>8
        DEF Flagged, StatsOrFlagged, ParityOrFlagged, ConnectOrFlagged, Down

(* A process that starts or dies exports nothing that could be stale.       *)
LEMMA RestartForgets ==
  ASSUME ExporterStarts \/ ExporterDies
  PROVE  ExporterTypeOK' /\ Flagged'
BY DEF ExporterStarts, ExporterDies, NoGauges, ExporterTypeOK, Targets,
       Flagged, StatsOrFlagged, ParityOrFlagged, ConnectOrFlagged

LEMMA BeginType ==
  ASSUME ExporterTypeOK, BeginScrape
  PROVE  ExporterTypeOK' /\ Flagged'
BY DEF BeginScrape, ExporterTypeOK, Targets,
       Flagged, StatsOrFlagged, ParityOrFlagged, ConnectOrFlagged

LEMMA ExporterStep ==
  ASSUME TypeOK, Flagged, Scrape \/ ExporterStarts \/ ExporterDies
  PROVE  ExporterTypeOK' /\ Flagged'
<1>1. ExporterTypeOK /\ worker \in BOOLEAN
  BY DEF TypeOK, ConnectTypeOK
<1>2. Len(PostgresQueries) \in Nat /\ Len(ClickhouseQueries) \in Nat
  BY DEF PostgresQueries, ClickhouseQueries
<1>3. ASSUME NEW n \in 0 .. Len(PostgresQueries), CollectPostgres(n)
      PROVE  ExporterTypeOK' /\ Flagged'
  BY <1>1, <1>3, PostgresCollected
     DEF Flagged, StatsOrFlagged, ParityOrFlagged, ConnectOrFlagged, Down
<1>4. ASSUME NEW n \in 0 .. Len(ClickhouseQueries), CollectClickhouse(n)
      PROVE  ExporterTypeOK' /\ Flagged'
  BY <1>1, <1>4, ClickhouseCollected
     DEF Flagged, StatsOrFlagged, ParityOrFlagged, ConnectOrFlagged, Down
<1>5. CASE PostgresFails \/ CollectPostgres(Len(PostgresQueries))
  BY <1>2, <1>3, <1>5 DEF PostgresFails
<1>6. CASE ClickhouseFails \/ CollectClickhouse(Len(ClickhouseQueries))
  BY <1>2, <1>4, <1>6 DEF ClickhouseFails
<1>7. CASE CollectConnect
  BY <1>1, <1>7, ConnectCollected DEF Flagged
<1>8. CASE BeginScrape
  BY <1>1, <1>8, BeginType
<1>9. CASE ExporterStarts \/ ExporterDies
  BY <1>9, RestartForgets
<1> QED BY <1>5, <1>6, <1>7, <1>8, <1>9 DEF Scrape

LEMMA NextHolds == TypeOK /\ Flagged /\ [Next]_vars => TypeOK' /\ Flagged'
<1> SUFFICES ASSUME TypeOK, Flagged, [Next]_vars
             PROVE  TypeOK' /\ Flagged'
  OBVIOUS
<1>1. ASSUME UNCHANGED exporter PROVE Flagged'
  BY <1>1 DEF Flagged, StatsOrFlagged, ParityOrFlagged, ConnectOrFlagged, Down, exporter, gauges
<1>2. CASE ConnectNext /\ UNCHANGED <<registration, exporter>>
  BY <1>1, <1>2, ConnectType
<1>3. CASE RegistrationNext /\ UNCHANGED exporter
  BY <1>1, <1>3, RegistrationType
<1>4. CASE (Scrape \/ ExporterStarts \/ ExporterDies) /\ UNCHANGED <<connect, registration>>
  <2>1. ExporterTypeOK' /\ Flagged'
    BY <1>4, ExporterStep
  <2>2. ConnectTypeOK' /\ RegistrationTypeOK'
    BY <1>4 DEF TypeOK, ConnectTypeOK, RegistrationTypeOK, connect, registration
  <2> QED BY <2>1, <2>2 DEF TypeOK
<1>5. CASE UNCHANGED vars
  <2>1. UNCHANGED <<connect, registration, exporter>>
    BY <1>5 DEF vars
  <2>2. ConnectTypeOK' /\ RegistrationTypeOK' /\ ExporterTypeOK'
    BY <2>1 DEF TypeOK, ConnectTypeOK, RegistrationTypeOK, ExporterTypeOK, connect,
                registration, exporter, gauges
  <2> QED BY <1>1, <2>1, <2>2 DEF TypeOK
<1> QED BY <1>2, <1>3, <1>4, <1>5 DEF Next

LEMMA Invariant == Spec => [](TypeOK /\ Flagged)
<1>1. Init => Flagged
  BY DEF Init, ExporterInit, Flagged, StatsOrFlagged, ParityOrFlagged, ConnectOrFlagged
<1> QED BY <1>1, InitType, NextHolds, PTL DEF Spec

---------------------------------------------------------------------------
(* The theorems.                                                            *)

(* Type correctness, with what Connect promises (no config, no connector)   *)
(* and what the script does (an exit code exactly when it has ended).       *)
THEOREM TypeCorrect == Spec => []TypeOK
BY Invariant, PTL

(* No gauge that a successful collector has to set is exported with an      *)
(* older value than the last scrape's, unless a flag says so: whichever     *)
(* query failed, whenever the exporter, the worker or the script died.      *)
THEOREM StaleIsFlagged == Spec => []FreshOrFlagged
<1>1. TypeOK /\ Flagged => FreshOrFlagged
  <2> SUFFICES ASSUME Flagged, xpc = "sleep", NEW g \in Gauges \ Skippable, age[g] = "old"
               PROVE  \/ Down(TargetOf(g))
                      \/ g = "parity" /\ Down("postgres")
                      \/ g = "tasks" /\ running = "0"
    BY DEF FreshOrFlagged
  <2>1. g \in {"parity", "connector", "tasks"}
    BY GaugesAre DEF Skippable
  <2>2. /\ TargetOf("parity") = "clickhouse"
        /\ TargetOf("connector") = "kafka-connect" /\ TargetOf("tasks") = "kafka-connect"
    BY DEF TargetOf, PostgresGauges, ClickhouseGauges
  <2> QED BY <2>1, <2>2 DEF Flagged, ParityOrFlagged, ConnectOrFlagged
<1> QED BY <1>1, Invariant, PTL

=============================================================================
