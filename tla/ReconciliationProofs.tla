------------------------ MODULE ReconciliationProofs ------------------------
(***************************************************************************)
(* Proofs about Reconciliation, for any symbols, day length, lookback,     *)
(* tolerance, number of retries and history.                               *)
(***************************************************************************)
EXTENDS Reconciliation, FiniteSetTheorems, TLAPS

---------------------------------------------------------------------------
(* The inductive invariant.                                                 *)

\* What was counted is still there, but for the symbol-days that moved.
SourceCountHolds ==
  Reading => \A k \in Keys \ moved :
    inSource[k] = Cardinality(Counted(source, k, readAt.source))

ReplicaCountHolds ==
  pc = "compare" => \A k \in Keys \ moved :
    inReplica[k] = Cardinality(Counted(replica, k, readAt.replica))

CountsHold == SourceCountHolds /\ ReplicaCountHolds

---------------------------------------------------------------------------
(* Counting.                                                                *)

LEMMA RowsFinite == IsFiniteSet(Rows)
<1>1. IsFiniteSet(Minutes)
  BY FS_Interval, BoundAssumption DEF Minutes
<1> QED BY <1>1, FS_Product, BoundAssumption DEF Rows

LEMMA CountedFinite ==
  ASSUME NEW table, table \subseteq Rows, NEW k, NEW t
  PROVE  /\ IsFiniteSet(Counted(table, k, t))
         /\ Cardinality(Counted(table, k, t)) \in Nat
<1>1. Counted(table, k, t) \subseteq Rows
  BY DEF Counted
<1>2. IsFiniteSet(Counted(table, k, t))
  BY <1>1, RowsFinite, FS_Subset
<1> QED BY <1>2, FS_CardinalityType

LEMMA CountsType ==
  ASSUME NEW table, table \subseteq Rows, NEW t
  PROVE  Counts(table, t) \in [Keys -> Nat]
BY CountedFinite DEF Counts

LEMMA KeyOfRow ==
  ASSUME NEW r \in Rows
  PROVE  KeyOf(r) \in Keys
BY DEF Rows, Keys, KeyOf, Days

\* A row that comes or goes is counted under its own key only.
LEMMA OtherKeys ==
  ASSUME NEW table, NEW r, NEW k, KeyOf(r) # k, NEW t
  PROVE  /\ Counted(table \cup {r}, k, t) = Counted(table, k, t)
         /\ Counted(table \ {r}, k, t) = Counted(table, k, t)
BY DEF Counted

\* The minutes of a day that was not cut are in both windows or in neither.
LEMMA UncutDay ==
  ASSUME TypeOK, NEW k \in Keys, ~Cut(k), NEW table \in SUBSET Rows
  PROVE  Counted(table, k, readAt.source) = Counted(table, k, readAt.replica)
<1>1. /\ readAt.source \in Int /\ readAt.replica \in Int
      /\ readAt.source <= readAt.replica
  BY BoundAssumption DEF TypeOK
<1>2. Lookback \in Int
  BY WindowAssumption DEF Lookback
<1>3. ASSUME NEW r \in table, KeyOf(r) = k
      PROVE  (readAt.source - Lookback <= r[2]) <=> (readAt.replica - Lookback <= r[2])
  <2>1. r[2] \in Minutes /\ Day(r[2]) = k[2]
    BY <1>3 DEF Rows, KeyOf
  <2>2. r[2] \in Int
    BY <2>1, BoundAssumption DEF Minutes
  <2>3. ~(readAt.source - Lookback <= r[2] /\ r[2] < readAt.replica - Lookback)
    BY <2>1 DEF Cut
  <2> QED BY <1>1, <1>2, <2>2, <2>3
<1> QED BY <1>3 DEF Counted

---------------------------------------------------------------------------
(* Types.                                                                   *)

LEMMA InitType == Init => TypeOK
BY BoundAssumption, WindowAssumption DEF Init, TypeOK, Nothing, NoRead

LEMMA FailureType ==
  ASSUME TypeOK, AttemptFails, UNCHANGED stores
  PROVE  /\ tries' \in 0 .. Retries
         /\ pc' \in {"idle", "source", "replica", "compare", "record"}
         /\ result' \in {"none", "success", "failed"}
BY WindowAssumption DEF TypeOK, AttemptFails

LEMMA ForgottenType ==
  ASSUME TypeOK, Forget, UNCHANGED stores
  PROVE  /\ inSource' \in [Keys -> Nat] /\ inReplica' \in [Keys -> Nat]
         /\ readAt' \in [source : 0 .. now', replica : 0 .. now']
         /\ readAt'.source <= readAt'.replica
         /\ moved' \subseteq Keys
BY BoundAssumption DEF TypeOK, Forget, Nothing, NoRead, stores

LEMMA NextType == TypeOK /\ [Next]_vars => TypeOK'
<1> SUFFICES ASSUME TypeOK, [Next]_vars PROVE TypeOK'
  OBVIOUS
<1> USE BoundAssumption, WindowAssumption
<1>1. CASE Tick
  BY <1>1 DEF Tick, TypeOK, run
<1>2. CASE Write
  <2>1. PICK r \in Rows :
          /\ source' = IF r \in source THEN source \ {r} ELSE source \cup {r}
          /\ lost' = lost \ {r}
          /\ Touch(KeyOf(r))
    BY <1>2 DEF Write
  <2>2. moved' \subseteq Keys
    BY <2>1, KeyOfRow DEF Touch, TypeOK
  <2>3. source' \subseteq Rows /\ lost' \subseteq (source' \ replica) \cup (replica \ source')
    BY <2>1 DEF TypeOK
  <2> QED BY <1>2, <2>2, <2>3 DEF Write, TypeOK, run
<1>3. CASE Deliver
  <2>1. PICK r \in InFlight :
          /\ replica' = IF r \in source THEN replica \cup {r} ELSE replica \ {r}
          /\ Touch(KeyOf(r))
    BY <1>3 DEF Deliver
  <2>2. r \in Rows /\ r \notin lost
    BY <2>1 DEF InFlight, TypeOK
  <2>3. moved' \subseteq Keys
    BY <2>1, <2>2, KeyOfRow DEF Touch, TypeOK
  <2>4. replica' \subseteq Rows /\ lost \subseteq (source \ replica') \cup (replica' \ source)
    BY <2>1, <2>2 DEF TypeOK
  <2> QED BY <1>3, <2>3, <2>4 DEF Deliver, TypeOK, run
<1>4. CASE Lose
  BY <1>4 DEF Lose, InFlight, TypeOK, run
<1>5. CASE StartRun
  BY <1>5 DEF StartRun, TypeOK, stores
<1>6. CASE CountSource
  <2>1. inSource' \in [Keys -> Nat]
    BY <1>6, CountsType DEF CountSource, TypeOK
  <2> QED BY <1>6, <2>1 DEF CountSource, TypeOK, stores
<1>7. CASE CountReplica
  <2>1. inReplica' \in [Keys -> Nat]
    BY <1>7, CountsType DEF CountReplica, TypeOK
  <2> QED BY <1>7, <2>1 DEF CountReplica, TypeOK, stores
<1>8. CASE ReadFails
  BY <1>8, FailureType, ForgottenType DEF ReadFails, TypeOK, stores
<1>9. CASE Compare
  <2>1. /\ tries' \in 0 .. Retries
        /\ pc' \in {"idle", "source", "replica", "compare", "record"}
        /\ result' \in {"none", "success", "failed"}
    BY <1>9, FailureType DEF Compare, TypeOK
  <2> QED BY <1>9, <2>1, ForgottenType DEF Compare, TypeOK, stores
<1>10. CASE Record
  BY <1>10 DEF Record, TypeOK, stores
<1>11. CASE RecordFails
  BY <1>11, FailureType DEF RecordFails, TypeOK, stores
<1>12. CASE UNCHANGED vars
  BY <1>12 DEF vars, stores, run, TypeOK
<1> QED BY <1>1, <1>2, <1>3, <1>4, <1>5, <1>6, <1>7, <1>8, <1>9, <1>10, <1>11, <1>12
        DEF Next, DagStep

(* The stores and the run stay in range: a run makes no more attempts than  *)
(* its retries allow, and only rows the stores differ in can be lost.       *)
THEOREM TypeCorrect == Spec => []TypeOK
<1>1. Init => TypeOK
  BY InitType
<1>2. TypeOK /\ [Next]_vars => TypeOK'
  BY NextType
<1> QED BY <1>1, <1>2, PTL DEF Spec

---------------------------------------------------------------------------
(* What the counts are worth.                                               *)

LEMMA AttemptOver ==
  ASSUME AttemptFails
  PROVE  pc' \in {"record", "source", "idle"}
BY DEF AttemptFails

\* The steps of the run other than the two counts leave nothing to hold.
LEMMA NotReading ==
  ASSUME StartRun \/ ReadFails \/ Compare \/ Record \/ RecordFails
  PROVE  CountsHold'
<1>1. pc' \in {"record", "source", "idle"}
  BY AttemptOver DEF StartRun, ReadFails, Compare, Record, RecordFails
<1> QED BY <1>1 DEF CountsHold, SourceCountHolds, ReplicaCountHolds, Reading

LEMMA WriteHolds ==
  ASSUME TypeOK, CountsHold, Write
  PROVE  CountsHold'
<1>1. PICK r \in Rows :
        /\ source' = IF r \in source THEN source \ {r} ELSE source \cup {r}
        /\ Touch(KeyOf(r))
  BY DEF Write
<1>2. UNCHANGED <<replica, pc, inSource, inReplica, readAt>>
  BY DEF Write, run
<1>3. ASSUME NEW k \in Keys \ moved', Reading
      PROVE  /\ k \in Keys \ moved
             /\ Counted(source, k, readAt.source)' = Counted(source, k, readAt.source)
  <2>1. k \notin moved /\ KeyOf(r) # k
    BY <1>1, <1>3 DEF Touch
  <2>2. Counted(source', k, readAt.source) = Counted(source, k, readAt.source)
    BY <1>1, <2>1, OtherKeys
  <2> QED BY <1>2, <2>1, <2>2 DEF Counted
<1>4. ASSUME NEW k \in Keys
      PROVE  Counted(replica, k, readAt.replica)' = Counted(replica, k, readAt.replica)
  BY <1>2 DEF Counted
<1>5. SourceCountHolds'
  BY <1>2, <1>3 DEF CountsHold, SourceCountHolds, Reading
<1>6. ReplicaCountHolds'
  BY <1>2, <1>3, <1>4 DEF CountsHold, ReplicaCountHolds, Reading
<1> QED BY <1>5, <1>6 DEF CountsHold

LEMMA DeliverHolds ==
  ASSUME TypeOK, CountsHold, Deliver
  PROVE  CountsHold'
<1>1. PICK r \in InFlight :
        /\ replica' = IF r \in source THEN replica \cup {r} ELSE replica \ {r}
        /\ Touch(KeyOf(r))
  BY DEF Deliver
<1>2. UNCHANGED <<source, pc, inSource, inReplica, readAt>>
  BY DEF Deliver, run
<1>3. ASSUME NEW k \in Keys \ moved', Reading
      PROVE  /\ k \in Keys \ moved
             /\ Counted(replica, k, readAt.replica)' = Counted(replica, k, readAt.replica)
  <2>1. k \notin moved /\ KeyOf(r) # k
    BY <1>1, <1>3 DEF Touch
  <2>2. Counted(replica', k, readAt.replica) = Counted(replica, k, readAt.replica)
    BY <1>1, <2>1, OtherKeys
  <2> QED BY <1>2, <2>1, <2>2 DEF Counted
<1>4. ASSUME NEW k \in Keys
      PROVE  Counted(source, k, readAt.source)' = Counted(source, k, readAt.source)
  BY <1>2 DEF Counted
<1>5. SourceCountHolds'
  BY <1>2, <1>3, <1>4 DEF CountsHold, SourceCountHolds, Reading
<1>6. ReplicaCountHolds'
  BY <1>2, <1>3 DEF CountsHold, ReplicaCountHolds, Reading
<1> QED BY <1>5, <1>6 DEF CountsHold

LEMMA CountSourceHolds ==
  ASSUME TypeOK, CountSource
  PROVE  CountsHold'
<1>1. /\ pc' = "replica" /\ source' = source
      /\ inSource' = Counts(source, now) /\ readAt'.source = now
  BY DEF CountSource, stores
<1>2. \A k \in Keys : Counted(source, k, readAt.source)' = Counted(source, k, now)
  BY <1>1 DEF Counted
<1> QED BY <1>1, <1>2 DEF CountsHold, SourceCountHolds, ReplicaCountHolds, Counts

LEMMA CountReplicaHolds ==
  ASSUME TypeOK, CountsHold, CountReplica
  PROVE  CountsHold'
<1>1. /\ pc = "replica" /\ UNCHANGED <<source, replica, inSource, moved>>
      /\ inReplica' = Counts(replica, now)
      /\ readAt'.source = readAt.source /\ readAt'.replica = now
  BY DEF CountReplica, stores, TypeOK
<1>2. \A k \in Keys :
        /\ Counted(source, k, readAt.source)' = Counted(source, k, readAt.source)
        /\ Counted(replica, k, readAt.replica)' = Counted(replica, k, now)
  BY <1>1 DEF Counted
<1> QED BY <1>1, <1>2 DEF CountsHold, SourceCountHolds, ReplicaCountHolds, Counts, Reading

LEMMA SameStores ==
  ASSUME CountsHold,
         UNCHANGED <<source, replica, pc, inSource, inReplica, readAt, moved>>
  PROVE  CountsHold'
<1>1. \A k \in Keys :
        /\ Counted(source, k, readAt.source)' = Counted(source, k, readAt.source)
        /\ Counted(replica, k, readAt.replica)' = Counted(replica, k, readAt.replica)
  BY DEF Counted
<1> QED BY <1>1 DEF CountsHold, SourceCountHolds, ReplicaCountHolds, Reading

LEMMA NextHolds == TypeOK /\ CountsHold /\ [Next]_vars => CountsHold'
<1> SUFFICES ASSUME TypeOK, CountsHold, [Next]_vars PROVE CountsHold'
  OBVIOUS
<1>1. CASE Tick \/ Lose \/ UNCHANGED vars
  BY <1>1, SameStores DEF Tick, Lose, vars, stores, run
<1>2. CASE Write
  BY <1>2, WriteHolds
<1>3. CASE Deliver
  BY <1>3, DeliverHolds
<1>4. CASE CountSource
  BY <1>4, CountSourceHolds
<1>5. CASE CountReplica
  BY <1>5, CountReplicaHolds
<1>6. CASE StartRun \/ ReadFails \/ Compare \/ Record \/ RecordFails
  BY <1>6, NotReading
<1> QED BY <1>1, <1>2, <1>3, <1>4, <1>5, <1>6 DEF Next, DagStep

(* The two counts of a run are still true of every symbol-day that nobody   *)
(* touched since the first of them, whatever else was written, replicated,  *)
(* lost or retried and however far the clock moved.                         *)
THEOREM CountsStayTrue == Spec => [](TypeOK /\ CountsHold)
<1>1. Init => TypeOK /\ CountsHold
  BY InitType DEF Init, CountsHold, SourceCountHolds, ReplicaCountHolds, Reading
<1>2. (TypeOK /\ CountsHold) /\ [Next]_vars => (TypeOK /\ CountsHold)'
  BY NextType, NextHolds
<1> QED BY <1>1, <1>2, PTL DEF Spec

\* For a symbol-day that stood still the two counts are of one moment.
LEMMA CountsOfOneMoment ==
  ASSUME TypeOK, CountsHold, pc = "compare", NEW k \in Keys, Still(k)
  PROVE  /\ inSource[k] = Cardinality(SourceRows(k))
         /\ inReplica[k] = Cardinality(ReplicaRows(k))
         /\ IsFiniteSet(SourceRows(k)) /\ Cardinality(SourceRows(k)) \in Nat
         /\ IsFiniteSet(ReplicaRows(k)) /\ Cardinality(ReplicaRows(k)) \in Nat
<1>1. /\ inSource[k] = Cardinality(Counted(source, k, readAt.source))
      /\ inReplica[k] = Cardinality(ReplicaRows(k))
  BY DEF CountsHold, SourceCountHolds, ReplicaCountHolds, Reading, Still, ReplicaRows
<1>2. source \in SUBSET Rows /\ replica \in SUBSET Rows
  BY DEF TypeOK
<1>3. Counted(source, k, readAt.source) = SourceRows(k)
  BY <1>2, UncutDay DEF Still, SourceRows
<1> QED BY <1>1, <1>2, <1>3, CountedFinite DEF SourceRows, ReplicaRows

(* No false alarm, for every history: what Compare reports of a symbol-day  *)
(* that stood still is a difference of the stores themselves.               *)
THEOREM NoFalseAlarm == Spec => AlarmsAreReal
<1> DEFINE A == Compare => \A k \in Divergences :
                  Still(k) => AbsDiff(Cardinality(SourceRows(k)), Cardinality(ReplicaRows(k)))
                                > Tolerance
<1>1. TypeOK /\ CountsHold => A
  <2> SUFFICES ASSUME TypeOK, CountsHold, Compare, NEW k \in Divergences, Still(k)
               PROVE  AbsDiff(Cardinality(SourceRows(k)), Cardinality(ReplicaRows(k)))
                        > Tolerance
    OBVIOUS
  <2>1. pc = "compare" /\ k \in Keys
        /\ AbsDiff(inSource[k], inReplica[k]) > Tolerance
    BY DEF Compare, Divergences, Differ
  <2> QED BY <2>1, CountsOfOneMoment
<1>2. Spec => [](TypeOK /\ CountsHold)
  BY CountsStayTrue
<1> QED BY <1>1, <1>2, PTL DEF AlarmsAreReal

LEMMA CompareIsGreen ==
  ASSUME [Next]_vars, pc = "compare", pc' = "record"
  PROVE  Divergences = {}
<1>1. Compare
  BY DEF Next, DagStep, Tick, Write, Deliver, Lose, StartRun, CountSource, CountReplica,
         ReadFails, Record, RecordFails, AttemptFails, vars, run, stores
<1> QED BY <1>1 DEF Compare, AttemptFails

(* A green comparison means at most Tolerance missing rows for every        *)
(* completed symbol-day that stood still and has no ghost rows.             *)
THEOREM GreenIsWhole == Spec => GreenMeansWhole
<1> DEFINE G == pc = "compare" /\ pc' = "record" =>
                  \A k \in Keys :
                    k[2] # Day(now) /\ Still(k) /\ ReplicaRows(k) \subseteq SourceRows(k)
                      => Cardinality(SourceRows(k) \ ReplicaRows(k)) <= Tolerance
<1>1. TypeOK /\ CountsHold /\ [Next]_vars => G
  <2> SUFFICES ASSUME TypeOK, CountsHold, [Next]_vars, pc = "compare", pc' = "record",
                      NEW k \in Keys, k[2] # Day(now), Still(k),
                      ReplicaRows(k) \subseteq SourceRows(k)
               PROVE  Cardinality(SourceRows(k) \ ReplicaRows(k)) <= Tolerance
    OBVIOUS
  <2> DEFINE S == SourceRows(k)
             R == ReplicaRows(k)
  <2>1. ~(AbsDiff(inSource[k], inReplica[k]) > Tolerance)
    BY CompareIsGreen DEF Divergences, Differ
  <2>2. /\ inSource[k] = Cardinality(S) /\ inReplica[k] = Cardinality(R)
        /\ IsFiniteSet(S) /\ Cardinality(S) \in Nat
        /\ IsFiniteSet(R) /\ Cardinality(R) \in Nat
        /\ R \subseteq S
    BY CountsOfOneMoment
  <2> HIDE DEF S, R
  <2>3. S \cap R = R
    BY <2>2
  <2>4. Cardinality(S \ R) = Cardinality(S) - Cardinality(S \cap R)
    BY <2>2, FS_Difference
  <2>5. Cardinality(R) <= Cardinality(S)
    BY <2>2, FS_Subset
  <2>6. Cardinality(S \ R) <= Tolerance
    BY <2>1, <2>2, <2>3, <2>4, <2>5, WindowAssumption DEF AbsDiff
  <2> QED BY <2>6 DEF S, R
<1>2. Spec => [](TypeOK /\ CountsHold)
  BY CountsStayTrue
<1>3. Spec => [][Next]_vars
  BY DEF Spec
<1> QED BY <1>1, <1>2, <1>3, PTL DEF GreenMeansWhole

---------------------------------------------------------------------------
(* What the two results mean at the step that decides them.                 *)

(* A comparison of equal stores is green, if nothing moved while they were  *)
(* counted.                                                                 *)
EqualIsGreen ==
  [][Compare /\ source = replica /\ (\A k \in Keys : Still(k)) => pc' = "record"]_vars

\* The overdue rows of a symbol-day.
Missing(k) == {r \in Rows : Overdue(r) /\ KeyOf(r) = k}

(* With more rows of a symbol-day overdue than are tolerated, and that day  *)
(* standing still, no comparison is green.                                  *)
MissingIsNotGreen ==
  [][Compare => \A k \in Keys :
       Still(k) /\ Cardinality(Missing(k)) > Tolerance => pc' # "record"]_vars

(* The step on which AllClear rests, whatever the tolerance and however     *)
(* many runs failed before.                                                 *)
THEOREM EqualStoresPass == Spec => EqualIsGreen
<1> DEFINE A == Compare /\ source = replica /\ (\A k \in Keys : Still(k)) => pc' = "record"
<1>1. TypeOK /\ CountsHold => A
  <2> SUFFICES ASSUME TypeOK, CountsHold, Compare, source = replica, \A k \in Keys : Still(k)
               PROVE  pc' = "record"
    OBVIOUS
  <2>1. ASSUME NEW k \in Keys PROVE ~Differ(k)
    <3>1. pc = "compare"
      BY DEF Compare
    <3>2. /\ inSource[k] = Cardinality(SourceRows(k))
          /\ inReplica[k] = Cardinality(ReplicaRows(k))
          /\ Cardinality(SourceRows(k)) \in Nat
      BY <3>1, CountsOfOneMoment
    <3>3. SourceRows(k) = ReplicaRows(k)
      BY DEF SourceRows, ReplicaRows
    <3>4. AbsDiff(inSource[k], inReplica[k]) = 0
      BY <3>2, <3>3 DEF AbsDiff
    <3> QED BY <3>4, WindowAssumption DEF Differ
  <2>2. Divergences = {}
    BY <2>1 DEF Divergences
  <2> QED BY <2>2 DEF Compare
<1>2. Spec => [](TypeOK /\ CountsHold)
  BY CountsStayTrue
<1> QED BY <1>1, <1>2, PTL DEF EqualIsGreen

\* An overdue row is one that the source counts and the replica does not.
LEMMA MissingIsCounted ==
  ASSUME TypeOK, NEW k \in Keys
  PROVE  Missing(k) \subseteq SourceRows(k) \ ReplicaRows(k)
<1> SUFFICES ASSUME NEW r \in Missing(k)
             PROVE  r \in SourceRows(k) /\ r \notin ReplicaRows(k)
  OBVIOUS
<1>1. /\ r \in Rows /\ r \in lost /\ r \in source /\ KeyOf(r) = k
      /\ now - Lookback <= r[2]
  BY DEF Missing, Overdue
<1>2. /\ now \in Nat /\ readAt.replica \in Nat /\ readAt.replica <= now
      /\ lost \subseteq (source \ replica) \cup (replica \ source)
  BY DEF TypeOK
<1>3. r[2] \in Nat /\ Lookback \in Nat
  BY <1>1, WindowAssumption DEF Rows, Minutes, Lookback
<1>4. readAt.replica - Lookback <= r[2]
  BY <1>1, <1>2, <1>3
<1>5. r \in SourceRows(k)
  BY <1>1, <1>4 DEF SourceRows, Counted
<1>6. r \notin ReplicaRows(k)
  BY <1>1, <1>2 DEF ReplicaRows, Counted
<1> QED BY <1>5, <1>6

(* The step on which LossIsReported rests: more overdue rows of a day than  *)
(* the tolerance allows always fail the comparison, for any tolerance.      *)
THEOREM LossIsNeverGreen == Spec => MissingIsNotGreen
<1> DEFINE G == pc = "compare" /\ pc' = "record" =>
                  \A k \in Keys :
                    k[2] # Day(now) /\ Still(k) /\ ReplicaRows(k) \subseteq SourceRows(k)
                      => Cardinality(SourceRows(k) \ ReplicaRows(k)) <= Tolerance
           M == Compare => \A k \in Keys :
                  Still(k) /\ Cardinality(Missing(k)) > Tolerance => pc' # "record"
<1>1. TypeOK /\ G => M
  <2> SUFFICES ASSUME TypeOK, G, Compare, NEW k \in Keys, Still(k),
                      Cardinality(Missing(k)) > Tolerance, pc' = "record"
               PROVE  FALSE
    OBVIOUS
  <2>1. pc = "compare"
    BY DEF Compare
  <2>2. /\ SourceRows(k) \subseteq Rows /\ source \subseteq Rows /\ replica \subseteq Rows
        /\ readAt.replica \in Nat
    BY DEF TypeOK, SourceRows, Counted
  <2>3. /\ Missing(k) \subseteq SourceRows(k) \ ReplicaRows(k)
        /\ IsFiniteSet(SourceRows(k) \ ReplicaRows(k))
    BY <2>2, MissingIsCounted, RowsFinite, FS_Subset
  <2>4. /\ Cardinality(Missing(k)) <= Cardinality(SourceRows(k) \ ReplicaRows(k))
        /\ Cardinality(Missing(k)) \in Nat
        /\ Cardinality(SourceRows(k) \ ReplicaRows(k)) \in Nat
    BY <2>3, FS_Subset, FS_CardinalityType
  <2>5. Missing(k) # {}
    BY FS_EmptySet, WindowAssumption
  <2>6. PICK r \in Rows : Overdue(r) /\ KeyOf(r) = k
    BY <2>5 DEF Missing
  <2>7. k[2] # Day(now)
    BY <2>6 DEF Overdue, KeyOf
  <2>8. ReplicaRows(k) \subseteq SourceRows(k)
    <3> SUFFICES ASSUME NEW g \in ReplicaRows(k) PROVE g \in SourceRows(k)
      OBVIOUS
    <3>1. g \in replica /\ KeyOf(g) = k /\ readAt.replica - Lookback <= g[2]
      BY DEF ReplicaRows, Counted
    <3>2. g \in source
      BY <2>6, <3>1 DEF Overdue
    <3> QED BY <3>1, <3>2 DEF SourceRows, Counted
  <2>9. Cardinality(SourceRows(k) \ ReplicaRows(k)) <= Tolerance
    BY <2>1, <2>7, <2>8
  <2> QED BY <2>4, <2>9, WindowAssumption
<1>2. Spec => [][G]_vars
  BY GreenIsWhole DEF GreenMeansWhole
<1> QED BY <1>1, <1>2, TypeCorrect, PTL DEF MissingIsNotGreen

---------------------------------------------------------------------------
(* Runs end: fairness only has to keep the tasks going.                     *)

\* The steps a task has left in its present attempt.
Stage == CASE pc = "source" -> 3 [] pc = "replica" -> 2 [] pc = "compare" -> 1

(* The most steps the run may still take: each attempt of reconcile counts  *)
(* twice and compares, and record_result has attempts of its own.           *)
StepsLeft ==
  CASE pc = "idle"   -> 0
    [] pc = "record" -> Retries - tries + 1
    [] pc \in {"source", "replica", "compare"}
                     -> 3 * (Retries - tries) + Stage + Retries + 1

(* A run takes a step for each it has left, whatever else happens to the    *)
(* stores and the clock in between.                                         *)
StepsAreCounted ==
  [][/\ DagStep => StartRun \/ StepsLeft' < StepsLeft
     /\ ~DagStep => StepsLeft' = StepsLeft]_vars

WithinBudget == StepsLeft \in 0 .. 4 * (Retries + 1)

LEMMA StepsLeftType ==
  ASSUME TypeOK
  PROVE  /\ WithinBudget /\ StepsLeft \in Nat
         /\ tries \in Nat /\ tries <= Retries /\ Retries \in Nat
<1>1. tries \in Nat /\ tries <= Retries /\ Retries \in Nat
  BY WindowAssumption DEF TypeOK
<1>2. CASE pc = "idle"
  BY <1>1, <1>2 DEF StepsLeft, WithinBudget
<1>3. CASE pc = "record"
  BY <1>1, <1>3 DEF StepsLeft, WithinBudget
<1>4. CASE pc = "source"
  BY <1>1, <1>4 DEF StepsLeft, Stage, WithinBudget
<1>5. CASE pc = "replica"
  BY <1>1, <1>5 DEF StepsLeft, Stage, WithinBudget
<1>6. CASE pc = "compare"
  BY <1>1, <1>6 DEF StepsLeft, Stage, WithinBudget
<1> QED BY <1>1, <1>2, <1>3, <1>4, <1>5, <1>6 DEF TypeOK

\* An attempt that fails is one attempt fewer.
LEMMA FailureShrinks ==
  ASSUME TypeOK, TypeOK', AttemptFails, pc # "idle"
  PROVE  StepsLeft' < StepsLeft
<1>1. /\ tries \in Nat /\ tries <= Retries /\ Retries \in Nat /\ tries' \in Nat
      /\ pc \in {"source", "replica", "compare", "record"}
  BY StepsLeftType DEF TypeOK
<1>2. pc # "record" => Stage \in 1 .. 3
  BY <1>1 DEF Stage
<1>3. CASE tries < Retries /\ pc = "record"
  <2>1. tries' = tries + 1 /\ pc' = "record"
    BY <1>3 DEF AttemptFails
  <2> QED BY <1>1, <1>3, <2>1 DEF StepsLeft
<1>4. CASE tries < Retries /\ pc # "record"
  <2>1. tries' = tries + 1 /\ pc' = "source"
    BY <1>4 DEF AttemptFails
  <2>2. StepsLeft = 3 * (Retries - tries) + Stage + Retries + 1
    BY <1>1, <1>4 DEF StepsLeft
  <2>3. StepsLeft' = 3 * (Retries - (tries + 1)) + 3 + Retries + 1
    BY <1>1, <2>1 DEF StepsLeft, Stage
  <2> QED BY <1>1, <1>2, <1>4, <2>2, <2>3
<1>5. CASE ~(tries < Retries)
  <2>1. pc' = "idle"
    BY <1>5 DEF AttemptFails
  <2>2. StepsLeft' = 0
    BY <2>1 DEF StepsLeft
  <2>3. CASE pc = "record"
    <3>1. StepsLeft = Retries - tries + 1
      BY <1>1, <2>3 DEF StepsLeft
    <3> QED BY <1>1, <2>2, <3>1
  <2>4. CASE pc # "record"
    <3>1. StepsLeft = 3 * (Retries - tries) + Stage + Retries + 1
      BY <1>1, <2>4 DEF StepsLeft
    <3> QED BY <1>1, <1>2, <2>2, <2>4, <3>1
  <2> QED BY <2>3, <2>4
<1> QED BY <1>3, <1>4, <1>5

LEMMA DagStepShrinks ==
  ASSUME TypeOK, TypeOK', DagStep, ~StartRun
  PROVE  StepsLeft' < StepsLeft
<1>0. tries \in Nat /\ tries <= Retries /\ Retries \in Nat
  BY StepsLeftType
<1>1. CASE CountSource
  <2>1. pc = "source" /\ pc' = "replica" /\ tries' = tries
    BY <1>1 DEF CountSource
  <2> QED BY <1>0, <2>1 DEF StepsLeft, Stage
<1>2. CASE CountReplica
  <2>1. pc = "replica" /\ pc' = "compare" /\ tries' = tries
    BY <1>2 DEF CountReplica
  <2> QED BY <1>0, <2>1 DEF StepsLeft, Stage
<1>3. CASE ReadFails
  BY <1>3, FailureShrinks DEF ReadFails
<1>4. CASE Compare
  <2>1. CASE Divergences = {}
    <3>1. pc = "compare" /\ pc' = "record" /\ tries' = 0
      BY <1>4, <2>1 DEF Compare
    <3> QED BY <1>0, <3>1 DEF StepsLeft, Stage
  <2>2. CASE Divergences # {}
    BY <1>4, <2>2, FailureShrinks DEF Compare
  <2> QED BY <2>1, <2>2
<1>5. CASE Record
  <2>1. pc = "record" /\ pc' = "idle"
    BY <1>5 DEF Record
  <2> QED BY <1>0, <2>1 DEF StepsLeft
<1>6. CASE RecordFails
  BY <1>6, FailureShrinks DEF RecordFails
<1> QED BY <1>1, <1>2, <1>3, <1>4, <1>5, <1>6 DEF DagStep

(* A run is over after at most four steps for each attempt it has, whatever *)
(* fails, and nothing but a new run gives it more.                          *)
THEOREM RunsAreBounded == Spec => StepsAreCounted /\ []WithinBudget
<1>1. TypeOK => WithinBudget
  BY StepsLeftType
<1>2. TypeOK /\ TypeOK' /\ [Next]_vars
        => [/\ DagStep => StartRun \/ StepsLeft' < StepsLeft
            /\ ~DagStep => StepsLeft' = StepsLeft]_vars
  <2>1. ASSUME [Next]_vars, ~DagStep PROVE StepsLeft' = StepsLeft
    <3>1. UNCHANGED <<pc, tries>>
      BY <2>1 DEF Next, Tick, Write, Deliver, Lose, vars, run
    <3> QED BY <3>1 DEF StepsLeft, Stage
  <2> QED BY <2>1, DagStepShrinks
<1> QED BY <1>1, <1>2, TypeCorrect, PTL DEF Spec, StepsAreCounted

=============================================================================
