--------------------------- MODULE Reconciliation ---------------------------
(***************************************************************************)
(* The hourly DAG cdc_reconciliation: count the candles of each symbol and *)
(* day in PostgreSQL, count them in ClickHouse, look at the date, and fail *)
(* if a completed day differs.  The three looks are three moments: rows    *)
(* are written, replicated and lost between them, the clock moves, and     *)
(* with it the start of the lookback window and the meaning of `today'.    *)
(*                                                                         *)
(* Time is in minutes; a row is a symbol and the minute it opens at.  What *)
(* a row contains does not matter to a count.  Replication is abstracted   *)
(* to the rows it has made equal so far: CdcPipeline models how.           *)
(***************************************************************************)
EXTENDS Integers, FiniteSets

CONSTANTS
  Symbols,
  DayLength,    \* minutes of a day (1440)
  LookbackDays, \* RECONCILIATION_LOOKBACK_DAYS (7)
  Tolerance,    \* RECONCILIATION_TOLERANCE_ROWS (0)
  Retries,      \* default_args["retries"] (1)
  MaxTime,      \* bound: minutes that pass
  MaxChanges    \* bound: rows written or deleted

ASSUME WindowAssumption ==
  /\ DayLength \in Nat \ {0} /\ LookbackDays \in Nat \ {0}
  /\ Tolerance \in Nat /\ Retries \in Nat
ASSUME BoundAssumption ==
  IsFiniteSet(Symbols) /\ MaxTime \in Nat /\ MaxChanges \in Nat

VARIABLES
  now,        \* the current minute
  source,     \* rows of crypto.market_candles_1m
  replica,    \* rows of raw.market_candles_1m FINAL that are no tombstones
  lost,       \* rows whose last change will never reach ClickHouse
  changes,
  pc,         \* where the run stands
  tries,      \* failed attempts of the current task
  inSource,   \* _postgres_counts(): rows per symbol and day
  inReplica,  \* _clickhouse_counts()
  result,     \* state of the last finished run
  readAt,     \* history: when each store was counted
  moved       \* history: symbol-days written or replicated since the first count

stores == <<now, source, replica, lost, changes>>
run    == <<pc, tries, inSource, inReplica, result, readAt>>
vars   == <<stores, run, moved>>

Minutes  == 0 .. MaxTime
Day(t)   == t \div DayLength
Days     == {Day(t) : t \in Minutes}
Rows     == Symbols \X Minutes
Keys     == Symbols \X Days
KeyOf(r) == <<r[1], Day(r[2])>>

---------------------------------------------------------------------------
(* The two stores.                                                          *)

Reading == pc \in {"replica", "compare"}

\* A change of a row of key k, seen by a run that has begun to count.
Touch(k) == moved' = IF Reading THEN moved \cup {k} ELSE moved

Tick ==
  /\ now < MaxTime /\ now' = now + 1
  /\ UNCHANGED <<source, replica, lost, changes, run, moved>>

(* A bar of a minute that has passed is stored, by the service or by a      *)
(* backfill of an older minute, or an operator deletes a row.  Its change   *)
(* event carries the whole row, whatever happened to the one before.        *)
Write ==
  /\ changes < MaxChanges /\ changes' = changes + 1
  /\ \E r \in Rows :
       /\ r[2] < now
       /\ source' = IF r \in source THEN source \ {r} ELSE source \cup {r}
       /\ lost' = lost \ {r}
       /\ Touch(KeyOf(r))
  /\ UNCHANGED <<now, replica, run>>

InFlight == ((source \ replica) \cup (replica \ source)) \ lost

\* The change event of a row becomes visible in ClickHouse.
Deliver ==
  /\ \E r \in InFlight :
       /\ replica' = IF r \in source THEN replica \cup {r} ELSE replica \ {r}
       /\ Touch(KeyOf(r))
  /\ UNCHANGED <<now, source, lost, changes, run>>

\* It never will: it could not be parsed, or went with a lost slot.
Lose ==
  /\ \E r \in InFlight : lost' = lost \cup {r}
  /\ UNCHANGED <<now, source, replica, changes, run, moved>>

---------------------------------------------------------------------------
(* The tasks reconcile and record_result.                                   *)

Lookback == LookbackDays * DayLength

\* The rows a count of key k at time t takes: open_time >= now() - lookback.
Counted(table, k, t) == {r \in table : KeyOf(r) = k /\ t - Lookback <= r[2]}

Counts(table, t) == [k \in Keys |-> Cardinality(Counted(table, k, t))]

Nothing == [k \in Keys |-> 0]
NoRead  == [source |-> 0, replica |-> 0]

\* What an attempt knows ends with it.
Forget ==
  inSource' = Nothing /\ inReplica' = Nothing /\ readAt' = NoRead /\ moved' = {}

StartRun ==
  /\ pc = "idle" /\ pc' = "source" /\ tries' = 0
  /\ UNCHANGED <<stores, inSource, inReplica, result, readAt, moved>>

\* Slip: one attempt too many.
AttemptFailsTwice ==
  IF tries <= Retries
  THEN /\ tries' = tries + 1
       /\ pc' = IF pc = "record" THEN "record" ELSE "source"
       /\ UNCHANGED result
  ELSE /\ tries' = 0 /\ pc' = "idle" /\ result' = "failed"

\* An attempt that raises is repeated, and then the run has failed.
AttemptFails ==
  IF tries < Retries
  THEN /\ tries' = tries + 1
       /\ pc' = IF pc = "record" THEN "record" ELSE "source"
       /\ UNCHANGED result
  ELSE /\ tries' = 0 /\ pc' = "idle" /\ result' = "failed"

CountSource ==
  /\ pc = "source" /\ pc' = "replica"
  /\ inSource' = Counts(source, now)
  /\ readAt' = [source |-> now, replica |-> now]
  /\ moved' = {}
  /\ UNCHANGED <<stores, tries, inReplica, result>>

\* Slip: the replica is counted from the start of the first day of the window.
CountReplicaWholeDays ==
  /\ pc = "replica" /\ pc' = "compare"
  /\ inReplica' = Counts(replica, Day(now) * DayLength)
  /\ readAt' = [readAt EXCEPT !.replica = now]
  /\ UNCHANGED <<stores, tries, inSource, result, moved>>

CountReplica ==
  /\ pc = "replica" /\ pc' = "compare"
  /\ inReplica' = Counts(replica, now)
  /\ readAt' = [readAt EXCEPT !.replica = now]
  /\ UNCHANGED <<stores, tries, inSource, result, moved>>

\* A store does not answer, or the worker dies before it has both counts.
ReadFails ==
  /\ pc \in {"source", "replica"} /\ AttemptFails /\ Forget
  /\ UNCHANGED stores

AbsDiff(m, n) == IF m < n THEN n - m ELSE m - n

\* Slip: the tolerance is not a tolerance.
DifferOrReached(k) == AbsDiff(inSource[k], inReplica[k]) >= Tolerance

\* Slip: a difference without its sign's other half.
DifferOneSided(k) == inReplica[k] - inSource[k] > Tolerance

Differ(k) == AbsDiff(inSource[k], inReplica[k]) > Tolerance

\* Slip: only the symbol-days ClickHouse returned are looked at.
DivergencesOfReplica ==
  {k \in Keys : inReplica[k] > 0 /\ k[2] # Day(now) /\ Differ(k)}

\* The date is taken after both counts; that day alone is not judged.
Divergences == {k \in Keys : k[2] # Day(now) /\ Differ(k)}

Compare ==
  /\ pc = "compare"
  /\ IF Divergences = {}
     THEN pc' = "record" /\ tries' = 0 /\ UNCHANGED result
     ELSE AttemptFails
  /\ Forget
  /\ UNCHANGED stores

\* record_result only runs when reconcile returned.
Record ==
  /\ pc = "record" /\ pc' = "idle" /\ tries' = 0 /\ result' = "success"
  /\ UNCHANGED <<stores, inSource, inReplica, readAt, moved>>

RecordFails ==
  /\ pc = "record" /\ AttemptFails
  /\ UNCHANGED <<stores, inSource, inReplica, readAt, moved>>

---------------------------------------------------------------------------
Init ==
  /\ now = 0 /\ source = {} /\ replica = {} /\ lost = {} /\ changes = 0
  /\ pc = "idle" /\ tries = 0 /\ inSource = Nothing /\ inReplica = Nothing
  /\ result = "none"
  /\ readAt = NoRead /\ moved = {}

DagStep == StartRun \/ CountSource \/ CountReplica \/ ReadFails \/ Compare \/ Record \/ RecordFails

Next == Tick \/ Write \/ Deliver \/ Lose \/ DagStep

Spec == Init /\ [][Next]_vars

\* The schedule is hourly for ever and attempts are bounded by their timeout.
FairSpec == Spec /\ WF_vars(DagStep)

---------------------------------------------------------------------------
(* Properties.                                                              *)

TypeOK ==
  /\ now \in 0 .. MaxTime /\ changes \in 0 .. MaxChanges
  /\ source \subseteq Rows /\ replica \subseteq Rows
  /\ lost \subseteq (source \ replica) \cup (replica \ source)
  /\ pc \in {"idle", "source", "replica", "compare", "record"}
  /\ tries \in 0 .. Retries
  /\ inSource \in [Keys -> Nat] /\ inReplica \in [Keys -> Nat]
  /\ result \in {"none", "success", "failed"}
  /\ readAt \in [source : 0 .. now, replica : 0 .. now]
  /\ readAt.source <= readAt.replica
  /\ moved \subseteq Keys

\* The day of k lost minutes to the lookback window between the two counts.
Cut(k) ==
  \E t \in Minutes : /\ Day(t) = k[2]
                     /\ readAt.source - Lookback <= t
                     /\ t < readAt.replica - Lookback

\* Nothing happened to k between the two counts that a count could notice.
Still(k) == k \notin moved /\ ~Cut(k)

SourceRows(k)  == Counted(source, k, readAt.replica)
ReplicaRows(k) == Counted(replica, k, readAt.replica)

(* No false alarm: a symbol-day that was neither written nor replicated nor *)
(* cut by the window between the two counts is reported only if the stores  *)
(* do hold different numbers of its rows ("Completed days must match        *)
(* exactly"), although the counts, the window and the date are of three     *)
(* moments and retries start over at another one.                           *)
AlarmsAreReal ==
  [][Compare => \A k \in Divergences :
       Still(k) => AbsDiff(Cardinality(SourceRows(k)), Cardinality(ReplicaRows(k)))
                     > Tolerance]_vars

(* What a green comparison is worth: for a completed day that stood still   *)
(* and has no row in ClickHouse that PostgreSQL lacks, no more rows are     *)
(* missing than the tolerance allows.  A ghost row can hide a lost one: the *)
(* DAG compares numbers.                                                    *)
GreenMeansWhole ==
  [][pc = "compare" /\ pc' = "record" =>
       \A k \in Keys :
         k[2] # Day(now) /\ Still(k) /\ ReplicaRows(k) \subseteq SourceRows(k)
           => Cardinality(SourceRows(k) \ ReplicaRows(k)) <= Tolerance]_vars

(* A row that was lost, on a completed day still in the window, with no     *)
(* ghost row to make up for it.                                             *)
Overdue(r) ==
  /\ r \in lost /\ r \in source
  /\ Day(r[2]) # Day(now) /\ now - Lookback <= r[2]
  /\ \A g \in replica \ source : KeyOf(g) # KeyOf(r)

(* "A change event that was silently lost, so the replica is permanently    *)
(* short a row and nothing ever complains": it does complain, and goes on   *)
(* failing for as long as the row is missing and in the window.             *)
LossIsReported ==
  \A r \in Rows : <>[]Overdue(r) => <>[](result = "failed")

(* Once the replica has caught up, the stores answer and no comparison is   *)
(* caught by a minute that leaves the window between its two counts, the    *)
(* alarm ends, whatever the runs before it found.                           *)
AllClear ==
  /\ <>[](source = replica /\ \A k \in Keys : ~Cut(k))
  /\ <>[][~(ReadFails \/ RecordFails)]_vars
  => <>[](result = "success")

=============================================================================
