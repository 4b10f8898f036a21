----------------------------- MODULE CdcProofs -----------------------------
(***************************************************************************)
(* Proofs about CdcPipeline, for every set of keys and rows, every block   *)
(* size and every history of writes, restarts, merges and lost slots.      *)
(***************************************************************************)
EXTENDS CdcPipeline, FiniteSetTheorems, WellFoundedInduction, TLAPS

---------------------------------------------------------------------------
(* The inductive invariant.                                                 *)

Registered == connector \in {"streaming", "stopped"}

\* What a record says was true of its key at the LSN it carries.
Honest(r) == r.lsn <= Len(wal) /\ r.row = TableAt(wal, r.lsn)[r.key]

TopicHonest == \A i \in 1 .. Len(topic) : Honest(topic[i])

\* Some record of R carries key k at LSN i or later.
Carries(R, k, i) == \E r \in R : r.key = k /\ i <= r.lsn

Sent == {topic[i] : i \in 1 .. Len(topic)}

InsertedIsStored == \A i \in 1 .. inserted : Carries(raw, topic[i].key, topic[i].lsn)

(* Every change up to the connector's position is in the topic, itself or   *)
(* under a later change of its key, unless the snapshot made it moot: the   *)
(* key had no row by then.                                                  *)
SentCovers ==
  Registered => \A k \in Keys : \A i \in Touching(wal, pos, k) :
    Carries(Sent, k, i) \/ (i <= base /\ TableAt(wal, base)[k] = None)

\* A registered connector has taken its snapshot and never goes back behind it.
Resumable == Registered => 0 <= base /\ base <= flushed

DataInv == TopicHonest /\ RecordsHonest /\ InsertedIsStored

---------------------------------------------------------------------------
(* Facts about the source table.                                            *)

(* A non-empty set of naturals with an upper bound has a largest element.   *)
LEMMA Largest ==
  ASSUME NEW n \in Nat, NEW T \in SUBSET (0 .. n), T # {}
  PROVE  \E m \in T : \A j \in T : j <= m
<1> DEFINE U == {n - m : m \in T}
<1>1. U \subseteq Nat /\ U # {}
  <2>1. PICK t \in T : TRUE
    OBVIOUS
  <2>2. n - t \in U
    OBVIOUS
  <2>3. \A m \in T : n - m \in Nat
    OBVIOUS
  <2> QED BY <2>2, <2>3
<1>2. \E x \in U : \A y \in U : ~(<<y, x>> \in OpToRel(<, Nat))
  BY <1>1, NatLessThanWellFounded, WFMin, Zenon
<1>3. PICK x \in U : \A y \in U : ~(y < x)
  BY <1>1, <1>2 DEF OpToRel
<1>4. PICK m \in T : x = n - m
  BY <1>3
<1>5. \A j \in T : j <= m
  <2> SUFFICES ASSUME NEW j \in T PROVE j <= m
    OBVIOUS
  <2>1. n - j \in U
    OBVIOUS
  <2>2. ~(n - j < n - m)
    BY <2>1, <1>3, <1>4
  <2> QED BY <2>2
<1> QED BY <1>5

(* Last names the largest element, and nothing else.                        *)
LEMMA LastIs ==
  ASSUME NEW S \in SUBSET Nat, NEW i \in S, \A j \in S : j <= i
  PROVE  Last(S) = i
<1> DEFINE x == CHOOSE m \in S : \A j \in S : j <= m
<1>1. x \in S /\ \A j \in S : j <= x
  OBVIOUS
<1>2. x <= i /\ i <= x /\ x \in Nat /\ i \in Nat
  BY <1>1
<1>3. x = i
  BY <1>2
<1> QED BY <1>3 DEF Last

LEMMA LastTouch ==
  ASSUME NEW w \in Seq(Changes), NEW n \in Nat, n <= Len(w), NEW k \in Keys,
         Touching(w, n, k) # {}
  PROVE  /\ Last(Touching(w, n, k)) \in Touching(w, n, k)
         /\ \A j \in Touching(w, n, k) : j <= Last(Touching(w, n, k))
<1>1. Touching(w, n, k) \in SUBSET (0 .. n)
  BY DEF Touching
<1>2. PICK i \in Touching(w, n, k) : \A j \in Touching(w, n, k) : j <= i
  BY <1>1, Largest
<1>3. Last(Touching(w, n, k)) = i
  BY <1>1, <1>2, LastIs
<1> QED BY <1>2, <1>3

LEMMA TableType ==
  ASSUME NEW w \in Seq(Changes), NEW n \in Nat, n <= Len(w)
  PROVE  TableAt(w, n) \in [Keys -> Values \cup {None}]
<1> SUFFICES ASSUME NEW k \in Keys, Touching(w, n, k) # {}
             PROVE  w[Last(Touching(w, n, k))].row \in Values \cup {None}
  BY DEF TableAt
<1> DEFINE i == Last(Touching(w, n, k))
<1>1. i \in 1 .. Len(w)
  BY LastTouch DEF Touching
<1> HIDE DEF i
<1>2. w[i] \in Changes
  BY <1>1
<1>3. w[i].row \in Values \cup {None}
  BY <1>2 DEF Changes
<1> QED BY <1>3 DEF i

(* Later changes do not rewrite the past.                                   *)
LEMMA TableStable ==
  ASSUME NEW w \in Seq(Changes), NEW c \in Changes, NEW n \in Nat, n <= Len(w)
  PROVE  TableAt(Append(w, c), n) = TableAt(w, n)
<1>1. \A i \in 1 .. n : Append(w, c)[i] = w[i]
  OBVIOUS
<1>2. \A k \in Keys : Touching(Append(w, c), n, k) = Touching(w, n, k)
  BY <1>1 DEF Touching
<1>3. ASSUME NEW k \in Keys, Touching(w, n, k) # {}
      PROVE  Append(w, c)[Last(Touching(w, n, k))] = w[Last(Touching(w, n, k))]
  <2>1. Last(Touching(w, n, k)) \in 1 .. n
    BY <1>3, LastTouch DEF Touching
  <2> QED BY <1>1, <2>1
<1> QED BY <1>2, <1>3 DEF TableAt

(* From the last change of a key on, its row is the one that change left.   *)
LEMMA Settled ==
  ASSUME NEW w \in Seq(Changes), NEW n \in Nat, n <= Len(w), NEW k \in Keys,
         NEW i \in Touching(w, n, k), \A j \in Touching(w, n, k) : j <= i,
         NEW m \in Nat, i <= m, m <= n
  PROVE  TableAt(w, m)[k] = w[i].row
<1>1. i \in Touching(w, m, k) /\ \A j \in Touching(w, m, k) : j <= i
  BY DEF Touching
<1>2. Touching(w, m, k) \in SUBSET Nat
  BY DEF Touching
<1>3. Last(Touching(w, m, k)) = i
  BY <1>1, <1>2, LastIs
<1> QED BY <1>1, <1>3 DEF TableAt

(* A change, sent, is an honest record.                                     *)
LEMMA MessageHonest ==
  ASSUME TypeOK, NEW i \in 1 .. Len(wal)
  PROVE  Message(i) \in Records /\ Honest(Message(i)) /\ Message(i).lsn = i
<1> DEFINE k == wal[i].key
<1>1. wal[i] \in Changes /\ i \in Nat
  BY DEF TypeOK
<1>2. k \in Keys /\ wal[i].row \in Values \cup {None}
  BY <1>1 DEF Changes
<1>3. i \in Touching(wal, i, k) /\ \A j \in Touching(wal, i, k) : j <= i
  BY <1>1 DEF Touching
<1>4. TableAt(wal, i)[k] = wal[i].row
  BY <1>1, <1>2, <1>3, Settled DEF TypeOK
<1> QED BY <1>1, <1>2, <1>4 DEF Message, Records, Honest

---------------------------------------------------------------------------
(* What a step does to the topic.                                           *)

\* The record a snapshot taken now sends for key k.
SnapshotRecord(k) == [key |-> k, row |-> SourceTable[k], lsn |-> Len(wal)]

LEMMA SnapshotTopic ==
  ASSUME TypeOK, Snapshot
  PROVE  /\ topic' \in Seq(Records) /\ Len(topic) <= Len(topic')
         /\ \A i \in 1 .. Len(topic) : topic'[i] = topic[i]
         /\ \A i \in Len(topic) + 1 .. Len(topic') :
              topic'[i] \in Records /\ Honest(topic'[i])
         /\ \A k \in Keys : SourceTable[k] # None =>
              \E i \in 1 .. Len(topic') : topic'[i] = SnapshotRecord(k)
<1> DEFINE live == {k \in Keys : SourceTable[k] # None}
           n == Cardinality(live)
<1>1. n \in Nat
  BY RowAssumption, FS_Subset, FS_CardinalityType
<1>2. PICK order \in [1 .. n -> live] :
        /\ \A k \in live : \E i \in 1 .. n : order[i] = k
        /\ topic' = topic \o [i \in 1 .. n |->
             [key |-> order[i], row |-> SourceTable[order[i]], lsn |-> Len(wal)]]
  BY DEF Snapshot
<1> DEFINE msgs == [i \in 1 .. n |-> SnapshotRecord(order[i])]
<1>3. topic' = topic \o msgs
  BY <1>2 DEF SnapshotRecord
<1>4. \A k \in Keys : SnapshotRecord(k) \in Records /\ Honest(SnapshotRecord(k))
  <2>1. Len(wal) \in Nat /\ wal \in Seq(Changes)
    BY DEF TypeOK
  <2>2. SourceTable \in [Keys -> Values \cup {None}]
    BY <2>1, TableType DEF SourceTable
  <2> QED BY <2>1, <2>2 DEF SnapshotRecord, Records, Honest, SourceTable
<1> HIDE DEF n
<1>5. \A i \in 1 .. n : order[i] \in Keys /\ msgs[i] = SnapshotRecord(order[i])
  BY <1>2
<1>6. msgs \in Seq(Records) /\ Len(msgs) = n
  <2>1. msgs \in [1 .. n -> Records]
    BY <1>4, <1>5
  <2> QED BY <1>1, <2>1
<1> HIDE DEF msgs, live
<1>7. topic \in Seq(Records)
  BY DEF TypeOK
<1>8. /\ topic' \in Seq(Records) /\ Len(topic') = Len(topic) + n
      /\ \A i \in 1 .. Len(topic) : topic'[i] = topic[i]
      /\ \A i \in Len(topic) + 1 .. Len(topic) + n : topic'[i] = msgs[i - Len(topic)]
  BY <1>1, <1>3, <1>6, <1>7
<1>9. \A i \in Len(topic) + 1 .. Len(topic') : topic'[i] \in Records /\ Honest(topic'[i])
  <2> SUFFICES ASSUME NEW i \in Len(topic) + 1 .. Len(topic')
               PROVE  topic'[i] \in Records /\ Honest(topic'[i])
    OBVIOUS
  <2>1. i - Len(topic) \in 1 .. n /\ topic'[i] = msgs[i - Len(topic)]
    BY <1>1, <1>7, <1>8
  <2>2. order[i - Len(topic)] \in Keys /\ topic'[i] = SnapshotRecord(order[i - Len(topic)])
    BY <1>5, <2>1
  <2> QED BY <1>4, <2>2
<1>10. ASSUME NEW k \in Keys, SourceTable[k] # None
       PROVE  \E i \in 1 .. Len(topic') : topic'[i] = SnapshotRecord(k)
  <2>1. PICK i \in 1 .. n : order[i] = k
    BY <1>2, <1>10 DEF live
  <2>2. Len(topic) + i \in 1 .. Len(topic') /\ topic'[Len(topic) + i] = msgs[i]
    BY <1>1, <1>7, <1>8
  <2>3. msgs[i] = SnapshotRecord(k)
    BY <1>5, <2>1
  <2> QED BY <2>2, <2>3
<1> QED BY <1>1, <1>7, <1>8, <1>9, <1>10

(* The topic only grows, by records that are honest about the WAL.          *)
LEMMA TopicGrows ==
  ASSUME TypeOK, [Next]_vars
  PROVE  /\ topic' \in Seq(Records) /\ Len(topic) <= Len(topic')
         /\ \A i \in 1 .. Len(topic) : topic'[i] = topic[i]
         /\ \A i \in Len(topic) + 1 .. Len(topic') :
              topic'[i] \in Records /\ Honest(topic'[i])
<1>1. CASE Snapshot
  BY <1>1, SnapshotTopic
<1>2. CASE Produce
  <2>1. pos + 1 \in 1 .. Len(wal) /\ topic' = Append(topic, Message(pos + 1))
    BY <1>2 DEF Produce, TypeOK
  <2>2. Message(pos + 1) \in Records /\ Honest(Message(pos + 1))
    BY <2>1, MessageHonest
  <2>3. topic \in Seq(Records)
    BY DEF TypeOK
  <2>4. \A i \in Len(topic) + 1 .. Len(topic') : topic'[i] = Message(pos + 1)
    BY <2>1, <2>2, <2>3
  <2>5. /\ topic' \in Seq(Records) /\ Len(topic) <= Len(topic')
        /\ \A i \in 1 .. Len(topic) : topic'[i] = topic[i]
    BY <2>1, <2>2, <2>3
  <2> QED BY <2>2, <2>4, <2>5
<1>3. CASE topic' = topic
  BY <1>3 DEF TypeOK
<1>4. Snapshot \/ Produce \/ topic' = topic
  BY DEF Next, vars, Write, Flush, ConnectorStops, ConnectorStarts, SlotLost, Reregister,
         InsertBlock, CommitOffsets, ConsumerRestarts, Merge
<1> QED BY <1>1, <1>2, <1>3, <1>4

---------------------------------------------------------------------------
LEMMA TypeStep ==
  ASSUME TypeOK, [Next]_vars
  PROVE  TypeOK'
<1> USE BoundAssumption
<1>1. topic' \in Seq(Records) /\ Len(topic) <= Len(topic')
  BY TopicGrows
<1>2. \A i \in 1 .. Len(topic) : topic[i] \in Records
  BY DEF TypeOK
<1>3. CASE Write
  <2>1. PICK k \in Keys, r \in Values \cup {None} : wal' = Append(wal, [key |-> k, row |-> r])
    BY <1>3 DEF Write
  <2>2. [key |-> k, row |-> r] \in Changes
    BY DEF Changes
  <2>3. wal' \in Seq(Changes) /\ Len(wal') = Len(wal) + 1
    BY <2>1, <2>2 DEF TypeOK
  <2> QED BY <1>3, <2>3 DEF Write, TypeOK
<1>4. CASE Snapshot
  <2>1. /\ connector' = "streaming" /\ UNCHANGED <<wal, inserted, committed, raw, restarts>>
        /\ base' = Len(wal) /\ pos' = Len(wal) /\ flushed' = Len(wal)
    BY <1>4, Zenon DEF Snapshot
  <2>2. Len(wal) \in Nat /\ Len(topic) \in Nat /\ Len(topic') \in Nat
    BY <1>1 DEF TypeOK
  <2> QED BY <1>1, <2>1, <2>2 DEF TypeOK
<1>5. CASE Produce
  BY <1>1, <1>5 DEF Produce, TypeOK
<1>6. CASE Flush \/ ConnectorStops \/ ConnectorStarts
  BY <1>6 DEF Flush, ConnectorStops, ConnectorStarts, TypeOK
<1>7. CASE SlotLost \/ Reregister
  BY <1>7 DEF SlotLost, Reregister, TypeOK
<1>8. CASE InsertBlock
  <2>1. PICK n \in committed + 1 .. Len(topic) :
          inserted' = n /\ raw' = raw \cup {topic[i] : i \in committed + 1 .. n}
    BY <1>8 DEF InsertBlock
  <2>2. raw' \subseteq Records
    BY <1>2, <2>1 DEF TypeOK
  <2> QED BY <1>8, <2>1, <2>2 DEF InsertBlock, TypeOK
<1>9. CASE CommitOffsets \/ ConsumerRestarts
  BY <1>9 DEF CommitOffsets, ConsumerRestarts, TypeOK
<1>10. CASE Merge
  BY <1>10 DEF Merge, TypeOK
<1>11. CASE UNCHANGED vars
  BY <1>11 DEF vars, TypeOK
<1> QED BY <1>3, <1>4, <1>5, <1>6, <1>7, <1>8, <1>9, <1>10, <1>11 DEF Next

(* Every state is well typed: in particular no position runs ahead of what  *)
(* it counts, flushed <= pos <= the WAL, committed <= inserted <= the topic.*)
THEOREM TypeCorrect == Spec => []TypeOK
<1>1. Init => TypeOK
  BY BoundAssumption DEF Init, TypeOK
<1>2. TypeOK /\ [Next]_vars => TypeOK'
  BY TypeStep
<1> QED BY <1>1, <1>2, PTL DEF Spec

---------------------------------------------------------------------------
(* The records in the topic and in raw.                                     *)

(* An honest record stays honest: the WAL only grows.                       *)
LEMMA StaysHonest ==
  ASSUME TypeOK, [Next]_vars, NEW r \in Records, Honest(r)
  PROVE  Honest(r)'
<1>1. CASE Write
  <2>1. PICK k \in Keys, v \in Values \cup {None} : wal' = Append(wal, [key |-> k, row |-> v])
    BY <1>1 DEF Write
  <2>2. [key |-> k, row |-> v] \in Changes
    BY DEF Changes
  <2>3. wal \in Seq(Changes) /\ Len(wal') = Len(wal) + 1
    BY <2>1, <2>2 DEF TypeOK
  <2>4. r.lsn \in Nat /\ r.lsn <= Len(wal)
    BY DEF Records, Honest
  <2>5. TableAt(wal', r.lsn) = TableAt(wal, r.lsn)
    BY <2>1, <2>2, <2>3, <2>4, TableStable
  <2>6. r.lsn <= Len(wal')
    BY <2>3, <2>4
  <2> QED BY <2>5, <2>6 DEF Honest
<1>2. CASE wal' = wal
  BY <1>2 DEF Honest, TableAt, Touching
<1>3. Write \/ wal' = wal
  BY DEF Next, vars, Snapshot, Produce, Flush, ConnectorStops, ConnectorStarts, SlotLost,
         Reregister, InsertBlock, CommitOffsets, ConsumerRestarts, Merge
<1> QED BY <1>1, <1>2, <1>3

(* raw gains records of the topic, or loses one to a newer one of its key.  *)
LEMMA RawStep ==
  ASSUME TypeOK, [Next]_vars
  PROVE  \/ raw' = raw
         \/ \E r, q \in raw : r.key = q.key /\ r.lsn < q.lsn /\ raw' = raw \ {r}
         \/ /\ inserted = committed /\ topic' = topic
            /\ inserted' \in committed + 1 .. Len(topic)
            /\ raw' = raw \cup {topic[i] : i \in committed + 1 .. inserted'}
<1>1. CASE InsertBlock
  BY <1>1 DEF InsertBlock
<1>2. CASE Merge
  BY <1>2 DEF Merge
<1>3. InsertBlock \/ Merge \/ raw' = raw
  BY DEF Next, vars, Write, Snapshot, Produce, Flush, ConnectorStops, ConnectorStarts,
         SlotLost, Reregister, CommitOffsets, ConsumerRestarts
<1> QED BY <1>1, <1>2, <1>3

(* What raw carries it goes on carrying, whatever is replayed or merged.    *)
LEMMA StaysCarried ==
  ASSUME TypeOK, [Next]_vars, NEW k, NEW i \in Nat, Carries(raw, k, i)
  PROVE  Carries(raw', k, i)
<1>1. PICK c \in raw : c.key = k /\ i <= c.lsn
  BY DEF Carries
<1>2. CASE \E r, q \in raw : r.key = q.key /\ r.lsn < q.lsn /\ raw' = raw \ {r}
  <2>1. PICK r, q \in raw : r.key = q.key /\ r.lsn < q.lsn /\ raw' = raw \ {r}
    BY <1>2, Zenon
  <2>2. r.lsn \in Nat /\ q.lsn \in Nat /\ c.lsn \in Nat
    BY DEF TypeOK, Records
  <2>3. q \in raw'
    BY <2>1, <2>2
  <2>4. CASE c = r
    <3>1. i <= q.lsn /\ q.key = k
      BY <1>1, <2>1, <2>2, <2>4
    <3> QED BY <2>3, <3>1 DEF Carries
  <2>5. CASE c # r
    BY <1>1, <2>1, <2>5 DEF Carries
  <2> QED BY <2>4, <2>5
<1>3. CASE raw \subseteq raw'
  BY <1>1, <1>3 DEF Carries
<1> QED BY <1>2, <1>3, RawStep

(* Nothing ClickHouse holds or has yet to read misreports the source, and   *)
(* nothing whose insert completed is missing from raw.                      *)
LEMMA DataInvariant == Spec => [](TypeOK /\ DataInv)
<1>1. Init => DataInv
  BY DEF Init, DataInv, TopicHonest, RecordsHonest, InsertedIsStored
<1>2. TypeOK /\ DataInv /\ [Next]_vars => DataInv'
  <2> SUFFICES ASSUME TypeOK, DataInv, [Next]_vars PROVE DataInv'
    OBVIOUS
  <2>1. /\ Len(topic) \in Nat /\ Len(topic') \in Nat /\ Len(topic) <= Len(topic')
        /\ \A i \in 1 .. Len(topic) : topic[i] \in Records /\ topic'[i] = topic[i]
    BY TopicGrows DEF TypeOK
  <2>2. TopicHonest'
    <3> SUFFICES ASSUME NEW i \in 1 .. Len(topic')
                 PROVE  /\ topic'[i].lsn <= Len(wal')
                        /\ topic'[i].row = TableAt(wal', topic'[i].lsn)[topic'[i].key]
      BY DEF TopicHonest, Honest
    <3>1. topic'[i] \in Records /\ Honest(topic'[i])
      <4>1. CASE i \in 1 .. Len(topic)
        BY <2>1, <4>1 DEF DataInv, TopicHonest
      <4>2. CASE i \in Len(topic) + 1 .. Len(topic')
        BY <4>2, TopicGrows
      <4> QED BY <2>1, <4>1, <4>2
    <3>2. PICK r \in Records : r = topic'[i] /\ Honest(r)
      BY <3>1
    <3>3. Honest(r)'
      BY <3>2, StaysHonest
    <3> QED BY <3>2, <3>3 DEF Honest
  <2>3. RecordsHonest'
    <3>1. \A r \in raw : r \in Records /\ Honest(r)
      BY DEF DataInv, RecordsHonest, Honest, TypeOK
    <3>2. \A i \in 1 .. Len(topic) : topic[i] \in Records /\ Honest(topic[i])
      BY <2>1 DEF DataInv, TopicHonest
    <3>3. \A r \in raw' : r \in raw \/ \E i \in 1 .. Len(topic) : r = topic[i]
      BY <2>1, RawStep DEF TypeOK
    <3>4. \A r \in raw' : r \in Records /\ Honest(r)
      BY <3>1, <3>2, <3>3
    <3>5. \A r \in raw' : Honest(r)'
      BY <3>4, StaysHonest
    <3> QED BY <3>5 DEF RecordsHonest, Honest
  <2>4. InsertedIsStored'
    <3> SUFFICES ASSUME NEW i \in 1 .. inserted'
                 PROVE  Carries(raw', topic'[i].key, topic'[i].lsn)
      BY DEF InsertedIsStored
    <3>1. CASE i \in 1 .. inserted
      <4>1. i \in 1 .. Len(topic) /\ Carries(raw, topic[i].key, topic[i].lsn)
        BY <3>1 DEF DataInv, InsertedIsStored, TypeOK
      <4>2. topic[i].lsn \in Nat
        BY <2>1, <4>1 DEF Records
      <4>3. Carries(raw', topic[i].key, topic[i].lsn)
        BY <4>1, <4>2, StaysCarried
      <4> QED BY <2>1, <4>1, <4>3
    <3>2. CASE i \notin 1 .. inserted
      <4>1. /\ inserted = committed /\ topic' = topic
            /\ inserted' \in committed + 1 .. Len(topic)
            /\ raw' = raw \cup {topic[j] : j \in committed + 1 .. inserted'}
        <5>0. TypeOK'
          BY TypeStep
        <5>1. inserted \in Nat /\ inserted' \in Nat /\ inserted < inserted'
          <6>1. inserted \in Nat
            BY DEF TypeOK
          <6>2. inserted' \in Nat
            BY <5>0 DEF TypeOK
          <6> QED BY <3>2, <6>1, <6>2
        <5>2. CommitOffsets => inserted' = inserted
          BY DEF CommitOffsets
        <5>3. ConsumerRestarts => inserted' = committed /\ committed < inserted
          BY DEF ConsumerRestarts
        <5>4. InsertBlock \/ ConsumerRestarts \/ inserted' = inserted
          BY <5>2 DEF Next, vars, Write, Snapshot, Produce, Flush, ConnectorStops,
                      ConnectorStarts, SlotLost, Reregister, Merge
        <5>5. committed \in Nat
          BY DEF TypeOK
        <5>6. ~ConsumerRestarts /\ inserted' # inserted
          BY <5>1, <5>3, <5>5
        <5>7. InsertBlock
          BY <5>4, <5>6
        <5> QED BY <5>7 DEF InsertBlock
      <4>2. i \in committed + 1 .. inserted'
        BY <3>2, <4>1 DEF TypeOK
      <4>3. topic'[i] \in raw' /\ i \in 1 .. Len(topic)
        BY <4>1, <4>2 DEF TypeOK
      <4>4. topic'[i].lsn \in Nat
        BY <2>1, <4>3 DEF Records
      <4> QED BY <4>3, <4>4 DEF Carries
    <3> QED BY <3>1, <3>2
  <2> QED BY <2>2, <2>3, <2>4 DEF DataInv
<1>3. Spec => []TypeOK
  BY TypeCorrect
<1> QED BY <1>1, <1>2, <1>3, PTL DEF Spec

(* Every record ClickHouse holds was true of its key at the LSN it carries, *)
(* through every replay, re-snapshot and merge.                             *)
THEOREM RecordsAreHonest == Spec => []RecordsHonest
BY DataInvariant, PTL DEF DataInv

(* The effect of a committed message is never lost.                         *)
THEOREM CommittedStays == Spec => []CommittedIsStored
<1>1. TypeOK /\ DataInv => CommittedIsStored
  BY DEF TypeOK, DataInv, InsertedIsStored, Carries, CommittedIsStored
<1> QED BY <1>1, DataInvariant, PTL

---------------------------------------------------------------------------
(* What a reader sees.                                                      *)

(* FINAL names the version with the largest LSN.                            *)
LEMMA NewestIsLargest ==
  ASSUME TypeOK, RecordsHonest, NEW k \in Keys, Versions(k) # {}
  PROVE  Newest(k) \in Versions(k) /\ \A q \in Versions(k) : q.lsn <= Newest(k).lsn
<1> DEFINE T == {r.lsn : r \in Versions(k)}
<1>1. T \in SUBSET (0 .. Len(wal)) /\ T # {} /\ Len(wal) \in Nat
  BY DEF TypeOK, Records, RecordsHonest, Versions
<1> HIDE DEF T
<1>2. PICK m \in T : \A j \in T : j <= m
  BY <1>1, Largest
<1> USE DEF T
<1>3. PICK r \in Versions(k) : r.lsn = m
  BY <1>2
<1>4. \A q \in Versions(k) : q.lsn <= r.lsn
  BY <1>2, <1>3
<1> QED BY <1>4 DEF Newest

LEMMA VersionCarries ==
  ASSUME TypeOK, RecordsHonest, NEW k \in Keys, NEW i \in Nat, Carries(raw, k, i)
  PROVE  Versions(k) # {} /\ i <= Newest(k).lsn /\ Newest(k) \in raw /\ Newest(k).key = k
<1>1. PICK r \in raw : r.key = k /\ i <= r.lsn
  BY DEF Carries
<1>2. r \in Versions(k)
  BY <1>1 DEF Versions
<1>3. Newest(k) \in Versions(k) /\ r.lsn <= Newest(k).lsn
  BY <1>2, NewestIsLargest
<1>4. r.lsn \in Nat /\ Newest(k).lsn \in Nat
  BY <1>1, <1>3 DEF TypeOK, Records, Versions
<1> QED BY <1>1, <1>2, <1>3, <1>4 DEF Versions

(* No replay, re-snapshot or merge takes a reader back to an older version. *)
THEOREM ReadersMoveForward == Spec => NeverBackwards
<1> DEFINE Forward == \A k \in Keys : Version(k) <= Version(k)'
<1>1. TypeOK /\ RecordsHonest => \A k \in Keys : Versions(k) # {} => Newest(k) \in Versions(k)
  BY NewestIsLargest
<1>2. (TypeOK /\ RecordsHonest => \A k \in Keys : Versions(k) # {} => Newest(k) \in Versions(k))'
  BY <1>1, PTL
<1>3. TypeOK /\ RecordsHonest => \A k \in Keys : \A i \in Nat :
        Carries(raw, k, i) => Versions(k) # {} /\ i <= Newest(k).lsn
  BY VersionCarries
<1>4. (TypeOK /\ RecordsHonest => \A k \in Keys : \A i \in Nat :
        Carries(raw, k, i) => Versions(k) # {} /\ i <= Newest(k).lsn)'
  BY <1>3, PTL
<1>5. TypeOK /\ DataInv /\ (TypeOK /\ DataInv)' /\ [Next]_vars => Forward
  <2> SUFFICES ASSUME TypeOK, DataInv, (TypeOK /\ DataInv)', [Next]_vars, NEW k \in Keys
               PROVE  Version(k) <= Version(k)'
    OBVIOUS
  <2>1. CASE Versions(k) = {}
    <3>1. Version(k) = 0
      BY <2>1 DEF Version
    <3>2. CASE Versions(k)' = {}
      BY <3>1, <3>2 DEF Version
    <3>3. CASE Versions(k)' # {}
      <4>1. Newest(k)' \in Versions(k)'
        BY <1>2, <3>3 DEF DataInv
      <4>2. Newest(k)'.lsn \in Nat
        BY <4>1 DEF Versions, TypeOK, Records
      <4> QED BY <3>1, <3>3, <4>2 DEF Version
    <3> QED BY <3>2, <3>3
  <2>2. CASE Versions(k) # {}
    <3> DEFINE i == Newest(k).lsn
    <3>1. Newest(k) \in raw /\ Newest(k).key = k /\ i \in Nat
      BY <2>2, NewestIsLargest DEF DataInv, Versions, TypeOK, Records
    <3>2. Carries(raw, k, i)
      BY <3>1 DEF Carries
    <3> HIDE DEF i
    <3>3. Carries(raw', k, i)
      BY <3>1, <3>2, StaysCarried
    <3>4. Versions(k)' # {} /\ i <= Newest(k)'.lsn
      BY <1>4, <3>1, <3>3 DEF DataInv
    <3> USE DEF i
    <3> QED BY <2>2, <3>4 DEF Version
  <2> QED BY <2>1, <2>2
<1>6. Spec => [][Forward]_vars
  BY <1>5, DataInvariant, PTL DEF Spec
<1> QED BY <1>6 DEF NeverBackwards

---------------------------------------------------------------------------
(* What has been sent.                                                      *)

LEMMA ResumableStep ==
  ASSUME TypeOK, Resumable, [Next]_vars
  PROVE  Resumable'
<1> USE DEF Resumable, Registered, TypeOK
<1>1. CASE Snapshot
  BY <1>1 DEF Snapshot
<1>2. CASE Produce \/ Flush \/ ConnectorStops \/ ConnectorStarts \/ SlotLost \/ Reregister
  BY <1>2 DEF Produce, Flush, ConnectorStops, ConnectorStarts, SlotLost, Reregister
<1>3. CASE Write \/ InsertBlock \/ CommitOffsets \/ ConsumerRestarts \/ Merge \/ UNCHANGED vars
  BY <1>3 DEF Write, InsertBlock, CommitOffsets, ConsumerRestarts, Merge, vars
<1> QED BY <1>1, <1>2, <1>3 DEF Next

\* What has been sent stays sent.
LEMMA SentGrows ==
  ASSUME TypeOK, [Next]_vars, NEW k, NEW i, Carries(Sent, k, i)
  PROVE  Carries(Sent', k, i)
<1>1. PICK j \in 1 .. Len(topic) : topic[j].key = k /\ i <= topic[j].lsn
  BY DEF Carries, Sent
<1>2. j \in 1 .. Len(topic') /\ topic'[j] = topic[j]
  BY TopicGrows DEF TypeOK
<1>3. topic'[j] \in Sent'
  BY <1>2 DEF Sent
<1> QED BY <1>1, <1>2, <1>3 DEF Carries

LEMMA SentCoversStep ==
  ASSUME TypeOK, Resumable, SentCovers, [Next]_vars
  PROVE  SentCovers'
<1> SUFFICES ASSUME Registered', NEW k \in Keys, NEW i \in Touching(wal', pos', k)
             PROVE  Carries(Sent', k, i) \/ (i <= base' /\ TableAt(wal', base')[k] = None)
  BY DEF SentCovers
<1>1. /\ wal \in Seq(Changes) /\ Len(wal) \in Nat /\ pos \in Nat /\ pos <= Len(wal)
      /\ flushed \in Nat /\ flushed <= pos
  BY DEF TypeOK
<1>2. Registered => base \in Nat /\ base <= Len(wal)
  BY <1>1 DEF Resumable, TypeOK
<1>3. ASSUME Registered, base' = base, TableAt(wal', base) = TableAt(wal, base),
             i \in Touching(wal, pos, k)
      PROVE  Carries(Sent', k, i) \/ (i <= base' /\ TableAt(wal', base')[k] = None)
  <2>1. CASE Carries(Sent, k, i)
    BY <2>1, SentGrows
  <2>2. CASE i <= base /\ TableAt(wal, base)[k] = None
    BY <1>3, <2>2
  <2> QED BY <1>3, <2>1, <2>2 DEF SentCovers
<1>4. CASE Write
  <2>1. PICK l \in Keys, v \in Values \cup {None} : wal' = Append(wal, [key |-> l, row |-> v])
    BY <1>4 DEF Write
  <2>2. [key |-> l, row |-> v] \in Changes
    BY DEF Changes
  <2>3. pos' = pos /\ base' = base /\ Registered
    BY <1>4 DEF Write, Registered
  <2>4. TableAt(wal', base) = TableAt(wal, base)
    BY <1>1, <1>2, <2>1, <2>2, <2>3, TableStable
  <2>5. i \in 1 .. pos /\ wal'[i] = wal[i] /\ wal'[i].key = k
    BY <1>1, <2>1, <2>2, <2>3 DEF Touching
  <2>6. i \in Touching(wal, pos, k)
    BY <2>5 DEF Touching
  <2> QED BY <1>3, <2>3, <2>4, <2>6
<1>5. CASE Snapshot
  <2>1. wal' = wal /\ base' = Len(wal) /\ pos' = Len(wal)
    BY <1>5, Zenon DEF Snapshot
  <2>2. i \in 1 .. Len(wal)
    BY <2>1 DEF Touching
  <2>3. CASE SourceTable[k] = None
    BY <1>1, <2>1, <2>2, <2>3 DEF SourceTable
  <2>4. CASE SourceTable[k] # None
    <3>1. PICK j \in 1 .. Len(topic') : topic'[j] = SnapshotRecord(k)
      BY <1>5, <2>4, SnapshotTopic
    <3>2. topic'[j] \in Sent' /\ topic'[j].key = k /\ i <= topic'[j].lsn
      BY <1>1, <2>2, <3>1 DEF Sent, SnapshotRecord
    <3> QED BY <3>2 DEF Carries
  <2> QED BY <2>3, <2>4
<1>6. CASE Produce
  <2>1. /\ wal' = wal /\ base' = base /\ pos' = pos + 1 /\ pos + 1 \in 1 .. Len(wal)
        /\ topic' = Append(topic, Message(pos + 1)) /\ topic \in Seq(Records) /\ Registered
    BY <1>1, <1>6 DEF Produce, TypeOK, Registered
  <2>2. i \in 1 .. pos + 1 /\ wal[i].key = k
    BY <1>1, <2>1 DEF Touching
  <2>3. CASE i \in 1 .. pos
    <3>1. i \in Touching(wal, pos, k)
      BY <2>2, <2>3 DEF Touching
    <3> QED BY <1>3, <2>1, <3>1
  <2>4. CASE i = pos + 1
    <3>1. Message(pos + 1) \in Records /\ Message(pos + 1).key = k /\ Message(pos + 1).lsn = i
      BY <2>1, <2>2, <2>4, MessageHonest DEF Message
    <3>2. Len(topic) + 1 \in 1 .. Len(topic') /\ topic'[Len(topic) + 1] = Message(pos + 1)
      BY <2>1, <3>1
    <3>3. Message(pos + 1) \in Sent'
      BY <3>2 DEF Sent
    <3>4. i <= Message(pos + 1).lsn
      BY <1>1, <2>4, <3>1
    <3> QED BY <3>1, <3>3, <3>4 DEF Carries
  <2> QED BY <1>1, <2>2, <2>3, <2>4
<1>7. CASE ConnectorStarts
  <2>1. wal' = wal /\ base' = base /\ pos' = flushed /\ Registered
    BY <1>7 DEF ConnectorStarts, Registered
  <2>2. i \in Touching(wal, pos, k)
    BY <1>1, <2>1 DEF Touching
  <2> QED BY <1>3, <2>1, <2>2
<1>8. CASE Flush \/ ConnectorStops \/ SlotLost \/ Reregister
  <2>1. wal' = wal /\ base' = base /\ pos' = pos /\ Registered
    BY <1>8 DEF Flush, ConnectorStops, SlotLost, Reregister, Registered
  <2> QED BY <1>3, <2>1
<1>9. CASE InsertBlock \/ CommitOffsets \/ ConsumerRestarts \/ Merge \/ UNCHANGED vars
  <2>1. wal' = wal /\ base' = base /\ pos' = pos /\ connector' = connector
    BY <1>9 DEF InsertBlock, CommitOffsets, ConsumerRestarts, Merge, vars
  <2> QED BY <1>3, <2>1 DEF Registered
<1> QED BY <1>4, <1>5, <1>6, <1>7, <1>8, <1>9 DEF Next

LEMMA SendInvariant ==
  Spec => [](TypeOK /\ DataInv /\ Resumable /\ SentCovers)
<1>1. Init => Resumable /\ SentCovers
  BY DEF Init, Resumable, SentCovers, Registered
<1>2. TypeOK /\ Resumable /\ SentCovers /\ [Next]_vars => (Resumable /\ SentCovers)'
  BY ResumableStep, SentCoversStep
<1>3. Spec => [](TypeOK /\ DataInv)
  BY DataInvariant
<1> QED BY <1>1, <1>2, <1>3, PTL DEF Spec

---------------------------------------------------------------------------
(* The pipeline at rest.                                                    *)

(* A key of which raw carries the last change reads as the source has it.   *)
LEMMA CarriedIsShown ==
  ASSUME TypeOK, RecordsHonest, NEW k \in Keys,
         NEW i \in Touching(wal, Len(wal), k), \A j \in Touching(wal, Len(wal), k) : j <= i,
         Carries(raw, k, i)
  PROVE  Staged[k] = SourceTable[k]
<1>1. wal \in Seq(Changes) /\ Len(wal) \in Nat /\ i \in Nat /\ i <= Len(wal)
  BY DEF TypeOK, Touching
<1> DEFINE v == Newest(k)
<1>2. Versions(k) # {} /\ i <= v.lsn /\ v \in raw /\ v.key = k
  BY <1>1, VersionCarries
<1> HIDE DEF v
<1>3. v.lsn \in Nat /\ v.lsn <= Len(wal) /\ v.row = TableAt(wal, v.lsn)[k]
  BY <1>2 DEF TypeOK, Records, RecordsHonest
<1>4. TableAt(wal, v.lsn)[k] = wal[i].row /\ TableAt(wal, Len(wal))[k] = wal[i].row
  BY <1>1, <1>2, <1>3, Settled
<1> QED BY <1>2, <1>3, <1>4 DEF Staged, SourceTable, v

(* At rest, raw carries everything the topic does.                          *)
LEMMA DrainedCarries ==
  ASSUME TypeOK, DataInv, Drained, NEW k \in Keys, NEW i \in Nat, Carries(Sent, k, i)
  PROVE  Carries(raw, k, i)
<1>1. PICK j \in 1 .. Len(topic) : topic[j].key = k /\ i <= topic[j].lsn
  BY DEF Carries, Sent
<1>2. topic[j] \in Records /\ j \in 1 .. inserted
  BY DEF TypeOK, Drained
<1>3. PICK r \in raw : r.key = k /\ topic[j].lsn <= r.lsn
  BY <1>1, <1>2 DEF DataInv, InsertedIsStored, Carries
<1>4. topic[j].lsn \in Nat /\ r.lsn \in Nat
  BY <1>2, <1>3 DEF TypeOK, Records
<1>5. i <= r.lsn
  BY <1>1, <1>3, <1>4
<1> QED BY <1>3, <1>5 DEF Carries

(* Whatever was lost and replayed, a row the source still has is right in   *)
(* staging once the pipeline is at rest.                                    *)
THEOREM SurvivorsArrive == Spec => []SurvivorsAreEqual
<1>1. TypeOK /\ DataInv /\ Resumable /\ SentCovers => SurvivorsAreEqual
  <2> SUFFICES ASSUME TypeOK, DataInv, Resumable, SentCovers, Drained,
                      NEW k \in Keys, SourceTable[k] # None
               PROVE  Staged[k] = SourceTable[k]
    BY DEF SurvivorsAreEqual
  <2>1. wal \in Seq(Changes) /\ Len(wal) \in Nat /\ pos = Len(wal) /\ Registered
    BY DEF TypeOK, Drained, Registered
  <2>2. Touching(wal, Len(wal), k) # {}
    BY DEF SourceTable, TableAt
  <2>3. PICK i \in Touching(wal, Len(wal), k) : \A j \in Touching(wal, Len(wal), k) : j <= i
    BY <2>1, <2>2, LastTouch
  <2>4. i \in Nat /\ i <= Len(wal)
    BY <2>1 DEF Touching
  <2>5. ~(i <= base /\ TableAt(wal, base)[k] = None)
    <3> SUFFICES ASSUME i <= base PROVE TableAt(wal, base)[k] # None
      OBVIOUS
    <3>1. base \in Nat /\ base <= Len(wal)
      BY <2>1 DEF Resumable, TypeOK
    <3>2. TableAt(wal, base)[k] = wal[i].row /\ TableAt(wal, Len(wal))[k] = wal[i].row
      BY <2>1, <2>3, <2>4, <3>1, Settled
    <3> QED BY <3>2 DEF SourceTable
  <2>6. Carries(Sent, k, i)
    BY <2>1, <2>5 DEF SentCovers
  <2>7. Carries(raw, k, i)
    BY <2>4, <2>6, DrainedCarries
  <2> QED BY <2>3, <2>7, CarriedIsShown DEF DataInv
<1> QED BY <1>1, SendInvariant, PTL

(* While the slot is never lost there is one snapshot, and nothing that was *)
(* sent carries an LSN from before it.                                      *)
OneSnapshot ==
  /\ connector # "lost"
  /\ connector = "new" => topic = <<>> /\ raw = {}
  /\ \A i \in 1 .. Len(topic) : base <= topic[i].lsn
  /\ \A r \in raw : base <= r.lsn

LEMMA OneSnapshotStep ==
  ASSUME ~MayLoseSlot, TypeOK, Resumable, OneSnapshot, [Next]_vars
  PROVE  OneSnapshot'
<1>1. CASE Snapshot
  <2>1. /\ connector' = "streaming" /\ base' = Len(wal) /\ raw' = raw
        /\ topic = <<>> /\ raw = {}
    BY <1>1, Zenon DEF Snapshot, OneSnapshot
  <2>2. ASSUME NEW i \in 1 .. Len(topic') PROVE base' <= topic'[i].lsn
    <3> DEFINE live == {k \in Keys : SourceTable[k] # None}
               n == Cardinality(live)
    <3>1. PICK order \in [1 .. n -> live] :
            topic' = topic \o [j \in 1 .. n |->
              [key |-> order[j], row |-> SourceTable[order[j]], lsn |-> Len(wal)]]
      BY <1>1 DEF Snapshot
    <3>2. n \in Nat
      BY RowAssumption, FS_Subset, FS_CardinalityType
    <3> HIDE DEF n, live
    <3>3. topic'[i].lsn = Len(wal)
      BY <2>1, <2>2, <3>1, <3>2
    <3> QED BY <2>1, <3>3 DEF TypeOK
  <2> QED BY <2>1, <2>2 DEF OneSnapshot
<1>2. CASE Produce
  <2>1. /\ topic' = Append(topic, Message(pos + 1)) /\ pos + 1 \in 1 .. Len(wal)
        /\ UNCHANGED <<connector, base, raw>> /\ connector = "streaming"
        /\ topic \in Seq(Records)
    BY <1>2 DEF Produce, TypeOK
  <2>2. Message(pos + 1) \in Records /\ base <= Message(pos + 1).lsn
    BY <2>1, MessageHonest DEF Resumable, Registered, TypeOK
  <2>3. ASSUME NEW i \in 1 .. Len(topic') PROVE base' <= topic'[i].lsn
    BY <2>1, <2>2 DEF OneSnapshot
  <2> QED BY <2>1, <2>3 DEF OneSnapshot
<1>3. CASE InsertBlock
  <2>1. /\ UNCHANGED <<connector, base, topic>> /\ inserted' \in committed + 1 .. Len(topic)
        /\ raw' = raw \cup {topic[i] : i \in committed + 1 .. inserted'}
    BY <1>3 DEF InsertBlock
  <2>2. connector # "new"
    BY <2>1 DEF OneSnapshot, TypeOK
  <2>3. \A r \in raw' : base' <= r.lsn
    BY <2>1 DEF OneSnapshot, TypeOK
  <2> QED BY <2>1, <2>2, <2>3 DEF OneSnapshot
<1>4. CASE Merge
  BY <1>4 DEF Merge, OneSnapshot
<1>5. CASE Flush \/ ConnectorStops \/ ConnectorStarts \/ SlotLost \/ Reregister
  BY <1>5 DEF Flush, ConnectorStops, ConnectorStarts, SlotLost, Reregister, OneSnapshot
<1>6. CASE Write \/ CommitOffsets \/ ConsumerRestarts \/ UNCHANGED vars
  BY <1>6 DEF Write, CommitOffsets, ConsumerRestarts, vars, OneSnapshot
<1> QED BY <1>1, <1>2, <1>3, <1>4, <1>5, <1>6 DEF Next

(* If the slot is never lost, the staging view is the source table whenever *)
(* the pipeline is at rest, deletes included.                               *)
THEOREM ConvergedAtRest ==
  ASSUME ~MayLoseSlot
  PROVE  Spec => []DrainedIsEqual
<1>1. Init => OneSnapshot
  BY DEF Init, OneSnapshot
<1>2. TypeOK /\ Resumable /\ OneSnapshot /\ [Next]_vars => OneSnapshot'
  BY OneSnapshotStep
<1>3. TypeOK /\ DataInv /\ Resumable /\ SentCovers /\ SurvivorsAreEqual /\ OneSnapshot
        => DrainedIsEqual
  <2> SUFFICES ASSUME TypeOK, DataInv, Resumable, SentCovers, SurvivorsAreEqual,
                      OneSnapshot, Drained, NEW k \in Keys
               PROVE  Staged[k] = SourceTable[k]
    BY DEF DrainedIsEqual, Staged, SourceTable, TableAt
  <2>1. CASE SourceTable[k] # None
    BY <2>1 DEF SurvivorsAreEqual
  <2>2. CASE SourceTable[k] = None /\ Versions(k) = {}
    BY <2>2 DEF Staged
  <2>3. CASE SourceTable[k] = None /\ Versions(k) # {}
    <3>1. /\ wal \in Seq(Changes) /\ Len(wal) \in Nat /\ pos = Len(wal) /\ Registered
          /\ base \in Nat
      BY DEF TypeOK, Drained, Registered, Resumable
    <3> DEFINE v == Newest(k)
    <3>2. v \in raw /\ v.key = k
      BY <2>3, NewestIsLargest DEF DataInv, Versions
    <3> HIDE DEF v
    <3>3. v.lsn \in Nat /\ v.lsn <= Len(wal) /\ v.row = TableAt(wal, v.lsn)[k]
      BY <3>2 DEF TypeOK, Records, DataInv, RecordsHonest
    <3>4. base <= v.lsn
      BY <3>2 DEF OneSnapshot
    <3>5. Staged[k] = TableAt(wal, v.lsn)[k]
      BY <2>3, <3>3 DEF Staged, v
    <3>6. CASE Touching(wal, Len(wal), k) = {}
      <4>1. Touching(wal, v.lsn, k) = {}
        BY <3>1, <3>3, <3>6 DEF Touching
      <4> QED BY <2>3, <3>5, <4>1 DEF TableAt
    <3>7. CASE Touching(wal, Len(wal), k) # {}
      <4>1. PICK i \in Touching(wal, Len(wal), k) : \A j \in Touching(wal, Len(wal), k) : j <= i
        BY <3>1, <3>7, LastTouch
      <4>2. i \in Nat /\ i <= Len(wal)
        BY <3>1 DEF Touching
      <4>3. CASE Carries(Sent, k, i)
        BY <4>1, <4>2, <4>3, DrainedCarries, CarriedIsShown DEF DataInv
      <4>4. CASE i <= base
        <5>1. i <= v.lsn
          BY <3>1, <3>3, <3>4, <4>2, <4>4
        <5>2. TableAt(wal, v.lsn)[k] = wal[i].row /\ TableAt(wal, Len(wal))[k] = wal[i].row
          BY <3>1, <3>3, <4>1, <4>2, <5>1, Settled
        <5> QED BY <3>5, <5>2 DEF SourceTable
      <4> QED BY <3>1, <4>1, <4>3, <4>4 DEF SentCovers
    <3> QED BY <3>6, <3>7
  <2> QED BY <2>1, <2>2, <2>3
<1>4. Spec => []SurvivorsAreEqual
  BY SurvivorsArrive
<1>5. Spec => [](TypeOK /\ DataInv /\ Resumable /\ SentCovers)
  BY SendInvariant
<1> QED BY <1>1, <1>2, <1>3, <1>4, <1>5, PTL DEF Spec

---------------------------------------------------------------------------
(* The pipeline implements the replica.                                     *)

\* What had been sent by the time message j had.
Upto(t, j) == {t[h] : h \in 1 .. j}

(* R holds all that comes before LSN lsn: every change since the snapshot   *)
(* at b and, if lsn is behind the snapshot, every row of the snapshot.      *)
Preceded(w, b, R, lsn) ==
  /\ \A i \in b + 1 .. lsn : Carries(R, w[i].key, i)
  /\ b < lsn => \A k \in Keys : TableAt(w, b)[k] # None => Carries(R, k, b)

(* No record comes before what it follows at the source, although the topic *)
(* repeats what was sent before a restart, and raw what was inserted before *)
(* one.                                                                     *)
InOrder ==
  /\ connector = "new" => base = -1
  /\ \A j \in 1 .. Len(topic) : Preceded(wal, base, Upto(topic, j), topic[j].lsn)
  /\ \A r \in raw : Preceded(wal, base, raw, r.lsn)

ReplicaInv ==
  /\ ~MayLoseSlot
  /\ TypeOK /\ DataInv /\ Resumable /\ SentCovers /\ OneSnapshot /\ InOrder

LEMMA PrecededHere ==
  ASSUME NEW w \in Seq(Changes), NEW b \in Nat, NEW n \in Nat, n <= Len(w),
         NEW R, NEW R2, Preceded(w, b, R, n),
         \A k \in Keys, i \in Nat : Carries(R, k, i) => Carries(R2, k, i)
  PROVE  Preceded(w, b, R2, n)
<1>1. ASSUME NEW i \in b + 1 .. n PROVE Carries(R2, w[i].key, i)
  <2>1. i \in 1 .. Len(w) /\ i \in Nat
    OBVIOUS
  <2>2. w[i] \in Changes
    BY <2>1
  <2>3. w[i].key \in Keys
    BY <2>2 DEF Changes
  <2>4. Carries(R, w[i].key, i)
    BY DEF Preceded
  <2> QED BY <2>1, <2>3, <2>4
<1>2. b < n => \A k \in Keys : TableAt(w, b)[k] # None => Carries(R2, k, b)
  BY DEF Preceded
<1> QED BY <1>1, <1>2 DEF Preceded

LEMMA PrecededAtSnapshot ==
  ASSUME NEW w, NEW b \in Nat, NEW R
  PROVE  Preceded(w, b, R, b)
<1>1. b + 1 .. b = {} /\ ~(b < b)
  OBVIOUS
<1> QED BY <1>1 DEF Preceded

LEMMA PrecededStays ==
  ASSUME NEW w \in Seq(Changes), NEW c \in Changes, NEW b \in Nat, NEW n \in Nat,
         b <= n, n <= Len(w), NEW R, Preceded(w, b, R, n)
  PROVE  Preceded(Append(w, c), b, R, n)
<1>1. \A i \in b + 1 .. n : Append(w, c)[i] = w[i]
  OBVIOUS
<1>2. TableAt(Append(w, c), b) = TableAt(w, b)
  BY TableStable
<1> QED BY <1>1, <1>2 DEF Preceded

(* Before the snapshot nothing has been sent; after it all records carry an *)
(* LSN from it on.                                                          *)
LEMMA SnapshotFirst ==
  ASSUME ReplicaInv
  PROVE  /\ wal \in Seq(Changes) /\ Len(wal) \in Nat
         /\ base = -1 => topic = <<>> /\ raw = {}
         /\ base # -1 => base \in Nat /\ base <= Len(wal) /\ Registered
         /\ \A j \in 1 .. Len(topic) :
              /\ topic[j] \in Records /\ topic[j].lsn \in Nat
              /\ base <= topic[j].lsn /\ topic[j].lsn <= Len(wal)
         /\ \A r \in raw : /\ r \in Records /\ r.lsn \in Nat /\ r.key \in Keys
                           /\ base <= r.lsn /\ r.lsn <= Len(wal)
<1> USE DEF ReplicaInv
<1>1. wal \in Seq(Changes) /\ Len(wal) \in Nat /\ base \in -1 .. Len(wal)
  BY DEF TypeOK
<1>2. connector = "new" \/ Registered
  BY DEF TypeOK, OneSnapshot, Registered
<1>3. Registered => base \in Nat /\ connector # "new"
  BY <1>1 DEF Resumable, Registered
<1>4. \A j \in 1 .. Len(topic) : topic[j] \in Records /\ Honest(topic[j])
  BY DEF TypeOK, DataInv, TopicHonest
<1>5. \A r \in raw : r \in Records /\ r.lsn <= Len(wal)
  BY DEF TypeOK, DataInv, RecordsHonest
<1>6. \A r \in Records : r.lsn \in Nat /\ r.key \in Keys
  BY DEF Records
<1>7. \A j \in 1 .. Len(topic) : topic[j].lsn <= Len(wal)
  BY <1>4 DEF Honest
<1>8. connector = "new" => base = -1 /\ topic = <<>> /\ raw = {}
  BY DEF OneSnapshot, InOrder
<1>9. base = -1 => connector = "new"
  BY <1>2, <1>3
<1>10. base # -1 => base \in Nat /\ base <= Len(wal) /\ Registered
  BY <1>1, <1>2, <1>8
<1>11. /\ \A j \in 1 .. Len(topic) : base <= topic[j].lsn
       /\ \A r \in raw : base <= r.lsn
  BY DEF OneSnapshot
<1> QED BY <1>1, <1>4, <1>5, <1>6, <1>7, <1>8, <1>9, <1>10, <1>11

(* When the next change is sent, all that comes before it has been.         *)
LEMMA ProducedInOrder ==
  ASSUME ReplicaInv, Registered, pos < Len(wal)
  PROVE  Preceded(wal, base, Sent \cup {Message(pos + 1)}, pos + 1)
<1> DEFINE R == Sent \cup {Message(pos + 1)}
<1>1. /\ wal \in Seq(Changes) /\ Len(wal) \in Nat /\ base \in Nat /\ base <= pos
      /\ pos \in Nat /\ pos + 1 \in 1 .. Len(wal)
  BY SnapshotFirst DEF ReplicaInv, Resumable, TypeOK
<1>2. \A k, i : Carries(Sent, k, i) => Carries(R, k, i)
  BY DEF Carries
<1>3. ASSUME NEW i \in base + 1 .. pos + 1 PROVE Carries(R, wal[i].key, i)
  <2>1. CASE i = pos + 1
    <3>1. Message(i).key = wal[i].key /\ Message(i).lsn = i /\ Message(i) \in R /\ i \in Nat
      BY <1>1, <2>1 DEF Message
    <3> QED BY <3>1 DEF Carries
  <2>2. CASE i # pos + 1
    <3>1. i \in 1 .. pos /\ i \in 1 .. Len(wal) /\ ~(i <= base)
      BY <1>1, <2>2
    <3>2. wal[i] \in Changes
      BY <1>1, <3>1
    <3>3. wal[i].key \in Keys /\ i \in Touching(wal, pos, wal[i].key)
      BY <3>1, <3>2 DEF Changes, Touching
    <3>4. Carries(Sent, wal[i].key, i)
      BY <3>1, <3>3 DEF ReplicaInv, SentCovers
    <3> QED BY <1>2, <3>4
  <2> QED BY <2>1, <2>2
<1>4. ASSUME NEW k \in Keys, TableAt(wal, base)[k] # None PROVE Carries(R, k, base)
  <2>1. Touching(wal, base, k) # {}
    BY <1>4 DEF TableAt
  <2>2. PICK i \in Touching(wal, base, k) : TRUE
    BY <2>1
  <2>3. i \in Touching(wal, pos, k)
    BY <1>1, <2>2 DEF Touching
  <2>4. Carries(Sent, k, i)
    BY <1>4, <2>3 DEF ReplicaInv, SentCovers
  <2>5. PICK j \in 1 .. Len(topic) : topic[j].key = k
    BY <2>4 DEF Carries, Sent
  <2>6. base <= topic[j].lsn /\ topic[j] \in R
    BY SnapshotFirst DEF Sent
  <2> QED BY <2>5, <2>6 DEF Carries
<1> QED BY <1>3, <1>4 DEF Preceded

LEMMA InOrderStep ==
  ASSUME ReplicaInv, OneSnapshot', [Next]_vars
  PROVE  InOrder'
<1>1. /\ wal \in Seq(Changes) /\ Len(wal) \in Nat
      /\ topic \in Seq(Records) /\ Len(topic) \in Nat
  <2>1. TypeOK
    BY DEF ReplicaInv
  <2> QED BY <2>1 DEF TypeOK
<1> USE DEF ReplicaInv
<1>2. ASSUME NEW j \in 1 .. Len(topic)
      PROVE  base \in Nat /\ topic[j].lsn \in Nat /\ base <= topic[j].lsn
             /\ topic[j].lsn <= Len(wal) /\ Preceded(wal, base, Upto(topic, j), topic[j].lsn)
  <2>1. topic # <<>>
    BY <1>1
  <2> QED BY <2>1, SnapshotFirst DEF InOrder
<1>3. ASSUME NEW r \in raw
      PROVE  base \in Nat /\ r.lsn \in Nat /\ base <= r.lsn /\ r.lsn <= Len(wal)
             /\ Preceded(wal, base, raw, r.lsn)
  BY SnapshotFirst DEF InOrder
<1>4. CASE Write
  <2>1. PICK k \in Keys, v \in Values \cup {None} : wal' = Append(wal, [key |-> k, row |-> v])
    BY <1>4 DEF Write
  <2>2. [key |-> k, row |-> v] \in Changes
    BY DEF Changes
  <2>3. UNCHANGED <<connector, base, topic, raw>>
    BY <1>4 DEF Write
  <2>4. \A j \in 1 .. Len(topic) : Preceded(wal', base, Upto(topic, j), topic[j].lsn)
    BY <1>1, <1>2, <2>1, <2>2, PrecededStays
  <2>5. \A r \in raw : Preceded(wal', base, raw, r.lsn)
    BY <1>1, <1>3, <2>1, <2>2, PrecededStays
  <2> QED BY <2>3, <2>4, <2>5 DEF InOrder
<1>5. CASE Snapshot
  <2>1. /\ connector' = "streaming" /\ base' = Len(wal) /\ wal' = wal /\ raw' = {}
        /\ topic = <<>>
    <3>1. /\ connector = "new" /\ connector' = "streaming" /\ base' = Len(wal)
          /\ wal' = wal /\ raw' = raw
      BY <1>5, Zenon DEF Snapshot
    <3> QED BY <3>1 DEF OneSnapshot
  <2>2. ASSUME NEW j \in 1 .. Len(topic')
        PROVE  Preceded(wal', base', Upto(topic', j), topic'[j].lsn)
    <3>1. topic'[j] \in Records /\ Honest(topic'[j])
      BY <1>5, <2>1, SnapshotTopic
    <3>2. topic'[j].lsn \in Nat /\ topic'[j].lsn <= base'
      BY <2>1, <3>1 DEF Records, Honest
    <3>3. base' <= topic'[j].lsn
      BY DEF OneSnapshot
    <3>4. topic'[j].lsn = base' /\ base' \in Nat
      BY <1>1, <2>1, <3>2, <3>3
    <3> QED BY <3>4, PrecededAtSnapshot
  <2> QED BY <2>1, <2>2 DEF InOrder
<1>6. CASE Produce
  <2> DEFINE m == Message(pos + 1)
  <2>1. /\ UNCHANGED <<connector, wal, base, raw>> /\ topic' = Append(topic, m)
        /\ Registered /\ pos < Len(wal) /\ pos + 1 \in 1 .. Len(wal)
    BY <1>6 DEF Produce, Registered, TypeOK
  <2>2. m \in Records /\ m.lsn = pos + 1
    BY <2>1, MessageHonest
  <2> HIDE DEF m
  <2>3. /\ Len(topic') = Len(topic) + 1 /\ topic'[Len(topic) + 1] = m
        /\ \A j \in 1 .. Len(topic) : topic'[j] = topic[j]
    BY <1>1, <2>1, <2>2
  <2>4. ASSUME NEW j \in 1 .. Len(topic)
        PROVE  Preceded(wal, base, Upto(topic', j), topic'[j].lsn)
    <3>1. Upto(topic', j) = Upto(topic, j)
      BY <1>1, <2>3 DEF Upto
    <3> QED BY <1>2, <2>3, <3>1
  <2>5. Upto(topic', Len(topic) + 1) = Sent \cup {m}
    <3>1. \A h \in 1 .. Len(topic) + 1 : h \in 1 .. Len(topic) \/ h = Len(topic) + 1
      BY <1>1
    <3>2. 1 .. Len(topic) \subseteq 1 .. Len(topic) + 1 /\ Len(topic) + 1 \in 1 .. Len(topic) + 1
      BY <1>1
    <3>3. Upto(topic', Len(topic) + 1) \subseteq Sent \cup {m}
      BY <2>3, <3>1 DEF Upto, Sent
    <3>4. Sent \subseteq Upto(topic', Len(topic) + 1)
      BY <2>3, <3>2 DEF Upto, Sent
    <3>5. m \in Upto(topic', Len(topic) + 1)
      BY <2>3, <3>2 DEF Upto
    <3> QED BY <3>3, <3>4, <3>5
  <2>6. Preceded(wal, base, Upto(topic', Len(topic) + 1), topic'[Len(topic) + 1].lsn)
    BY <2>1, <2>2, <2>3, <2>5, ProducedInOrder DEF m
  <2>7. \A j \in 1 .. Len(topic') : Preceded(wal, base, Upto(topic', j), topic'[j].lsn)
    <3>1. \A j \in 1 .. Len(topic') : j \in 1 .. Len(topic) \/ j = Len(topic) + 1
      BY <1>1, <2>3
    <3> QED BY <2>4, <2>6, <3>1
  <2> QED BY <2>1, <2>7 DEF InOrder
<1>7. CASE InsertBlock
  <2>1. /\ UNCHANGED <<connector, wal, base, topic>> /\ inserted = committed
        /\ inserted' \in committed + 1 .. Len(topic)
        /\ raw' = raw \cup {topic[i] : i \in committed + 1 .. inserted'}
    BY <1>7 DEF InsertBlock
  <2>2. committed \in Nat /\ inserted' \in Nat /\ inserted' <= Len(topic)
    BY <1>1, <2>1 DEF TypeOK
  <2>3. ASSUME NEW r \in raw PROVE Preceded(wal, base, raw', r.lsn)
    <3>1. \A k \in Keys, i \in Nat : Carries(raw, k, i) => Carries(raw', k, i)
      BY <2>1 DEF Carries
    <3> QED BY <1>1, <1>3, <3>1, PrecededHere
  <2>4. ASSUME NEW j \in committed + 1 .. inserted'
        PROVE  Preceded(wal, base, raw', topic[j].lsn)
    <3>1. j \in 1 .. Len(topic)
      BY <1>1, <2>2
    <3>2. ASSUME NEW k \in Keys, NEW i \in Nat, Carries(Upto(topic, j), k, i)
          PROVE  Carries(raw', k, i)
      <4>1. PICK h \in 1 .. j : topic[h].key = k /\ i <= topic[h].lsn
        BY <3>2 DEF Carries, Upto
      <4>2. h \in 1 .. Len(topic) /\ topic[h].lsn \in Nat
        BY <1>1, <1>2, <3>1, <4>1
      <4>3. CASE h \in committed + 1 .. inserted'
        <5>1. topic[h] \in raw'
          BY <2>1, <4>3
        <5> QED BY <4>1, <5>1 DEF Carries
      <4>4. CASE h \notin committed + 1 .. inserted'
        <5>1. h \in 1 .. inserted
          BY <2>1, <2>2, <4>1, <4>4
        <5>2. PICK r \in raw : r.key = k /\ topic[h].lsn <= r.lsn
          BY <4>1, <5>1 DEF DataInv, InsertedIsStored, Carries
        <5>3. i <= r.lsn /\ r \in raw'
          BY <1>3, <2>1, <4>1, <4>2, <5>2
        <5> QED BY <5>2, <5>3 DEF Carries
      <4> QED BY <4>3, <4>4
    <3> QED BY <1>1, <1>2, <3>1, <3>2, PrecededHere
  <2>5. \A r \in raw' : r \in raw \/ \E j \in committed + 1 .. inserted' : r = topic[j]
    BY <2>1
  <2>6. \A r \in raw' : Preceded(wal, base, raw', r.lsn)
    BY <2>3, <2>4, <2>5
  <2> QED BY <2>1, <2>6 DEF InOrder
<1>8. CASE Merge
  <2>1. UNCHANGED <<connector, wal, base, topic>> /\ raw' \subseteq raw
    BY <1>8 DEF Merge
  <2>2. \A k \in Keys, i \in Nat : Carries(raw, k, i) => Carries(raw', k, i)
    BY StaysCarried
  <2>3. \A r \in raw : Preceded(wal, base, raw', r.lsn)
    BY <1>1, <1>3, <2>2, PrecededHere
  <2> QED BY <2>1, <2>3 DEF InOrder
<1>9. CASE Flush \/ ConnectorStops \/ ConnectorStarts \/ SlotLost \/ Reregister
           \/ CommitOffsets \/ ConsumerRestarts \/ UNCHANGED vars
  <2>1. UNCHANGED <<wal, base, topic, raw>> /\ (connector' = "new" => connector = "new")
    BY <1>9 DEF Flush, ConnectorStops, ConnectorStarts, SlotLost, Reregister, CommitOffsets,
                ConsumerRestarts, vars, OneSnapshot
  <2> QED BY <2>1 DEF InOrder
<1> QED BY <1>4, <1>5, <1>6, <1>7, <1>8, <1>9 DEF Next

LEMMA ReplicaInvariant ==
  ASSUME ~MayLoseSlot
  PROVE  Spec => []ReplicaInv
<1>1. Init => OneSnapshot /\ InOrder
  BY DEF Init, OneSnapshot, InOrder
<1>2. TypeOK /\ Resumable /\ OneSnapshot /\ [Next]_vars => OneSnapshot'
  BY OneSnapshotStep
<1>3. ReplicaInv /\ OneSnapshot' /\ [Next]_vars => InOrder'
  BY InOrderStep
<1>4. Spec => [](TypeOK /\ DataInv /\ Resumable /\ SentCovers)
  BY SendInvariant
<1> QED BY <1>1, <1>2, <1>3, <1>4, PTL DEF Spec, ReplicaInv

(* While the first snapshot is being loaded, a reader sees its rows only.   *)
LEMMA LoadingView ==
  ASSUME ReplicaInv, ~LoadDone
  PROVE  /\ Shown = 0
         /\ base # -1 => base > 0
         /\ \A k \in Keys : Versions(k) = {} => Staged[k] = None
         /\ \A k \in Keys : Versions(k) # {} => Staged[k] = TableAt(wal, base)[k]
<1>1. Shown = 0
  BY DEF Shown
<1>2. /\ wal \in Seq(Changes) /\ Len(wal) \in Nat
      /\ base # -1 => base \in Nat /\ base <= Len(wal)
  BY SnapshotFirst
<1>3. base # -1 => \E k \in Keys : TableAt(wal, base)[k] # None /\ Versions(k) = {}
  BY DEF LoadDone
<1>4. base # -1 => base > 0
  <2> SUFFICES ASSUME base = 0 PROVE FALSE
    BY <1>2
  <2>1. \A k \in Keys : Touching(wal, base, k) = {}
    BY DEF Touching
  <2> QED BY <1>3, <2>1 DEF TableAt
<1>5. ASSUME NEW k \in Keys, Versions(k) # {}
      PROVE  Staged[k] = TableAt(wal, base)[k]
  <2> DEFINE v == Newest(k)
  <2>1. v \in raw /\ v.key = k
    BY <1>5, NewestIsLargest DEF ReplicaInv, DataInv, Versions
  <2>2. Staged[k] = v.row
    BY <1>5 DEF Staged
  <2> HIDE DEF v
  <2>3. base # -1 /\ v.lsn \in Nat /\ base <= v.lsn
    BY <2>1, SnapshotFirst
  <2>4. ~(base < v.lsn)
    <3> SUFFICES ASSUME base < v.lsn PROVE FALSE
      OBVIOUS
    <3>1. \A l \in Keys : TableAt(wal, base)[l] # None => Carries(raw, l, base)
      BY <2>1 DEF ReplicaInv, InOrder, Preceded
    <3>2. \A l \in Keys : TableAt(wal, base)[l] # None => Versions(l) # {}
      BY <3>1 DEF Carries, Versions
    <3> QED BY <1>3, <2>3, <3>2
  <2>5. v.lsn = base
    BY <1>2, <2>3, <2>4
  <2>6. v.row = TableAt(wal, v.lsn)[k]
    BY <2>1 DEF ReplicaInv, DataInv, RecordsHonest
  <2> QED BY <2>2, <2>5, <2>6
<1>6. \A k \in Keys : Versions(k) = {} => Staged[k] = None
  BY DEF Staged
<1> QED BY <1>1, <1>4, <1>5, <1>6

(* A key that no change between two LSNs touches has the same row at both.  *)
LEMMA Untouched ==
  ASSUME NEW w \in Seq(Changes), NEW k \in Keys, NEW m \in Nat, NEW n \in Nat,
         m <= n, n <= Len(w), \A i \in m + 1 .. n : w[i].key # k
  PROVE  TableAt(w, n)[k] = TableAt(w, m)[k]
<1>1. Touching(w, n, k) = Touching(w, m, k)
  <2>1. \A i \in 1 .. n : i \in 1 .. m \/ i \in m + 1 .. n
    OBVIOUS
  <2>2. \A i \in 1 .. m : i \in 1 .. n
    OBVIOUS
  <2> QED BY <2>1, <2>2 DEF Touching
<1> QED BY <1>1 DEF TableAt

LEMMA ShownIs ==
  ASSUME ReplicaInv, LoadDone
  PROVE  /\ Shown \in base .. Len(wal) /\ base \in Nat
         /\ \A r \in raw : r.lsn <= Shown
         /\ Shown = base \/ \E r \in raw : r.lsn = Shown
<1> DEFINE T == {base} \cup {r.lsn : r \in raw}
<1>1. /\ Len(wal) \in Nat /\ base \in Nat /\ base <= Len(wal)
      /\ \A r \in raw : r.lsn \in Nat /\ base <= r.lsn /\ r.lsn <= Len(wal)
  BY SnapshotFirst DEF LoadDone
<1>2. T \in SUBSET (0 .. Len(wal)) /\ T # {} /\ base \in T
  BY <1>1
<1> HIDE DEF T
<1>3. PICK m \in T : \A j \in T : j <= m
  BY <1>1, <1>2, Largest
<1>4. T \in SUBSET Nat
  BY <1>2
<1>5. Last(T) = m
  BY <1>3, <1>4, LastIs
<1>6. Shown = m
  BY <1>5 DEF Shown, T
<1>7. m \in base .. Len(wal)
  BY <1>1, <1>2, <1>3
<1>8. \A r \in raw : r.lsn <= m
  BY <1>3 DEF T
<1>9. m = base \/ \E r \in raw : r.lsn = m
  BY DEF T
<1> QED BY <1>1, <1>6, <1>7, <1>8, <1>9

(* After the load a reader sees the source as it was at the newest LSN that *)
(* has arrived.                                                             *)
LEMMA PrefixView ==
  ASSUME ReplicaInv, LoadDone
  PROVE  Staged = TableAt(wal, Shown)
<1> DEFINE S == Shown
<1>1. /\ S \in base .. Len(wal) /\ base \in Nat
      /\ \A r \in raw : r.lsn <= S
      /\ S = base \/ \E r \in raw : r.lsn = S
  BY ShownIs
<1> HIDE DEF S
<1>2. wal \in Seq(Changes) /\ Len(wal) \in Nat /\ S \in Nat /\ S <= Len(wal) /\ base <= S
  BY <1>1, SnapshotFirst
<1>3. ASSUME NEW i \in base + 1 .. S
      PROVE  Carries(raw, wal[i].key, i)
  <2>1. PICK r \in raw : r.lsn = S
    BY <1>1, <1>2
  <2> QED BY <2>1 DEF ReplicaInv, InOrder, Preceded
<1>4. ASSUME NEW k \in Keys PROVE Staged[k] = TableAt(wal, S)[k]
  <2>1. CASE Versions(k) = {}
    <3>1. ASSUME NEW i \in base + 1 .. S PROVE wal[i].key # k
      BY <1>3, <2>1 DEF Carries, Versions
    <3>2. TableAt(wal, S)[k] = TableAt(wal, base)[k]
      BY <1>1, <1>2, <3>1, Untouched
    <3>3. TableAt(wal, base)[k] = None
      BY <2>1 DEF LoadDone
    <3> QED BY <2>1, <3>2, <3>3 DEF Staged
  <2>2. CASE Versions(k) # {}
    <3> DEFINE v == Newest(k)
    <3>1. v \in raw /\ v.key = k /\ \A q \in Versions(k) : q.lsn <= v.lsn
      BY <2>2, NewestIsLargest DEF ReplicaInv, DataInv, Versions
    <3>2. Staged[k] = v.row
      BY <2>2 DEF Staged
    <3> HIDE DEF v
    <3>3. v.lsn \in Nat /\ base <= v.lsn /\ v.lsn <= S /\ v.row = TableAt(wal, v.lsn)[k]
      BY <1>1, <3>1, SnapshotFirst DEF ReplicaInv, DataInv, RecordsHonest
    <3>4. ASSUME NEW i \in v.lsn + 1 .. S PROVE wal[i].key # k
      <4> SUFFICES ASSUME wal[i].key = k PROVE FALSE
        OBVIOUS
      <4>1. i \in base + 1 .. S
        BY <1>1, <3>3
      <4>2. PICK q \in raw : q.key = k /\ i <= q.lsn
        BY <1>3, <4>1 DEF Carries
      <4>3. q.lsn <= v.lsn /\ q.lsn \in Nat
        BY <3>1, <4>2, SnapshotFirst DEF Versions
      <4> QED BY <3>3, <4>2, <4>3
    <3>5. TableAt(wal, S)[k] = TableAt(wal, v.lsn)[k]
      BY <1>2, <3>3, <3>4, Untouched
    <3> QED BY <3>2, <3>3, <3>5
  <2> QED BY <2>1, <2>2
<1> QED BY <1>4 DEF Staged, TableAt, S

LEMMA SameTable ==
  ASSUME NEW w, NEW n
  PROVE  Promise!TableAt(w, n) = TableAt(w, n)
BY DEF Promise!TableAt, TableAt, Promise!Touching, Touching, Promise!Last, Last

LEMMA InitReplica == Init => Promise!Init
BY DEF Init, Promise!Init, Promise!Empty, Shown, LoadDone, Staged, Versions

(* A step that changes neither raw nor the snapshot is not seen.            *)
LEMMA Unseen ==
  ASSUME raw' = raw, base' = base, base # -1 => TableAt(wal', base) = TableAt(wal, base)
  PROVE  Shown' = Shown /\ Staged' = Staged
<1>1. \A k : Versions(k)' = Versions(k)
  BY DEF Versions
<1>2. \A k : Newest(k)' = Newest(k)
  BY <1>1 DEF Newest
<1>3. Staged' = Staged
  BY <1>1, <1>2 DEF Staged
<1>4. LoadDone' <=> LoadDone
  BY <1>1 DEF LoadDone
<1>5. Shown' = Shown
  BY <1>4 DEF Shown
<1> QED BY <1>3, <1>5

LEMMA WriteCommits ==
  ASSUME ReplicaInv, Write
  PROVE  Promise!Commit
<1>1. PICK k \in Keys, v \in Values \cup {None} : wal' = Append(wal, [key |-> k, row |-> v])
  BY DEF Write
<1> DEFINE c == [key |-> k, row |-> v]
<1>2. c \in Changes /\ c \in Promise!Changes
  BY DEF Changes, Promise!Changes
<1>3. raw' = raw /\ base' = base
  BY DEF Write
<1>4. base # -1 => TableAt(wal', base) = TableAt(wal, base)
  BY <1>1, <1>2, SnapshotFirst, TableStable
<1>5. Shown' = Shown /\ Staged' = Staged
  BY <1>3, <1>4, Unseen
<1> QED BY <1>1, <1>2, <1>3, <1>5 DEF Promise!Commit

LEMMA SnapshotStarts ==
  ASSUME ReplicaInv, Snapshot
  PROVE  Promise!StartLoad
<1>1. connector = "new" /\ base' = Len(wal) /\ wal' = wal /\ raw' = raw
  BY Zenon DEF Snapshot
<1>2. base = -1 /\ raw = {}
  BY <1>1 DEF ReplicaInv, InOrder, OneSnapshot
<1>3. Len(wal) \in Nat
  BY SnapshotFirst
<1>4. \A k : Versions(k) = {} /\ Versions(k)' = {}
  BY <1>1, <1>2 DEF Versions
<1>5. Staged = [k \in Keys |-> None] /\ Staged' = Staged
  BY <1>4 DEF Staged
<1>6. Shown = 0
  BY <1>2 DEF Shown, LoadDone
<1>7. CASE ~LoadDone'
  <2>1. Shown' = 0
    BY <1>7 DEF Shown
  <2> QED BY <1>1, <1>2, <1>5, <1>6, <2>1 DEF Promise!StartLoad
<1>8. CASE LoadDone'
  <2>1. \A k \in Keys : TableAt(wal, Len(wal))[k] = None
    BY <1>1, <1>4, <1>8 DEF LoadDone
  <2>2. Staged = TableAt(wal, Len(wal))
    BY <1>5, <2>1 DEF TableAt
  <2>3. Shown' = Last({Len(wal)} \cup {r.lsn : r \in {}})
    BY <1>1, <1>2, <1>8 DEF Shown
  <2>4. {Len(wal)} \cup {r.lsn : r \in {}} = {Len(wal)}
    OBVIOUS
  <2>5. Last({Len(wal)}) = Len(wal)
    BY <1>3, LastIs
  <2>6. Shown' = Len(wal)
    BY <2>3, <2>4, <2>5
  <2> QED BY <1>1, <1>2, <1>5, <2>2, <2>6, SameTable DEF Promise!StartLoad
<1> QED BY <1>7, <1>8

(* A step at ClickHouse, or one that is not seen, loads some rows of the    *)
(* snapshot or reveals a longer prefix.                                     *)
LEMMA OtherShows ==
  ReplicaInv /\ ReplicaInv' /\ [Next]_vars /\ UNCHANGED <<wal, base>>
    => Promise!Load \/ Promise!Reveal \/ UNCHANGED Promise!vars
<1>1. (ReplicaInv => (base = -1 => raw = {}))'
  <2>1. ReplicaInv => (base = -1 => raw = {})
    BY SnapshotFirst
  <2> QED BY <2>1, PTL
<1>2. (ReplicaInv /\ ~LoadDone =>
        /\ Shown = 0
        /\ \A k \in Keys : Versions(k) = {} => Staged[k] = None
        /\ \A k \in Keys : Versions(k) # {} => Staged[k] = TableAt(wal, base)[k])'
  <2>1. ReplicaInv /\ ~LoadDone =>
        /\ Shown = 0
        /\ \A k \in Keys : Versions(k) = {} => Staged[k] = None
        /\ \A k \in Keys : Versions(k) # {} => Staged[k] = TableAt(wal, base)[k]
    BY LoadingView
  <2> QED BY <2>1, PTL
<1>3. (ReplicaInv /\ LoadDone =>
        /\ Shown \in base .. Len(wal)
        /\ \A r \in raw : r.lsn <= Shown
        /\ Staged = TableAt(wal, Shown))'
  <2>1. ReplicaInv /\ LoadDone =>
        /\ Shown \in base .. Len(wal)
        /\ \A r \in raw : r.lsn <= Shown
        /\ Staged = TableAt(wal, Shown)
    BY ShownIs, PrefixView
  <2> QED BY <2>1, PTL
<1> SUFFICES ASSUME ReplicaInv, ReplicaInv', [Next]_vars, UNCHANGED <<wal, base>>
             PROVE  Promise!Load \/ Promise!Reveal \/ UNCHANGED Promise!vars
  OBVIOUS
<1>4. /\ wal \in Seq(Changes) /\ Len(wal) \in Nat
      /\ base = -1 => raw = {}
      /\ base # -1 => base \in Nat /\ base <= Len(wal)
  BY SnapshotFirst
<1>5. \A k \in Keys : Versions(k) # {} => Versions(k)' # {}
  <2> SUFFICES ASSUME NEW k \in Keys, Versions(k) # {} PROVE Versions(k)' # {}
    OBVIOUS
  <2>1. PICK r \in raw : r.key = k
    BY DEF Versions
  <2>2. r.lsn \in Nat
    BY <2>1, SnapshotFirst
  <2>3. Carries(raw, k, r.lsn)
    BY <2>1, <2>2 DEF Carries
  <2>4. Carries(raw', k, r.lsn)
    BY <2>2, <2>3, StaysCarried DEF ReplicaInv
  <2> QED BY <2>4 DEF Carries, Versions
<1>6. LoadDone => LoadDone'
  BY <1>5 DEF LoadDone
<1>7. CASE base = -1
  <2>1. raw' = raw
    BY <1>1, <1>4, <1>7
  <2> QED BY <2>1, Unseen DEF Promise!vars
<1>8. CASE base # -1 /\ ~LoadDone'
  <2>1. ~LoadDone /\ Shown = 0 /\ base > 0
    BY <1>6, <1>8, LoadingView
  <2>2. Shown' = 0
    BY <1>2, <1>8
  <2>3. TableAt(wal, base) \in [Keys -> Values \cup {None}]
    BY <1>4, <1>8, TableType
  <2>4. ASSUME NEW k \in Keys
        PROVE  Staged'[k] \in {Staged[k], TableAt(wal, base)[k]}
    <3>1. CASE Versions(k)' = {}
      <4>1. Staged'[k] = None
        BY <1>2, <1>8, <3>1
      <4>2. Staged[k] = None
        BY <1>5, <2>1, <3>1, LoadingView
      <4> QED BY <4>1, <4>2
    <3>2. CASE Versions(k)' # {}
      BY <1>2, <1>8, <3>2
    <3> QED BY <3>1, <3>2
  <2>5. \A k \in Keys : Staged'[k] \in Values \cup {None}
    <3> SUFFICES ASSUME NEW k \in Keys PROVE Staged'[k] \in Values \cup {None}
      OBVIOUS
    <3>1. CASE Versions(k)' = {}
      BY <1>2, <1>8, <3>1
    <3>2. CASE Versions(k)' # {}
      BY <1>2, <1>8, <2>3, <3>2
    <3> QED BY <3>1, <3>2
  <2>6. Staged' \in [Keys -> Values \cup {None}]
    BY <2>5 DEF Staged
  <2> QED BY <2>1, <2>2, <2>4, <2>6, SameTable DEF Promise!Load
<1>9. CASE base # -1 /\ LoadDone'
  <2>1. Shown' \in base .. Len(wal) /\ Staged' = TableAt(wal, Shown')
    BY <1>3, <1>9
  <2>2. CASE ~LoadDone
    <3>1. Shown < Shown'
      BY <1>4, <1>9, <2>1, <2>2, LoadingView
    <3> QED BY <1>9, <2>1, <3>1, SameTable DEF Promise!Reveal
  <2>3. CASE LoadDone
    <3>1. /\ Shown \in base .. Len(wal) /\ base \in Nat
          /\ Shown = base \/ \E r \in raw : r.lsn = Shown
          /\ Staged = TableAt(wal, Shown)
      BY <2>3, ShownIs, PrefixView
    <3>2. Shown <= Shown'
      <4>1. CASE Shown = base
        BY <1>4, <2>1, <3>1, <4>1
      <4>2. ASSUME NEW r \in raw, r.lsn = Shown PROVE Shown <= Shown'
        <5>1. r.lsn \in Nat /\ r.key \in Keys
          BY SnapshotFirst
        <5>2. Carries(raw, r.key, r.lsn)
          BY <5>1 DEF Carries
        <5>3. Carries(raw', r.key, r.lsn)
          BY <5>1, <5>2, StaysCarried DEF ReplicaInv
        <5>4. PICK q \in raw' : r.lsn <= q.lsn
          BY <5>3 DEF Carries
        <5>5. q.lsn <= Shown' /\ q.lsn \in Nat
          BY <1>3, <1>9, <5>4 DEF ReplicaInv, TypeOK, Records
        <5> QED BY <1>4, <2>1, <3>1, <4>2, <5>4, <5>5
      <4> QED BY <3>1, <4>1, <4>2
    <3>3. CASE Shown = Shown'
      BY <2>1, <3>1, <3>3 DEF Promise!vars
    <3>4. CASE Shown # Shown'
      <4>1. Shown < Shown'
        BY <1>4, <2>1, <3>1, <3>2, <3>4
      <4> QED BY <1>9, <2>1, <4>1, SameTable DEF Promise!Reveal
    <3> QED BY <3>3, <3>4
  <2> QED BY <2>2, <2>3
<1> QED BY <1>7, <1>8, <1>9

LEMMA StepReplicates ==
  ReplicaInv /\ ReplicaInv' /\ [Next]_vars => [Promise!Next]_(Promise!vars)
<1> SUFFICES ASSUME ReplicaInv, ReplicaInv', [Next]_vars
             PROVE  Promise!Next \/ UNCHANGED Promise!vars
  OBVIOUS
<1> USE DEF Promise!Next
<1>1. CASE Write
  BY <1>1, WriteCommits
<1>2. CASE Snapshot
  BY <1>2, SnapshotStarts
<1>3. CASE UNCHANGED <<wal, base>>
  BY <1>3, OtherShows
<1>4. Write \/ Snapshot \/ UNCHANGED <<wal, base>>
  BY Zenon DEF Next, vars, Produce, Flush, ConnectorStops, ConnectorStarts, SlotLost,
               Reregister, InsertBlock, CommitOffsets, ConsumerRestarts, Merge
<1> QED BY <1>1, <1>2, <1>3, <1>4

(* If no slot is lost, the connector, the topic, the Kafka engine and the   *)
(* merges together keep the promise of Replica: apart from the first load,  *)
(* a reader of staging sees the source as it was after some prefix of its   *)
(* changes, whole rows of it and never a mixture, and the prefix only grows. *)
THEOREM PipelineIsReplica ==
  ASSUME ~MayLoseSlot
  PROVE  Spec => ImplementsReplica
<1>1. Init => Promise!Init
  BY InitReplica
<1>2. ReplicaInv /\ ReplicaInv' /\ [Next]_vars => [Promise!Next]_(Promise!vars)
  BY StepReplicates
<1>3. Spec => []ReplicaInv
  BY ReplicaInvariant
<1> QED BY <1>1, <1>2, <1>3, PTL DEF Spec, ImplementsReplica, Promise!Spec

---------------------------------------------------------------------------
(* What a sensor that looks at the newest row may conclude.                 *)

(* Whatever record a reader finds, no change from before it is on its way:  *)
(* its key reads at that change or a later one, unless the row was gone     *)
(* when the snapshot was taken.                                             *)
NothingBehind ==
  LoadDone =>
    \A r \in raw : \A k \in Keys : \A i \in Touching(wal, r.lsn, k) :
      i <= Version(k) \/ (i <= base /\ TableAt(wal, base)[k] = None)

(* The DAG's sensor asks only whether the newest candle of any symbol is    *)
(* fresh (crypto_analytics_pipeline.py:122).  If no slot is lost and the    *)
(* first load is over, that is enough: with that candle, every change       *)
(* committed before it has arrived, those of the other symbols too.  It     *)
(* says nothing of candles that were not in PostgreSQL by then.             *)
THEOREM SensorSeesEnough ==
  ASSUME ~MayLoseSlot
  PROVE  Spec => []NothingBehind
<1>1. ReplicaInv => NothingBehind
  <2> SUFFICES ASSUME ReplicaInv, LoadDone, NEW r \in raw, NEW k \in Keys,
                      NEW i \in Touching(wal, r.lsn, k),
                      ~(i <= base /\ TableAt(wal, base)[k] = None)
               PROVE  i <= Version(k)
    BY DEF NothingBehind
  <2>1. /\ TypeOK /\ RecordsHonest
        /\ base \in Nat /\ r.lsn \in Nat /\ \A q \in raw : q.lsn \in Nat /\ base <= q.lsn
    BY SnapshotFirst DEF ReplicaInv, DataInv, LoadDone
  <2>2. i \in 1 .. r.lsn /\ i \in Nat /\ wal[i].key = k
    BY <2>1 DEF Touching
  <2>3. CASE i <= base
    <3>1. Versions(k) # {}
      BY <2>3 DEF LoadDone
    <3>2. Newest(k) \in raw
      BY <2>1, <3>1, NewestIsLargest DEF Versions
    <3>3. base <= Newest(k).lsn /\ Newest(k).lsn \in Nat
      BY <2>1, <3>2
    <3> QED BY <2>1, <2>2, <2>3, <3>1, <3>3 DEF Version
  <2>4. CASE base < i
    <3>1. i \in base + 1 .. r.lsn
      BY <2>1, <2>2, <2>4
    <3>2. Carries(raw, k, i)
      BY <2>2, <3>1 DEF ReplicaInv, InOrder, Preceded
    <3>3. Versions(k) # {} /\ i <= Newest(k).lsn
      BY <2>1, <2>2, <3>2, VersionCarries
    <3> QED BY <3>3 DEF Version
  <2> QED BY <2>1, <2>2, <2>3, <2>4
<1>2. Spec => []ReplicaInv
  BY ReplicaInvariant
<1> QED BY <1>1, <1>2, PTL

---------------------------------------------------------------------------
(* Convergence without its fairness: the work that is left, and that there  *)
(* is always a step to do it.                                               *)

\* What the connector still has to do, in steps of the pipeline.
ToSend ==
  CASE connector = "new"       -> 2 * Cardinality(Keys) + 1
    [] connector = "streaming" -> 3 * (Len(wal) - pos)
    [] connector = "stopped"   -> 3 * (Len(wal) - flushed) + 1
    [] connector = "lost"      -> 0

\* What the Kafka engine still has to do: each message one insert, one commit.
ToLand == 2 * (Len(topic) - committed) - (IF committed < inserted THEN 1 ELSE 0)

Left == ToSend + ToLand

(* Every step the fairness of the pipeline asks for brings it nearer to its *)
(* end; only writes and failures add to what is left.                       *)
WorkShrinks ==
  [][/\ Snapshot \/ Produce \/ ConnectorStarts \/ InsertBlock \/ CommitOffsets
          => Left' < Left
     /\ Flush \/ Merge => Left' = Left]_vars

\* One of those steps is possible as long as a reader sees anything but the source.
SomeStepIsOpen ==
  \/ connector \in {"new", "stopped"}
  \/ connector = "streaming" /\ pos < Len(wal)
  \/ inserted = committed /\ committed < Len(topic)
  \/ committed < inserted

LeftIsCounted == Left \in Nat

NeverStuckShort == Staged = SourceTable \/ SomeStepIsOpen

LEMMA KeysCount == Cardinality(Keys) \in Nat
BY RowAssumption, FS_CardinalityType

LEMMA LeftType ==
  ASSUME TypeOK
  PROVE  /\ ToSend \in Nat /\ ToLand \in Nat
         /\ Len(wal) \in Nat /\ Len(topic) \in Nat
         /\ pos \in Nat /\ flushed \in Nat /\ committed \in Nat /\ inserted \in Nat
         /\ inserted <= Len(topic)
<1>1. /\ Len(wal) \in Nat /\ Len(topic) \in Nat
      /\ pos \in Nat /\ flushed \in Nat /\ committed \in Nat /\ inserted \in Nat
      /\ flushed <= pos /\ pos <= Len(wal) /\ committed <= inserted /\ inserted <= Len(topic)
  BY DEF TypeOK
<1>2. ToLand \in Nat
  BY <1>1 DEF ToLand
<1>3. ToSend \in Nat
  <2>1. /\ 2 * Cardinality(Keys) + 1 \in Nat /\ 3 * (Len(wal) - pos) \in Nat
        /\ 3 * (Len(wal) - flushed) + 1 \in Nat
    BY <1>1, KeysCount
  <2>2. connector \in {"new", "streaming", "stopped", "lost"}
    BY DEF TypeOK
  <2> QED BY <2>1, <2>2 DEF ToSend
<1> QED BY <1>1, <1>2, <1>3

\* The snapshot sends at most one message for each key.
LEMMA SnapshotIsBounded ==
  ASSUME TypeOK, Snapshot
  PROVE  Len(topic') \in Nat /\ Len(topic') <= Len(topic) + Cardinality(Keys)
<1> DEFINE live == {k \in Keys : SourceTable[k] # None}
           n == Cardinality(live)
           rows(order) == [j \in 1 .. n |->
             [key |-> order[j], row |-> SourceTable[order[j]], lsn |-> Len(wal)]]
<1>1. n \in Nat /\ n <= Cardinality(Keys)
  <2>1. live \subseteq Keys
    OBVIOUS
  <2> HIDE DEF live
  <2>2. IsFiniteSet(live) /\ Cardinality(live) <= Cardinality(Keys)
    BY <2>1, RowAssumption, FS_Subset
  <2> QED BY <2>2, FS_CardinalityType
<1>2. PICK order \in [1 .. n -> live] : topic' = topic \o rows(order)
  BY DEF Snapshot
<1>3. topic \in Seq(Records)
  BY DEF TypeOK
<1> HIDE DEF n, live
<1>4. Len(topic') = Len(topic) + n
  <2>1. DOMAIN rows(order) = 1 .. n
    OBVIOUS
  <2>2. Len(rows(order)) = n
    BY <1>1, <2>1
  <2>3. rows(order) \in [1 .. n -> {rows(order)[j] : j \in 1 .. n}]
    OBVIOUS
  <2> HIDE DEF rows
  <2>4. rows(order) \in Seq({rows(order)[j] : j \in 1 .. n})
    BY <1>1, <2>3
  <2> QED BY <1>2, <1>3, <2>2, <2>4
<1>5. Len(topic) \in Nat
  BY <1>3
<1> QED BY <1>1, <1>4, <1>5, KeysCount

LEMMA LeftShrinks ==
  ASSUME TypeOK, TypeOK',
         Snapshot \/ Produce \/ ConnectorStarts \/ InsertBlock \/ CommitOffsets
  PROVE  Left' < Left
<1> DEFINE Held == IF committed < inserted THEN 1 ELSE 0
           Lag  == Len(topic) - committed
<1>0. /\ ToSend \in Nat /\ ToLand \in Nat /\ Len(wal) \in Nat /\ Len(topic) \in Nat
      /\ pos \in Nat /\ flushed \in Nat /\ committed \in Nat /\ inserted \in Nat
      /\ inserted <= Len(topic)
  BY LeftType
<1>1. CASE Snapshot
  <2>1. /\ connector = "new" /\ connector' = "streaming"
        /\ pos' = Len(wal) /\ UNCHANGED <<wal, inserted, committed>>
    BY <1>1, Zenon DEF Snapshot
  <2>2. Len(topic') \in Nat /\ Len(topic') <= Len(topic) + Cardinality(Keys)
    BY <1>1, SnapshotIsBounded
  <2>3. ToSend = 2 * Cardinality(Keys) + 1
    BY <1>0, <2>1 DEF ToSend
  <2>4. ToSend' = 0
    <3>1. 3 * (Len(wal) - Len(wal)) = 0
      BY <1>0
    <3> QED BY <1>0, <2>1, <3>1 DEF ToSend
  <2>5. ToLand' <= ToLand + 2 * Cardinality(Keys) /\ ToLand' \in Int
    <3>1. Lag' \in Int /\ Lag' <= Lag + Cardinality(Keys) /\ Lag \in Int
      BY <1>0, <2>1, <2>2, KeysCount
    <3>2. Held' = Held /\ Held \in 0 .. 1
      BY <2>1
    <3>3. ToLand = 2 * Lag - Held /\ ToLand' = 2 * Lag' - Held'
      BY DEF ToLand
    <3> HIDE DEF Lag, Held
    <3> QED BY <3>1, <3>2, <3>3, KeysCount
  <2> QED BY <1>0, <2>3, <2>4, <2>5, KeysCount DEF Left
<1>2. CASE Produce
  <2>1. /\ connector = "streaming" /\ pos' = pos + 1
        /\ UNCHANGED <<wal, connector, inserted, committed>>
        /\ topic' = Append(topic, Message(pos + 1)) /\ topic \in Seq(Records)
    BY <1>2 DEF Produce, TypeOK
  <2>2. Len(topic') = Len(topic) + 1
    BY <1>0, <2>1
  <2>3. ToSend' = ToSend - 3
    BY <1>0, <2>1 DEF ToSend
  <2>4. ToLand' = ToLand + 2
    BY <1>0, <2>1, <2>2 DEF ToLand
  <2> QED BY <1>0, <2>3, <2>4 DEF Left
<1>3. CASE ConnectorStarts
  <2>1. /\ connector = "stopped" /\ connector' = "streaming" /\ pos' = flushed
        /\ UNCHANGED <<wal, topic, inserted, committed>>
    BY <1>3 DEF ConnectorStarts
  <2>2. ToSend' = ToSend - 1
    BY <1>0, <2>1 DEF ToSend
  <2>3. ToLand' = ToLand
    BY <1>0, <2>1 DEF ToLand
  <2> QED BY <1>0, <2>2, <2>3 DEF Left
<1>4. CASE InsertBlock
  <2>1. /\ inserted = committed /\ inserted' \in committed + 1 .. Len(topic)
        /\ UNCHANGED <<wal, connector, pos, flushed, topic, committed>>
    BY <1>4 DEF InsertBlock
  <2>2. ToSend' = ToSend
    BY <1>0, <2>1 DEF ToSend
  <2>3. ToLand' = ToLand - 1
    BY <1>0, <2>1 DEF ToLand
  <2> QED BY <1>0, <2>2, <2>3 DEF Left
<1>5. CASE CommitOffsets
  <2>1. /\ committed < inserted /\ committed' = inserted
        /\ UNCHANGED <<wal, connector, pos, flushed, topic, inserted>>
    BY <1>5 DEF CommitOffsets
  <2>2. ToSend' = ToSend
    BY <1>0, <2>1 DEF ToSend
  <2>3. PICK d \in Nat : inserted = committed + d /\ d >= 1
    <3>1. inserted - committed \in Nat /\ inserted - committed >= 1
      BY <1>0, <2>1
    <3> QED BY <1>0, <3>1
  <2>4. ToLand' = ToLand + 1 - 2 * d
    BY <1>0, <2>1, <2>3 DEF ToLand
  <2> QED BY <1>0, <2>2, <2>3, <2>4 DEF Left
<1> QED BY <1>1, <1>2, <1>3, <1>4, <1>5

(* The work that is left is finite, and every step of the connector and of  *)
(* the Kafka engine leaves less: between two writes or failures they take   *)
(* at most Left steps, whatever the block size and the merges.              *)
THEOREM WorkRunsOut == Spec => WorkShrinks /\ []LeftIsCounted
<1>1. TypeOK => LeftIsCounted
  BY LeftType DEF Left, LeftIsCounted
<1>2. TypeOK /\ TypeOK' /\ [Next]_vars
        => [/\ Snapshot \/ Produce \/ ConnectorStarts \/ InsertBlock \/ CommitOffsets
                 => Left' < Left
            /\ Flush \/ Merge => Left' = Left]_vars
  <2>1. ASSUME Flush \/ Merge PROVE Left' = Left
    <3>1. UNCHANGED <<wal, connector, pos, topic, inserted, committed>>
          /\ (connector = "stopped" => UNCHANGED flushed)
      BY <2>1 DEF Flush, Merge
    <3>2. ToLand' = ToLand
      BY <3>1 DEF ToLand
    <3>3. ToSend' = ToSend
      BY <3>1 DEF ToSend
    <3> QED BY <3>2, <3>3 DEF Left
  <2> QED BY <2>1, LeftShrinks
<1> QED BY <1>1, <1>2, TypeCorrect, PTL DEF Spec, WorkShrinks

(* Nobody waits on nobody: if no slot is lost, then as long as staging is   *)
(* not the source table the connector or the Kafka engine has a step to     *)
(* take, whatever was restarted.                                            *)
THEOREM SomeoneHasWork ==
  ASSUME ~MayLoseSlot
  PROVE  Spec => []NeverStuckShort
<1>1. ReplicaInv /\ DrainedIsEqual => NeverStuckShort
  <2> SUFFICES ASSUME ReplicaInv, DrainedIsEqual, ~SomeStepIsOpen
               PROVE  Staged = SourceTable
    BY DEF NeverStuckShort
  <2>1. TypeOK /\ connector # "lost"
    BY DEF ReplicaInv, OneSnapshot
  <2>2. connector = "streaming" /\ pos = Len(wal)
    BY <2>1, LeftType DEF SomeStepIsOpen, TypeOK
  <2>3. committed = Len(topic)
    BY <2>1, LeftType DEF SomeStepIsOpen, TypeOK
  <2> QED BY <2>2, <2>3 DEF DrainedIsEqual, Drained
<1>2. Spec => []ReplicaInv
  BY ReplicaInvariant
<1>3. Spec => []DrainedIsEqual
  BY ConvergedAtRest
<1> QED BY <1>1, <1>2, <1>3, PTL

=============================================================================
