---------------------------- MODULE CdcPipeline ----------------------------
(***************************************************************************)
(* Change data capture for one captured table, from PostgreSQL's WAL to    *)
(* the staging view: the replication slot and the Debezium connector       *)
(* (infra/connect/debezium-postgres.json), the topic, ClickHouse's Kafka   *)
(* engine table with its projection view (init/03 and 04), the             *)
(* ReplacingMergeTree(_lsn) landing table (init/02) and the staging view   *)
(* that reads it with FINAL.  The three captured tables differ only in     *)
(* their keys; each has its own topic of one partition.                    *)
(*                                                                         *)
(* A change carries its position in the WAL, the _lsn.  A row is a model   *)
(* value, None stands for a deleted one: a message without a row is a      *)
(* Debezium delete event, a record without one a row with _op = 'd'.       *)
(***************************************************************************)
EXTENDS Integers, Sequences, FiniteSets

CONSTANTS
  Keys,        \* primary keys of the captured table
  Values,      \* the states a row can have
  None,        \* no row
  BlockSize,   \* kafka_max_block_size: messages one insert may take
  SlotKeep,    \* max_slot_wal_keep_size: changes the slot may hold back
  MayLoseSlot, \* does the connector ever fall that far behind?
  MaxWal,      \* bound: changes committed
  MaxRestarts  \* bound: connector restarts and interrupted inserts

ASSUME RowAssumption == None \notin Values /\ IsFiniteSet(Keys)
ASSUME BoundAssumption ==
  /\ BlockSize \in Nat \ {0} /\ SlotKeep \in Nat
  /\ MayLoseSlot \in BOOLEAN
  /\ MaxWal \in Nat /\ MaxRestarts \in Nat

VARIABLES
  wal,       \* the changes of the table, in commit order; the _lsn is the index
  connector, \* "new", "streaming", "stopped" or "lost"
  base,      \* the _lsn stamped on the snapshot rows, -1 before the snapshot
  pos,       \* the last _lsn the connector has sent
  flushed,   \* the last _lsn confirmed to the slot
  topic,     \* cdc.crypto.<table>
  inserted,  \* messages whose insert has completed
  committed, \* messages the consumer group has committed
  raw,       \* records in the parts of raw.<table>
  restarts

vars == <<wal, connector, base, pos, flushed, topic, inserted, committed, raw, restarts>>

Changes == [key : Keys, row : Values \cup {None}]
Records == [key : Keys, row : Values \cup {None}, lsn : Nat]

---------------------------------------------------------------------------
(* The source table.                                                        *)

Touching(changes, n, k) == {i \in 1 .. n : changes[i].key = k}

Last(S) == CHOOSE i \in S : \A j \in S : j <= i

\* crypto.<table> after the first n changes.
TableAt(changes, n) ==
  [k \in Keys |-> IF Touching(changes, n, k) = {} THEN None
                  ELSE changes[Last(Touching(changes, n, k))].row]

SourceTable == TableAt(wal, Len(wal))

(* An upsert that changes something, or a DELETE.  The IS DISTINCT FROM     *)
(* guard of UPSERT_CANDLES keeps a re-sent equal row out of the WAL.        *)
Write ==
  /\ Len(wal) < MaxWal
  /\ \E k \in Keys, r \in Values \cup {None} :
       r # SourceTable[k] /\ wal' = Append(wal, [key |-> k, row |-> r])
  /\ UNCHANGED <<connector, base, pos, flushed, topic, inserted, committed, raw, restarts>>

---------------------------------------------------------------------------
(* Debezium and the slot.                                                   *)

\* Slip: snapshot.mode = never, streaming starts here without the rows that exist.
SnapshotNever ==
  /\ connector = "new"
  /\ connector' = "streaming"
  /\ base' = Len(wal) /\ pos' = Len(wal) /\ flushed' = Len(wal)
  /\ UNCHANGED <<wal, topic, inserted, committed, raw, restarts>>

(* snapshot.mode = initial: every row that exists, stamped with the LSN of  *)
(* the snapshot, then streaming from there.  One step: a snapshot that is   *)
(* interrupted half-way is left out.                                        *)
Snapshot ==
  LET lsn  == Len(wal)
      live == {k \in Keys : SourceTable[k] # None}
  IN  /\ connector = "new"
      /\ connector' = "streaming"
      /\ base' = lsn /\ pos' = lsn /\ flushed' = lsn
      /\ \E order \in [1 .. Cardinality(live) -> live] :
           /\ \A k \in live : \E i \in 1 .. Cardinality(live) : order[i] = k
           /\ topic' = topic \o [i \in 1 .. Cardinality(live) |->
                [key |-> order[i], row |-> SourceTable[order[i]], lsn |-> lsn]]
      /\ UNCHANGED <<wal, inserted, committed, raw, restarts>>

\* Slip: the version is the LSN confirmed so far, not the one of the change.
MessageAtFlushed(lsn) ==
  [key |-> wal[lsn].key, row |-> wal[lsn].row, lsn |-> flushed]

Message(lsn) == [key |-> wal[lsn].key, row |-> wal[lsn].row, lsn |-> lsn]

\* The next change of the slot reaches the topic.
Produce ==
  /\ connector = "streaming" /\ pos < Len(wal)
  /\ topic' = Append(topic, Message(pos + 1))
  /\ pos' = pos + 1
  /\ UNCHANGED <<wal, connector, base, flushed, inserted, committed, raw, restarts>>

\* Slip: the LSN after the last one sent is confirmed.
FlushAhead ==
  /\ connector = "streaming" /\ flushed < pos
  /\ flushed' = pos + 1
  /\ UNCHANGED <<wal, connector, base, pos, topic, inserted, committed, raw, restarts>>

\* Offsets are flushed and the LSN confirmed to the slot, some time after sending.
Flush ==
  /\ connector = "streaming" /\ flushed < pos
  /\ flushed' = pos
  /\ UNCHANGED <<wal, connector, base, pos, topic, inserted, committed, raw, restarts>>

\* The task fails (errors.tolerance = none) or its worker dies.
ConnectorStops ==
  /\ connector = "streaming" /\ restarts < MaxRestarts
  /\ connector' = "stopped" /\ restarts' = restarts + 1
  /\ UNCHANGED <<wal, base, pos, flushed, topic, inserted, committed, raw>>

\* Slip: it resumes at the current end of the WAL.
ConnectorStartsAtEnd ==
  /\ connector = "stopped"
  /\ connector' = "streaming" /\ pos' = Len(wal)
  /\ UNCHANGED <<wal, base, flushed, topic, inserted, committed, raw, restarts>>

\* It resumes from the slot: what was sent but not confirmed is sent again.
ConnectorStarts ==
  /\ connector = "stopped"
  /\ connector' = "streaming" /\ pos' = flushed
  /\ UNCHANGED <<wal, base, flushed, topic, inserted, committed, raw, restarts>>

\* max_slot_wal_keep_size: PostgreSQL invalidates a slot that holds back too much.
SlotLost ==
  /\ MayLoseSlot /\ connector = "stopped"
  /\ Len(wal) - flushed > SlotKeep
  /\ connector' = "lost"
  /\ UNCHANGED <<wal, base, pos, flushed, topic, inserted, committed, raw, restarts>>

(* The operator deletes the connector and registers it again, which means   *)
(* a new snapshot (docs/RUNBOOK.md, "snapshot.mode=initial will rebuild").  *)
(* That supposes Connect has no offsets of the old connector's name left.   *)
Reregister ==
  /\ connector = "lost"
  /\ connector' = "new"
  /\ UNCHANGED <<wal, base, pos, flushed, topic, inserted, committed, raw, restarts>>

---------------------------------------------------------------------------
(* ClickHouse.                                                              *)

\* One poll of the Kafka engine: the projection view writes the block to raw.
InsertBlock ==
  /\ inserted = committed
  /\ \E n \in committed + 1 .. Len(topic) :
       /\ n - committed <= BlockSize
       /\ inserted' = n
       /\ raw' = raw \cup {topic[i] : i \in committed + 1 .. n}
  /\ UNCHANGED <<wal, connector, base, pos, flushed, topic, committed, restarts>>

\* Slip: offsets are committed when messages are polled, before the insert.
CommitOffsetsEarly ==
  /\ committed < Len(topic)
  /\ committed' = committed + 1 /\ inserted' = committed + 1
  /\ UNCHANGED <<wal, connector, base, pos, flushed, topic, raw, restarts>>

\* The consumer group commits after the insert, in a step of its own.
CommitOffsets ==
  /\ committed < inserted
  /\ committed' = inserted
  /\ UNCHANGED <<wal, connector, base, pos, flushed, topic, inserted, raw, restarts>>

\* ClickHouse restarts between the two: the block will be read again.
ConsumerRestarts ==
  /\ committed < inserted /\ restarts < MaxRestarts
  /\ inserted' = committed /\ restarts' = restarts + 1
  /\ UNCHANGED <<wal, connector, base, pos, flushed, topic, committed, raw>>

\* Slip: ReplacingMergeTree without a version column keeps any one record of a key.
MergeUnversioned ==
  /\ \E r, q \in raw : r.key = q.key /\ r # q /\ raw' = raw \ {r}
  /\ UNCHANGED <<wal, connector, base, pos, flushed, topic, inserted, committed, restarts>>

\* A background merge drops a record of which its parts hold a newer version.
Merge ==
  /\ \E r, q \in raw : r.key = q.key /\ r.lsn < q.lsn /\ raw' = raw \ {r}
  /\ UNCHANGED <<wal, connector, base, pos, flushed, topic, inserted, committed, restarts>>

Versions(k) == {r \in raw : r.key = k}

\* Slip: any version of the key may be read, as without FINAL.
AnyVersion(k) == CHOOSE r \in Versions(k) : TRUE

\* FINAL: the record with the highest _lsn of its key.
Newest(k) == CHOOSE r \in Versions(k) : \A q \in Versions(k) : q.lsn <= r.lsn

\* stg_*: FINAL, where _op != 'd'.
Staged == [k \in Keys |-> IF Versions(k) = {} THEN None ELSE Newest(k).row]

---------------------------------------------------------------------------
Init ==
  /\ wal = <<>> /\ connector = "new" /\ base = -1 /\ pos = 0 /\ flushed = 0
  /\ topic = <<>> /\ inserted = 0 /\ committed = 0 /\ raw = {} /\ restarts = 0

Next ==
  \/ Write
  \/ Snapshot \/ Produce \/ Flush
  \/ ConnectorStops \/ ConnectorStarts \/ SlotLost \/ Reregister
  \/ InsertBlock \/ CommitOffsets \/ ConsumerRestarts \/ Merge

Spec == Init /\ [][Next]_vars

(* connect-init registers the connector, whoever answers the connector      *)
(* alert restarts a failed task (docs/RUNBOOK.md), and both the connector   *)
(* and the consumer poll for ever.  Nothing makes a writer write, a process *)
(* fail or a merge run.                                                     *)
FairSpec ==
  /\ Spec
  /\ WF_vars(Snapshot) /\ WF_vars(Produce) /\ WF_vars(ConnectorStarts)
  /\ WF_vars(InsertBlock) /\ WF_vars(CommitOffsets)

---------------------------------------------------------------------------
(* Properties.                                                              *)

TypeOK ==
  /\ wal \in Seq(Changes)
  /\ connector \in {"new", "streaming", "stopped", "lost"}
  /\ base \in -1 .. Len(wal)
  /\ flushed \in 0 .. Len(wal) /\ pos \in flushed .. Len(wal)
  /\ topic \in Seq(Records)
  /\ committed \in 0 .. Len(topic) /\ inserted \in committed .. Len(topic)
  /\ raw \subseteq Records
  /\ restarts \in 0 .. MaxRestarts

(* Every record ClickHouse holds, and so every row a reader of staging      *)
(* sees, was the state of its key at the LSN it carries: a snapshot row and *)
(* a streamed change with the same LSN never disagree.                      *)
RecordsHonest ==
  \A r \in raw : r.lsn <= Len(wal) /\ r.row = TableAt(wal, r.lsn)[r.key]

\* The version of a key a reader sees; 0 if none.
Version(k) == IF Versions(k) = {} THEN 0 ELSE Newest(k).lsn

(* A replay after a connector or a consumer restart, or a merge, never      *)
(* takes a reader back to an older version of a row.                        *)
NeverBackwards == [][\A k \in Keys : Version(k) <= Version(k)']_vars

(* Once a message is committed its effect cannot be lost: raw holds that    *)
(* version of the key or a newer one, although the group never reads the    *)
(* message again.                                                           *)
CommittedIsStored ==
  \A i \in 1 .. committed : \E r \in raw :
    r.key = topic[i].key /\ topic[i].lsn <= r.lsn

Drained ==
  connector = "streaming" /\ pos = Len(wal) /\ committed = Len(topic)

(* Once everything in the WAL has been sent and everything sent has been    *)
(* committed, the staging view is the source table ("converging on          *)
(* exactly-once semantics at rest", docs/DESIGN.md).                        *)
DrainedIsEqual == Drained => Staged = SourceTable

(* After a lost slot and a second snapshot, every row the source still has  *)
(* is right in staging ("A full re-snapshot is required ... The upserts are *)
(* idempotent, so this is safe", docs/RUNBOOK.md).  Rows deleted while the  *)
(* slot was gone are what DrainedIsEqual adds.                              *)
SurvivorsAreEqual ==
  Drained => \A k \in Keys : SourceTable[k] # None => Staged[k] = SourceTable[k]

(* However often the connector and the consumer are restarted, staging ends *)
(* up equal to the source once the source is quiet.                         *)
Converges == <>[](Staged = SourceTable)

(* The abstract replica this pipeline implements.                           *)
LoadDone ==
  base # -1 /\ \A k \in Keys : TableAt(wal, base)[k] # None => Versions(k) # {}

Shown == IF LoadDone THEN Last({base} \cup {r.lsn : r \in raw}) ELSE 0

Promise == INSTANCE Replica WITH log <- wal, seen <- Shown, view <- Staged

(* Staging is at every moment the source table after one prefix of its      *)
(* changes, and the prefix never shrinks.                                   *)
ImplementsReplica == Promise!Spec

=============================================================================
