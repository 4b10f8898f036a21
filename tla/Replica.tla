------------------------------ MODULE Replica ------------------------------
(***************************************************************************)
(* What the change-data-capture path promises its readers, without saying  *)
(* how: the table they see is the source table as it was after some prefix *)
(* of its changes, and that prefix only grows.  The one exception is the   *)
(* initial load, while which rows of the snapshot appear one by one.       *)
(***************************************************************************)
EXTENDS Integers, Sequences

CONSTANTS
  Keys,   \* primary keys of the table
  Values, \* the states a row can have
  None    \* the key has no row

VARIABLES
  log,    \* the changes committed at the source, in order
  base,   \* length of the log when the snapshot was taken, -1 before
  seen,   \* length of the prefix the reader sees
  view    \* the table the reader sees

vars == <<log, base, seen, view>>

Changes == [key : Keys, row : Values \cup {None}]

\* The positions among the first n changes that touch key k.
Touching(changes, n, k) == {i \in 1 .. n : changes[i].key = k}

Last(S) == CHOOSE i \in S : \A j \in S : j <= i

\* The table after the first n changes.
TableAt(changes, n) ==
  [k \in Keys |-> IF Touching(changes, n, k) = {} THEN None
                  ELSE changes[Last(Touching(changes, n, k))].row]

Empty == [k \in Keys |-> None]

Init == log = <<>> /\ base = -1 /\ seen = 0 /\ view = Empty

Commit ==
  /\ \E c \in Changes : log' = Append(log, c)
  /\ UNCHANGED <<base, seen, view>>

\* The snapshot is taken; if it holds no row the load is over at once.
StartLoad ==
  /\ base = -1
  /\ base' = Len(log)
  /\ \/ seen' = seen
     \/ view = TableAt(log, Len(log)) /\ seen' = Len(log)
  /\ UNCHANGED <<log, view>>

\* More rows of the snapshot appear.
Load ==
  /\ seen < base
  /\ \A k \in Keys : view'[k] \in {view[k], TableAt(log, base)[k]}
  /\ view' \in [Keys -> Values \cup {None}]
  /\ UNCHANGED <<log, base, seen>>

\* The reader moves on to a longer prefix, or the last row of the load appears.
Reveal ==
  /\ base # -1
  /\ seen' \in base .. Len(log) /\ seen < seen'
  /\ view' = TableAt(log, seen')
  /\ UNCHANGED <<log, base>>

Next == Commit \/ StartLoad \/ Load \/ Reveal

Spec == Init /\ [][Next]_vars

=============================================================================
