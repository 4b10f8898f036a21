-------------------------- MODULE IngestionProofs --------------------------
(***************************************************************************)
(* Proofs about Ingestion, for every list of symbols, every budget, every  *)
(* fallback threshold and every length of history.                         *)
(***************************************************************************)
EXTENDS Ingestion, WellFoundedInduction, TLAPS

---------------------------------------------------------------------------
(* The inductive invariant.                                                 *)

(* Where each process stands bounds its loop index and its counters.        *)
ControlOK ==
  /\ pc \in {"symbol", "ingest", "lag"} => failures < pos
  /\ pc \in {"ingest", "lag"} => pos <= Len(SymbolOrder)
  /\ pc \in {"down", "waiting", "ensuring", "idle"} => failures = 0
  /\ bpc \in {"symbol", "ingest"} => bpos <= Len(SymbolOrder)
  /\ bpc # "idle" => bbudget \in BackfillBudgets

\* The minutes that are stored, or missing for a reason.
Known(s) == Rows(s) \cup excused[s]

(* A window in flight ends at a closed minute, and below its start nothing  *)
(* is missing without a reason, whatever the other writer did since.        *)
Covered(s, w) ==
  /\ w.end <= closed + 1
  /\ \A m \in Minutes : m < w.start => m \in Known(s)

WindowsCovered ==
  /\ pc = "ingest" => Covered(SymbolOrder[pos], win)
  /\ bpc = "ingest" => Covered(SymbolOrder[bpos], bwin)

HistoryInv == NoFormingBar /\ HolesExplained /\ WindowsCovered

---------------------------------------------------------------------------
(* Facts about the operators.                                               *)

(* A non-empty set of minutes has a largest element, so max(open_time) is   *)
(* what Newest names.                                                       *)
LEMMA LargestMinute ==
  ASSUME NEW T \in SUBSET Minutes, T # {}
  PROVE  \E m \in T : \A k \in T : k <= m
<1> DEFINE U == {MaxMinute - m : m \in T}
<1>1. U \subseteq Nat /\ U # {}
  <2>1. PICK t \in T : TRUE
    OBVIOUS
  <2>2. MaxMinute - t \in U
    OBVIOUS
  <2>3. \A m \in T : MaxMinute - m \in Nat
    BY ClockAssumption DEF Minutes
  <2> QED BY <2>2, <2>3
<1>2. \E x \in U : \A y \in U : ~(<<y, x>> \in OpToRel(<, Nat))
  BY <1>1, NatLessThanWellFounded, WFMin, Zenon
<1>3. PICK x \in U : \A y \in U : ~(y < x)
  BY <1>1, <1>2 DEF OpToRel
<1>4. PICK m \in T : x = MaxMinute - m
  BY <1>3
<1>5. \A k \in T : k <= m
  <2> SUFFICES ASSUME NEW k \in T PROVE k <= m
    OBVIOUS
  <2>1. MaxMinute - k \in U
    OBVIOUS
  <2>2. ~(MaxMinute - k < MaxMinute - m)
    BY <2>1, <1>3, <1>4
  <2> QED BY <2>2, ClockAssumption DEF Minutes
<1> QED BY <1>5

LEMMA NewestIsLargest ==
  ASSUME NEW s \in Symbols, Rows(s) # {}
  PROVE  Newest(s) \in Rows(s) /\ \A k \in Rows(s) : k <= Newest(s)
<1>1. \E m \in Rows(s) : \A k \in Rows(s) : k <= m
  BY LargestMinute DEF Rows
<1> QED BY <1>1 DEF Newest

LEMMA SymbolAt ==
  ASSUME NEW i \in 1 .. Len(SymbolOrder)
  PROVE  SymbolOrder[i] \in Symbols
BY DEF Symbols

(* The window a writer computes lies among the minutes and ends at the last *)
(* closed one.                                                              *)
LEMMA PendingWindowType ==
  ASSUME TypeOK, NEW s \in Symbols, NEW b \in BackfillBudgets \cup {Budget}
  PROVE  /\ PendingWindow(s, b) \in Windows
         /\ PendingWindow(s, b).end = closed + 1
<1>1. OrOne(b) \in Nat /\ OrOne(b) <= FirstClosed + 1
  BY ConfigAssumption, ClockAssumption DEF OrOne
<1>2. EarliestAllowed(b) \in 0 .. MaxMinute + 1
  BY <1>1, ClockAssumption DEF TypeOK, EarliestAllowed, WindowEnd
<1>3. CASE Rows(s) = {}
  BY <1>2, <1>3, ClockAssumption DEF TypeOK, PendingWindow, Windows, WindowEnd
<1>4. CASE Rows(s) # {}
  <2>1. Newest(s) \in Minutes
    BY <1>4, NewestIsLargest DEF Rows
  <2>2. /\ Newest(s) + 1 \in 0 .. MaxMinute + 1 /\ closed + 1 \in 0 .. MaxMinute + 1
    BY <2>1, ClockAssumption DEF TypeOK, Minutes
  <2>3. \E n \in 0 .. MaxMinute + 1 : PendingWindow(s, b) = [start |-> n, end |-> closed + 1]
    BY <1>2, <2>2 DEF PendingWindow, WindowEnd
  <2> QED BY <2>2, <2>3 DEF Windows
<1> QED BY <1>3, <1>4

---------------------------------------------------------------------------
(* Type correctness.  The bounds on the loop indices are part of it, so it  *)
(* is proved together with ControlOK.                                       *)

Shape == TypeOK /\ ControlOK

LEMMA InitShape == Init => Shape
<1> SUFFICES ASSUME Init PROVE Shape
  OBVIOUS
<1>1. Len(SymbolOrder) \in Nat /\ FailureCap \in Nat
  BY SymbolAssumption, ConfigAssumption DEF FailureCap, OrOne
<1>2. closed \in FirstClosed .. MaxMinute /\ NoWindow \in Windows
  BY ClockAssumption DEF Init, NoWindow, Windows
<1>3. live \in BOOLEAN /\ dbUp \in BOOLEAN
  BY EnvironmentAssumption DEF Init
<1>4. Configured \in Sources
  BY ConfigAssumption
<1>5. pos \in 1 .. Len(SymbolOrder) + 1 /\ failures \in 0 .. Len(SymbolOrder)
  BY <1>1 DEF Init
<1>6. consecutive \in 0 .. FailureCap
  BY <1>1 DEF Init
<1>7. bpos \in 1 .. Len(SymbolOrder) + 1 /\ bbudget \in BackfillBudgets \cup {0}
  BY <1>1 DEF Init
<1>8. ControlOK
  BY <1>1 DEF Init, ControlOK
<1> QED BY <1>2, <1>3, <1>5, <1>6, <1>7, <1>8 DEF Init, Shape, TypeOK

(* What Upsert and EnsureSymbol, the two writers' shared statements, leave. *)
LEMMA UpsertType ==
  ASSUME TypeOK, NEW s \in Symbols, NEW page \in SUBSET Minutes,
         NEW source \in Sources, NEW w, Upsert(s, page, source, w)
  PROVE  /\ held' \in [Symbols -> [Minutes -> Sources \cup {"none"}]]
         /\ excused' \in [Symbols -> SUBSET Minutes]
         /\ registered' \subseteq Symbols
<1>1. {m \in Span(w) \ page : \E k \in page : k > m} \subseteq Minutes
  BY DEF Span
<1> QED BY <1>1 DEF Upsert, Landed, TypeOK

LEMMA PageType ==
  ASSUME NEW source, NEW w, NEW page \in Pages(source, w)
  PROVE  page \subseteq Span(w) /\ Span(w) \subseteq Minutes
BY DEF Pages, BinancePages, ReplayPage, Span

LEMMA GivenUpType ==
  ASSUME NEW s, NEW b
  PROVE  GivenUp(s, b) \subseteq Minutes
BY DEF GivenUp

LEMMA StepShape == Shape /\ [Next]_vars => Shape'
<1> SUFFICES ASSUME Shape, [Next]_vars PROVE Shape'
  OBVIOUS
<1> USE DEF Shape, TypeOK, ControlOK
<1>1. Len(SymbolOrder) \in Nat \ {0} /\ FailureCap \in Nat \ {0}
  BY SymbolAssumption, ConfigAssumption DEF FailureCap, OrOne
<1>2. NoWindow \in Windows
  BY ClockAssumption DEF NoWindow, Windows
<1>3. Configured \in Sources /\ ActiveSource \in Sources
  BY ConfigAssumption DEF ActiveSource, Sources
<1>4. AtSymbol => Symbol \in Symbols
  BY SymbolAt DEF AtSymbol, Symbol
<1> USE DEF vars, env, tables, service, batch
<1>a. ASSUME pos' = 1, failures' = 0
      PROVE  pos' \in 1 .. Len(SymbolOrder) + 1 /\ failures' \in 0 .. Len(SymbolOrder)
  BY <1>1, <1>a
<1>b. ASSUME consecutive' = 0
      PROVE  consecutive' \in 0 .. FailureCap
  BY <1>1, <1>b
<1>c. ASSUME ProcessEnds, UNCHANGED batch
      PROVE  /\ pc' = "down" /\ gauge' = "none" /\ win' \in Windows
             /\ pos' \in 1 .. Len(SymbolOrder) + 1 /\ failures' \in 0 .. Len(SymbolOrder)
             /\ consecutive' \in 0 .. FailureCap
             /\ fallback' \in BOOLEAN /\ stopping' \in BOOLEAN
             /\ ControlOK'
  BY <1>2, <1>a, <1>b, <1>c DEF ProcessEnds, NoMemory
<1>5. CASE Start
  <2>1. ControlOK'
    BY <1>5 DEF Start, NoMemory
  <2> QED BY <1>a, <1>b, <1>2, <1>3, <1>5, <2>1 DEF Start, NoMemory
<1>6. CASE WaitForDatabase
  <2>1. CASE ProcessEnds
    BY <1>c, <1>6, <2>1 DEF WaitForDatabase
  <2>2. CASE pc' = "ensuring"
    BY <1>6, <2>2 DEF WaitForDatabase, ProcessEnds, NoMemory
  <2> QED BY <1>6, <2>1, <2>2 DEF WaitForDatabase
<1>7. CASE EnsureSymbols
  <2>1. CASE ProcessEnds
    BY <1>c, <1>7, <2>1 DEF EnsureSymbols, EnsureSymbol
  <2>2. CASE pc' = "idle"
    BY <1>7, <2>2 DEF EnsureSymbols, EnsureSymbol, ProcessEnds, NoMemory
  <2>3. CASE AtSymbol /\ EnsureSymbol(Symbol) /\ pc' = pc
    BY <1>1, <1>4, <1>7, <2>3 DEF EnsureSymbols, EnsureSymbol, AtSymbol, ProcessEnds, NoMemory
  <2> QED BY <1>7, <2>1, <2>2, <2>3 DEF EnsureSymbols
<1>8. CASE BeginCycle
  <2>1. CASE stopping
    BY <1>c, <1>8, <2>1 DEF BeginCycle
  <2>2. CASE ~stopping
    <3>1. ControlOK'
      BY <1>8, <2>2 DEF BeginCycle
    <3> QED BY <1>a, <1>8, <2>2, <3>1 DEF BeginCycle
  <2> QED BY <2>1, <2>2
<1>9. CASE ReadWindow
  <2>1. AtSymbol /\ pos \in 1 .. Len(SymbolOrder) /\ Symbol \in Symbols
    BY <1>4, <1>9 DEF ReadWindow, AtSymbol
  <2>2. PendingWindow(Symbol, Budget) \in Windows
    BY <2>1, PendingWindowType
  <2>3. excused' \in [Symbols -> SUBSET Minutes]
    BY <2>1, <1>9, GivenUpType DEF ReadWindow
  <2> QED BY <1>1, <1>2, <1>9, <2>1, <2>2, <2>3 DEF ReadWindow, SymbolFails
<1>10. CASE IngestWindow
  <2>1. pos \in 1 .. Len(SymbolOrder) /\ Symbol \in Symbols
    BY <1>10, SymbolAt DEF IngestWindow, Symbol
  <2>2. /\ held' \in [Symbols -> [Minutes -> Sources \cup {"none"}]]
        /\ excused' \in [Symbols -> SUBSET Minutes]
        /\ registered' \subseteq Symbols
    BY <1>10, <2>1, <1>3, UpsertType, PageType DEF IngestWindow
  <2> QED BY <1>1, <1>2, <1>10, <2>1, <2>2 DEF IngestWindow, SymbolFails
<1>11. CASE ReadLag
  BY <1>1, <1>2, <1>11 DEF ReadLag, SymbolFails
<1>12. CASE EndCycle
  <2>1. ControlOK'
    BY <1>12 DEF EndCycle
  <2>2. consecutive' \in 0 .. FailureCap
    BY <1>1, <1>12 DEF EndCycle, NoteSuccess, NoteFailure
  <2>3. fallback' \in BOOLEAN /\ gauge' \in Sources \cup {"none"}
    BY <1>3, <1>12 DEF EndCycle, NoteSuccess, NoteFailure, Sources
  <2> QED BY <1>a, <1>12, <2>1, <2>2, <2>3 DEF EndCycle
<1>13. CASE RequestStop
  BY <1>13 DEF RequestStop
<1>14. CASE Crash
  BY <1>c, <1>14 DEF Crash
<1>15. CASE BackfillStart
  BY <1>1, <1>15 DEF BackfillStart
<1>16. CASE BackfillEnsure
  BY <1>1, <1>16, SymbolAt DEF BackfillEnsure, EnsureSymbol
<1>17. CASE BackfillWindow
  <2>1. bpos \in 1 .. Len(SymbolOrder) /\ SymbolOrder[bpos] \in Symbols
    BY <1>17, SymbolAt DEF BackfillWindow
  <2>2. PendingWindow(SymbolOrder[bpos], bbudget) \in Windows
    BY <2>1, <1>17, PendingWindowType DEF BackfillWindow
  <2>3. excused' \in [Symbols -> SUBSET Minutes]
    BY <2>1, <1>17, GivenUpType DEF BackfillWindow
  <2> QED BY <1>1, <1>17, <2>1, <2>2, <2>3 DEF BackfillWindow
<1>18. CASE BackfillIngest
  <2>1. bpos \in 1 .. Len(SymbolOrder) /\ SymbolOrder[bpos] \in Symbols
    BY <1>18, SymbolAt DEF BackfillIngest
  <2>2. /\ held' \in [Symbols -> [Minutes -> Sources \cup {"none"}]]
        /\ excused' \in [Symbols -> SUBSET Minutes]
        /\ registered' \subseteq Symbols
    BY <1>18, <2>1, <1>3, UpsertType, PageType DEF BackfillIngest
  <2> QED BY <1>1, <1>2, <1>18, <2>1, <2>2 DEF BackfillIngest
<1>19. CASE BackfillEnds
  BY <1>1, <1>2, <1>19 DEF BackfillEnds, BackfillIdle
<1>20. CASE BackfillAborts
  BY <1>1, <1>2, <1>20 DEF BackfillAborts, BackfillIdle
<1>21. CASE Tick
  BY <1>21, ClockAssumption DEF Tick
<1>22. CASE ApiFlips
  BY <1>22, EnvironmentAssumption DEF ApiFlips
<1>23. CASE DbFlips
  BY <1>23, EnvironmentAssumption DEF DbFlips
<1>24. CASE OperatorPurge
  BY <1>24 DEF OperatorPurge, ReplayRows
<1>25. CASE UNCHANGED vars
  BY <1>25
<1> QED
  BY <1>5, <1>6, <1>7, <1>8, <1>9, <1>10, <1>11, <1>12, <1>13, <1>14, <1>15, <1>16,
     <1>17, <1>18, <1>19, <1>20, <1>21, <1>22, <1>23, <1>24, <1>25
     DEF Next, ServiceStep, Backfill, Environment

(* Every variable keeps its type and every loop index its bound, whatever   *)
(* the symbols, budgets and environment.                                    *)
THEOREM TypeCorrect == Spec => []TypeOK
<1>1. Init => Shape
  BY InitShape
<1>2. Shape /\ [Next]_vars => Shape'
  BY StepShape
<1>3. Shape => TypeOK
  BY DEF Shape
<1> QED BY <1>1, <1>2, <1>3, PTL DEF Spec

---------------------------------------------------------------------------
(* Holes and forming bars.                                                  *)

(* What a window leaves out below its start is stored, excused already, or  *)
(* excused by the very step that computes the window.                       *)
LEMMA BelowWindow ==
  ASSUME TypeOK, HolesExplained, NEW s \in Symbols,
         NEW b, NEW m \in Minutes, m < PendingWindow(s, b).start
  PROVE  m \in Known(s) \cup GivenUp(s, b)
<1>1. CASE Rows(s) = {} \/ m > Newest(s)
  <2>1. Rows(s) # {} => Newest(s) \in Minutes
    BY NewestIsLargest DEF Rows
  <2>2. m < EarliestAllowed(b)
    BY <1>1, <2>1 DEF PendingWindow, Minutes
  <2> QED BY <1>1, <2>2 DEF GivenUp
<1>2. CASE Rows(s) # {} /\ ~(m > Newest(s))
  <2>1. Newest(s) \in Rows(s) /\ Newest(s) \in Nat
    BY <1>2, NewestIsLargest, ClockAssumption DEF Rows, Minutes
  <2>2. m = Newest(s) \/ m < Newest(s)
    BY <1>2, <2>1 DEF Minutes
  <2> QED BY <2>1, <2>2 DEF HolesExplained, Known
<1> QED BY <1>1, <1>2

(* Landing a page of a covered window keeps both properties, and forgets    *)
(* nothing another writer's window relies on.                               *)
LEMMA UpsertKeeps ==
  ASSUME TypeOK, NoFormingBar, HolesExplained, closed' = closed,
         NEW s \in Symbols, NEW w \in Windows, Covered(s, w),
         NEW page \in SUBSET Span(w), NEW source \in Sources,
         Upsert(s, page, source, w)
  PROVE  /\ NoFormingBar' /\ HolesExplained'
         /\ \A t \in Symbols : Known(t) \subseteq Known(t)'
<1>1. /\ page \subseteq Minutes
      /\ \A m \in page : w.start <= m /\ m < w.end
  BY DEF Span
<1>2. source # "none"
  BY DEF Sources
<1>3. Rows(s)' = Rows(s) \cup page
  BY <1>1, <1>2 DEF Upsert, Landed, Rows, TypeOK
<1>4. \A t \in Symbols : t # s => Rows(t)' = Rows(t) /\ excused'[t] = excused[t]
  BY DEF Upsert, Landed, Rows, TypeOK
<1>5. excused'[s] = excused[s] \cup {m \in Span(w) \ page : \E k \in page : k > m}
  BY DEF Upsert, Landed, TypeOK
<1>6. NoFormingBar'
  <2> SUFFICES ASSUME NEW t \in Symbols, NEW m \in Rows(t)' PROVE m <= closed
    BY DEF NoFormingBar
  <2>1. CASE t = s /\ m \in page
    BY <1>1, <2>1 DEF Covered, Windows, TypeOK, Minutes
  <2>2. CASE m \in Rows(t)
    BY <2>2 DEF NoFormingBar
  <2> QED BY <1>3, <1>4, <2>1, <2>2
<1>7. \A t \in Symbols : Known(t) \subseteq Known(t)'
  BY <1>3, <1>4, <1>5 DEF Known
<1>8. HolesExplained'
  <2> SUFFICES ASSUME NEW t \in Symbols, NEW k \in Rows(t)', NEW m \in Minutes, m < k
               PROVE  m \in Known(t)'
    BY DEF HolesExplained, Known
  <2>1. CASE k \in Rows(t)
    BY <1>7, <2>1 DEF HolesExplained, Known
  <2>2. CASE t = s /\ k \in page
    <3>1. CASE m < w.start
      BY <1>7, <2>2, <3>1 DEF Covered
    <3>2. CASE ~(m < w.start)
      <4>1. m \in Span(w)
        BY <1>1, <2>2, <3>2 DEF Span, Windows, Minutes
      <4>2. m \in page \/ m \in excused'[s]
        BY <1>1, <1>5, <2>2, <4>1 DEF Minutes
      <4> QED BY <1>3, <2>2, <4>2 DEF Known
    <3> QED BY <3>1, <3>2
  <2> QED BY <1>3, <1>4, <2>1, <2>2
<1> QED BY <1>6, <1>7, <1>8

(* Computing a window excuses exactly what that window needs excused.       *)
LEMMA ExcusingKeeps ==
  ASSUME TypeOK, NoFormingBar, HolesExplained, UNCHANGED <<closed, held>>,
         NEW s \in Symbols, NEW b \in BackfillBudgets \cup {Budget},
         excused' = [excused EXCEPT ![s] = @ \cup GivenUp(s, b)]
  PROVE  /\ NoFormingBar' /\ HolesExplained'
         /\ \A t \in Symbols : Known(t) \subseteq Known(t)'
         /\ PendingWindow(s, b).end <= closed + 1
         /\ \A m \in Minutes : m < PendingWindow(s, b).start => m \in Known(s)'
<1>1. \A t \in Symbols : Rows(t)' = Rows(t) /\ excused[t] \subseteq excused'[t]
  BY DEF Rows, TypeOK
<1>2. GivenUp(s, b) \subseteq excused'[s]
  BY DEF TypeOK
<1>3. NoFormingBar'
  BY <1>1 DEF NoFormingBar
<1>4. HolesExplained'
  BY <1>1 DEF HolesExplained
<1>5. \A t \in Symbols : Known(t) \subseteq Known(t)'
  BY <1>1 DEF Known
<1>6. PendingWindow(s, b).end <= closed + 1
  BY PendingWindowType DEF TypeOK
<1>7. \A m \in Minutes : m < PendingWindow(s, b).start => m \in Known(s)'
  BY <1>2, <1>5, BelowWindow DEF Known
<1> QED BY <1>3, <1>4, <1>5, <1>6, <1>7

LEMMA PurgeKeeps ==
  ASSUME TypeOK, NoFormingBar, HolesExplained, OperatorPurge
  PROVE  /\ NoFormingBar' /\ HolesExplained'
         /\ \A t \in Symbols : Known(t) \subseteq Known(t)'
<1>1. \A t \in Symbols : /\ Rows(t)' = Rows(t) \ ReplayRows(t)
                         /\ excused'[t] = excused[t] \cup ReplayRows(t)
  BY DEF OperatorPurge, Rows, ReplayRows, TypeOK
<1>2. closed' = closed
  BY DEF OperatorPurge, env
<1>3. NoFormingBar'
  BY <1>1, <1>2 DEF NoFormingBar
<1>4. \A t \in Symbols : Known(t) \subseteq Known(t)'
  BY <1>1 DEF Known
<1>5. HolesExplained'
  BY <1>1, <1>4 DEF HolesExplained, Known
<1> QED BY <1>3, <1>4, <1>5

\* A window already in flight stays covered while nothing known is forgotten.
LEMMA StaysCovered ==
  ASSUME TypeOK, closed' \in Nat, closed <= closed', NEW s \in Symbols, NEW w \in Windows,
         Covered(s, w), Known(s) \subseteq Known(s)'
  PROVE  w.end <= closed' + 1 /\ \A m \in Minutes : m < w.start => m \in Known(s)'
<1>1. w.end \in Int /\ closed \in Int /\ closed' \in Int
  BY ClockAssumption DEF Windows, TypeOK
<1>2. w.end <= closed + 1 /\ \A m \in Minutes : m < w.start => m \in Known(s)
  BY DEF Covered
<1>3. w.end <= closed' + 1
  BY <1>1, <1>2
<1> QED BY <1>2, <1>3

(* The steps that touch neither the table nor the record of what was given  *)
(* up, and start no window.                                                 *)
Quiet ==
  /\ UNCHANGED <<held, excused>>
  /\ closed' = closed \/ closed' = closed + 1
  /\ pc' = "ingest" => UNCHANGED <<pc, pos, win>>
  /\ bpc' = "ingest" => UNCHANGED <<bpc, bpos, bwin>>

(* What the other steps leave of it: the windows the step does not start    *)
(* are kept or closed.                                                      *)
KeepsKnown == \A t \in Symbols : Known(t) \subseteq Known(t)'

LEMMA QuietKeeps ==
  ASSUME TypeOK, NoFormingBar, HolesExplained, Quiet
  PROVE  NoFormingBar' /\ HolesExplained' /\ KeepsKnown
<1>1. \A t \in Symbols : Rows(t)' = Rows(t) /\ excused'[t] = excused[t]
  BY DEF Quiet, Rows
<1>2. NoFormingBar'
  <2> SUFFICES ASSUME NEW t \in Symbols, NEW m \in Rows(t) PROVE m <= closed'
    BY <1>1 DEF NoFormingBar
  <2>1. m <= closed /\ m \in Nat
    BY ClockAssumption DEF NoFormingBar, Rows, Minutes
  <2> QED BY <2>1, ClockAssumption DEF Quiet, TypeOK
<1>3. HolesExplained'
  BY <1>1 DEF HolesExplained
<1>4. KeepsKnown
  BY <1>1 DEF KeepsKnown, Known
<1> QED BY <1>2, <1>3, <1>4

LEMMA ServiceWindowKept ==
  ASSUME Shape, Shape', HistoryInv, KeepsKnown, closed <= closed',
         pc' = "ingest" => UNCHANGED <<pc, pos, win>>
  PROVE  pc' = "ingest" => Covered(SymbolOrder[pos], win)'
<1> SUFFICES ASSUME pc' = "ingest" PROVE Covered(SymbolOrder[pos], win)'
  OBVIOUS
<1>1. pc = "ingest" /\ pos' = pos /\ win' = win
  OBVIOUS
<1>2. SymbolOrder[pos] \in Symbols /\ win \in Windows /\ closed' \in Nat
  BY <1>1, SymbolAt, ClockAssumption DEF Shape, TypeOK, ControlOK
<1>3. Covered(SymbolOrder[pos], win)
  BY <1>1 DEF HistoryInv, WindowsCovered
<1>4. Known(SymbolOrder[pos]) \subseteq Known(SymbolOrder[pos])'
  BY <1>1, <1>2 DEF KeepsKnown, Known, Rows
<1>5. /\ win.end <= closed' + 1
      /\ \A m \in Minutes : m < win.start => m \in Known(SymbolOrder[pos])'
  BY <1>1, <1>2, <1>3, <1>4, StaysCovered DEF Shape, Known, Rows
<1> QED BY <1>1, <1>5 DEF Covered

LEMMA BatchWindowKept ==
  ASSUME Shape, Shape', HistoryInv, KeepsKnown, closed <= closed',
         bpc' = "ingest" => UNCHANGED <<bpc, bpos, bwin>>
  PROVE  bpc' = "ingest" => Covered(SymbolOrder[bpos], bwin)'
<1> SUFFICES ASSUME bpc' = "ingest" PROVE Covered(SymbolOrder[bpos], bwin)'
  OBVIOUS
<1>1. bpc = "ingest" /\ bpos' = bpos /\ bwin' = bwin
  OBVIOUS
<1>2. SymbolOrder[bpos] \in Symbols /\ bwin \in Windows /\ closed' \in Nat
  BY <1>1, SymbolAt, ClockAssumption DEF Shape, TypeOK, ControlOK
<1>3. Covered(SymbolOrder[bpos], bwin)
  BY <1>1 DEF HistoryInv, WindowsCovered
<1>4. Known(SymbolOrder[bpos]) \subseteq Known(SymbolOrder[bpos])'
  BY <1>1, <1>2 DEF KeepsKnown, Known, Rows
<1>5. /\ bwin.end <= closed' + 1
      /\ \A m \in Minutes : m < bwin.start => m \in Known(SymbolOrder[bpos])'
  BY <1>1, <1>2, <1>3, <1>4, StaysCovered DEF Shape, Known, Rows
<1> QED BY <1>1, <1>5 DEF Covered

LEMMA InitHistory == Init => HistoryInv
<1> SUFFICES ASSUME Init PROVE HistoryInv
  OBVIOUS
<1>1. \A s \in Symbols : Rows(s) = {}
  BY DEF Init, Rows
<1> QED BY <1>1 DEF Init, HistoryInv, NoFormingBar, HolesExplained, WindowsCovered

LEMMA StepHistory == Shape /\ HistoryInv /\ [Next]_vars => HistoryInv'
<1> SUFFICES ASSUME Shape, HistoryInv, [Next]_vars PROVE HistoryInv'
  OBVIOUS
<1>1. Shape' /\ TypeOK /\ closed \in Nat
  BY StepShape, ClockAssumption DEF Shape, TypeOK
<1>2. NoFormingBar /\ HolesExplained /\ WindowsCovered
  BY DEF HistoryInv
<1> USE DEF vars, env, tables, service, batch
<1>3. CASE Quiet
  <2>1. NoFormingBar' /\ HolesExplained' /\ KeepsKnown
    BY <1>1, <1>2, <1>3, QuietKeeps
  <2>2. closed <= closed'
    BY <1>1, <1>3 DEF Quiet
  <2> QED BY <1>1, <1>3, <2>1, <2>2, ServiceWindowKept, BatchWindowKept
          DEF HistoryInv, WindowsCovered, Quiet
<1>4. CASE ReadWindow
  <2>1. CASE pc' # "ingest"
    <3>1. Quiet
      BY <1>4, <2>1 DEF ReadWindow, Quiet, SymbolFails
    <3> QED BY <1>3, <3>1
  <2>2. CASE pc' = "ingest"
    <3> DEFINE s == SymbolOrder[pos]
    <3>1. /\ excused' = [excused EXCEPT ![s] = @ \cup GivenUp(s, Budget)]
          /\ UNCHANGED <<closed, held, pos, batch>>
          /\ win' = PendingWindow(s, Budget)
      BY <1>4, <2>2 DEF ReadWindow, SymbolFails, Symbol
    <3>2. s \in Symbols
      BY <1>1, <1>4, SymbolAt DEF ReadWindow, AtSymbol, TypeOK
    <3>3. /\ NoFormingBar' /\ HolesExplained' /\ KeepsKnown
          /\ win'.end <= closed + 1
          /\ \A m \in Minutes : m < win'.start => m \in Known(s)'
      BY <1>1, <1>2, <3>1, <3>2, ExcusingKeeps DEF KeepsKnown
    <3>4. Covered(SymbolOrder[pos], win)'
      BY <3>1, <3>3 DEF Covered, Known, Rows
    <3>5. bpc' = "ingest" => Covered(SymbolOrder[bpos], bwin)'
      BY <1>1, <3>1, <3>3, BatchWindowKept
    <3> QED BY <3>3, <3>4, <3>5 DEF HistoryInv, WindowsCovered
  <2> QED BY <2>1, <2>2
<1>5. CASE IngestWindow
  <2>1. CASE UNCHANGED <<tables, excused>>
    <3>1. Quiet
      BY <1>5, <2>1 DEF IngestWindow, Quiet, SymbolFails
    <3> QED BY <1>3, <3>1
  <2>2. CASE \E page \in Pages(ActiveSource, win) : Upsert(Symbol, page, ActiveSource, win)
    <3>1. PICK page \in Pages(ActiveSource, win) : Upsert(Symbol, page, ActiveSource, win)
      BY <2>2
    <3>2. Symbol \in Symbols /\ win \in Windows /\ Covered(Symbol, win)
      BY <1>1, <1>2, <1>5, SymbolAt
         DEF IngestWindow, Symbol, TypeOK, Shape, ControlOK, WindowsCovered
    <3>3. ActiveSource \in Sources /\ page \in SUBSET Span(win)
      BY <3>1, ConfigAssumption, PageType DEF ActiveSource, Sources
    <3>4. pc' # "ingest" /\ UNCHANGED <<closed, batch>>
      BY <1>5 DEF IngestWindow, SymbolFails
    <3>5. NoFormingBar' /\ HolesExplained' /\ KeepsKnown
      BY <1>1, <1>2, <3>1, <3>2, <3>3, <3>4, UpsertKeeps DEF KeepsKnown
    <3>6. bpc' = "ingest" => Covered(SymbolOrder[bpos], bwin)'
      BY <1>1, <3>4, <3>5, BatchWindowKept
    <3> QED BY <3>4, <3>5, <3>6 DEF HistoryInv, WindowsCovered
  <2> QED BY <1>5, <2>1, <2>2 DEF IngestWindow
<1>6. CASE BackfillWindow
  <2>1. CASE bpc' # "ingest"
    <3>1. Quiet
      BY <1>6, <2>1 DEF BackfillWindow, Quiet
    <3> QED BY <1>3, <3>1
  <2>2. CASE bpc' = "ingest"
    <3> DEFINE s == SymbolOrder[bpos]
    <3>1. /\ excused' = [excused EXCEPT ![s] = @ \cup GivenUp(s, bbudget)]
          /\ UNCHANGED <<closed, held, bpos, service>>
          /\ bwin' = PendingWindow(s, bbudget)
      BY <1>6, <2>2 DEF BackfillWindow
    <3>2. s \in Symbols /\ bbudget \in BackfillBudgets
      BY <1>1, <1>6, SymbolAt DEF BackfillWindow, TypeOK, Shape, ControlOK
    <3>3. /\ NoFormingBar' /\ HolesExplained' /\ KeepsKnown
          /\ bwin'.end <= closed + 1
          /\ \A m \in Minutes : m < bwin'.start => m \in Known(s)'
      BY <1>1, <1>2, <3>1, <3>2, ExcusingKeeps DEF KeepsKnown
    <3>4. Covered(SymbolOrder[bpos], bwin)'
      BY <3>1, <3>3 DEF Covered, Known, Rows
    <3>5. pc' = "ingest" => Covered(SymbolOrder[pos], win)'
      BY <1>1, <3>1, <3>3, ServiceWindowKept
    <3> QED BY <3>3, <3>4, <3>5 DEF HistoryInv, WindowsCovered
  <2> QED BY <2>1, <2>2
<1>7. CASE BackfillIngest
  <2>1. CASE UNCHANGED <<tables, excused>>
    <3>1. Quiet
      BY <1>7, <2>1 DEF BackfillIngest, Quiet
    <3> QED BY <1>3, <3>1
  <2>2. CASE \E page \in Pages(Configured, bwin) :
               Upsert(SymbolOrder[bpos], page, Configured, bwin)
    <3> DEFINE s == SymbolOrder[bpos]
    <3>1. PICK page \in Pages(Configured, bwin) : Upsert(s, page, Configured, bwin)
      BY <2>2
    <3>2. s \in Symbols /\ bwin \in Windows /\ Covered(s, bwin)
      BY <1>1, <1>2, <1>7, SymbolAt
         DEF BackfillIngest, TypeOK, Shape, ControlOK, WindowsCovered
    <3>3. Configured \in Sources /\ page \in SUBSET Span(bwin)
      BY <3>1, ConfigAssumption, PageType
    <3>4. bpc' # "ingest" /\ UNCHANGED <<closed, service>>
      BY <1>7 DEF BackfillIngest
    <3>5. NoFormingBar' /\ HolesExplained' /\ KeepsKnown
      BY <1>1, <1>2, <3>1, <3>2, <3>3, <3>4, UpsertKeeps DEF KeepsKnown
    <3>6. pc' = "ingest" => Covered(SymbolOrder[pos], win)'
      BY <1>1, <3>4, <3>5, ServiceWindowKept
    <3> QED BY <3>4, <3>5, <3>6 DEF HistoryInv, WindowsCovered
  <2> QED BY <1>7, <2>1, <2>2 DEF BackfillIngest
<1>8. CASE OperatorPurge
  <2>1. NoFormingBar' /\ HolesExplained' /\ KeepsKnown
    BY <1>1, <1>2, <1>8, PurgeKeeps DEF KeepsKnown
  <2>2. UNCHANGED <<closed, service, batch>>
    BY <1>8 DEF OperatorPurge
  <2> QED BY <1>1, <2>1, <2>2, ServiceWindowKept, BatchWindowKept
          DEF HistoryInv, WindowsCovered
<1>9. CASE Start
  BY <1>3, <1>9 DEF Start, NoMemory, Quiet
<1>10. CASE WaitForDatabase
  BY <1>3, <1>10 DEF WaitForDatabase, ProcessEnds, NoMemory, Quiet
<1>11. CASE EnsureSymbols
  BY <1>3, <1>11 DEF EnsureSymbols, EnsureSymbol, ProcessEnds, NoMemory, Quiet
<1>12. CASE BeginCycle
  BY <1>3, <1>12 DEF BeginCycle, ProcessEnds, NoMemory, Quiet
<1>13. CASE ReadLag
  BY <1>3, <1>13 DEF ReadLag, SymbolFails, Quiet
<1>14. CASE EndCycle
  BY <1>3, <1>14 DEF EndCycle, Quiet
<1>15. CASE RequestStop
  BY <1>3, <1>15 DEF RequestStop, Quiet
<1>16. CASE Crash
  BY <1>3, <1>16 DEF Crash, ProcessEnds, NoMemory, Quiet
<1>17. CASE BackfillStart \/ BackfillEnsure
  BY <1>3, <1>17 DEF BackfillStart, BackfillEnsure, EnsureSymbol, Quiet
<1>18. CASE BackfillEnds \/ BackfillAborts
  BY <1>3, <1>18 DEF BackfillEnds, BackfillAborts, BackfillIdle, Quiet
<1>19. CASE Tick \/ ApiFlips \/ DbFlips
  BY <1>3, <1>19 DEF Tick, ApiFlips, DbFlips, Quiet
<1>20. CASE UNCHANGED vars
  BY <1>3, <1>20 DEF Quiet
<1> QED
  BY <1>4, <1>5, <1>6, <1>7, <1>8, <1>9, <1>10, <1>11, <1>12, <1>13, <1>14, <1>15,
     <1>16, <1>17, <1>18, <1>19, <1>20
     DEF Next, ServiceStep, Backfill, Environment

LEMMA HistoryInvariant == Spec => [](Shape /\ HistoryInv)
<1>1. Init => Shape /\ HistoryInv
  BY InitShape, InitHistory
<1>2. Shape /\ HistoryInv /\ [Next]_vars => (Shape /\ HistoryInv)'
  BY StepShape, StepHistory
<1> QED BY <1>1, <1>2, PTL DEF Spec

(* No bar of an unfinished minute is ever stored.                           *)
THEOREM OnlyClosedBars == Spec => []NoFormingBar
<1>1. Shape /\ HistoryInv => NoFormingBar
  BY DEF HistoryInv
<1> QED BY <1>1, HistoryInvariant, PTL

(* Every hole below a stored bar has one of the three known causes: two     *)
(* unsynchronised writers, crashes and restarts never make one.             *)
THEOREM NoUnexplainedHole == Spec => []HolesExplained
<1>1. Shape /\ HistoryInv => HolesExplained
  BY DEF HistoryInv
<1> QED BY <1>1, HistoryInvariant, PTL

---------------------------------------------------------------------------
(* The fallback.                                                            *)

(* The counter, the fallback and the exported gauge never disagree.         *)
THEOREM FallbackTruthful == Spec => []FallbackConsistent
<1>1. Init => FallbackConsistent
  BY ConfigAssumption DEF Init, FallbackConsistent, Running
<1>2. Shape /\ FallbackConsistent /\ [Next]_vars => FallbackConsistent'
  <2> SUFFICES ASSUME Shape, FallbackConsistent, [Next]_vars PROVE FallbackConsistent'
    OBVIOUS
  <2> USE DEF vars, env, tables, service, batch, FallbackConsistent, ActiveSource, Running
  <2>1. consecutive \in 0 .. FailureCap /\ FallbackAfter \in Nat
    BY ConfigAssumption DEF Shape, TypeOK
  <2>2. CASE UNCHANGED <<fallback, consecutive, gauge>> /\ (pc' # "down" => pc # "down")
    BY <2>2
  <2>3. CASE ProcessEnds
    BY <2>1, <2>3 DEF ProcessEnds, NoMemory
  <2>4. CASE Start
    BY <2>1, <2>4 DEF Start, NoMemory
  <2>5. CASE EndCycle
    <3>1. pc = "symbol" /\ pc' = "idle"
      BY <2>5 DEF EndCycle
    <3>2. CASE NoteSuccess
      <4>1. (FallbackAfter # 0 /\ 0 >= FallbackAfter) <=> FALSE
        BY <2>1
      <4> QED BY <3>1, <3>2, <4>1 DEF NoteSuccess
    <3>3. CASE NoteFailure
      <4> DEFINE n == IF consecutive < FailureCap THEN consecutive + 1 ELSE consecutive
      <4>1. fallback => FallbackAfter # 0 /\ n >= FallbackAfter
        BY <2>1 DEF FailureCap, OrOne
      <4>2. fallback' <=> (FallbackAfter # 0 /\ n >= FallbackAfter)
        BY <3>3, <4>1, Zenon DEF NoteFailure
      <4>3. gauge' = IF fallback' THEN "replay" ELSE Configured
        BY <3>1, <3>3, <4>1 DEF NoteFailure
      <4>4. consecutive' = n
        BY <3>3 DEF NoteFailure
      <4> QED BY <4>2, <4>3, <4>4, Zenon
    <3>4. CASE UNCHANGED <<consecutive, fallback, gauge>>
      BY <2>2, <3>1, <3>4
    <3> QED BY <2>5, <3>2, <3>3, <3>4 DEF EndCycle
  <2>6. CASE WaitForDatabase \/ EnsureSymbols
    BY <2>2, <2>3, <2>6 DEF WaitForDatabase, EnsureSymbols
  <2>7. CASE BeginCycle \/ Crash
    BY <2>2, <2>3, <2>7 DEF BeginCycle, Crash
  <2>8. CASE ReadWindow \/ IngestWindow \/ ReadLag
    BY <2>2, <2>8 DEF ReadWindow, IngestWindow, ReadLag, SymbolFails
  <2>9. CASE RequestStop
    BY <2>2, <2>9 DEF RequestStop
  <2>10. CASE Backfill
    BY <2>2, <2>10 DEF Backfill, BackfillStart, BackfillEnsure, BackfillWindow,
         BackfillIngest, BackfillEnds, BackfillAborts
  <2>11. CASE Environment
    BY <2>2, <2>11 DEF Environment, Tick, ApiFlips, DbFlips, OperatorPurge
  <2>12. CASE UNCHANGED vars
    BY <2>2, <2>12
  <2> QED BY <2>4, <2>5, <2>6, <2>7, <2>8, <2>9, <2>10, <2>11, <2>12 DEF Next, ServiceStep
<1>3. Init => Shape
  BY InitShape
<1>4. Shape /\ [Next]_vars => Shape'
  BY StepShape
<1> QED BY <1>1, <1>2, <1>3, <1>4, PTL DEF Spec

(* An upsert changes rows only to the source it was given.                  *)
LEMMA UpsertSource ==
  ASSUME TypeOK, NEW t \in Symbols, NEW page, NEW source, NEW w,
         Upsert(t, page, source, w),
         NEW s \in Symbols, NEW m \in Minutes, held[s][m] # "replay", held'[s][m] = "replay"
  PROVE  source = "replay"
BY DEF Upsert, Landed, TypeOK

(* Synthetic rows land only while the writer exports that it is degraded.   *)
THEOREM DegradationIsLoud == Spec => ReplayIsLoud
<1> DEFINE Loud == \A s \in Symbols : \A m \in Minutes :
                     held[s][m] # "replay" /\ held'[s][m] = "replay"
                       => Configured = "replay" \/ gauge = "replay"
<1>1. Shape /\ FallbackConsistent /\ [Next]_vars => Loud
  <2> SUFFICES ASSUME Shape, FallbackConsistent, [Next]_vars,
                      NEW s \in Symbols, NEW m \in Minutes,
                      held[s][m] # "replay", held'[s][m] = "replay"
               PROVE  Configured = "replay" \/ gauge = "replay"
    OBVIOUS
  <2> USE DEF vars, env, tables, service, batch
  <2>1. held' # held /\ TypeOK
    BY DEF Shape
  <2>2. CASE IngestWindow
    <3>1. PICK page : Upsert(Symbol, page, ActiveSource, win)
      BY <2>1, <2>2 DEF IngestWindow
    <3>2. Symbol \in Symbols /\ Running
      BY <2>1, <2>2, SymbolAt DEF IngestWindow, Symbol, Shape, ControlOK, TypeOK, Running
    <3>3. ActiveSource = "replay"
      BY <2>1, <3>1, <3>2, UpsertSource
    <3> QED BY <3>2, <3>3 DEF FallbackConsistent
  <2>3. CASE BackfillIngest
    <3>1. PICK page : Upsert(SymbolOrder[bpos], page, Configured, bwin)
      BY <2>1, <2>3 DEF BackfillIngest
    <3>2. SymbolOrder[bpos] \in Symbols
      BY <2>1, <2>3, SymbolAt DEF BackfillIngest, Shape, ControlOK, TypeOK
    <3> QED BY <2>1, <3>1, <3>2, UpsertSource
  <2>4. CASE OperatorPurge
    BY <2>1, <2>4 DEF OperatorPurge, TypeOK
  <2>5. CASE WaitForDatabase \/ EnsureSymbols \/ BeginCycle \/ ReadWindow \/ ReadLag \/ EndCycle
    BY <2>1, <2>5 DEF WaitForDatabase, EnsureSymbols, EnsureSymbol, BeginCycle, ReadWindow,
         ReadLag, EndCycle
  <2>6. CASE Start \/ RequestStop \/ Crash
    BY <2>1, <2>6 DEF Start, NoMemory, RequestStop, Crash
  <2>7. CASE BackfillStart \/ BackfillEnsure \/ BackfillWindow \/ BackfillEnds \/ BackfillAborts
    BY <2>1, <2>7 DEF BackfillStart, BackfillEnsure, EnsureSymbol, BackfillWindow,
         BackfillEnds, BackfillAborts
  <2>8. CASE Tick \/ ApiFlips \/ DbFlips \/ UNCHANGED vars
    BY <2>1, <2>8 DEF Tick, ApiFlips, DbFlips
  <2> QED BY <2>2, <2>3, <2>4, <2>5, <2>6, <2>7, <2>8 DEF Next, ServiceStep, Backfill, Environment
<1>2. Spec => [](Shape /\ FallbackConsistent)
  BY HistoryInvariant, FallbackTruthful, PTL
<1>3. Spec => [][Loud]_vars
  BY <1>1, <1>2, PTL DEF Spec
<1> QED BY <1>3 DEF ReplayIsLoud

---------------------------------------------------------------------------
(* How long a stop takes.  request_stop only sets a flag, and only run()'s  *)
(* while looks at it: a pass under way goes on to its end.                  *)

\* The steps the process can still take once it was told to stop.
StepsToStop ==
  LET left == Len(SymbolOrder) - pos
  IN  CASE pc = "waiting"  -> Len(SymbolOrder) + 3
        [] pc = "ensuring" -> left + 3
        [] pc = "symbol"   -> 3 * left + 5
        [] pc = "ingest"   -> 3 * left + 4
        [] pc = "lag"      -> 3 * left + 3
        [] pc = "idle"     -> 1
        [] OTHER           -> 0

(* After a stop request every step of the service brings the end nearer,    *)
(* and nothing that happens around it puts it off.                          *)
StopIsPrompt ==
  /\ [][stopping /\ ServiceStep => StepsToStop' < StepsToStop]_vars
  /\ [][stopping /\ stopping' => StepsToStop' <= StepsToStop]_vars

AtMostOnePass == StepsToStop \in 0 .. 3 * Len(SymbolOrder) + 2

LEMMA StepsToStopIs ==
  /\ pc = "down" => StepsToStop = 0
  /\ pc = "idle" => StepsToStop = 1
  /\ pc = "waiting" => StepsToStop = Len(SymbolOrder) + 3
  /\ pc = "ensuring" => StepsToStop = Len(SymbolOrder) - pos + 3
  /\ pc = "symbol" => StepsToStop = 3 * (Len(SymbolOrder) - pos) + 5
  /\ pc = "ingest" => StepsToStop = 3 * (Len(SymbolOrder) - pos) + 4
  /\ pc = "lag" => StepsToStop = 3 * (Len(SymbolOrder) - pos) + 3
BY DEF StepsToStop

LEMMA StepsToStopNext ==
  /\ pc' = "down" => StepsToStop' = 0
  /\ pc' = "idle" => StepsToStop' = 1
  /\ pc' = "waiting" => StepsToStop' = Len(SymbolOrder) + 3
  /\ pc' = "ensuring" => StepsToStop' = Len(SymbolOrder) - pos' + 3
  /\ pc' = "symbol" => StepsToStop' = 3 * (Len(SymbolOrder) - pos') + 5
  /\ pc' = "ingest" => StepsToStop' = 3 * (Len(SymbolOrder) - pos') + 4
  /\ pc' = "lag" => StepsToStop' = 3 * (Len(SymbolOrder) - pos') + 3
BY DEF StepsToStop

LEMMA StepsBounded ==
  ASSUME Shape
  PROVE  AtMostOnePass
<1>1. /\ Len(SymbolOrder) \in Nat /\ Len(SymbolOrder) >= 1
      /\ pos \in Nat /\ 1 <= pos /\ pos <= Len(SymbolOrder) + 1
      /\ pc \in {"ingest", "lag"} => pos <= Len(SymbolOrder)
      /\ pc \in {"down", "waiting", "ensuring", "idle", "symbol", "ingest", "lag"}
  BY SymbolAssumption DEF Shape, TypeOK, ControlOK
<1> QED BY <1>1, StepsToStopIs DEF AtMostOnePass

LEMMA ServiceStepStops ==
  ASSUME Shape, stopping, ServiceStep
  PROVE  StepsToStop' < StepsToStop
<1>1. /\ Len(SymbolOrder) \in Nat /\ pos \in Nat /\ 1 <= pos /\ pos <= Len(SymbolOrder) + 1
      /\ pc \in {"ingest", "lag"} => pos <= Len(SymbolOrder)
  BY SymbolAssumption DEF Shape, TypeOK, ControlOK
<1>2. CASE WaitForDatabase
  <2>1. pc = "waiting" /\ (pc' = "down" \/ (pc' = "ensuring" /\ pos' = pos))
    BY <1>2 DEF WaitForDatabase, ProcessEnds
  <2> QED BY <1>1, <2>1, StepsToStopIs, StepsToStopNext
<1>3. CASE EnsureSymbols
  <2>1. /\ pc = "ensuring"
        /\ \/ pc' = "down"
           \/ pc' = "ensuring" /\ pos' = pos + 1
           \/ pc' = "idle"
        /\ pos <= Len(SymbolOrder) \/ pc' = "idle"
    BY <1>3, Zenon DEF EnsureSymbols, ProcessEnds, AtSymbol
  <2> QED BY <1>1, <2>1, StepsToStopIs, StepsToStopNext
<1>4. CASE BeginCycle
  <2>1. pc = "idle" /\ pc' = "down"
    BY <1>4 DEF BeginCycle, ProcessEnds
  <2> QED BY <2>1, StepsToStopIs, StepsToStopNext
<1>5. CASE ReadWindow
  <2>1. /\ pc = "symbol" /\ pos <= Len(SymbolOrder)
        /\ \/ pc' \in {"ingest", "lag"} /\ pos' = pos
           \/ pc' = "symbol" /\ pos' = pos + 1
    BY <1>5, Zenon DEF ReadWindow, SymbolFails, AtSymbol
  <2> QED BY <1>1, <2>1, StepsToStopIs, StepsToStopNext
<1>6. CASE IngestWindow
  <2>1. /\ pc = "ingest"
        /\ \/ pc' = "lag" /\ pos' = pos
           \/ pc' = "symbol" /\ pos' = pos + 1
    BY <1>6 DEF IngestWindow, SymbolFails
  <2> QED BY <1>1, <2>1, StepsToStopIs, StepsToStopNext
<1>7. CASE ReadLag
  <2>1. pc = "lag" /\ pc' = "symbol" /\ pos' = pos + 1
    BY <1>7 DEF ReadLag, SymbolFails
  <2> QED BY <1>1, <2>1, StepsToStopIs, StepsToStopNext
<1>8. CASE EndCycle
  <2>1. pc = "symbol" /\ pc' = "idle"
    BY <1>8 DEF EndCycle
  <2> QED BY <1>1, <2>1, StepsToStopIs, StepsToStopNext
<1> QED BY <1>2, <1>3, <1>4, <1>5, <1>6, <1>7, <1>8 DEF ServiceStep

(* After SIGTERM the process takes at most the steps that finish one pass,  *)
(* three for each symbol and two more (or those of a start-up), whatever    *)
(* the API and the database do and wherever the request found it.           *)
THEOREM StopWithinOnePass == Spec => StopIsPrompt /\ []AtMostOnePass
<1>1. Shape /\ [Next]_vars => [stopping /\ ServiceStep => StepsToStop' < StepsToStop]_vars
  BY ServiceStepStops
<1>2. Shape /\ AtMostOnePass /\ AtMostOnePass' /\ [Next]_vars
        => [stopping /\ stopping' => StepsToStop' <= StepsToStop]_vars
  <2> SUFFICES ASSUME Shape, AtMostOnePass, AtMostOnePass', [Next]_vars, stopping, stopping'
               PROVE  StepsToStop' <= StepsToStop
    OBVIOUS
  <2>0. StepsToStop \in Int /\ 0 <= StepsToStop /\ StepsToStop' \in Int
    BY SymbolAssumption DEF AtMostOnePass
  <2>1. CASE ServiceStep
    BY <2>0, <2>1, ServiceStepStops
  <2>2. CASE Start \/ Crash
    <3>1. stopping' = FALSE
      BY <2>2 DEF Start, Crash, ProcessEnds, NoMemory
    <3> QED BY <3>1
  <2>3. CASE RequestStop \/ Backfill \/ Environment \/ UNCHANGED vars
    <3>1. UNCHANGED <<pc, pos>>
      BY <2>3 DEF RequestStop, Backfill, BackfillStart, BackfillEnsure, BackfillWindow,
         BackfillIngest, BackfillEnds, BackfillAborts, Environment, Tick, ApiFlips, DbFlips,
         OperatorPurge, vars, service
    <3>2. StepsToStop' = StepsToStop
      BY <3>1 DEF StepsToStop
    <3> QED BY <2>0, <3>2
  <2> QED BY <2>1, <2>2, <2>3 DEF Next
<1>3. Shape => AtMostOnePass
  BY StepsBounded
<1>4. Spec => []Shape
  BY InitShape, StepShape, PTL DEF Spec
<1> QED BY <1>1, <1>2, <1>3, <1>4, PTL DEF Spec, StopIsPrompt

---------------------------------------------------------------------------
(* What one pass achieves.  Only the last step of FreshnessRecovers needs   *)
(* fairness: that passes are made at all.  The rest is here.                *)

InPass == pc \in {"symbol", "ingest", "lag"}

\* The symbol has a bar of minute c or of a later one.
Reaches(s, c) == \E m \in Rows(s) : c <= m

\* The pass is done writing the symbol at position i.
Visited(i) == i < pos \/ (i = pos /\ pc = "lag")

(* A pass begun at or after the close of minute c that has not failed yet   *)
(* has brought the symbols behind it to c, and its window reaches c.        *)
OnTrack(c) ==
  /\ InPass
  /\ failures = 0 =>
       /\ \A i \in 1 .. Len(SymbolOrder) : Visited(i) => Reaches(SymbolOrder[i], c)
       /\ pc = "ingest" => win.start < win.end /\ c < win.end

(* A pass is on track from its first step to its last, whatever the other   *)
(* writer, the API, the database and the clock do meanwhile, and when no    *)
(* symbol failed it leaves every symbol at c or beyond: an empty window, on *)
(* which ingest_window returns at once, means there was nothing to fetch.   *)
PassCatchesUp ==
  /\ [][\A c \in Minutes : closed >= c /\ BeginCycle /\ ~stopping => OnTrack(c)']_vars
  /\ [][\A c \in Minutes : closed >= c /\ OnTrack(c) /\ InPass' => OnTrack(c)']_vars
  /\ [][\A c \in Minutes : OnTrack(c) /\ EndCycle /\ failures = 0
                          => \A s \in Symbols : Reaches(s, c)]_vars

(* Without a purge no row ever disappears.                                  *)
LEMMA RowsStay ==
  ASSUME Shape, ~MayPurge, [Next]_vars, NEW s \in Symbols
  PROVE  Rows(s) \subseteq Rows(s)'
<1> USE DEF vars, env, tables, service, batch
<1>1. ASSUME NEW t \in Symbols, NEW page, NEW source \in Sources, NEW w,
             Upsert(t, page, source, w)
      PROVE  Rows(s) \subseteq Rows(s)'
  BY <1>1 DEF Upsert, Landed, Rows, Shape, TypeOK, Sources
<1>2. CASE held' = held
  BY <1>2 DEF Rows
<1>3. CASE IngestWindow
  <2>1. CASE held' # held
    <3>1. PICK page : Upsert(Symbol, page, ActiveSource, win)
      BY <1>3, <2>1 DEF IngestWindow
    <3>2. Symbol \in Symbols /\ ActiveSource \in Sources
      BY <1>3, SymbolAt, ConfigAssumption DEF IngestWindow, Symbol, Shape, ControlOK, TypeOK,
           ActiveSource, Sources
    <3> QED BY <1>1, <3>1, <3>2
  <2> QED BY <1>2, <2>1
<1>4. CASE BackfillIngest
  <2>1. CASE held' # held
    <3>1. PICK page : Upsert(SymbolOrder[bpos], page, Configured, bwin)
      BY <1>4, <2>1 DEF BackfillIngest
    <3>2. SymbolOrder[bpos] \in Symbols /\ Configured \in Sources
      BY <1>4, SymbolAt, ConfigAssumption DEF BackfillIngest, Shape, ControlOK, TypeOK
    <3> QED BY <1>1, <3>1, <3>2
  <2> QED BY <1>2, <2>1
<1>5. CASE WaitForDatabase \/ EnsureSymbols \/ BeginCycle \/ ReadWindow \/ ReadLag \/ EndCycle
  BY <1>2, <1>5 DEF WaitForDatabase, EnsureSymbols, EnsureSymbol, BeginCycle, ReadWindow,
       ReadLag, EndCycle
<1>6. CASE Start \/ RequestStop \/ Crash \/ BackfillStart \/ BackfillEnsure \/ BackfillWindow
           \/ BackfillEnds \/ BackfillAborts
  BY <1>2, <1>6 DEF Start, RequestStop, Crash, BackfillStart, BackfillEnsure, EnsureSymbol,
       BackfillWindow, BackfillEnds, BackfillAborts
<1>7. CASE Tick \/ ApiFlips \/ DbFlips \/ OperatorPurge \/ UNCHANGED vars
  BY <1>2, <1>7 DEF Tick, ApiFlips, DbFlips, OperatorPurge
<1> QED BY <1>3, <1>4, <1>5, <1>6, <1>7 DEF Next, ServiceStep, Backfill, Environment

LEMMA ReachStays ==
  ASSUME Shape, ~MayPurge, [Next]_vars, NEW s \in Symbols, NEW c, Reaches(s, c)
  PROVE  Reaches(s, c)'
BY RowsStay DEF Reaches

(* The two ways pending_window brings a symbol to c: its window ends beyond *)
(* c, or it is empty because the newest row is there already.               *)
LEMMA WindowReaches ==
  ASSUME TypeOK, NEW s \in Symbols, NEW c \in Minutes, closed >= c
  PROVE  \/ /\ PendingWindow(s, Budget).start < PendingWindow(s, Budget).end
            /\ c < PendingWindow(s, Budget).end
         \/ ~(PendingWindow(s, Budget).start < PendingWindow(s, Budget).end) /\ Reaches(s, c)
<1> DEFINE w == PendingWindow(s, Budget)
<1>1. w.end = closed + 1 /\ closed \in Nat /\ c \in Nat
  BY PendingWindowType, ClockAssumption DEF TypeOK, Minutes
<1>2. SUFFICES ASSUME ~(w.start < w.end) PROVE Reaches(s, c)
  BY <1>1
<1>3. EarliestAllowed(Budget) < w.end /\ EarliestAllowed(Budget) \in Int
  BY <1>1, ConfigAssumption DEF EarliestAllowed, WindowEnd, OrOne
<1>4. Rows(s) # {} /\ w.start = Newest(s) + 1
  BY <1>2, <1>3 DEF PendingWindow
<1>5. Newest(s) \in Rows(s) /\ Newest(s) \in Nat
  BY <1>4, NewestIsLargest DEF Rows, Minutes
<1>6. c <= Newest(s)
  BY <1>1, <1>2, <1>4, <1>5
<1> QED BY <1>5, <1>6 DEF Reaches

(* A page without gaps holds the last minute of its window.                 *)
LEMMA PageReaches ==
  ASSUME ~MayDrop, NEW c \in Minutes, NEW w \in Windows, w.start < w.end, c < w.end,
         NEW source \in Sources, NEW page \in Pages(source, w)
  PROVE  \E m \in page : c <= m
<1>1. page = Span(w)
  BY DEF Pages, BinancePages, ReplayPage, Malformed
<1>2. w.end - 1 \in Span(w) /\ c <= w.end - 1
  BY ClockAssumption DEF Span, Windows, Minutes
<1> QED BY <1>1, <1>2

(* A step within a pass keeps it on track.                                  *)
LEMMA StaysOnTrack ==
  ASSUME ~MayDrop, ~MayPurge, Shape, [Next]_vars,
         NEW c \in Minutes, closed >= c, OnTrack(c), InPass', failures' = 0
  PROVE  /\ \A i \in 1 .. Len(SymbolOrder) : Visited(i)' => Reaches(SymbolOrder[i], c)'
         /\ pc' = "ingest" => win'.start < win'.end /\ c < win'.end
<1> DEFINE Caught == {i \in 1 .. Len(SymbolOrder) : Reaches(SymbolOrder[i], c)'}
<1>1. \A i \in 1 .. Len(SymbolOrder) : Reaches(SymbolOrder[i], c) => i \in Caught
  BY ReachStays, SymbolAt
<1>2. /\ pos \in Nat /\ failures \in Nat /\ win \in Windows
      /\ pos <= Len(SymbolOrder) => pos \in 1 .. Len(SymbolOrder) /\ Symbol \in Symbols
      /\ pc \in {"ingest", "lag"} => pos <= Len(SymbolOrder)
  BY SymbolAssumption, SymbolAt DEF Shape, TypeOK, ControlOK, Symbol
<1> HIDE DEF Caught
<1>3. SUFFICES ASSUME failures = 0 => \A i \in 1 .. Len(SymbolOrder) : Visited(i) => i \in Caught,
                      failures = 0 /\ pc = "ingest" => win.start < win.end /\ c < win.end
               PROVE  /\ \A i \in 1 .. Len(SymbolOrder) : Visited(i)' => i \in Caught
                      /\ pc' = "ingest" => win'.start < win'.end /\ c < win'.end
  BY <1>1 DEF OnTrack, Caught
<1>4. CASE ReadWindow
  <2>1. /\ pc = "symbol" /\ pos <= Len(SymbolOrder) /\ failures = 0 /\ UNCHANGED pos
        /\ LET w == PendingWindow(Symbol, Budget)
           IN  IF w.start < w.end THEN pc' = "ingest" /\ win' = w ELSE pc' = "lag"
    BY <1>2, <1>4 DEF ReadWindow, SymbolFails, AtSymbol
  <2>2. CASE pc' = "ingest" /\ win' = PendingWindow(Symbol, Budget)
    BY <1>2, <1>3, <2>1, <2>2, WindowReaches DEF Visited, Shape
  <2>3. CASE pc' = "lag" /\ Reaches(Symbol, c)
    <3>1. pos \in Caught
      BY <1>1, <1>2, <2>1, <2>3 DEF Symbol
    <3> QED BY <1>2, <1>3, <2>1, <2>3, <3>1 DEF Visited
  <2> QED BY <1>2, <2>1, <2>2, <2>3, WindowReaches DEF Shape
<1>5. CASE IngestWindow
  <2>1. /\ pc = "ingest" /\ failures = 0 /\ pc' = "lag" /\ UNCHANGED pos
        /\ \E page \in Pages(ActiveSource, win) :
             page = {} \/ Upsert(Symbol, page, ActiveSource, win)
    BY <1>2, <1>5 DEF IngestWindow, SymbolFails
  <2>2. PICK page \in Pages(ActiveSource, win) :
          page = {} \/ Upsert(Symbol, page, ActiveSource, win)
    BY <2>1
  <2>3. ActiveSource \in Sources /\ page \subseteq Minutes
    BY ConfigAssumption DEF ActiveSource, Sources, Pages, BinancePages, ReplayPage, Span
  <2>4. PICK m \in page : c <= m
    BY <1>2, <1>3, <2>1, <2>3, PageReaches
  <2>5. held'[SymbolOrder[pos]][m] # "none" /\ m \in Minutes
    <3>1. Upsert(Symbol, page, ActiveSource, win)
      BY <2>2, <2>4
    <3>2. held'[Symbol][m] = ActiveSource
      BY <1>2, <2>1, <2>3, <2>4, <3>1 DEF Upsert, Landed, Shape, TypeOK
    <3> QED BY <2>3, <2>4, <3>2 DEF Symbol, Sources
  <2>6. pos \in Caught
    <3>1. PICK i \in 1 .. Len(SymbolOrder) : i = pos
      BY <1>2, <2>1
    <3>2. m \in Rows(SymbolOrder[i])'
      BY <2>5, <3>1 DEF Rows
    <3>3. Reaches(SymbolOrder[i], c)'
      BY <2>4, <3>2 DEF Reaches
    <3> QED BY <3>1, <3>3 DEF Caught
  <2> QED BY <1>2, <1>3, <2>1, <2>6 DEF Visited
<1>6. CASE ReadLag
  <2>1. pc = "lag" /\ failures = 0 /\ pc' = "symbol" /\ pos' = pos + 1
    BY <1>2, <1>6 DEF ReadLag, SymbolFails
  <2> QED BY <1>2, <1>3, <2>1 DEF Visited
<1>7. CASE WaitForDatabase \/ EnsureSymbols \/ BeginCycle \/ EndCycle \/ Start \/ Crash
  <2>1. ~InPass \/ ~InPass'
    BY <1>7 DEF WaitForDatabase, EnsureSymbols, BeginCycle, EndCycle, Start, Crash,
         ProcessEnds, InPass
  <2> QED BY <2>1 DEF OnTrack
<1>8. CASE RequestStop \/ Backfill \/ Environment \/ UNCHANGED vars
  <2>1. UNCHANGED <<pc, pos, win, failures>>
    BY <1>8 DEF RequestStop, Backfill, BackfillStart, BackfillEnsure, BackfillWindow,
         BackfillIngest, BackfillEnds, BackfillAborts, Environment, Tick, ApiFlips, DbFlips,
         OperatorPurge, vars, service
  <2> QED BY <1>3, <2>1 DEF Visited
<1> QED BY <1>4, <1>5, <1>6, <1>7, <1>8 DEF Next, ServiceStep

(* When the source leaves nothing out and nobody purges, a pass in which no *)
(* symbol failed leaves every symbol at the minute that had closed when it  *)
(* began, or later: the part of FreshnessRecovers that is not fairness.     *)
THEOREM CleanPassCatchesUp ==
  ASSUME ~MayDrop, ~MayPurge
  PROVE  Spec => PassCatchesUp
<1>1. Shape /\ [Next]_vars
        => \A c \in Minutes : closed >= c /\ BeginCycle /\ ~stopping => OnTrack(c)'
  <2> SUFFICES ASSUME BeginCycle, ~stopping, NEW c \in Minutes PROVE OnTrack(c)'
    OBVIOUS
  <2>1. pc' = "symbol" /\ pos' = 1
    BY DEF BeginCycle
  <2>2. \A i \in 1 .. Len(SymbolOrder) : ~Visited(i)'
    BY <2>1 DEF Visited
  <2> QED BY <2>1, <2>2 DEF OnTrack, InPass
<1>2. Shape /\ [Next]_vars
        => \A c \in Minutes : closed >= c /\ OnTrack(c) /\ InPass' => OnTrack(c)'
  BY StaysOnTrack DEF OnTrack
<1>3. Shape /\ [Next]_vars
        => \A c \in Minutes : OnTrack(c) /\ EndCycle /\ failures = 0
                             => \A s \in Symbols : Reaches(s, c)
  <2> SUFFICES ASSUME Shape, EndCycle, failures = 0, NEW c \in Minutes, OnTrack(c),
                      NEW i \in 1 .. Len(SymbolOrder)
               PROVE  Reaches(SymbolOrder[i], c)
    BY DEF Symbols
  <2>1. i < pos
    BY SymbolAssumption DEF EndCycle, AtSymbol, Shape, TypeOK
  <2> QED BY <2>1 DEF OnTrack, Visited
<1>4. Spec => []Shape
  BY InitShape, StepShape, PTL DEF Spec
<1> QED BY <1>1, <1>2, <1>3, <1>4, PTL DEF Spec, PassCatchesUp

=============================================================================
