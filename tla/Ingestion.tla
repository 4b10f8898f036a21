----------------------------- MODULE Ingestion -----------------------------
(***************************************************************************)
(* The ingestion path: the long-running service (ingestion/service.py,     *)
(* IngestionService.run), the batch entry point Airflow calls              *)
(* (run_backfill), and the one table both write,                           *)
(* crypto.market_candles_1m.                                               *)
(*                                                                         *)
(* Time is counted in minutes.  `closed' is the minute last_closed_minute  *)
(* returns.  A candle is abstracted to the source that produced it: the    *)
(* replay generator's numbers never equal the market's, so an upsert       *)
(* changes a row exactly when the source differs or the row is absent.     *)
(***************************************************************************)
EXTENDS Integers, Sequences, FiniteSets

CONSTANTS
  SymbolOrder,      \* Config.symbols, in the order the loops visit it
  Configured,       \* Config.source: "binance" or "replay"
  Budget,           \* Config.backfill_minutes (0 behaves as 1)
  BackfillBudgets,  \* budgets a batch run may be started with
  FallbackAfter,    \* Config.fallback_after_failures (0 disables it)
  FirstClosed,      \* the last closed minute when the system is installed
  MaxMinute,        \* bound: the clock stops here
  ApiModes,         \* the states the live API moves between, a subset of BOOLEAN
  DbModes,          \* the states PostgreSQL moves between, a subset of BOOLEAN
  MayDrop,          \* may the API leave out or garble some bars of a page?
  MayPurge          \* may an operator purge the replay rows?

Symbols == {SymbolOrder[i] : i \in 1 .. Len(SymbolOrder)}
Minutes == 0 .. MaxMinute
Sources == {"binance", "replay"}

\* `max_backfill_minutes or 1' of pending_window.
OrOne(budget) == IF budget = 0 THEN 1 ELSE budget

ASSUME SymbolAssumption == SymbolOrder \in Seq(STRING) /\ Len(SymbolOrder) > 0
ASSUME ConfigAssumption ==
  /\ Configured \in Sources
  /\ Budget \in Nat /\ BackfillBudgets \subseteq Nat
  /\ FallbackAfter \in Nat
ASSUME ClockAssumption ==
  /\ FirstClosed \in Nat /\ MaxMinute \in Nat /\ FirstClosed <= MaxMinute
  \* Minute 0 is early enough for every window to lie inside Minutes.
  /\ \A b \in BackfillBudgets \cup {Budget} : OrOne(b) <= FirstClosed + 1
ASSUME EnvironmentAssumption ==
  /\ ApiModes \subseteq BOOLEAN /\ ApiModes # {}
  /\ DbModes \subseteq BOOLEAN /\ DbModes # {}
  /\ MayDrop \in BOOLEAN /\ MayPurge \in BOOLEAN

VARIABLES
  closed,       \* last closed minute of the wall clock
  live,         \* does the live API answer?
  dbUp,         \* does PostgreSQL answer?
  registered,   \* crypto.symbols
  held,         \* crypto.market_candles_1m: symbol -> minute -> source, or "none"
  pc,           \* where IngestionService.run stands
  pos,          \* index of the symbol a loop of the service is at
  win,          \* the service's [start, end) between pending_window and the upsert
  failures,     \* cycle(): symbols that failed in this pass
  consecutive,  \* _consecutive_failures, saturated at FailureCap
  fallback,     \* is _fallback set?
  stopping,     \* _stopping
  gauge,        \* ingest_active_source: the source labelled 1, "none" if not scraped
  bpc,          \* where the Airflow run_backfill stands
  bpos, bwin, bbudget,
  excused       \* history: the minutes given up for the budget, left out of a page
                \* below its last bar, or purged by an operator

env     == <<closed, live, dbUp>>
tables  == <<registered, held>>
service == <<pc, pos, win, failures, consecutive, fallback, stopping, gauge>>
batch   == <<bpc, bpos, bwin, bbudget>>
vars    == <<env, tables, service, batch, excused>>

\* The code only asks whether the counter has reached FallbackAfter, so counting
\* further than that distinguishes nothing.
FailureCap == OrOne(FallbackAfter)

NoWindow == [start |-> 0, end |-> 0]
Windows  == [start : 0 .. MaxMinute + 1, end : 0 .. MaxMinute + 1]

Rows(s) == {m \in Minutes : held[s][m] # "none"}

\* latest_open_time, for a symbol that has rows.
Newest(s) == CHOOSE m \in Rows(s) : \A k \in Rows(s) : k <= m

---------------------------------------------------------------------------
(* pending_window: what is missing for a symbol, capped by the budget.      *)

\* Slips a change to the window could make: asking for the minute still
\* forming, or stopping short of the one that just closed.
WindowEndForming == closed + 2
WindowEndLate == closed

WindowEnd == closed + 1

EarliestAllowed(budget) == WindowEnd - OrOne(budget)

\* Slip: the cap is applied one minute too far to the right.
PendingWindowShort(s, budget) ==
  LET next == Newest(s) + 1
      floor == IF EarliestAllowed(budget) < closed THEN EarliestAllowed(budget) + 1
               ELSE EarliestAllowed(budget)
  IN  [start |-> IF Rows(s) = {} \/ next <= floor THEN floor ELSE next,
       end   |-> WindowEnd]

PendingWindow(s, budget) ==
  LET next == Newest(s) + 1
  IN  [start |-> IF Rows(s) = {} \/ next < EarliestAllowed(budget)
                 THEN EarliestAllowed(budget) ELSE next,
       end   |-> WindowEnd]

\* What the budget, and nothing else, may give up: missing minutes above the newest
\* row and older than the budget.  Once a later bar lands nobody asks for them again.
GivenUp(s, budget) ==
  {m \in Minutes : /\ m < EarliestAllowed(budget)
                   /\ Rows(s) = {} \/ m > Newest(s)}

Span(w) == {m \in Minutes : w.start <= m /\ m < w.end}

\* The replay generator makes a bar for every minute of the window.
ReplayPage(w) == Span(w)

\* Minutes whose bar fails validation and is skipped, or that the host answering
\* leaves out or does not have yet.
Malformed(w) == IF MayDrop THEN Span(w) ELSE {}

\* A Binance answer: the window without some of those bars.
BinancePages(w) == {Span(w) \ bad : bad \in SUBSET Malformed(w)}

Pages(source, w) == IF source = "binance" THEN BinancePages(w) ELSE {ReplayPage(w)}

Answers(source) == source = "replay" \/ live

\* UPSERT_CANDLES: a symbol's table after the page.
Landed(s, page, source) ==
  [m \in Minutes |-> IF m \in page THEN source ELSE held[s][m]]

(* upsert_candles: one transaction, insert or overwrite, then commit.       *)
Upsert(s, page, source, w) ==
  /\ dbUp /\ s \in registered
  /\ held' = [held EXCEPT ![s] = Landed(s, page, source)]
  /\ excused' = [excused EXCEPT ![s] =
                   @ \cup {m \in Span(w) \ page : \E k \in page : k > m}]
  /\ UNCHANGED registered

EnsureSymbol(s) ==
  /\ dbUp
  /\ registered' = registered \cup {s}
  /\ UNCHANGED <<held, excused>>

---------------------------------------------------------------------------
(* The service.                                                             *)

Running   == pc # "down"
AtSymbol  == pos <= Len(SymbolOrder)
Symbol    == SymbolOrder[pos]

\* active_source
ActiveSource == IF fallback THEN "replay" ELSE Configured

\* What the constructor sets, and what no longer exists once the process is gone.
NoMemory ==
  /\ pos' = 1 /\ win' = NoWindow
  /\ failures' = 0 /\ consecutive' = 0 /\ fallback' = FALSE
  /\ stopping' = FALSE

\* A process starts: the constructor, then run() up to wait_for_database.
Start ==
  /\ pc = "down"
  /\ pc' = "waiting" /\ NoMemory
  /\ gauge' = Configured
  /\ UNCHANGED <<env, tables, batch, excused>>

\* The process is gone, and its metrics endpoint with it.
ProcessEnds ==
  /\ pc' = "down" /\ gauge' = "none" /\ NoMemory

(* wait_for_database: goes on once connect() succeeds, raises when its      *)
(* deadline passes first.  It never looks at _stopping.                     *)
WaitForDatabase ==
  /\ pc = "waiting"
  /\ \/ dbUp /\ pc' = "ensuring"
        /\ UNCHANGED <<pos, win, failures, consecutive, fallback, stopping, gauge>>
     \/ ~dbUp /\ ProcessEnds
  /\ UNCHANGED <<env, tables, batch, excused>>

\* run(): ensure_symbol for every configured symbol, outside any try.
EnsureSymbols ==
  /\ pc = "ensuring"
  /\ \/ AtSymbol /\ EnsureSymbol(Symbol)
        /\ pos' = pos + 1
        /\ UNCHANGED <<pc, win, failures, consecutive, fallback, stopping, gauge>>
     \/ AtSymbol /\ ~dbUp /\ ProcessEnds /\ UNCHANGED <<tables, excused>>
     \/ ~AtSymbol /\ pc' = "idle"
        /\ UNCHANGED <<pos, win, failures, consecutive, fallback, stopping, gauge,
                       tables, excused>>
  /\ UNCHANGED <<env, batch>>

\* Slip: the loop no longer looks at _stopping.
BeginCycleDeaf ==
  /\ pc = "idle"
  /\ pc' = "symbol" /\ pos' = 1 /\ failures' = 0
  /\ UNCHANGED <<win, consecutive, fallback, stopping, gauge>>
  /\ UNCHANGED <<env, tables, batch, excused>>

\* The head of run()'s while loop.
BeginCycle ==
  /\ pc = "idle"
  /\ IF stopping
     THEN ProcessEnds
     ELSE /\ pc' = "symbol" /\ pos' = 1 /\ failures' = 0
          /\ UNCHANGED <<win, consecutive, fallback, stopping, gauge>>
  /\ UNCHANGED <<env, tables, batch, excused>>

\* Either except clause of cycle(): count the symbol as failed, go to the next.
SymbolFails ==
  /\ failures' = failures + 1
  /\ pos' = pos + 1 /\ pc' = "symbol" /\ win' = NoWindow

\* cycle(): pending_window, and the early return of ingest_window.
ReadWindow ==
  /\ pc = "symbol" /\ AtSymbol
  /\ \/ /\ dbUp
        /\ LET w == PendingWindow(Symbol, Budget)
           IN  IF w.start < w.end
               THEN /\ pc' = "ingest" /\ win' = w
                    /\ excused' = [excused EXCEPT ![Symbol] =
                                     @ \cup GivenUp(Symbol, Budget)]
               ELSE pc' = "lag" /\ UNCHANGED <<win, excused>>
        /\ UNCHANGED <<pos, failures>>
     \/ ~dbUp /\ SymbolFails /\ UNCHANGED excused
  /\ UNCHANGED <<env, tables, batch,
                 consecutive, fallback, stopping, gauge>>

\* Slip: a failed ingest_window is counted by a handler of its own, and the pass
\* goes on to the lag of the same symbol, where it can fail and be counted again.
IngestWindowGoesOn ==
  /\ pc = "ingest" /\ pc' = "lag" /\ win' = NoWindow
  /\ \/ /\ Answers(ActiveSource)
        /\ \E page \in Pages(ActiveSource, win) :
             IF page = {} THEN UNCHANGED <<tables, excused>>
             ELSE Upsert(Symbol, page, ActiveSource, win)
        /\ UNCHANGED failures
     \/ /\ ~Answers(ActiveSource) \/ ~dbUp \/ Symbol \notin registered
        /\ failures' = failures + 1
        /\ UNCHANGED <<tables, excused>>
  /\ UNCHANGED <<env, batch, pos, consecutive, fallback, stopping, gauge>>

\* ingest_window: fetch, then upsert what came back.
IngestWindow ==
  /\ pc = "ingest"
  /\ \/ /\ Answers(ActiveSource)
        /\ \E page \in Pages(ActiveSource, win) :
             IF page = {} THEN UNCHANGED <<tables, excused>>
             ELSE Upsert(Symbol, page, ActiveSource, win)
        /\ pc' = "lag" /\ win' = NoWindow
        /\ UNCHANGED <<pos, failures>>
     \/ /\ ~Answers(ActiveSource) \/ ~dbUp \/ Symbol \notin registered
        /\ SymbolFails
        /\ UNCHANGED <<tables, excused>>
  /\ UNCHANGED <<env, batch, consecutive, fallback, stopping, gauge>>

\* cycle(): the second latest_open_time.  When it raises, a symbol whose rows
\* have just been committed still counts as failed.
ReadLag ==
  /\ pc = "lag"
  /\ \/ dbUp /\ pc' = "symbol" /\ pos' = pos + 1 /\ UNCHANGED <<win, failures>>
     \/ ~dbUp /\ SymbolFails
  /\ UNCHANGED <<env, tables, batch, excused, consecutive, fallback, stopping, gauge>>

\* Slip: recovery clears the counter but leaves the fallback in place.
NoteSuccessSticky ==
  /\ consecutive' = 0
  /\ UNCHANGED <<fallback, gauge>>

\* _note_success
NoteSuccess ==
  /\ fallback' = FALSE
  /\ gauge' = IF fallback THEN Configured ELSE gauge
  /\ consecutive' = 0

\* Slip: the degradation is not exported.
NoteFailureSilent ==
  LET n == IF consecutive < FailureCap THEN consecutive + 1 ELSE consecutive
  IN  /\ consecutive' = n
      /\ fallback' = (fallback \/ (FallbackAfter # 0 /\ n >= FallbackAfter))
      /\ gauge' = gauge

\* _note_failure.  The code counts on; whether the threshold is reached stays the same.
NoteFailure ==
  LET n == IF consecutive < FailureCap THEN consecutive + 1 ELSE consecutive
      degrade == FallbackAfter # 0 /\ n >= FallbackAfter /\ ~fallback
  IN  /\ consecutive' = n
      /\ fallback' = (fallback \/ degrade)
      /\ gauge' = IF degrade THEN "replay" ELSE gauge

\* cycle(): the verdict on the pass.  A pass in which only some symbols failed
\* touches neither the counter nor the fallback.
EndCycle ==
  /\ pc = "symbol" /\ ~AtSymbol
  /\ \/ failures = 0 /\ NoteSuccess
     \/ failures \in 1 .. Len(SymbolOrder) - 1
        /\ UNCHANGED <<consecutive, fallback, gauge>>
     \/ failures >= Len(SymbolOrder) /\ NoteFailure
  /\ pc' = "idle" /\ failures' = 0 /\ pos' = 1
  /\ UNCHANGED <<env, tables, batch, excused, win, stopping>>

\* request_stop, on SIGTERM or SIGINT.
RequestStop ==
  /\ Running /\ ~stopping
  /\ stopping' = TRUE
  /\ UNCHANGED <<env, tables, batch, excused,
                 pc, pos, win, failures, consecutive, fallback, gauge>>

\* SIGKILL, OOM, power: at any step.
Crash ==
  /\ Running
  /\ ProcessEnds
  /\ UNCHANGED <<env, tables, batch, excused>>

---------------------------------------------------------------------------
(* run_backfill, one run at a time (max_active_runs=1).  It always uses the *)
(* configured source, and an exception ends the run.                        *)

BackfillStart ==
  /\ bpc = "idle"
  /\ bpc' = "ensure" /\ bpos' = 1
  /\ bbudget' \in BackfillBudgets
  /\ UNCHANGED <<env, tables, service, excused, bwin>>

BackfillEnsure ==
  /\ bpc = "ensure" /\ bpos <= Len(SymbolOrder)
  /\ EnsureSymbol(SymbolOrder[bpos])
  /\ bpc' = "symbol"
  /\ UNCHANGED <<env, service, bpos, bwin, bbudget>>

BackfillWindow ==
  /\ bpc = "symbol" /\ dbUp
  /\ LET s == SymbolOrder[bpos]
         w == PendingWindow(s, bbudget)
     IN  IF w.start < w.end
         THEN /\ bpc' = "ingest" /\ bwin' = w
              /\ excused' = [excused EXCEPT ![s] = @ \cup GivenUp(s, bbudget)]
              /\ UNCHANGED bpos
         ELSE bpc' = "ensure" /\ bpos' = bpos + 1 /\ UNCHANGED <<bwin, excused>>
  /\ UNCHANGED <<env, tables, service, bbudget>>

BackfillIngest ==
  /\ bpc = "ingest" /\ Answers(Configured)
  /\ \E page \in Pages(Configured, bwin) :
       IF page = {} THEN UNCHANGED <<tables, excused>>
       ELSE Upsert(SymbolOrder[bpos], page, Configured, bwin)
  /\ bpc' = "ensure" /\ bpos' = bpos + 1 /\ bwin' = NoWindow
  /\ UNCHANGED <<env, service, bbudget>>

BackfillIdle == bpc' = "idle" /\ bpos' = 1 /\ bwin' = NoWindow /\ bbudget' = 0

\* All symbols done.
BackfillEnds ==
  /\ bpc = "ensure" /\ bpos > Len(SymbolOrder)
  /\ BackfillIdle
  /\ UNCHANGED <<env, tables, service, excused>>

\* Any exception (the source, the database) or the task being killed.
BackfillAborts ==
  /\ bpc # "idle"
  /\ BackfillIdle
  /\ UNCHANGED <<env, tables, service, excused>>

---------------------------------------------------------------------------
(* The environment.                                                         *)

Tick ==
  /\ closed < MaxMinute
  /\ closed' = closed + 1
  /\ UNCHANGED <<live, dbUp, tables, service, batch, excused>>

ApiFlips ==
  /\ live' \in ApiModes \ {live}
  /\ UNCHANGED <<closed, dbUp, tables, service, batch, excused>>

DbFlips ==
  /\ dbUp' \in DbModes \ {dbUp}
  /\ UNCHANGED <<closed, live, tables, service, batch, excused>>

ReplayRows(s) == {m \in Minutes : held[s][m] = "replay"}

\* docs/RUNBOOK.md, IngestionUsingReplaySource, step 4.
OperatorPurge ==
  /\ MayPurge /\ dbUp
  /\ \E s \in Symbols : ReplayRows(s) # {}
  /\ held' = [s \in Symbols |->
                [m \in Minutes |-> IF m \in ReplayRows(s) THEN "none" ELSE held[s][m]]]
  /\ excused' = [s \in Symbols |-> excused[s] \cup ReplayRows(s)]
  /\ UNCHANGED <<env, registered, service, batch>>

---------------------------------------------------------------------------
Init ==
  /\ closed = FirstClosed /\ live \in ApiModes /\ dbUp \in DbModes
  /\ registered = {}
  /\ held = [s \in Symbols |-> [m \in Minutes |-> "none"]]
  /\ pc = "down" /\ pos = 1 /\ win = NoWindow /\ failures = 0
  /\ consecutive = 0 /\ fallback = FALSE /\ stopping = FALSE /\ gauge = "none"
  /\ bpc = "idle" /\ bpos = 1 /\ bwin = NoWindow /\ bbudget = 0
  /\ excused = [s \in Symbols |-> {}]

\* The steps the process takes by itself.
ServiceStep ==
  \/ WaitForDatabase \/ EnsureSymbols \/ BeginCycle
  \/ ReadWindow \/ IngestWindow \/ ReadLag \/ EndCycle

Backfill ==
  \/ BackfillStart \/ BackfillEnsure \/ BackfillWindow
  \/ BackfillIngest \/ BackfillEnds \/ BackfillAborts

Environment == Tick \/ ApiFlips \/ DbFlips \/ OperatorPurge

Next == Start \/ ServiceStep \/ RequestStop \/ Crash \/ Backfill \/ Environment

Spec == Init /\ [][Next]_vars

(* A live process keeps executing, and `restart: unless-stopped' brings it  *)
(* back.  Nothing is assumed of the API, the database or Airflow.           *)
FairSpec == Spec /\ WF_vars(ServiceStep) /\ WF_vars(Start)

---------------------------------------------------------------------------
(* Properties.                                                              *)

(* Types and ranges; a pass counts each symbol as failed at most once.      *)
TypeOK ==
  /\ closed \in FirstClosed .. MaxMinute
  /\ live \in BOOLEAN /\ dbUp \in BOOLEAN
  /\ registered \subseteq Symbols
  /\ held \in [Symbols -> [Minutes -> Sources \cup {"none"}]]
  /\ pc \in {"down", "waiting", "ensuring", "idle", "symbol", "ingest", "lag"}
  /\ pos \in 1 .. Len(SymbolOrder) + 1
  /\ win \in Windows
  /\ failures \in 0 .. Len(SymbolOrder)
  /\ consecutive \in 0 .. FailureCap
  /\ fallback \in BOOLEAN /\ stopping \in BOOLEAN
  /\ gauge \in Sources \cup {"none"}
  /\ bpc \in {"idle", "ensure", "symbol", "ingest"}
  /\ bpos \in 1 .. Len(SymbolOrder) + 1
  /\ bwin \in Windows
  /\ bbudget \in BackfillBudgets \cup {0}
  /\ excused \in [Symbols -> SUBSET Minutes]

(* No bar of a minute that has not closed is ever stored, whoever wrote it  *)
(* and however late the window computed before a fetch is used: the "only   *)
(* closed bars are ingested" rule of last_closed_minute and pending_window. *)
NoFormingBar ==
  \A s \in Symbols : \A m \in Rows(s) : m <= closed

(* A minute missing below a stored one is missing for a reason: the budget  *)
(* gave it up, the source left it out of a page, or an operator deleted it. *)
(* Two writers whose windows overlap, a crash between the read of           *)
(* max(open_time) and the upsert, a restart: none of them leaves a hole,    *)
(* which matters because pending_window never looks below max(open_time).   *)
HolesExplained ==
  \A s \in Symbols : \A k \in Rows(s) : \A m \in Minutes :
    m < k => m \in Rows(s) \cup excused[s]

(* The fallback is set exactly while the failure counter stands at the      *)
(* configured threshold, and the exported gauge names the source in use.    *)
FallbackConsistent ==
  /\ fallback <=> (FallbackAfter # 0 /\ consecutive >= FallbackAfter)
  /\ Running => gauge = ActiveSource

(* A row turns into a replay row only while the process that writes it      *)
(* exports ingest_active_source{source="replay"} = 1: the degradation the   *)
(* service's docstring promises to be loud.                                 *)
ReplayIsLoud ==
  [][\A s \in Symbols : \A m \in Minutes :
       held[s][m] # "replay" /\ held'[s][m] = "replay"
         => Configured = "replay" \/ gauge = "replay"]_vars

(* What docs/RUNBOOK.md says of the fallback ("The service returns to the   *)
(* live source automatically on the first success"): a running service      *)
(* leaves it only when the live API answers.                                *)
FallbackEndsOnLiveSuccess == [][fallback /\ ~fallback' /\ Running' => live]_vars

Fresh == \A s \in Symbols : Rows(s) # {} /\ Newest(s) = closed

Healthy == live /\ dbUp /\ ~stopping /\ Running

(* Gap healing: however the service, the API and the database failed        *)
(* before, once they stay up every symbol reaches the last closed minute.   *)
FreshnessRecovers == <>[]Healthy => []<>Fresh

(* A stop request ends the process, whatever the API and the database do.   *)
StopIsHonoured == stopping ~> ~Running

=============================================================================
