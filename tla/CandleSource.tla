---------------------------- MODULE CandleSource ----------------------------
(***************************************************************************)
(* What sources/base.py asks of every CandleSource.fetch: the closed bars  *)
(* of the window, each of them once, or SourceError, but never a partial   *)
(* result silently.  Bars that fail validation are dropped loudly and do   *)
(* not count.  The order of the list is left out: every source sorts it.   *)
(*                                                                         *)
(* Time is in minutes; the exchange is the set of bars it can serve, which *)
(* grows while a fetch is under way.  Who is asked may be some minutes     *)
(* behind it, which looks like bars that are not there yet.                *)
(***************************************************************************)
EXTENDS Integers

CONSTANTS
  MaxMinute,  \* bound: the last minute the exchange has a bar for
  Behind      \* how many of the window's last minutes may not have come through yet

VARIABLES
  bars,     \* the exchange: minute -> quality of its bar
  pending,  \* is a fetch under way?
  window,   \* its [start, end)
  known,    \* good bars of the window the exchange had when it was asked
  outcome,  \* how the last fetch ended
  answer    \* the minutes of the candles it returned

vars == <<bars, pending, window, known, outcome, answer>>

Minutes == 0 .. MaxMinute

(* "malformed" bars fail validation; "unreadable" ones do not even have an  *)
(* open time that is a number.                                              *)
Quality  == {"none", "good", "malformed", "unreadable"}
Windows  == {w \in [start : 0 .. MaxMinute + 1, end : 0 .. MaxMinute + 1] : w.start < w.end}
Span(w)  == {m \in Minutes : w.start <= m /\ m < w.end}
Good(w)  == {m \in Span(w) : bars[m] = "good"}

\* The exchange has one more bar, good or bad.
Publish ==
  /\ \E m \in Minutes, q \in Quality \ {"none"} :
       /\ bars[m] = "none"
       /\ bars' = [bars EXCEPT ![m] = q]
  /\ UNCHANGED <<pending, window, known, outcome, answer>>

\* fetch(symbol, start_ms, end_ms) is called.
Ask ==
  /\ ~pending /\ pending' = TRUE
  /\ window' \in Windows /\ known' = Good(window')
  /\ outcome' = "none" /\ answer' = {}
  /\ UNCHANGED bars

(* It returns the bars there were, perhaps some that came while it looked.  *)
(* What is missing is missing at the end: the next window starts after the  *)
(* newest bar of this one, and would never look below it.                   *)
Return ==
  /\ pending /\ pending' = FALSE
  /\ outcome' = "candles"
  /\ answer' \in SUBSET Good(window)
  /\ \A m \in known \ answer' : m >= window.end - Behind /\ \A k \in answer' : k < m
  /\ UNCHANGED <<bars, window, known>>

\* It raises, and the caller gets no candle.
Raise ==
  /\ pending /\ pending' = FALSE
  /\ outcome' = "error" /\ answer' = {}
  /\ UNCHANGED <<bars, window, known>>

Init ==
  /\ bars \in [Minutes -> Quality]
  /\ pending = FALSE /\ window = [start |-> 0, end |-> 0]
  /\ known = {} /\ outcome = "none" /\ answer = {}

Next == Publish \/ Ask \/ Return \/ Raise

Spec == Init /\ [][Next]_vars

=============================================================================
