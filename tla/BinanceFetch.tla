---------------------------- MODULE BinanceFetch ----------------------------
(***************************************************************************)
(* BinanceSource.fetch (sources/binance.py): pages of at most Limit bars,  *)
(* each page asked of one host after another until one answers.  The       *)
(* source is used by one thread; what interleaves with it is the exchange. *)
(*                                                                         *)
(* Any host may fail any request in any way; a page it does answer starts  *)
(* at the cursor, as asked, and has no gap, but the host may be behind the *)
(* exchange, each time by another amount.  So a page never ends before the *)
(* cursor, and the loop's guard against that does not come into play.  The *)
(* sleeps between attempts, which only pass time, are left out.            *)
(***************************************************************************)
EXTENDS Integers, FiniteSets

CONSTANTS
  MaxMinute,   \* bound: the last minute the exchange has a bar for
  NumHosts,    \* len(hosts)
  MaxRetries,  \* Config.max_retries (4)
  Limit,       \* MAX_LIMIT (1000)
  Behind       \* bound: how many of the window's last minutes a host may not have yet

ASSUME MinuteAssumption == MaxMinute \in Nat
ASSUME SourceAssumption ==
  NumHosts \in Nat \ {0} /\ MaxRetries \in Nat \ {0} /\ Limit \in Nat \ {0}
ASSUME LagAssumption == Behind \in Nat

VARIABLES
  bars,       \* the exchange: minute -> quality of its bar
  preferred,  \* _preferred, kept from fetch to fetch
  pending,    \* is a fetch under way?
  window,     \* its [start_ms, end_ms)
  cursor,     \* fetch(): where the next page starts
  attempt,    \* _fetch_page(): attempts of this page that failed
  candles,    \* fetch(): how often each minute is in the list
  outcome,    \* how the last fetch ended
  known,      \* history: good bars of the window when the fetch began
  asked,      \* history: requests for this page, per host
  garbled     \* history: was one of them answered 200 without JSON?

page == <<attempt, asked, garbled>>
vars == <<bars, preferred, pending, window, cursor, candles, outcome, known, page>>

Minutes  == 0 .. MaxMinute
Hosts    == 0 .. NumHosts - 1
Attempts == MaxRetries * NumHosts
Quality  == {"none", "good", "malformed", "unreadable"}
Windows  == {w \in [start : 0 .. MaxMinute + 1, end : 0 .. MaxMinute + 1] : w.start < w.end}
Span(w)  == {m \in Minutes : w.start <= m /\ m < w.end}
Good(w)  == {m \in Span(w) : bars[m] = "good"}

NoCandles == [m \in Minutes |-> 0]

---------------------------------------------------------------------------
Publish ==
  /\ \E m \in Minutes, q \in Quality \ {"none"} :
       /\ bars[m] = "none"
       /\ bars' = [bars EXCEPT ![m] = q]
  /\ UNCHANGED <<preferred, pending, window, cursor, candles, outcome, known, page>>

NewPage ==
  attempt' = 0 /\ asked' = [h \in Hosts |-> 0] /\ garbled' = FALSE

\* fetch() is called; the callers never ask for an empty window.
Fetch ==
  /\ ~pending /\ pending' = TRUE
  /\ window' \in Windows /\ known' = Good(window')
  /\ cursor' = window'.start /\ candles' = NoCandles /\ outcome' = "none"
  /\ NewPage
  /\ UNCHANGED <<bars, preferred>>

\* The host this attempt goes to.
Host == (preferred + attempt) % NumHosts

\* The request of this attempt is sent.
Send == pending /\ asked' = [asked EXCEPT ![Host] = @ + 1]

\* fetch() is over: the list in hand is the answer, or nothing is.
Finish(how) == pending' = FALSE /\ outcome' = how
GiveUp(how) == Finish(how) /\ candles' = NoCandles

\* Slip: one attempt more than the hosts and retries allow.
TryNextOnceMore ==
  /\ attempt' = attempt + 1
  /\ IF attempt' <= Attempts THEN UNCHANGED <<pending, candles, outcome>> ELSE GiveUp("exhausted")

\* The attempt failed: the next one, or all hosts are said to have failed.
TryNext ==
  /\ attempt' = attempt + 1
  /\ IF attempt' < Attempts THEN UNCHANGED <<pending, candles, outcome>> ELSE GiveUp("exhausted")

\* Slip: _preferred moves before the status is looked at.
UnavailablePreferred ==
  /\ Send /\ TryNext
  /\ preferred' = Host
  /\ UNCHANGED <<bars, window, cursor, known, garbled>>

\* A timeout, a transport error, a rate limit, or a status of FAILOVER_STATUSES.
Unavailable ==
  /\ Send /\ TryNext
  /\ UNCHANGED <<bars, preferred, window, cursor, known, garbled>>

(* 200 with a body that is no JSON: response.json() raises a                *)
(* RequestException, after the host has become the preferred one.           *)
NotJson ==
  /\ Send /\ TryNext
  /\ preferred' = Host /\ garbled' = TRUE
  /\ UNCHANGED <<bars, window, cursor, known>>

\* 200 with JSON that is no array: SourceError, likewise too late.
NotAnArray ==
  /\ Send /\ GiveUp("error")
  /\ preferred' = Host
  /\ UNCHANGED <<bars, window, cursor, attempt, known, garbled>>

\* Any other 4xx is not retried, nor a rate limit whose Retry-After is no number.
Refused ==
  /\ Send /\ GiveUp("error")
  /\ UNCHANGED <<bars, preferred, window, cursor, attempt, known, garbled>>

---------------------------------------------------------------------------
(* A page.                                                                  *)

\* How far a host may have got; not all of them honour endTime.
Horizons == window.end - Behind .. window.end + 1

\* What a host that has got so far has from the cursor on.
Served(horizon) == {m \in Minutes : bars[m] # "none" /\ cursor <= m /\ m < horizon}

(* A host's answer: the first Limit bars it has, in order.                  *)
IsPage(p, horizon) ==
  /\ \A m \in p, k \in Served(horizon) : k < m => k \in p
  /\ Cardinality(p) <= Limit
  /\ Cardinality(p) < Limit => p = Served(horizon)

\* The bars of a page that make it into the list.
Taken(p) == {m \in p : m < window.end /\ bars[m] = "good"}

\* Slip: the last bar of a page is asked for again.
NextCursorSame(last) == last

NextCursor(last) == last + 1

\* Is there nothing left to ask for after page p, or no way to get on?
LastPage(p, next) == next <= cursor \/ next >= window.end \/ Cardinality(p) < Limit

\* Slip: an empty page is asked for again until the bars are there.
ReadPageUntilFull(p) ==
  /\ candles' = [m \in Minutes |-> candles[m] + IF m \in Taken(p) THEN 1 ELSE 0]
  /\ \/ p = {} /\ NewPage /\ UNCHANGED <<cursor, pending, outcome>>
     \/ \E last \in p :
          /\ \A m \in p : m <= last
          /\ IF LastPage(p, NextCursor(last))
             THEN Finish("candles") /\ UNCHANGED <<cursor, page>>
             ELSE /\ cursor' = NextCursor(last) /\ NewPage
                  /\ UNCHANGED <<pending, outcome>>

ReadPage(p) ==
  /\ candles' = [m \in Minutes |-> candles[m] + IF m \in Taken(p) THEN 1 ELSE 0]
  /\ \/ /\ p = {} /\ Finish("candles")
        /\ UNCHANGED <<cursor, page>>
     \/ \E last \in p :
          /\ \A m \in p : m <= last
          /\ IF LastPage(p, NextCursor(last))
             THEN Finish("candles") /\ UNCHANGED <<cursor, page>>
             ELSE /\ cursor' = NextCursor(last) /\ NewPage
                  /\ UNCHANGED <<pending, outcome>>

\* int(kline[0]) of a bar without a numeric open time raises out of fetch.
Answer ==
  /\ pending /\ preferred' = Host
  /\ \E horizon \in Horizons :
       \E p \in SUBSET Served(horizon) :
         /\ IsPage(p, horizon)
         /\ IF \E m \in p : bars[m] = "unreadable"
            THEN GiveUp("error") /\ UNCHANGED <<cursor, page>>
            ELSE ReadPage(p)
  /\ UNCHANGED <<bars, window, known>>

---------------------------------------------------------------------------
Init ==
  /\ bars \in [Minutes -> Quality]
  /\ preferred = 0
  /\ pending = FALSE /\ window = [start |-> 0, end |-> 0]
  /\ cursor = 0 /\ candles = NoCandles /\ outcome = "none" /\ known = {}
  /\ attempt = 0 /\ asked = [h \in Hosts |-> 0] /\ garbled = FALSE

Request == Answer \/ Unavailable \/ NotJson \/ NotAnArray \/ Refused

Next == Publish \/ Fetch \/ Request

Spec == Init /\ [][Next]_vars

\* Every request is answered or times out (requests' timeout=).
FairSpec == Spec /\ WF_vars(Request)

---------------------------------------------------------------------------
(* Properties.                                                              *)

TypeOK ==
  /\ bars \in [Minutes -> Quality]
  /\ preferred \in Hosts
  /\ pending \in BOOLEAN /\ garbled \in BOOLEAN
  /\ window \in Windows \cup {[start |-> 0, end |-> 0]}
  /\ pending => window \in Windows /\ window.start <= cursor /\ cursor < window.end
  /\ pending => attempt < Attempts
  /\ cursor \in 0 .. MaxMinute + 1
  /\ candles \in [Minutes -> Nat]
  /\ outcome \in {"none", "candles", "error", "exhausted"}
  /\ known \in SUBSET Minutes
  /\ attempt \in 0 .. Attempts
  /\ asked \in [Hosts -> Nat]

\* The candles handed to the caller, or no list of candles at all.
Answered ==
  IF outcome # "candles" THEN {}
  ELSE IF \E m \in Minutes : candles[m] > 1 THEN {-1}
  ELSE {m \in Minutes : candles[m] = 1}

Contract == INSTANCE CandleSource WITH
  outcome <- IF outcome = "exhausted" THEN "error" ELSE outcome,
  answer  <- Answered

(* What fetch returns is what CandleSource promises: every valid bar of the *)
(* window the exchange had when it was asked, but for the last ones if a    *)
(* host is behind, none outside the window or still forming, none twice (ON *)
(* CONFLICT could not update a row twice), or an exception; whatever the    *)
(* pages and the bars published between two pages, and although each page   *)
(* may come from another host, further ahead or further behind.             *)
ImplementsSource == Contract!Spec

(* "The host list is walked on failure": a fetch gives up only when each    *)
(* host has failed MaxRetries times, wherever the walk began, unless some   *)
(* host answered 200 without JSON (see AllHostsFailed).                     *)
EveryHostTried ==
  outcome = "exhausted" /\ ~garbled => \A h \in Hosts : asked[h] = MaxRetries

(* A fetch ends: no answer, short page or empty page can make it spin       *)
(* ("so a short page cannot cause an infinite loop").                       *)
FetchEnds == pending ~> ~pending

(* "all N Binance host(s) failed": the message of an exhausted fetch.  It   *)
(* does not hold: a 200 without JSON moves _preferred, and the walk, which  *)
(* adds the attempt to it, jumps over hosts.                                *)
AllHostsFailed ==
  outcome = "exhausted" => \A h \in Hosts : asked[h] > 0

=============================================================================
