------------------------- MODULE BinanceFetchProofs -------------------------
(***************************************************************************)
(* Proofs about BinanceFetch, for any number of hosts, retries and bars,   *)
(* any page size, any failures and any lag of the hosts: its types, the    *)
(* walk over the hosts, and that it implements CandleSource.               *)
(***************************************************************************)
EXTENDS BinanceFetch, FiniteSetTheorems, TLAPS

---------------------------------------------------------------------------
(* The inductive invariants.                                                *)

\* How many hosts the walk passes before it comes to h.
Distance(h) == IF h >= preferred THEN h - preferred ELSE h - preferred + NumHosts

\* The walk has gone q times round all hosts and r hosts further.
Walked(q, r) ==
  /\ attempt = q * NumHosts + r
  /\ \A h \in Hosts : asked[h] = q + IF Distance(h) < r THEN 1 ELSE 0

WalkInOrder ==
  (pending \/ outcome = "exhausted") /\ ~garbled
    => \E q \in Nat, r \in 0 .. NumHosts - 1 : Walked(q, r)

\* Which attempt an exhausted walk ends with.
WalkOver == outcome = "exhausted" => attempt = Attempts

Walk == WalkInOrder /\ WalkOver

\* The list holds the good bars below the cursor, those it knew of for sure.
Collected ==
  pending =>
    /\ outcome = "none"
    /\ known \subseteq Good(window)
    /\ \A m \in Minutes :
         /\ candles[m] \in {0, 1}
         /\ candles[m] = 1 => m \in Good(window) /\ m < cursor
         /\ m \in known /\ m < cursor => candles[m] = 1

---------------------------------------------------------------------------
(* Arithmetic.                                                              *)

LEMMA MultipleOf ==
  ASSUME NEW n \in Nat \ {0}, NEW k \in Int, NEW s \in Int, -n < s, s < n, k * n = s
  PROVE  k = 0 /\ s = 0
<1>1. CASE k >= 1
  <2>1. k * n >= n
    BY <1>1
  <2> QED BY <2>1
<1>2. CASE k <= -1
  <2>1. k * n <= -n
    BY <1>2
  <2> QED BY <2>1
<1>3. CASE k = 0
  BY <1>3
<1> QED BY <1>1, <1>2, <1>3

LEMMA DivisionIsUnique ==
  ASSUME NEW n \in Nat \ {0}, NEW k \in Int, NEW l \in Int,
         NEW s \in 0 .. n - 1, NEW t \in 0 .. n - 1, k * n + s = l * n + t
  PROVE  k = l /\ s = t
<1>1. (k - l) * n = t - s
  OBVIOUS
<1>2. k - l \in Int /\ t - s \in Int /\ -n < t - s /\ t - s < n
  OBVIOUS
<1>3. k - l = 0 /\ t - s = 0
  BY <1>1, <1>2, MultipleOf
<1> QED BY <1>3

LEMMA Remainder ==
  ASSUME NEW n \in Nat \ {0}, NEW k \in Int, NEW s \in 0 .. n - 1
  PROVE  (k * n + s) % n = s
<1> DEFINE x == k * n + s
<1>0. x \in Int
  OBVIOUS
<1> HIDE DEF x
<1>1. x \in Int /\ x % n \in 0 .. n - 1 /\ x \div n \in Int /\ x = (x \div n) * n + (x % n)
  BY <1>0
<1>2. k * n + s = (x \div n) * n + (x % n)
  BY <1>1 DEF x
<1>3. s = x % n
  BY <1>1, <1>2, DivisionIsUnique
<1> QED BY <1>3 DEF x

---------------------------------------------------------------------------
(* Types.                                                                   *)

LEMMA AttemptsType == Attempts \in Nat \ {0}
BY SourceAssumption DEF Attempts

LEMMA HostType ==
  ASSUME TypeOK
  PROVE  Host \in Hosts
<1>1. preferred + attempt \in Nat
  BY AttemptsType, SourceAssumption DEF TypeOK, Hosts
<1> QED BY <1>1, SourceAssumption DEF Host, Hosts

LEMMA InitType == Init => TypeOK
<1> SUFFICES ASSUME Init PROVE TypeOK
  OBVIOUS
<1>1. pending \in BOOLEAN /\ garbled \in BOOLEAN /\ ~pending
  BY Zenon DEF Init
<1>2. /\ preferred \in Hosts /\ cursor \in 0 .. MaxMinute + 1
      /\ attempt \in 0 .. Attempts /\ asked \in [Hosts -> Nat]
      /\ candles \in [Minutes -> Nat] /\ known \in SUBSET Minutes
  BY AttemptsType, SourceAssumption, MinuteAssumption DEF Init, Hosts, NoCandles
<1> QED BY <1>1, <1>2 DEF Init, TypeOK

LEMMA SendType ==
  ASSUME TypeOK, Send
  PROVE  asked' \in [Hosts -> Nat] /\ pending
BY HostType DEF TypeOK, Send

LEMMA NewPageType ==
  ASSUME NewPage
  PROVE  /\ attempt' \in 0 .. Attempts /\ attempt' < Attempts
         /\ asked' \in [Hosts -> Nat] /\ garbled' \in BOOLEAN
<1>1. garbled' \in BOOLEAN
  BY Zenon DEF NewPage
<1>2. attempt' = 0 /\ asked' = [h \in Hosts |-> 0]
  BY Zenon DEF NewPage
<1> QED BY <1>1, <1>2, AttemptsType

LEMMA TryNextType ==
  ASSUME TypeOK, pending, TryNext
  PROVE  /\ attempt' \in 0 .. Attempts
         /\ pending' \in BOOLEAN /\ (pending' => attempt' < Attempts)
         /\ candles' \in [Minutes -> Nat]
         /\ outcome' \in {"none", "candles", "error", "exhausted"}
<1>1. attempt \in Nat /\ attempt < Attempts /\ attempt' = attempt + 1
  BY AttemptsType DEF TypeOK, TryNext
<1>2. attempt' \in 0 .. Attempts
  BY <1>1, AttemptsType
<1>3. CASE attempt' < Attempts
  BY <1>2, <1>3 DEF TypeOK, TryNext
<1>4. CASE ~(attempt' < Attempts)
  <2>1. ~pending' /\ pending' \in BOOLEAN /\ outcome' = "exhausted" /\ candles' = NoCandles
    BY <1>4, Zenon DEF TryNext, GiveUp, Finish
  <2> QED BY <1>2, <2>1 DEF NoCandles
<1> QED BY <1>3, <1>4

LEMMA AnswerType ==
  ASSUME TypeOK, Answer
  PROVE  TypeOK'
<1> USE SourceAssumption, MinuteAssumption
<1>1. /\ pending /\ preferred' \in Hosts /\ UNCHANGED <<bars, window, known>>
  BY HostType DEF Answer
<1>0. PICK horizon \in Horizons :
        \E p \in SUBSET Served(horizon) :
          IF \E m \in p : bars[m] = "unreadable"
          THEN GiveUp("error") /\ UNCHANGED <<cursor, page>>
          ELSE ReadPage(p)
  BY DEF Answer
<1>2. PICK p \in SUBSET Served(horizon) :
        IF \E m \in p : bars[m] = "unreadable"
        THEN GiveUp("error") /\ UNCHANGED <<cursor, page>>
        ELSE ReadPage(p)
  BY <1>0
<1>3. CASE GiveUp("error") /\ UNCHANGED <<cursor, page>>
  BY <1>1, <1>3 DEF TypeOK, GiveUp, Finish, NoCandles, page
<1>4. CASE ReadPage(p)
  <2>1. candles' \in [Minutes -> Nat]
    BY <1>4 DEF ReadPage, TypeOK
  <2>2. CASE Finish("candles") /\ UNCHANGED <<cursor, page>>
    BY <1>1, <2>1, <2>2 DEF TypeOK, Finish, page
  <2>3. ASSUME NEW last \in p, cursor' = NextCursor(last), NewPage,
               ~LastPage(p, NextCursor(last)), UNCHANGED <<pending, outcome>>
        PROVE  TypeOK'
    <3>1. last \in Minutes /\ cursor <= last
      BY DEF Served
    <3>2. /\ cursor' \in 0 .. MaxMinute + 1 /\ window.start <= cursor' /\ cursor' < window.end
      BY <1>1, <2>3, <3>1 DEF NextCursor, LastPage, TypeOK, Minutes, Windows
    <3> QED BY <1>1, <2>1, <2>3, <3>2, NewPageType DEF TypeOK
  <2> QED BY <1>4, <2>2, <2>3 DEF ReadPage
<1> QED BY <1>2, <1>3, <1>4

LEMMA NextType == TypeOK /\ [Next]_vars => TypeOK'
<1> SUFFICES ASSUME TypeOK, [Next]_vars PROVE TypeOK'
  OBVIOUS
<1>1. CASE Publish
  BY <1>1 DEF Publish, TypeOK, page
<1>2. CASE Fetch
  <2>1. /\ window' \in Windows /\ window'.start < window'.end
        /\ cursor' = window'.start /\ cursor' \in 0 .. MaxMinute + 1
    BY <1>2, MinuteAssumption DEF Fetch, Windows
  <2>2. known' \in SUBSET Minutes /\ candles' \in [Minutes -> Nat]
    BY <1>2 DEF Fetch, Good, Span, NoCandles
  <2>3. window'.start <= cursor' /\ cursor' < window'.end
    BY <2>1, MinuteAssumption
  <2> QED BY <1>2, <2>1, <2>2, <2>3, NewPageType DEF Fetch, TypeOK
<1>3. CASE Answer
  BY <1>3, AnswerType
<1>4. CASE Unavailable
  BY <1>4, SendType, TryNextType DEF Unavailable, TypeOK
<1>5. CASE NotJson
  BY <1>5, SendType, TryNextType, HostType DEF NotJson, TypeOK
<1>6. CASE NotAnArray
  BY <1>6, SendType, HostType DEF NotAnArray, TypeOK, GiveUp, Finish, NoCandles
<1>7. CASE Refused
  BY <1>7, SendType DEF Refused, TypeOK, GiveUp, Finish, NoCandles
<1>8. CASE UNCHANGED vars
  BY <1>8 DEF vars, page, TypeOK
<1> QED BY <1>1, <1>2, <1>3, <1>4, <1>5, <1>6, <1>7, <1>8 DEF Next, Request

(* The state stays in range: a page costs at most MaxRetries attempts per   *)
(* host, and the cursor never leaves the window.                            *)
THEOREM TypeCorrect == Spec => []TypeOK
<1> QED BY InitType, NextType, PTL DEF Spec

---------------------------------------------------------------------------
(* The walk over the hosts.                                                 *)

LEMMA HostOfWalk ==
  ASSUME TypeOK, NEW q \in Nat, NEW r \in 0 .. NumHosts - 1, Walked(q, r)
  PROVE  /\ Host \in Hosts
         /\ \A h \in Hosts : Distance(h) = r <=> h = Host
<1> USE SourceAssumption
<1>1. preferred \in 0 .. NumHosts - 1 /\ attempt = q * NumHosts + r
  BY DEF TypeOK, Hosts, Walked
<1>2. CASE preferred + r < NumHosts
  <2>1. preferred + attempt = q * NumHosts + (preferred + r)
    BY <1>1
  <2>2. preferred + r \in 0 .. NumHosts - 1
    BY <1>1, <1>2
  <2>3. (q * NumHosts + (preferred + r)) % NumHosts = preferred + r
    BY <2>2, Remainder
  <2>4. Host = preferred + r
    BY <2>1, <2>3 DEF Host
  <2> QED BY <1>1, <1>2, <2>4 DEF Distance, Hosts
<1>3. CASE preferred + r >= NumHosts
  <2> DEFINE s == preferred + r - NumHosts
  <2>1. preferred + attempt = (q + 1) * NumHosts + s
    BY <1>1
  <2>2. s \in 0 .. NumHosts - 1
    BY <1>1, <1>3
  <2> HIDE DEF s
  <2>3. ((q + 1) * NumHosts + s) % NumHosts = s
    BY <2>2, Remainder
  <2>4. Host = s
    BY <2>1, <2>3 DEF Host
  <2> QED BY <1>1, <1>3, <2>4 DEF Distance, Hosts, s
<1> QED BY <1>1, <1>2, <1>3

\* A failed attempt of an unbroken walk is one host further.
LEMMA WalkGoesOn ==
  ASSUME TypeOK, NEW q \in Nat, NEW r \in 0 .. NumHosts - 1, Walked(q, r),
         Send, attempt' = attempt + 1, preferred' = preferred
  PROVE  \E q2 \in Nat, r2 \in 0 .. NumHosts - 1 : Walked(q2, r2)'
<1> USE SourceAssumption
<1>1. /\ Host \in Hosts
      /\ \A h \in Hosts : Distance(h) = r <=> h = Host
      /\ \A h \in Hosts : Distance(h) \in 0 .. NumHosts - 1 /\ Distance(h)' = Distance(h)
  BY HostOfWalk DEF Distance, Hosts, TypeOK
<1>2. \A h \in Hosts : asked'[h] = q + IF Distance(h) < r + 1 THEN 1 ELSE 0
  <2> TAKE h \in Hosts
  <2>1. asked[h] = q + IF Distance(h) < r THEN 1 ELSE 0
    BY DEF Walked
  <2>2. asked'[h] = IF h = Host THEN asked[h] + 1 ELSE asked[h]
    BY <1>1 DEF Send, TypeOK
  <2> QED BY <1>1, <2>1, <2>2
<1>3. CASE r + 1 < NumHosts
  <2>1. Walked(q, r + 1)'
    BY <1>1, <1>2 DEF Walked, TypeOK
  <2> QED BY <1>3, <2>1
<1>4. CASE r + 1 = NumHosts
  <2>1. \A h \in Hosts : asked'[h] = q + 1
    BY <1>1, <1>2, <1>4
  <2>2. attempt' = (q + 1) * NumHosts + 0
    BY <1>4 DEF Walked
  <2>3. Walked(q + 1, 0)'
    BY <1>1, <2>1, <2>2 DEF Walked
  <2> QED BY <2>3
<1> QED BY <1>3, <1>4

LEMMA WalkStarts ==
  ASSUME TypeOK', NewPage
  PROVE  \E q \in Nat, r \in 0 .. NumHosts - 1 : Walked(q, r)'
<1>1. attempt' = 0 /\ asked' = [h \in Hosts |-> 0]
  BY Zenon DEF NewPage
<1>2. \A h \in Hosts : ~(Distance(h)' < 0)
  <2>1. preferred' \in Hosts
    BY Zenon DEF TypeOK
  <2>2. \A g, h \in Hosts : ~((IF h >= g THEN h - g ELSE h - g + NumHosts) < 0)
    BY SourceAssumption DEF Hosts
  <2> QED BY <2>1, <2>2 DEF Distance
<1>3. Walked(0, 0)'
  BY <1>1, <1>2, SourceAssumption DEF Walked
<1> QED BY <1>3, SourceAssumption

\* A walk that ends as exhausted has used all its attempts.
LEMMA ExhaustedIsOver ==
  ASSUME TypeOK, Collected, pending, TryNext
  PROVE  WalkOver'
<1>1. attempt \in Nat /\ attempt < Attempts /\ attempt' = attempt + 1 /\ outcome = "none"
  BY AttemptsType DEF TypeOK, TryNext, Collected
<1>2. CASE attempt' < Attempts
  <2>1. outcome' = "none"
    BY <1>1, <1>2 DEF TryNext
  <2> QED BY <2>1 DEF WalkOver
<1>3. CASE ~(attempt' < Attempts)
  <2>1. attempt' = Attempts
    BY <1>1, <1>3, AttemptsType
  <2> QED BY <2>1 DEF WalkOver, Attempts
<1> QED BY <1>2, <1>3

LEMMA NextWalk == TypeOK /\ TypeOK' /\ Walk /\ Collected /\ [Next]_vars => Walk'
<1> SUFFICES ASSUME TypeOK, TypeOK', Walk, Collected, [Next]_vars PROVE Walk'
  OBVIOUS
<1> USE DEF Walk, WalkInOrder, WalkOver
<1>1. CASE Publish \/ UNCHANGED vars
  BY <1>1 DEF Publish, vars, page, Walked, Distance
<1>2. CASE Fetch
  BY <1>2, WalkStarts DEF Fetch
<1>3. CASE Answer
  <2>1. outcome = "none"
    BY <1>3 DEF Answer, Collected
  <2>2. CASE outcome' \in {"candles", "error"} /\ ~pending'
    BY <2>2
  <2>3. CASE NewPage /\ UNCHANGED <<pending, outcome>>
    BY <2>1, <2>3, WalkStarts
  <2> QED BY <1>3, <2>2, <2>3 DEF Answer, ReadPage, GiveUp, Finish
<1>4. CASE Unavailable
  <2>1. attempt' = attempt + 1 /\ Send /\ UNCHANGED <<preferred, garbled>> /\ pending
    BY <1>4 DEF Unavailable, TryNext, Send
  <2>2. WalkInOrder'
    BY <2>1, WalkGoesOn
  <2>3. WalkOver'
    BY <1>4, <2>1, ExhaustedIsOver DEF Unavailable
  <2> QED BY <2>2, <2>3
<1>5. CASE NotJson
  <2>1. pending /\ TryNext /\ garbled'
    BY <1>5, Zenon DEF NotJson, Send
  <2>2. WalkOver'
    BY <2>1, ExhaustedIsOver
  <2> QED BY <2>1, <2>2
<1>6. CASE NotAnArray \/ Refused
  BY <1>6 DEF NotAnArray, Refused, GiveUp, Finish
<1> QED BY <1>1, <1>2, <1>3, <1>4, <1>5, <1>6 DEF Next, Request

---------------------------------------------------------------------------
(* What is collected.                                                       *)

LEMMA NewFetch ==
  ASSUME Fetch
  PROVE  Collected'
<1>1. /\ window' \in Windows /\ known' = Good(window') /\ bars' = bars
      /\ cursor' = window'.start /\ candles' = NoCandles /\ outcome' = "none"
  BY DEF Fetch
<1>2. \A m \in known' : ~(m < cursor')
  BY <1>1, MinuteAssumption DEF Good, Span, Windows, Minutes
<1>3. known' \subseteq Good(window)'
  BY <1>1 DEF Good
<1> QED BY <1>1, <1>2, <1>3 DEF Collected, NoCandles

\* Good bars stay good.
LEMMA GoodGrows ==
  ASSUME Publish
  PROVE  Good(window) \subseteq Good(window)'
BY DEF Publish, Good, Span, Quality

\* With page p, the list ends before next and has every known minute below it.
ListedBelow(p, next) ==
  \A m \in Minutes :
    LET n == candles[m] + IF m \in Taken(p) THEN 1 ELSE 0
    IN  /\ n \in {0, 1}
        /\ n = 1 => m \in Good(window) /\ m < next
        /\ m \in known /\ m < next => n = 1

\* What a fetch may end with: nothing is missing below the minutes no host need have.
ListIsDue(p) ==
  \E next \in Int : next >= window.end - Behind /\ ListedBelow(p, next)

LEMMA HorizonType ==
  ASSUME TypeOK, pending, NEW horizon \in Horizons
  PROVE  horizon \in Int /\ horizon >= window.end - Behind
BY LagAssumption, MinuteAssumption DEF TypeOK, Windows, Horizons

\* A page adds the bars from the cursor to its last one, each of them once.
LEMMA PageIsListed ==
  ASSUME TypeOK, Collected, pending,
         NEW horizon \in Horizons,
         NEW p \in SUBSET Served(horizon), IsPage(p, horizon),
         NEW last \in p, \A m \in p : m <= last
  PROVE  /\ ListedBelow(p, last + 1)
         /\ LastPage(p, last + 1) => ListIsDue(p)
<1> USE MinuteAssumption
<1>1. /\ window \in Windows /\ window.start \in Int /\ window.end \in Int /\ cursor \in Int
      /\ window.start <= cursor
      /\ p \subseteq Minutes /\ last \in Minutes /\ cursor <= last /\ last < horizon
      /\ horizon \in Int /\ horizon >= window.end - Behind
  BY HorizonType DEF TypeOK, Windows, Served
<1>2. \A m \in Taken(p) : m \in Good(window) /\ cursor <= m /\ m <= last
  BY <1>1 DEF Taken, Served, Good, Span, Minutes
<1>3. \A m \in known : cursor <= m /\ m <= last => m \in Taken(p)
  <2> TAKE m \in known
  <2> HAVE cursor <= m /\ m <= last
  <2>1. m \in Minutes /\ bars[m] = "good" /\ m < window.end
    BY DEF Collected, Good, Span
  <2>2. m \in Served(horizon)
    BY <1>1, <2>1 DEF Served, Minutes
  <2>3. m \in p
    BY <1>1, <2>1, <2>2 DEF IsPage, Minutes
  <2> QED BY <2>1, <2>3 DEF Taken
<1>4. \A m \in Minutes : /\ candles[m] \in {0, 1}
                         /\ candles[m] = 1 => m \in Good(window) /\ m < cursor
                         /\ m \in known /\ m < cursor => candles[m] = 1
  BY DEF Collected
<1>5. ListedBelow(p, last + 1)
  BY <1>1, <1>2, <1>3, <1>4 DEF ListedBelow, Minutes
<1>6. CASE last + 1 >= window.end
  <2>1. last + 1 \in Int /\ last + 1 >= window.end - Behind
    BY <1>1, <1>6, LagAssumption DEF Minutes
  <2> QED BY <1>5, <2>1 DEF ListIsDue
<1>7. CASE Cardinality(p) < Limit
  <2>1. p = Served(horizon)
    BY <1>7 DEF IsPage
  <2>2. \A m \in known : cursor <= m /\ m < horizon => m \in Taken(p)
    <3> TAKE m \in known
    <3>1. m \in Minutes /\ bars[m] = "good" /\ m < window.end
      BY DEF Collected, Good, Span
    <3>2. cursor <= m /\ m < horizon => m \in p
      BY <2>1, <3>1 DEF Served
    <3> QED BY <3>1, <3>2 DEF Taken
  <2>3. ListedBelow(p, horizon)
    BY <1>1, <1>2, <1>4, <2>2 DEF ListedBelow, Minutes
  <2> QED BY <1>1, <1>5, <2>3 DEF ListIsDue
<1>8. ~(last + 1 <= cursor)
  BY <1>1 DEF Minutes
<1> QED BY <1>5, <1>6, <1>7, <1>8 DEF LastPage

\* An empty page means the host has nothing more.
LEMMA EmptyPageIsListed ==
  ASSUME TypeOK, Collected, pending,
         NEW horizon \in Horizons, IsPage({}, horizon)
  PROVE  ListIsDue({})
<1>1. Served(horizon) = {}
  BY FS_EmptySet, SourceAssumption DEF IsPage
<1>2. cursor \in Int /\ horizon \in Int /\ horizon >= window.end - Behind
      /\ window.end - Behind \in Int
  BY HorizonType, LagAssumption, MinuteAssumption DEF TypeOK, Windows
<1>3. \A m \in known : m \in Minutes /\ m \in Int /\ (m < cursor \/ ~(m < horizon))
  <2> TAKE m \in known
  <2>1. m \in Minutes /\ bars[m] = "good"
    BY DEF Collected, Good, Span
  <2>2. m \in Int
    BY <2>1, MinuteAssumption DEF Minutes
  <2> QED BY <1>1, <1>2, <2>1, <2>2 DEF Served
<1>4. ListedBelow({}, cursor)
  BY <1>2, <1>3, MinuteAssumption DEF Collected, ListedBelow, Taken, Minutes, TypeOK
<1>5. CASE horizon <= cursor
  BY <1>2, <1>4, <1>5 DEF ListIsDue
<1>6. CASE cursor < horizon
  <2>1. ListedBelow({}, horizon)
    BY <1>2, <1>3, <1>4, <1>6, MinuteAssumption DEF ListedBelow, Taken, Minutes
  <2> QED BY <1>2, <2>1 DEF ListIsDue
<1> QED BY <1>2, <1>5, <1>6

\* How a page ends: with the next one, with the list, or with nothing.
LEMMA AnswerCases ==
  ASSUME TypeOK, Collected, Answer
  PROVE  /\ pending /\ outcome = "none" /\ UNCHANGED <<bars, window, known>>
         /\ \/ UNCHANGED <<pending, outcome>> /\ Collected'
            \/ /\ ~pending' /\ outcome' = "candles"
               /\ \E p \in SUBSET Minutes :
                    /\ ListIsDue(p)
                    /\ candles' = [m \in Minutes |-> candles[m] + IF m \in Taken(p) THEN 1 ELSE 0]
            \/ ~pending' /\ outcome' = "error"
<1>1. pending /\ outcome = "none" /\ UNCHANGED <<bars, window, known>>
  BY DEF Answer, Collected
<1>2. PICK horizon \in Horizons :
        \E p \in SUBSET Served(horizon) :
          /\ IsPage(p, horizon)
          /\ IF \E m \in p : bars[m] = "unreadable"
             THEN GiveUp("error") /\ UNCHANGED <<cursor, page>>
             ELSE ReadPage(p)
  BY DEF Answer
<1>3. PICK p \in SUBSET Served(horizon) :
        /\ IsPage(p, horizon)
        /\ IF \E m \in p : bars[m] = "unreadable"
           THEN GiveUp("error") /\ UNCHANGED <<cursor, page>>
           ELSE ReadPage(p)
  BY <1>2
<1>4. p \in SUBSET Minutes
  BY DEF Served
<1>5. CASE GiveUp("error")
  BY <1>1, <1>5, Zenon DEF GiveUp, Finish
<1>6. CASE ReadPage(p)
  <2>1. candles' = [m \in Minutes |-> candles[m] + IF m \in Taken(p) THEN 1 ELSE 0]
    BY <1>6 DEF ReadPage
  <2>2. CASE p = {} /\ Finish("candles")
    <3>1. ListIsDue(p)
      BY <1>1, <1>3, <2>2, EmptyPageIsListed
    <3> QED BY <1>1, <1>4, <2>1, <2>2, <3>1, Zenon DEF Finish
  <2>3. ASSUME NEW last \in p, \A m \in p : m <= last,
               LastPage(p, last + 1), Finish("candles")
        PROVE  /\ ~pending' /\ outcome' = "candles"
               /\ ListIsDue(p)
    <3>1. ListIsDue(p)
      BY <1>1, <1>3, <2>3, PageIsListed
    <3> QED BY <2>3, <3>1, Zenon DEF Finish
  <2>4. ASSUME NEW last \in p, \A m \in p : m <= last, cursor' = last + 1,
               UNCHANGED <<pending, outcome>>
        PROVE  Collected'
    <3>1. ListedBelow(p, last + 1)
      BY <1>1, <1>3, <2>4, PageIsListed
    <3>2. Good(window)' = Good(window)
      BY <1>1 DEF Good
    <3> QED BY <1>1, <2>1, <2>4, <3>1, <3>2 DEF Collected, ListedBelow
  <2> QED BY <1>1, <1>4, <1>6, <2>1, <2>2, <2>3, <2>4 DEF ReadPage, NextCursor
<1> QED BY <1>3, <1>5, <1>6

LEMMA NextCollected == TypeOK /\ Collected /\ [Next]_vars => Collected'
<1> SUFFICES ASSUME TypeOK, Collected, [Next]_vars PROVE Collected'
  OBVIOUS
<1>1. CASE Publish
  BY <1>1, GoodGrows DEF Publish, Collected
<1>2. CASE Fetch
  BY <1>2, NewFetch
<1>3. CASE Answer
  BY <1>3, AnswerCases DEF Collected
<1>4. ASSUME TryNext, UNCHANGED <<bars, window, cursor, known>>
      PROVE  Collected'
  BY <1>4 DEF TryNext, GiveUp, Finish, Collected, Good
<1>5. CASE Unavailable \/ NotJson
  BY <1>4, <1>5 DEF Unavailable, NotJson
<1>6. CASE NotAnArray \/ Refused
  BY <1>6 DEF NotAnArray, Refused, GiveUp, Finish, Collected
<1>7. CASE UNCHANGED vars
  BY <1>7 DEF vars, Collected, Good
<1> QED BY <1>1, <1>2, <1>3, <1>5, <1>6, <1>7 DEF Next, Request

THEOREM Invariants == Spec => [](TypeOK /\ Walk /\ Collected)
<1>1. Init => TypeOK /\ Walk /\ Collected
  <2>1. Init => Collected /\ Walk
    BY Zenon DEF Init, Collected, Walk, WalkInOrder, WalkOver
  <2> QED BY <2>1, InitType
<1>2. (TypeOK /\ Walk /\ Collected) /\ [Next]_vars => (TypeOK /\ Walk /\ Collected)'
  BY NextType, NextWalk, NextCollected
<1> QED BY <1>1, <1>2, PTL DEF Spec

---------------------------------------------------------------------------
(* The results.                                                             *)

(* A fetch that gives up has tried every host MaxRetries times, for any     *)
(* number of hosts and wherever the walk began, unless some host answered   *)
(* 200 without JSON.                                                        *)
THEOREM NoHostIsSkipped == Spec => []EveryHostTried
<1>1. TypeOK /\ Walk => EveryHostTried
  <2> SUFFICES ASSUME TypeOK, Walk, outcome = "exhausted", ~garbled
               PROVE  \A h \in Hosts : asked[h] = MaxRetries
    BY DEF EveryHostTried
  <2>1. PICK q \in Nat, r \in 0 .. NumHosts - 1 : Walked(q, r)
    BY DEF Walk, WalkInOrder
  <2>2. q * NumHosts + r = MaxRetries * NumHosts + 0
    BY <2>1, SourceAssumption DEF Walk, WalkOver, Walked, Attempts
  <2>3. q = MaxRetries /\ r = 0
    BY <2>2, DivisionIsUnique, SourceAssumption
  <2>4. \A g, h \in Hosts : ~((IF h >= g THEN h - g ELSE h - g + NumHosts) < 0)
    BY SourceAssumption DEF Hosts
  <2>5. \A h \in Hosts : ~(Distance(h) < r)
    BY <2>3, <2>4 DEF Distance, TypeOK
  <2> QED BY <2>1, <2>3, <2>5, SourceAssumption DEF Walked
<1> QED BY <1>1, Invariants, PTL

LEMMA InitImplements == Init => Contract!Init
BY DEF Init, Contract!Init, Answered, Minutes, Quality, Contract!Minutes, Contract!Quality

LEMMA Raises ==
  ASSUME pending, ~pending', pending' \in BOOLEAN, outcome' \in {"error", "exhausted"},
         UNCHANGED <<bars, window, known>>
  PROVE  Contract!Raise
<1>1. pending' = FALSE
  BY Zenon
<1>2. Answered' = {}
  BY DEF Answered
<1> QED BY <1>1, <1>2 DEF Contract!Raise

LEMMA Returns ==
  ASSUME TypeOK, Collected, pending, ~pending', pending' \in BOOLEAN, outcome' = "candles",
         UNCHANGED <<bars, window, known>>,
         NEW p \in SUBSET Minutes, ListIsDue(p),
         candles' = [m \in Minutes |-> candles[m] + IF m \in Taken(p) THEN 1 ELSE 0]
  PROVE  Contract!Return
<1>1. pending' = FALSE
  BY Zenon
<1>0. PICK next \in Int : next >= window.end - Behind /\ ListedBelow(p, next)
  BY DEF ListIsDue
<1>2. \A m \in Minutes : /\ candles'[m] \in {0, 1}
                         /\ candles'[m] = 1 => m \in Good(window) /\ m < next
                         /\ m \in known /\ m < next => candles'[m] = 1
  BY <1>0 DEF ListedBelow
<1>3. Answered' = {m \in Minutes : candles'[m] = 1}
  BY <1>2 DEF Answered
<1>4. known \subseteq Minutes
  BY DEF TypeOK
<1>5. Contract!Good(window) = Good(window)
  BY DEF Contract!Good, Good, Contract!Span, Span, Contract!Minutes, Minutes
<1>6. Answered' \in SUBSET Good(window)
  BY <1>2, <1>3
<1>7. ASSUME NEW m \in known \ Answered'
      PROVE  m >= window.end - Behind /\ \A k \in Answered' : k < m
  <2>1. m \in Minutes /\ ~(m < next)
    BY <1>2, <1>3, <1>4, <1>7
  <2>2. window \in Windows
    BY DEF TypeOK
  <2>3. m >= window.end - Behind
    BY <1>0, <2>1, <2>2, LagAssumption, MinuteAssumption DEF Minutes, Windows
  <2>4. \A k \in Answered' : k \in Minutes /\ k < next
    BY <1>2, <1>3
  <2> QED BY <2>1, <2>3, <2>4, MinuteAssumption DEF Minutes
<1> QED BY <1>1, <1>5, <1>6, <1>7 DEF Contract!Return

LEMMA Stutters ==
  ASSUME Collected, pending, UNCHANGED <<bars, window, known, pending, outcome>>
  PROVE  UNCHANGED Contract!vars
BY DEF Collected, Contract!vars, Answered

LEMMA StepImplements ==
  TypeOK /\ TypeOK' /\ Collected /\ [Next]_vars => [Contract!Next]_(Contract!vars)
<1> SUFFICES ASSUME TypeOK, TypeOK', Collected, [Next]_vars
             PROVE  Contract!Next \/ UNCHANGED Contract!vars
  OBVIOUS
<1> USE DEF Contract!Next
<1>0. pending \in BOOLEAN /\ pending' \in BOOLEAN
  BY Zenon DEF TypeOK
<1>1. CASE Publish
  <2>1. Answered' = Answered
    BY <1>1 DEF Publish, Answered
  <2>2. Contract!Publish
    BY <1>1, <2>1 DEF Publish, Contract!Publish, Minutes, Quality,
                      Contract!Minutes, Contract!Quality
  <2> QED BY <2>2
<1>2. CASE Fetch
  <2>1. Answered' = {}
    BY <1>2 DEF Fetch, Answered
  <2>2. Contract!Ask
    BY <1>2, <2>1 DEF Fetch, Contract!Ask, Windows, Contract!Windows, Good, Contract!Good,
                      Span, Contract!Span, Minutes, Contract!Minutes
  <2> QED BY <2>2
<1>3. CASE Answer
  <2>1. CASE UNCHANGED <<pending, outcome>>
    BY <1>3, <2>1, AnswerCases, Stutters
  <2>2. CASE ~pending' /\ outcome' = "error"
    BY <1>0, <1>3, <2>2, AnswerCases, Raises
  <2>3. CASE /\ ~pending' /\ outcome' = "candles"
             /\ \E p \in SUBSET Minutes :
                  /\ ListIsDue(p)
                  /\ candles' = [m \in Minutes |-> candles[m] + IF m \in Taken(p) THEN 1 ELSE 0]
    BY <1>0, <1>3, <2>3, AnswerCases, Returns
  <2> QED BY <1>3, <2>1, <2>2, <2>3, AnswerCases
<1>4. ASSUME pending, TryNext, UNCHANGED <<bars, window, known>>
      PROVE  Contract!Next \/ UNCHANGED Contract!vars
  <2>1. CASE UNCHANGED <<pending, outcome>>
    BY <1>4, <2>1, Stutters
  <2>2. CASE ~pending' /\ outcome' = "exhausted"
    BY <1>0, <1>4, <2>2, Raises
  <2>3. UNCHANGED <<pending, outcome>> \/ (~pending' /\ outcome' = "exhausted")
    BY <1>4, Zenon DEF TryNext, GiveUp, Finish
  <2> QED BY <2>1, <2>2, <2>3
<1>5. CASE Unavailable
  BY <1>4, <1>5 DEF Unavailable, Send
<1>6. CASE NotJson
  BY <1>4, <1>6 DEF NotJson, Send
<1>7. CASE NotAnArray \/ Refused
  <2>1. pending /\ ~pending' /\ outcome' = "error" /\ UNCHANGED <<bars, window, known>>
    BY <1>7, Zenon DEF NotAnArray, Refused, Send, GiveUp, Finish
  <2> QED BY <1>0, <2>1, Raises
<1>8. CASE UNCHANGED vars
  BY <1>8 DEF vars, Contract!vars, Answered
<1> QED BY <1>1, <1>2, <1>3, <1>5, <1>6, <1>7, <1>8 DEF Next, Request

(* BinanceSource keeps the promise of CandleSource, for any hosts, retries, *)
(* page size, exchange and lag of the hosts behind it: each bar once, none  *)
(* missing but the last ones, or an exception.                              *)
THEOREM BinanceIsCandleSource == Spec => ImplementsSource
<1>1. Init => Contract!Init
  BY InitImplements
<1>2. (TypeOK /\ Walk /\ Collected) /\ (TypeOK /\ Walk /\ Collected)' /\ [Next]_vars
        => [Contract!Next]_(Contract!vars)
  BY StepImplements
<1> QED BY <1>1, <1>2, Invariants, PTL DEF Spec, ImplementsSource, Contract!Spec

---------------------------------------------------------------------------
(* Why a fetch ends.  That it does rests on requests that are answered or   *)
(* time out; that there are only so many of them does not.                  *)

\* The requests a fetch may make: each minute of its window may start a page.
Budget == Span(window) \X (0 .. Attempts - 1)

\* Those it cannot make any more.
Spent == {p \in Budget : p[1] < cursor \/ (p[1] = cursor /\ p[2] < attempt)}

(* A request ends the fetch or uses up some of its budget: the cursor only  *)
(* moves forward, and while it stands still attempts only grow.             *)
RequestsAreCounted ==
  [][Request /\ pending' => Cardinality(Spent) < Cardinality(Spent')]_vars

WithinBudget == pending => Cardinality(Spent) < Cardinality(Budget)

LEMMA BudgetIsFinite == IsFiniteSet(Budget)
<1>1. IsFiniteSet(Minutes)
  BY MinuteAssumption, FS_Interval DEF Minutes
<1>2. IsFiniteSet(Span(window))
  BY <1>1, FS_Subset DEF Span
<1>3. IsFiniteSet(0 .. Attempts - 1)
  BY AttemptsType, FS_Interval
<1> QED BY <1>2, <1>3, FS_Product DEF Budget

\* A subset that lacks an element is smaller.
LEMMA SmallerWithout ==
  ASSUME NEW S, NEW T, IsFiniteSet(T), S \subseteq T, NEW p \in T, p \notin S
  PROVE  Cardinality(S) < Cardinality(T)
<1>1. /\ Cardinality(S) <= Cardinality(T) /\ IsFiniteSet(S)
      /\ Cardinality(T) = Cardinality(S) => T = S
  BY FS_Subset
<1>2. Cardinality(S) \in Nat /\ Cardinality(T) \in Nat
  BY <1>1, FS_CardinalityType
<1> QED BY <1>1, <1>2

\* The request at hand has not been spent yet.
LEMMA AtHand ==
  ASSUME TypeOK, pending
  PROVE  <<cursor, attempt>> \in Budget /\ <<cursor, attempt>> \notin Spent
<1>1. /\ window.start <= cursor /\ cursor < window.end /\ cursor \in 0 .. MaxMinute + 1
      /\ window.end \in 0 .. MaxMinute + 1
      /\ attempt \in 0 .. Attempts /\ attempt < Attempts
  BY DEF TypeOK, Windows
<1>2. cursor \in Span(window) /\ attempt \in 0 .. Attempts - 1
  BY <1>1, MinuteAssumption, AttemptsType DEF Span, Minutes
<1>3. ~(cursor < cursor) /\ ~(attempt < attempt)
  BY <1>1, AttemptsType
<1> QED BY <1>2, <1>3 DEF Budget, Spent

\* A request that does not end the fetch asks again, or asks for a later page.
LEMMA RequestGoesOn ==
  ASSUME TypeOK, Request, pending'
  PROVE  /\ pending /\ window' = window
         /\ \/ cursor' = cursor /\ attempt' = attempt + 1
            \/ cursor' \in Int /\ cursor < cursor'
<1>1. CASE Unavailable \/ NotJson
  BY <1>1 DEF Unavailable, NotJson, Send, TryNext
<1>2. CASE NotAnArray \/ Refused
  BY <1>2, Zenon DEF NotAnArray, Refused, GiveUp, Finish
<1>3. CASE Answer
  <2>1. pending /\ window' = window
    BY <1>3 DEF Answer
  <2>2. PICK p \in SUBSET Minutes :
          IF \E m \in p : bars[m] = "unreadable"
          THEN GiveUp("error") /\ UNCHANGED <<cursor, page>>
          ELSE ReadPage(p)
    BY <1>3 DEF Answer, Served
  <2>3. ReadPage(p)
    BY <2>2, Zenon DEF GiveUp, Finish
  <2>4. PICK last \in p : ~LastPage(p, NextCursor(last)) /\ cursor' = NextCursor(last)
    BY <2>3, Zenon DEF ReadPage, Finish
  <2>5. last \in Int /\ cursor \in Int
    BY <2>4 DEF Minutes, TypeOK
  <2> QED BY <2>1, <2>4, <2>5 DEF LastPage, NextCursor
<1> QED BY <1>1, <1>2, <1>3 DEF Request

(* A fetch makes at most as many requests as its window has minutes, times  *)
(* max_retries, times the hosts, whatever the hosts answer and whatever the *)
(* exchange publishes meanwhile: "a short page cannot cause an infinite     *)
(* loop", and neither can an empty or a full one.                           *)
THEOREM RequestsAreBounded == Spec => RequestsAreCounted /\ []WithinBudget
<1>1. TypeOK /\ TypeOK' /\ [Next]_vars
        => [Request /\ pending' => Cardinality(Spent) < Cardinality(Spent')]_vars
  <2> SUFFICES ASSUME TypeOK, TypeOK', Request, pending'
               PROVE  Cardinality(Spent) < Cardinality(Spent')
    OBVIOUS
  <2>1. /\ pending /\ Budget' = Budget
        /\ \/ cursor' = cursor /\ attempt' = attempt + 1
           \/ cursor' \in Int /\ cursor < cursor'
    BY RequestGoesOn DEF Budget, Span
  <2>2. <<cursor, attempt>> \in Budget /\ <<cursor, attempt>> \notin Spent
    BY <2>1, AtHand
  <2>3. cursor \in Int /\ attempt \in Int
    BY AttemptsType DEF TypeOK
  <2>4. <<cursor, attempt>> \in Spent'
    BY <2>1, <2>2, <2>3 DEF Spent
  <2>5. Spent \subseteq Spent'
    <3> SUFFICES ASSUME NEW p \in Spent PROVE p \in Spent'
      OBVIOUS
    <3>1. /\ p \in Budget /\ p[1] \in Int /\ p[2] \in Int
          /\ p[1] < cursor \/ (p[1] = cursor /\ p[2] < attempt)
      BY MinuteAssumption, AttemptsType DEF Spent, Budget, Span, Minutes
    <3> QED BY <2>1, <2>3, <3>1 DEF Spent
  <2>6. IsFiniteSet(Spent')
    <3>1. Spent' \subseteq Budget
      BY <2>1 DEF Spent
    <3> QED BY <3>1, BudgetIsFinite, FS_Subset
  <2> QED BY <2>2, <2>4, <2>5, <2>6, SmallerWithout
<1>2. TypeOK => WithinBudget
  BY AtHand, BudgetIsFinite, SmallerWithout DEF WithinBudget, Spent
<1> QED BY <1>1, <1>2, TypeCorrect, PTL DEF Spec, RequestsAreCounted

=============================================================================
