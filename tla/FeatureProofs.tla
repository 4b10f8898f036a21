--------------------------- MODULE FeatureProofs ---------------------------
(***************************************************************************)
(* Proof that the feature matrix follows the fact table: its frames are    *)
(* warm and its labels are those of the next row, for every set of         *)
(* symbols, every history and every lookback, warm-up and frame.           *)
(***************************************************************************)
EXTENDS MartsProofs, FiniteSetTheorems

---------------------------------------------------------------------------
(* The inductive invariant.  A feature row is judged by the minutes it was  *)
(* computed from, each against staging: a minute is right, or near enough   *)
(* to be computed again, or on the record.                                  *)

Series == [Minutes -> Bars \cup {None}]

Feat    == mart["feat"]
Forming == batch["feat"]

\* The feature row there will be once the batch in flight is inserted.
Coming(s, t) == IF Forming[s][t] # None THEN Forming[s][t] ELSE Feat[s][t]

FactSeries(s)    == [t \in Minutes |-> Bar(s, t)]
LandingSeries(s) == [t \in Minutes |-> Landing(s, t)]

\* WindowFrame and NextRow of any series of bars.
Upto(h, t, from) == {k \in Minutes : from <= k /\ k <= t /\ h[k] # None}

After(S, k) == {j \in S : j > k}

FrameOf(h, t, from) ==
  {<<k, h[k]>> : k \in {k \in Upto(h, t, from) :
     Cardinality(After(Upto(h, t, from), k)) < Frame}}

Later(h, t)  == {k \in Minutes : t < k /\ h[k] # None}
NextOf(h, t) == {<<k, h[k]>> : k \in {k \in Later(h, t) : \A j \in Later(h, t) : k <= j}}

(* The frame was computed from some series that read far enough and that    *)
(* agrees with h up to t, but for the minutes in E.                         *)
FrameFrom(frame, t, h, E) ==
  \E x \in Series, from \in Int :
    /\ frame = FrameOf(x, t, from)
    /\ from <= t - (Warmup - Lookback)
    /\ \A u \in Minutes : u <= t => x[u] = h[u] \/ u \in E

(* The row that next names is not behind any row staging, g, or the fact    *)
(* table to be, l, has after t; and it is staging's own or is in M.         *)
NextFrom(next, t, g, l, M) ==
  /\ \A u \in Minutes : t < u /\ (g[u] # None \/ l[u] # None) => \E r \in next : r[1] <= u
  /\ \A r \in next : g[r[1]] = r[2] \/ r[1] \in M

(* A feature row, or its absence, is right but for minutes in N, that will  *)
(* be computed again, in M, that were missed, or in P, that were passed.    *)
RowFrom(row, t, g, l, N, M, P) ==
  \/ t \in M
  \/ row = None /\ (g[t] = None \/ t \in N)
  \/ /\ row # None
     /\ FrameFrom(row.frame, t, g, N \cup M)
     /\ t \in N \cup P \/ NextFrom(row.next, t, g, l, M)

MissedOf(s) == {t \in Minutes : <<s, t>> \in missed}
PassedOf(s) == {t \in Minutes : <<s, t>> \in passed}

\* Minutes the next build of the features emits; the same after the insert
\* in flight; and whatever the build in progress inserts.
Soon     == {t \in Minutes : InWindow(Feat, t)}
NearBoth == {t \in Soon : InWindow(Forming, t)}
Sure     == {t \in NearBoth : InWindow(Fact, t) /\ InWindow(Pending, t)}

GoodNext(next, t) ==
  next \subseteq Minutes \X Bars /\ \A r, q \in next : t < r[1] /\ r = q

GoodRow(row, t) == row # None => GoodNext(row.next, t)

RowsAreGood ==
  \A s \in Symbols, t \in Minutes : GoodRow(Feat[s][t], t) /\ GoodRow(Forming[s][t], t)

QuietFeatures ==
  phase["feat"] \notin {"selected", "deleted"}
    => \A s \in Symbols, t \in Minutes : Forming[s][t] = None

FormingIsNear ==
  phase["feat"] = "selected"
    => \A s \in Symbols, t \in Minutes : Forming[s][t] # None => t \in Soon

FactFirst == phase["feat"] \in Busy => phase["fct"] = "done"

HasRow(s, t) == Feat[s][t] # None \/ Forming[s][t] # None

GoneFeatures ==
  \A s \in Symbols, t \in Minutes : HasRow(s, t) => stg[s][t] # None \/ t \in MissedOf(s)

FeaturesStale ==
  \A s \in Symbols, t \in Minutes :
    RowFrom(Feat[s][t], t, stg[s], LandingSeries(s), Soon, MissedOf(s), PassedOf(s))

ComingStale ==
  \A s \in Symbols, t \in Minutes :
    RowFrom(Coming(s, t), t, stg[s], LandingSeries(s), NearBoth, MissedOf(s), PassedOf(s))

KeptFeatures ==
  phase["fct"] \in Busy => \A s \in Symbols, t \in Minutes :
    HasRow(s, t) => Landing(s, t) # None \/ t \in MissedOf(s)

(* From its select on, the fact table to be is staging, but for minutes     *)
(* that the features of this build will still emit; and so are the labels   *)
(* it will give.                                                            *)
FreshFact ==
  phase["fct"] \in Busy => \A s \in Symbols, t \in Minutes :
    Landing(s, t) = stg[s][t] \/ t \in Sure \cup MissedOf(s)

FreshLabels ==
  phase["fct"] \in Busy => \A s \in Symbols, t \in Minutes : Landing(s, t) # None =>
    \/ t \in Sure \cup MissedOf(s) \cup PassedOf(s)
    \/ NextFrom(NextOf(LandingSeries(s), t), t, stg[s], LandingSeries(s), MissedOf(s))

(* If k is the row after t in staging, g, then h has it too, or has another *)
(* row in between, or t is in D.                                            *)
Tracks(h, t, k, g, D) ==
  t < k /\ h[t] # None /\ g[k] # None /\ (\A x \in Minutes : t < x /\ x < k => g[x] = None)
    => h[k] = g[k] \/ t \in D \/ \E x \in Minutes : t < x /\ x < k /\ h[x] # None

FactFollows ==
  \A s \in Symbols, t, k \in Minutes :
    \/ Tracks(FactSeries(s), t, k, stg[s], MissedOf(s) \cup PassedOf(s))
    \/ InWindow(Fact, k)

LandingFollows ==
  \A s \in Symbols, t, k \in Minutes :
    \/ Tracks(LandingSeries(s), t, k, stg[s], MissedOf(s) \cup PassedOf(s))
    \/ InWindow(Fact, k) /\ InWindow(Pending, k)

(* Once selected, the features to be are those of the fact table.           *)
RowFollows(row, t, h, M, P) ==
  \/ t \in M
  \/ /\ row # None
     /\ FrameFrom(row.frame, t, h, M)
     /\ \/ row.next = NextOf(h, t)
        \/ t \in P
        \/ \E r \in row.next : r[1] \in M

FeaturesFollow ==
  phase["feat"] \in Busy => \A s \in Symbols, t \in Minutes : Bar(s, t) # None =>
    RowFollows(Coming(s, t), t, FactSeries(s), MissedOf(s), PassedOf(s))

FollowInv == FactFollows /\ LandingFollows

FeatureInv ==
  /\ RowsAreGood /\ QuietFeatures /\ FormingIsNear /\ FactFirst /\ GoneFeatures
  /\ FeaturesStale /\ ComingStale /\ KeptFeatures /\ FreshFact /\ FreshLabels
  /\ FeaturesFollow

---------------------------------------------------------------------------
(* Facts about the operators.                                               *)

LEMMA FeatKeys == "feat" \in Models /\ Keys("feat") = Minutes
<1>1. \A t \in Minutes : t % 1 = 0
  BY GridAssumption DEF Minutes
<1>2. Grain["feat"] = 1
  BY DEF Grain
<1> QED BY <1>1, <1>2 DEF Keys, Models

LEMMA FirstIs ==
  ASSUME NEW T \in SUBSET Minutes, T # {}
  PROVE  \E m \in T : \A k \in T : m <= k
<1> DEFINE U == {MaxMinute - m : m \in T}
<1>1. MaxMinute \in Nat /\ \A m \in T : m \in Nat /\ MaxMinute - m \in Minutes
  BY GridAssumption DEF Minutes
<1>2. U \in SUBSET (Minutes \cup {-1}) /\ U # {}
  BY <1>1
<1>3. MaxOf(U) \in U /\ \A x \in U : x <= MaxOf(U)
  BY <1>2, MaxOfIs
<1>4. PICK m \in T : MaxOf(U) = MaxMinute - m
  BY <1>3
<1>5. ASSUME NEW k \in T PROVE m <= k
  <2>1. MaxMinute - k <= MaxMinute - m
    BY <1>3, <1>4
  <2> QED BY <1>1, <2>1
<1> QED BY <1>5

LEMMA SeriesAre ==
  ASSUME Shape, NEW s \in Symbols
  PROVE  stg[s] \in Series /\ FactSeries(s) \in Series /\ LandingSeries(s) \in Series
<1>1. stg[s] \in Series
  BY DEF Shape, TypeOK, Series
<1>2. \A t \in Minutes : Bar(s, t) \in Bars \cup {None}
  BY DEF Shape, FactTable, FactRows, Bar, Fact
<1>3. \A t \in Minutes : Landing(s, t) \in Bars \cup {None}
  BY <1>2 DEF Shape, FactTable, FactRows, Landing
<1> QED BY <1>1, <1>2, <1>3 DEF Series, FactSeries, LandingSeries

LEMMA NextIs ==
  ASSUME NEW h \in Series, NEW t \in Minutes
  PROVE  /\ GoodNext(NextOf(h, t), t)
         /\ \A r \in NextOf(h, t) : h[r[1]] = r[2] /\ r[2] # None
         /\ \A u \in Minutes : t < u /\ h[u] # None => \E r \in NextOf(h, t) : r[1] <= u
<1> DEFINE L == Later(h, t)
<1>1. L \in SUBSET Minutes /\ \A k \in L : t < k /\ h[k] # None /\ h[k] \in Bars
  BY DEF Later, Series
<1>2. \A r \in NextOf(h, t) : r[1] \in L /\ r[2] = h[r[1]] /\ \A j \in L : r[1] <= j
  BY DEF NextOf
<1>3. NextOf(h, t) \subseteq Minutes \X Bars
  BY <1>1 DEF NextOf
<1>4. ASSUME NEW r \in NextOf(h, t), NEW q \in NextOf(h, t) PROVE r = q
  <2>1. PICK k \in L : r = <<k, h[k]>> /\ \A j \in L : k <= j
    BY DEF NextOf
  <2>2. PICK m \in L : q = <<m, h[m]>> /\ \A j \in L : m <= j
    BY DEF NextOf
  <2>3. k = m
    <3>1. k <= m /\ m <= k
      BY <2>1, <2>2
    <3> QED BY <1>1, <3>1, GridAssumption DEF Minutes
  <2> QED BY <2>1, <2>2, <2>3
<1>5. ASSUME NEW u \in Minutes, t < u, h[u] # None
      PROVE  \E r \in NextOf(h, t) : r[1] <= u
  <2>1. u \in L
    BY <1>5 DEF Later
  <2>2. PICK m \in L : \A k \in L : m <= k
    BY <1>1, <2>1, FirstIs
  <2>3. <<m, h[m]>> \in NextOf(h, t)
    BY <2>2 DEF NextOf
  <2> QED BY <2>1, <2>2, <2>3
<1> QED BY <1>1, <1>2, <1>3, <1>4, <1>5 DEF GoodNext

LEMMA FeatureRowIs ==
  ASSUME NEW s, NEW t
  PROVE  /\ FeatureRow(s, t).frame = FrameOf(FactSeries(s), t, ReadFrom)
         /\ FeatureRow(s, t).next = NextOf(FactSeries(s), t)
         /\ WindowFrame(s, t, 0) = FrameOf(FactSeries(s), t, 0)
         /\ NextRow(s, t) = NextOf(FactSeries(s), t)
<1>1. \A k \in Minutes : FactSeries(s)[k] = Bar(s, k)
  BY DEF FactSeries
<1>2. ASSUME NEW from
      PROVE  WindowFrame(s, t, from) = FrameOf(FactSeries(s), t, from)
  <2> DEFINE U == Upto(FactSeries(s), t, from)
             I == {k \in U : Cardinality(After(U, k)) < Frame}
  <2>1. U = {k \in Minutes : from <= k /\ k <= t /\ Bar(s, k) # None}
    BY <1>1 DEF Upto
  <2>2. WindowFrame(s, t, from) = {<<k, Bar(s, k)>> : k \in I}
    BY <2>1, Zenon DEF WindowFrame, After
  <2>3. FrameOf(FactSeries(s), t, from) = {<<k, FactSeries(s)[k]>> : k \in I}
    BY DEF FrameOf
  <2>4. I \subseteq Minutes
    BY <2>1
  <2> HIDE DEF I
  <2> QED BY <1>1, <2>2, <2>3, <2>4
<1>3. NextRow(s, t) = NextOf(FactSeries(s), t)
  <2> DEFINE L == Later(FactSeries(s), t)
             I == {k \in L : \A j \in L : k <= j}
  <2>1. L = {k \in Minutes : t < k /\ Bar(s, k) # None}
    BY <1>1 DEF Later
  <2>2. NextRow(s, t) = {<<k, Bar(s, k)>> : k \in I}
    BY <2>1, Zenon DEF NextRow
  <2>3. NextOf(FactSeries(s), t) = {<<k, FactSeries(s)[k]>> : k \in I}
    BY DEF NextOf
  <2>4. I \subseteq Minutes
    BY <2>1
  <2> HIDE DEF I
  <2> QED BY <1>1, <2>2, <2>3, <2>4
<1> QED BY <1>2, <1>3 DEF FeatureRow

LEMMA AfterIs ==
  ASSUME NEW S \in SUBSET Minutes, NEW k
  PROVE  /\ IsFiniteSet(After(S, k)) /\ Cardinality(After(S, k)) \in Nat
         /\ \A T \in SUBSET After(S, k) :
              Cardinality(T) \in Nat /\ Cardinality(T) <= Cardinality(After(S, k))
<1>1. IsFiniteSet(Minutes)
  BY GridAssumption, FS_Interval DEF Minutes
<1>2. IsFiniteSet(After(S, k))
  BY <1>1, FS_Subset DEF After
<1> QED BY <1>2, FS_Subset, FS_CardinalityType

LEMMA FrameIs ==
  ASSUME NEW h \in Series, NEW t \in Minutes, NEW from
  PROVE  /\ Upto(h, t, from) \in SUBSET Minutes
         /\ \A r \in FrameOf(h, t, from) :
              /\ r[1] \in Upto(h, t, from) /\ r = <<r[1], h[r[1]]>>
              /\ Cardinality(After(Upto(h, t, from), r[1])) < Frame
         /\ \A k \in Upto(h, t, from) : Cardinality(After(Upto(h, t, from), k)) < Frame
              => <<k, h[k]>> \in FrameOf(h, t, from)
<1> DEFINE U == Upto(h, t, from)
<1>1. U \in SUBSET Minutes
  BY DEF Upto
<1> HIDE DEF U
<1>2. FrameOf(h, t, from) = {<<k, h[k]>> : k \in {k \in U : Cardinality(After(U, k)) < Frame}}
  BY DEF FrameOf, U
<1> QED BY <1>1, <1>2 DEF U

(* If x is h from the start of h's frame on, reads far enough, and has no   *)
(* row of its own before, then it has the same frame.                       *)
LEMMA FrameSame ==
  ASSUME NEW h \in Series, NEW x \in Series, NEW t \in Minutes, NEW from \in Int,
         NEW a \in Minutes, from <= a,
         \E r \in FrameOf(h, t, 0) : r[1] = a,
         \A r \in FrameOf(h, t, 0) : a <= r[1],
         \A u \in Minutes : a <= u /\ u <= t => x[u] = h[u],
         \A r \in FrameOf(x, t, from) : r[1] < a => h[r[1]] = x[r[1]]
  PROVE  FrameOf(x, t, from) = FrameOf(h, t, 0)
<1> DEFINE H == Upto(h, t, 0)
           X == Upto(x, t, from)
           R == {k \in H : a <= k}
<1>1. /\ H \in SUBSET Minutes /\ X \in SUBSET Minutes
      /\ \A k \in Minutes : k \in Int /\ 0 <= k
      /\ Frame \in Nat
  BY FrameIs, GridAssumption, LookbackAssumption DEF Minutes
<1>2. \A k \in Minutes : /\ k \in H <=> k <= t /\ h[k] # None
                         /\ k \in X <=> from <= k /\ k <= t /\ x[k] # None
  BY <1>1 DEF Upto
<1>3. \A k \in Minutes : a <= k => (k \in X <=> k \in H)
  BY <1>1, <1>2
<1> HIDE DEF H, X
<1>4. \A k \in Minutes : a <= k => After(X, k) = After(H, k)
  <2> SUFFICES ASSUME NEW k \in Minutes, a <= k PROVE After(X, k) = After(H, k)
    OBVIOUS
  <2>1. \A j \in Minutes : j > k => a <= j
    BY <1>1
  <2> QED BY <1>1, <1>3, <2>1 DEF After
<1>5. \A k \in H : k < a => ~(Cardinality(After(H, k)) < Frame)
  <2> SUFFICES ASSUME NEW k \in H, k < a, Cardinality(After(H, k)) < Frame PROVE FALSE
    OBVIOUS
  <2>1. <<k, h[k]>> \in FrameOf(h, t, 0)
    BY FrameIs DEF H
  <2>2. a <= k
    BY <2>1
  <2> QED BY <1>1, <2>2
<1>6. ASSUME NEW k \in H, k < a PROVE ~(Cardinality(R) < Frame)
  <2> DEFINE B == {j \in H : j < a}
  <2>1. B \in SUBSET (Minutes \cup {-1}) /\ k \in B
    BY <1>1, <1>6
  <2> DEFINE p == MaxOf(B)
  <2>2. p \in B /\ \A j \in B : j <= p
    BY <2>1, MaxOfIs
  <2> HIDE DEF p
  <2>3. p \in H /\ p < a /\ p \in Int
    BY <1>1, <2>2
  <2>4. ASSUME NEW j \in H PROVE j > p <=> a <= j
    <3>1. j \in Int /\ a \in Int
      BY <1>1
    <3>2. j < a => j <= p
      BY <2>2
    <3> QED BY <2>3, <3>1, <3>2
  <2>5. After(H, p) = R
    BY <2>4 DEF After
  <2> QED BY <1>5, <2>3, <2>5
<1>7. ASSUME NEW r \in FrameOf(x, t, from) PROVE a <= r[1]
  <2> SUFFICES ASSUME r[1] < a PROVE FALSE
    BY <1>1, FrameIs DEF X
  <2>1. /\ r[1] \in X /\ r[1] \in Minutes
        /\ Cardinality(After(X, r[1])) < Frame
    BY <1>1, FrameIs DEF X
  <2>2. r[1] \in H
    BY <1>2, <2>1
  <2>3. R \subseteq After(X, r[1])
    <3>1. \A k \in R : k \in X /\ k > r[1]
      BY <1>1, <1>3, <2>1
    <3> QED BY <3>1 DEF After
  <2>4. Cardinality(R) \in Nat /\ Cardinality(R) <= Cardinality(After(X, r[1]))
    BY <1>1, <2>3, AfterIs
  <2>5. Cardinality(After(X, r[1])) \in Nat
    BY <1>1, AfterIs
  <2>6. ~(Cardinality(R) < Frame)
    BY <1>6, <2>2
  <2> QED BY <1>1, <2>1, <2>4, <2>5, <2>6
<1> HIDE DEF R
<1>8. ASSUME NEW r \in FrameOf(x, t, from) PROVE r \in FrameOf(h, t, 0)
  <2>1. /\ r[1] \in X /\ r[1] \in Minutes /\ r = <<r[1], x[r[1]]>> /\ r[1] <= t
        /\ Cardinality(After(X, r[1])) < Frame /\ a <= r[1]
    BY <1>1, <1>2, <1>7, FrameIs DEF X
  <2>2. r[1] \in H /\ After(H, r[1]) = After(X, r[1]) /\ x[r[1]] = h[r[1]]
    BY <1>3, <1>4, <2>1
  <2>3. <<r[1], h[r[1]]>> \in FrameOf(h, t, 0)
    BY <2>1, <2>2, FrameIs DEF H
  <2> QED BY <2>1, <2>2, <2>3
<1>9. ASSUME NEW r \in FrameOf(h, t, 0) PROVE r \in FrameOf(x, t, from)
  <2>1. /\ r[1] \in H /\ r[1] \in Minutes /\ r = <<r[1], h[r[1]]>> /\ r[1] <= t
        /\ Cardinality(After(H, r[1])) < Frame /\ a <= r[1]
    BY <1>1, <1>2, FrameIs DEF H
  <2>2. r[1] \in X /\ After(H, r[1]) = After(X, r[1]) /\ x[r[1]] = h[r[1]]
    BY <1>3, <1>4, <2>1
  <2>3. <<r[1], x[r[1]]>> \in FrameOf(x, t, from)
    BY <2>1, <2>2, FrameIs DEF X
  <2> QED BY <2>1, <2>2, <2>3
<1> QED BY <1>8, <1>9

---------------------------------------------------------------------------
(* What a row was computed from, as things change.                          *)

LEMMA FrameStays ==
  ASSUME NEW frame, NEW t \in Minutes, NEW h, NEW h2, NEW E, NEW E2, FrameFrom(frame, t, h, E),
         \A u \in Minutes : u <= t => (u \in E => u \in E2) /\ (h2[u] = h[u] \/ u \in E2)
  PROVE  FrameFrom(frame, t, h2, E2)
<1>1. PICK x \in Series, from \in Int :
        /\ frame = FrameOf(x, t, from)
        /\ from <= t - (Warmup - Lookback)
        /\ \A u \in Minutes : u <= t => x[u] = h[u] \/ u \in E
  BY DEF FrameFrom
<1>2. \A u \in Minutes : u <= t => x[u] = h2[u] \/ u \in E2
  BY <1>1
<1> QED BY <1>1, <1>2 DEF FrameFrom

(* Staging as it was: what counts as near may shrink beyond t, and no row   *)
(* may appear in the fact table to be that staging does not have.           *)
LEMMA RowStays ==
  ASSUME NEW row, NEW t \in Minutes, NEW g, NEW l, NEW l2, NEW N, NEW N2,
         NEW M, NEW P, RowFrom(row, t, g, l, N, M, P),
         \A u \in Minutes : u <= t /\ u \in N => u \in N2 \cup M,
         \A u \in Minutes : g[u] = None /\ l2[u] # None => l[u] # None
  PROVE  RowFrom(row, t, g, l2, N2, M, P)
<1>1. t <= t
  BY GridAssumption DEF Minutes
<1>2. CASE t \in M
  BY <1>2 DEF RowFrom
<1>3. CASE t \notin M /\ row = None
  BY <1>1, <1>3 DEF RowFrom
<1>4. CASE t \notin M /\ row # None
  <2>1. FrameFrom(row.frame, t, g, N \cup M) /\ (t \in N \cup P \/ NextFrom(row.next, t, g, l, M))
    BY <1>4 DEF RowFrom
  <2>2. FrameFrom(row.frame, t, g, N2 \cup M)
    BY <2>1, FrameStays
  <2>3. NextFrom(row.next, t, g, l, M) => NextFrom(row.next, t, g, l2, M)
    BY DEF NextFrom
  <2>4. t \in N2 \cup P \/ NextFrom(row.next, t, g, l2, M)
    BY <1>1, <1>4, <2>1, <2>3
  <2> QED BY <1>4, <2>2, <2>4 DEF RowFrom
<1> QED BY <1>2, <1>3, <1>4

(* The record grows.                                                        *)
LEMMA RowMarked ==
  ASSUME NEW row, NEW t \in Minutes, NEW g, NEW l, NEW N, NEW M, NEW P, NEW M2, NEW P2,
         RowFrom(row, t, g, l, N, M, P), M \subseteq M2, P \subseteq P2
  PROVE  RowFrom(row, t, g, l, N, M2, P2)
<1>1. CASE t \in M2
  BY <1>1 DEF RowFrom
<1>2. CASE t \notin M2 /\ row = None
  BY <1>2 DEF RowFrom
<1>3. CASE t \notin M2 /\ row # None
  <2>1. FrameFrom(row.frame, t, g, N \cup M) /\ (t \in N \cup P \/ NextFrom(row.next, t, g, l, M))
    BY <1>3 DEF RowFrom
  <2>2. FrameFrom(row.frame, t, g, N \cup M2)
    BY <2>1, FrameStays
  <2>3. NextFrom(row.next, t, g, l, M) => NextFrom(row.next, t, g, l, M2)
    BY DEF NextFrom
  <2> QED BY <1>3, <2>1, <2>2, <2>3 DEF RowFrom
<1> QED BY <1>1, <1>2, <1>3

(* One minute u0 of staging becomes v.                                      *)
LEMMA NextMoves ==
  ASSUME NEW next, NEW t \in Minutes, GoodNext(next, t),
         NEW g \in Series, NEW l, NEW N, NEW M, NEW P,
         NEW u0 \in Minutes, NEW v,
         t \in N \cup M \cup P \/ NextFrom(next, t, g, l, M),
         v = None => u0 \in M,
         v # None /\ t < u0 /\ (\A x \in Minutes : t < x /\ x < u0 => g[x] = None)
           => t \in N \cup M \cup P
  PROVE  t \in N \cup M \cup P \/ NextFrom(next, t, [g EXCEPT ![u0] = v], l, M)
<1> SUFFICES ASSUME t \notin N \cup M \cup P
             PROVE  NextFrom(next, t, [g EXCEPT ![u0] = v], l, M)
  OBVIOUS
<1> DEFINE g2 == [g EXCEPT ![u0] = v]
<1>1. /\ \A u \in Minutes : u # u0 => g2[u] = g[u]
      /\ g2[u0] = v
  BY DEF Series
<1>2. NextFrom(next, t, g, l, M)
  OBVIOUS
<1>3. \A r \in next : r[1] \in Minutes /\ t < r[1]
  BY DEF GoodNext
<1>4. \A r, q \in next : r = q
  BY DEF GoodNext
<1>5. \A k \in Minutes : k \in Int
  BY GridAssumption DEF Minutes
<1> HIDE DEF g2
<1>6. v # None /\ t < u0 => \E x \in Minutes : t < x /\ x < u0 /\ g[x] # None
  OBVIOUS
<1>7. ASSUME NEW u \in Minutes, t < u, g2[u] # None \/ l[u] # None
      PROVE  \E r \in next : r[1] <= u
  <2>1. CASE g[u] # None \/ l[u] # None
    BY <1>2, <1>7, <2>1 DEF NextFrom
  <2>2. CASE ~(g[u] # None \/ l[u] # None)
    <3>1. u = u0 /\ v # None
      BY <1>1, <1>7, <2>2
    <3>2. PICK x \in Minutes : t < x /\ x < u0 /\ g[x] # None
      BY <1>6, <1>7, <3>1
    <3>3. PICK r \in next : r[1] <= x
      BY <1>2, <3>2 DEF NextFrom
    <3>4. r[1] <= u
      BY <1>3, <1>5, <3>1, <3>2, <3>3
    <3> QED BY <3>4
  <2> QED BY <2>1, <2>2
<1>8. ASSUME NEW r \in next PROVE g2[r[1]] = r[2] \/ r[1] \in M
  <2>1. CASE r[1] # u0
    BY <1>1, <1>2, <1>3, <2>1 DEF NextFrom
  <2>2. CASE r[1] = u0 /\ v = None
    BY <2>2
  <2>3. CASE r[1] = u0 /\ v # None
    <3>1. PICK x \in Minutes : t < x /\ x < u0 /\ g[x] # None
      BY <1>3, <1>6, <2>3
    <3>2. PICK q \in next : q[1] <= x
      BY <1>2, <3>1 DEF NextFrom
    <3>3. q[1] = u0
      BY <1>4, <2>3
    <3> QED BY <1>5, <3>1, <3>2, <3>3
  <2> QED BY <2>1, <2>2, <2>3
<1> QED BY <1>7, <1>8 DEF NextFrom, g2

LEMMA RowMoves ==
  ASSUME NEW row, NEW t \in Minutes, GoodRow(row, t),
         NEW g \in Series, NEW l, NEW N, NEW M, NEW P,
         NEW u0 \in Minutes, NEW v,
         RowFrom(row, t, g, l, N, M, P),
         v = None => u0 \in M,
         v # None => u0 \in N \cup M,
         v # None /\ t < u0 /\ (\A x \in Minutes : t < x /\ x < u0 => g[x] = None)
           => row = None \/ t \in N \cup M \cup P
  PROVE  RowFrom(row, t, [g EXCEPT ![u0] = v], l, N, M, P)
<1> DEFINE g2 == [g EXCEPT ![u0] = v]
<1>1. \A u \in Minutes : g2[u] = g[u] \/ u \in N \cup M
  BY DEF Series
<1>2. CASE t \in M
  BY <1>2 DEF RowFrom
<1>3. CASE t \notin M /\ row = None
  <2>1. g[t] = None \/ t \in N
    BY <1>3 DEF RowFrom
  <2>2. g2[t] = None \/ t \in N
    BY <1>1, <1>3, <2>1
  <2> QED BY <1>3, <2>2 DEF RowFrom
<1>4. CASE t \notin M /\ row # None
  <2>1. /\ FrameFrom(row.frame, t, g, N \cup M)
        /\ t \in N \cup M \cup P \/ NextFrom(row.next, t, g, l, M)
        /\ GoodNext(row.next, t)
    BY <1>4 DEF RowFrom, GoodRow
  <2> HIDE DEF g2
  <2>2. FrameFrom(row.frame, t, g2, N \cup M)
    BY <1>1, <2>1, FrameStays
  <2>3. t \in N \cup M \cup P \/ NextFrom(row.next, t, g2, l, M)
    BY <1>4, <2>1, NextMoves DEF g2
  <2>4. t \in N \cup P \/ NextFrom(row.next, t, g2, l, M)
    BY <1>4, <2>3
  <2> QED BY <1>4, <2>2, <2>4 DEF RowFrom, g2
<1> QED BY <1>2, <1>3, <1>4

(* The same for the row after t.                                            *)
LEMMA FollowsMoves ==
  ASSUME NEW h, NEW t \in Minutes, NEW k \in Minutes,
         NEW g \in Series, NEW D, NEW C,
         NEW u0 \in Minutes, NEW v,
         \A j \in Minutes : Tracks(h, t, j, g, D) \/ j \in C,
         \A j \in C : j \in Minutes /\ \A i \in Minutes : j < i => i \in C,
         h[t] # None => g[t] # None \/ t \in D,
         v # None /\ t < u0 /\ (\A x \in Minutes : t < x /\ x < u0 => g[x] = None)
           => h[t] = None \/ t \in D \/ u0 \in C
  PROVE  Tracks(h, t, k, [g EXCEPT ![u0] = v], D) \/ k \in C
<1> DEFINE g2 == [g EXCEPT ![u0] = v]
<1>1. /\ \A u \in Minutes : u # u0 => g2[u] = g[u]
      /\ g2[u0] = v
  BY DEF Series
<1>2. \A i \in Minutes : i \in Int
  BY GridAssumption DEF Minutes
<1> HIDE DEF g2
<1> SUFFICES ASSUME t < k, h[t] # None, g2[k] # None, t \notin D, k \notin C,
                    \A x \in Minutes : t < x /\ x < k => g2[x] = None
             PROVE  h[k] = g2[k] \/ \E x \in Minutes : t < x /\ x < k /\ h[x] # None
  BY DEF Tracks, g2
<1>3. CASE k = u0
  BY <1>1, <1>2, <1>3
<1>4. CASE k # u0 /\ t < u0 /\ u0 < k /\ g[u0] # None
      /\ \A x \in Minutes : t < x /\ x < u0 => g[x] = None
  <2>1. Tracks(h, t, u0, g, D) /\ u0 \notin C
    BY <1>4
  <2>2. h[u0] = g[u0] \/ \E x \in Minutes : t < x /\ x < u0 /\ h[x] # None
    BY <1>4, <2>1 DEF Tracks
  <2> QED BY <1>2, <1>4, <2>2
<1>5. CASE k # u0 /\ ~(t < u0 /\ u0 < k /\ g[u0] # None)
  <2>1. g[k] = g2[k] /\ \A x \in Minutes : t < x /\ x < k => g[x] = None
    BY <1>1, <1>5
  <2> QED BY <2>1 DEF Tracks
<1>6. CASE k # u0 /\ t < u0 /\ u0 < k /\ g[u0] # None
      /\ ~\A x \in Minutes : t < x /\ x < u0 => g[x] = None
  <2>1. PICK x \in Minutes : t < x /\ x < u0 /\ g[x] # None
    BY <1>6
  <2>2. g2[x] = g[x] /\ x < k
    BY <1>1, <1>2, <1>6, <2>1
  <2> QED BY <2>1, <2>2
<1> QED BY <1>3, <1>4, <1>5, <1>6

(* Two rows that cannot both be the next one, unless they are the same or   *)
(* the first is on the record.                                              *)
LEMMA NextsAgree ==
  ASSUME NEW h \in Series, NEW t \in Minutes, NEW g, NEW M, NEW next, GoodNext(next, t),
         NextFrom(next, t, g, h, M), NextFrom(NextOf(h, t), t, g, h, M)
  PROVE  next = NextOf(h, t) \/ \E r \in next : r[1] \in M
<1> SUFFICES ASSUME \A r \in next : r[1] \notin M PROVE next = NextOf(h, t)
  OBVIOUS
<1> DEFINE B == NextOf(h, t)
<1>1. /\ next \subseteq Minutes \X Bars /\ \A r, q \in next : r = q
      /\ \A r \in next : t < r[1]
  BY DEF GoodNext
<1>2. /\ B \subseteq Minutes \X Bars /\ \A r, q \in B : r = q
      /\ \A r \in B : t < r[1] /\ h[r[1]] # None
  BY NextIs DEF GoodNext
<1>3. None \notin Bars
  BY DataAssumption
<1>4. \A k \in Minutes : k \in Int
  BY GridAssumption DEF Minutes
<1> HIDE DEF B
<1>5. \A r \in next : r[1] \in Minutes /\ g[r[1]] = r[2] /\ r[2] \in Bars /\ r = <<r[1], r[2]>>
  BY <1>1 DEF NextFrom
<1>6. \A q \in B : q[1] \in Minutes /\ q = <<q[1], q[2]>> /\ (g[q[1]] = q[2] \/ q[1] \in M)
  BY <1>2 DEF NextFrom, B
<1>7. ASSUME NEW r \in next PROVE r \in B
  <2>1. PICK q \in B : q[1] <= r[1]
    BY <1>1, <1>3, <1>5 DEF NextFrom, B
  <2>2. PICK r2 \in next : r2[1] <= q[1]
    BY <1>2, <1>6, <2>1 DEF NextFrom
  <2>3. r2 = r
    BY <1>1
  <2>4. q[1] = r[1]
    BY <1>4, <1>5, <1>6, <2>1, <2>2, <2>3
  <2>5. q[2] = r[2]
    BY <1>5, <1>6, <2>4
  <2> QED BY <1>5, <1>6, <2>1, <2>4, <2>5
<1>8. ASSUME NEW q \in B PROVE \E r \in next : TRUE
  BY <1>2, <1>6, <1>8 DEF NextFrom
<1>9. ASSUME NEW q \in B PROVE q \in next
  <2>1. PICK r \in next : TRUE
    BY <1>8
  <2>2. r \in B
    BY <1>7
  <2> QED BY <1>2, <2>2
<1> QED BY <1>7, <1>9 DEF B

---------------------------------------------------------------------------
(* What the feature model selects.                                          *)

LEMMA FilledFeat ==
  ASSUME Shape, NEW table \in {Feat, Forming}
  PROVE  Filled(table) = {k \in Minutes : \E s \in Symbols : table[s][k] # None}
<1>1. \A s \in Symbols : DOMAIN table[s] = Minutes
  BY FeatKeys DEF Shape, TypeOK, Feat, Forming
<1> QED BY <1>1 DEF Filled

(* Minutes later than one in the window are in the window.                  *)
LEMMA LaterIsInWindow ==
  ASSUME NEW table, NEW t \in Minutes, NEW u \in Minutes, t <= u, InWindow(table, t)
  PROVE  InWindow(table, u)
<1>1. t \in Int /\ u \in Int /\ Lookback \in Int /\ \A k \in Minutes : k \in Int
  BY LookbackAssumption, GridAssumption DEF Minutes
<1>2. ASSUME NEW k \in Minutes, k <= t + Lookback PROVE k <= u + Lookback
  BY <1>1, <1>2
<1> QED BY <1>2 DEF InWindow

LEMMA LaterIsNear ==
  ASSUME NEW t \in Minutes, NEW u \in Minutes, t <= u
  PROVE  /\ t \in Soon => u \in Soon
         /\ t \in NearBoth => u \in NearBoth
         /\ t \in Sure => u \in Sure
BY LaterIsInWindow DEF Soon, NearBoth, Sure

(* The features read from the warm-up before the first minute they emit.    *)
LEMMA FeatEmitted ==
  ASSUME Shape, NEW t \in Minutes
  PROVE  /\ t >= EmitFrom("feat") <=> t \in Soon
         /\ ReadFrom \in Int /\ (t \in Soon => ReadFrom <= t - (Warmup - Lookback))
<1> DEFINE T == Filled(mart["feat"])
<1>1. T = {k \in Minutes : \E s \in Symbols : Feat[s][k] # None}
  BY FilledFeat DEF Feat
<1>2. EmitFrom("feat") = Watermark("feat") - Lookback /\ ReadFrom = Watermark("feat") - Warmup
  BY DEF EmitFrom, ReadFrom
<1>3. t \in Soon <=> \A k \in T : k <= t + Lookback
  BY <1>1 DEF Soon, InWindow
<1>4. Lookback \in Nat /\ Warmup \in Nat /\ Lookback <= Warmup /\ t \in Nat
  BY LookbackAssumption, GridAssumption DEF Minutes
<1>5. CASE T = {}
  <2>1. Watermark("feat") = -1
    BY <1>5 DEF Watermark
  <2> QED BY <2>1, <1>2, <1>3, <1>4, <1>5
<1>6. CASE T # {}
  <2>1. PICK m \in T : Watermark("feat") = m /\ \A k \in T : k <= m
    BY <1>1, <1>6, MaxOfIs DEF Watermark
  <2>2. m \in Int /\ T \subseteq Int
    BY <1>1, GridAssumption DEF Minutes
  <2> HIDE DEF T
  <2>3. m <= t + Lookback => \A k \in T : k <= t + Lookback
    BY <1>4, <2>1, <2>2
  <2>4. t \in Soon <=> m <= t + Lookback
    BY <1>3, <2>3
  <2> QED BY <2>1, <2>2, <2>4, <1>2, <1>4
<1> QED BY <1>5, <1>6

LEMMA SelectedFeat ==
  ASSUME Shape, NEW s \in Symbols, NEW t \in Minutes
  PROVE  /\ Selected("feat")[s][t] = IF Bar(s, t) # None /\ t \in Soon THEN FeatureRow(s, t)
                                     ELSE None
         /\ FeatureRow(s, t) # None
         /\ GoodNext(FeatureRow(s, t).next, t)
<1>1. Row("feat", s, t, EmitFrom("feat"))
        = IF Bar(s, t) # None /\ t >= EmitFrom("feat") THEN FeatureRow(s, t) ELSE None
  BY Zenon DEF Row
<1>2. Selected("feat")[s][t] = Row("feat", s, t, EmitFrom("feat"))
  BY FeatKeys DEF Selected
<1>3. FactSeries(s) \in Series
  BY SeriesAre
<1>4. GoodNext(FeatureRow(s, t).next, t) /\ FeatureRow(s, t).next \subseteq Minutes \X Bars
  BY <1>3, NextIs, FeatureRowIs DEF GoodNext
<1>5. FeatureRow(s, t).frame \subseteq Minutes \X Bars
  <2> DEFINE f == FactSeries(s)
             U == Upto(f, t, ReadFrom)
  <2>1. \A k \in U : k \in Minutes /\ f[k] \in Bars
    BY <1>3 DEF Upto, Series
  <2>2. \A r \in FrameOf(f, t, ReadFrom) : r[1] \in U /\ r = <<r[1], f[r[1]]>>
    BY <1>3, FrameIs
  <2> QED BY <2>1, <2>2, FeatureRowIs
<1>6. FeatureRow(s, t) \in FeatureRows
  <2>1. FeatureRow(s, t) = [frame |-> FeatureRow(s, t).frame, next |-> FeatureRow(s, t).next]
    BY DEF FeatureRow
  <2> QED BY <1>4, <1>5, <2>1 DEF FeatureRows
<1> QED BY <1>1, <1>2, <1>4, <1>6, FeatEmitted, NoneAssumption

---------------------------------------------------------------------------
(* Steps of the feature model.                                              *)

LEMMA SameFact ==
  ASSUME UNCHANGED <<Fact, Pending>>
  PROVE  /\ \A s, t : Bar(s, t)' = Bar(s, t) /\ Landing(s, t)' = Landing(s, t)
         /\ \A s : /\ FactSeries(s)' = FactSeries(s)
                   /\ LandingSeries(s)' = LandingSeries(s)
         /\ \A t : InWindow(Fact, t)' <=> InWindow(Fact, t)
         /\ \A t : InWindow(Pending, t)' <=> InWindow(Pending, t)
<1>1. \A s, t : Bar(s, t)' = Bar(s, t)
  BY DEF Bar, Fact
<1>2. \A s, t : Landing(s, t)' = Landing(s, t)
  BY <1>1 DEF Landing, Pending
<1>3. \A t : /\ InWindow(Fact, t)' <=> InWindow(Fact, t)
             /\ InWindow(Pending, t)' <=> InWindow(Pending, t)
  BY DEF InWindow
<1> QED BY <1>1, <1>2, <1>3 DEF FactSeries, LandingSeries

LEMMA SameRecord ==
  ASSUME UNCHANGED <<missed, passed>>
  PROVE  \A s : MissedOf(s)' = MissedOf(s) /\ PassedOf(s)' = PassedOf(s)
BY DEF MissedOf, PassedOf

LEMMA SameFeatures ==
  ASSUME UNCHANGED <<Feat, Forming>>
  PROVE  /\ \A s, t : Coming(s, t)' = Coming(s, t) /\ (HasRow(s, t)' <=> HasRow(s, t))
         /\ Soon' = Soon /\ NearBoth' = NearBoth
         /\ UNCHANGED <<Fact, Pending>> => Sure' = Sure
<1>1. \A t : /\ InWindow(Feat, t)' <=> InWindow(Feat, t)
             /\ InWindow(Forming, t)' <=> InWindow(Forming, t)
  BY DEF InWindow
<1>2. Soon' = Soon
  BY <1>1 DEF Soon
<1>3. NearBoth' = NearBoth
  BY <1>1, <1>2 DEF NearBoth
<1>4. UNCHANGED <<Fact, Pending>> => Sure' = Sure
  BY <1>3, SameFact DEF Sure
<1> QED BY <1>2, <1>3, <1>4 DEF Coming, HasRow

LEMMA FollowUntouched ==
  ASSUME FollowInv, UNCHANGED <<Fact, Pending, stg, missed, passed>>
  PROVE  FollowInv'
BY SameFact, SameRecord DEF FollowInv, FactFollows, LandingFollows

LEMMA FeaturesUntouched ==
  ASSUME FeatureInv, UNCHANGED <<Feat, Forming, Fact, Pending, stg, missed, passed>>,
         phase'["feat"] = phase["feat"], phase'["fct"] = phase["fct"]
  PROVE  FeatureInv'
<1>1. RowsAreGood' /\ QuietFeatures' /\ FormingIsNear' /\ FactFirst'
  BY SameFeatures DEF FeatureInv, RowsAreGood, QuietFeatures, FormingIsNear, FactFirst
<1>2. GoneFeatures' /\ KeptFeatures'
  BY SameFeatures, SameFact, SameRecord DEF FeatureInv, GoneFeatures, KeptFeatures
<1>3. FeaturesStale' /\ ComingStale'
  BY SameFeatures, SameFact, SameRecord DEF FeatureInv, FeaturesStale, ComingStale
<1>4. FreshFact'
  BY SameFeatures, SameFact, SameRecord DEF FeatureInv, FreshFact
<1>5. FreshLabels'
  BY SameFeatures, SameFact, SameRecord DEF FeatureInv, FreshLabels
<1>6. FeaturesFollow'
  BY SameFeatures, SameFact, SameRecord DEF FeatureInv, FeaturesFollow
<1> QED BY <1>1, <1>2, <1>3, <1>4, <1>5, <1>6 DEF FeatureInv

(* What a write of the feature model has to respect.                        *)
LEMMA FeatWrites ==
  ASSUME FeatureInv, UNCHANGED <<Fact, Pending, stg, missed, passed>>,
         phase'["fct"] = phase["fct"],
         RowsAreGood', QuietFeatures', FormingIsNear', FactFirst', GoneFeatures',
         FeaturesStale', ComingStale', FeaturesFollow',
         \A t \in Sure : t \in Sure',
         \A s \in Symbols, t \in Minutes : HasRow(s, t)' => HasRow(s, t) \/ Landing(s, t) # None
  PROVE  FeatureInv'
<1>1. KeptFeatures'
  BY SameFact, SameRecord DEF FeatureInv, KeptFeatures
<1>2. FreshFact'
  BY SameFact, SameRecord DEF FeatureInv, FreshFact
<1>3. FreshLabels'
  <2> SUFFICES ASSUME phase["fct"] \in Busy,
                      NEW s \in Symbols, NEW t \in Minutes, Landing(s, t) # None
               PROVE  \/ t \in Sure' \cup MissedOf(s) \cup PassedOf(s)
                      \/ NextFrom(NextOf(LandingSeries(s), t), t, stg[s], LandingSeries(s),
                                  MissedOf(s))
    BY SameFact, SameRecord DEF FreshLabels
  <2> QED BY DEF FeatureInv, FreshLabels
<1> QED BY <1>1, <1>2, <1>3 DEF FeatureInv

(* Minutes may become near, and the tables may be read as before.           *)
LEMMA RowNears ==
  ASSUME NEW row, NEW t \in Minutes, NEW g, NEW l, NEW N, NEW N2, NEW M, NEW P,
         RowFrom(row, t, g, l, N, M, P), \A u \in N : u \in N2
  PROVE  RowFrom(row, t, g, l, N2, M, P)
BY RowStays

LEMMA FeatDeletes ==
  ASSUME Shape, FeatureInv, Delete("feat") PROVE FeatureInv'
<1>1. /\ Forming' = Forming /\ Fact' = Fact /\ Pending' = Pending
      /\ phase["feat"] = "selected" /\ phase'["feat"] = "deleted"
      /\ phase'["fct"] = phase["fct"] /\ UNCHANGED <<stg, missed, passed>>
  BY DEF Delete, Shape, TypeOK, Forming, Fact, Pending, Models
<1>2. \A s \in Symbols, t \in Minutes :
        Feat'[s][t] = IF Forming[s][t] # None THEN None ELSE Feat[s][t]
  BY FeatKeys DEF Delete, Shape, Feat, Forming
<1>3. /\ \A s \in Symbols, t \in Minutes :
           Coming(s, t)' = Coming(s, t) /\ (HasRow(s, t)' => HasRow(s, t))
      /\ \A t \in Soon : t \in Soon'
      /\ \A t \in NearBoth : t \in NearBoth'
      /\ \A t \in Sure : t \in Sure'
  <2>1. \A t : /\ InWindow(Feat, t) => InWindow(Feat, t)'
               /\ InWindow(Forming, t)' <=> InWindow(Forming, t)
    BY <1>1, <1>2 DEF InWindow
  <2>2. \A t \in NearBoth : t \in NearBoth'
    BY <2>1 DEF Soon, NearBoth
  <2>3. \A t \in Sure : t \in Sure'
    BY <1>1, <2>2, SameFact DEF Sure
  <2> QED BY <1>1, <1>2, <2>1, <2>2, <2>3 DEF Soon, Coming, HasRow
<1>4. /\ \A s : LandingSeries(s)' = LandingSeries(s) /\ FactSeries(s)' = FactSeries(s)
      /\ \A s : MissedOf(s)' = MissedOf(s) /\ PassedOf(s)' = PassedOf(s)
      /\ \A s, t : Bar(s, t)' = Bar(s, t)
  BY <1>1, SameFact, SameRecord
<1>5. RowsAreGood'
  BY <1>1, <1>2 DEF FeatureInv, RowsAreGood, GoodRow
<1>6. QuietFeatures' /\ FormingIsNear' /\ FactFirst'
  BY <1>1 DEF FeatureInv, QuietFeatures, FormingIsNear, FactFirst, Busy
<1>7. GoneFeatures'
  BY <1>1, <1>3, <1>4 DEF FeatureInv, GoneFeatures
<1>8. FeaturesStale'
  <2> SUFFICES ASSUME NEW s \in Symbols, NEW t \in Minutes
               PROVE  RowFrom(Feat'[s][t], t, stg[s], LandingSeries(s), Soon',
                              MissedOf(s), PassedOf(s))
    BY <1>1, <1>4 DEF FeaturesStale
  <2>1. CASE Forming[s][t] # None
    <3>1. t \in Soon'
      BY <1>1, <1>3, <2>1 DEF FeatureInv, FormingIsNear
    <3> QED BY <1>2, <2>1, <3>1 DEF RowFrom
  <2>2. CASE Forming[s][t] = None
    BY <1>2, <1>3, <2>2, RowNears DEF FeatureInv, FeaturesStale
  <2> QED BY <2>1, <2>2
<1>9. ComingStale'
  <2> SUFFICES ASSUME NEW s \in Symbols, NEW t \in Minutes
               PROVE  RowFrom(Coming(s, t), t, stg[s], LandingSeries(s), NearBoth',
                              MissedOf(s), PassedOf(s))
    BY <1>1, <1>3, <1>4 DEF ComingStale
  <2> QED BY <1>3, RowNears DEF FeatureInv, ComingStale
<1>10. FeaturesFollow'
  BY <1>1, <1>3, <1>4 DEF FeatureInv, FeaturesFollow, Busy
<1> QED BY <1>1, <1>3, <1>5, <1>6, <1>7, <1>8, <1>9, <1>10, FeatWrites

LEMMA FeatInserts ==
  ASSUME Shape, FeatureInv, Insert("feat") PROVE FeatureInv'
<1>1. /\ Fact' = Fact /\ Pending' = Pending
      /\ phase["feat"] = "deleted" /\ phase'["feat"] \in {"done", "failed"}
      /\ phase'["fct"] = phase["fct"] /\ UNCHANGED <<stg, missed, passed>>
  BY DEF Insert, Shape, TypeOK, Fact, Pending, Models
<1>2. \A s \in Symbols, t \in Minutes :
        /\ Feat'[s][t] = Coming(s, t) /\ Forming'[s][t] = None
        /\ Coming(s, t) \in {Feat[s][t], Forming[s][t]}
  BY FeatKeys DEF Insert, Shape, Feat, Forming, Coming, Empty
<1>3. /\ \A s \in Symbols, t \in Minutes :
           Coming(s, t)' = Coming(s, t) /\ (HasRow(s, t)' => HasRow(s, t))
      /\ \A t \in NearBoth : t \in Soon' /\ t \in NearBoth'
      /\ \A t \in Sure : t \in Sure'
  <2>1. \A t : /\ InWindow(Feat, t) /\ InWindow(Forming, t) => InWindow(Feat, t)'
               /\ InWindow(Forming, t)'
    BY <1>2 DEF InWindow
  <2>2. \A t \in NearBoth : t \in Soon' /\ t \in NearBoth'
    BY <2>1 DEF Soon, NearBoth
  <2>3. \A t \in Sure : t \in Sure'
    BY <1>1, <2>2, SameFact DEF Sure
  <2>4. \A s \in Symbols, t \in Minutes : Coming(s, t)' = Coming(s, t)
    BY <1>2 DEF Coming
  <2>5. \A s \in Symbols, t \in Minutes : HasRow(s, t)' => HasRow(s, t)
    BY <1>2 DEF HasRow
  <2> QED BY <2>2, <2>3, <2>4, <2>5
<1>4. /\ \A s : LandingSeries(s)' = LandingSeries(s) /\ FactSeries(s)' = FactSeries(s)
      /\ \A s : MissedOf(s)' = MissedOf(s) /\ PassedOf(s)' = PassedOf(s)
      /\ \A s, t : Bar(s, t)' = Bar(s, t)
  BY <1>1, SameFact, SameRecord
<1>5. RowsAreGood'
  BY <1>1, <1>2 DEF FeatureInv, RowsAreGood, GoodRow
<1>6. QuietFeatures' /\ FormingIsNear' /\ FactFirst'
  BY <1>1, <1>2 DEF FeatureInv, QuietFeatures, FormingIsNear, FactFirst, Busy
<1>7. GoneFeatures'
  BY <1>1, <1>3, <1>4 DEF FeatureInv, GoneFeatures
<1>8. FeaturesStale'
  <2> SUFFICES ASSUME NEW s \in Symbols, NEW t \in Minutes
               PROVE  RowFrom(Coming(s, t), t, stg[s], LandingSeries(s), Soon',
                              MissedOf(s), PassedOf(s))
    BY <1>1, <1>2, <1>4 DEF FeaturesStale
  <2> QED BY <1>3, RowNears DEF FeatureInv, ComingStale
<1>9. ComingStale'
  <2> SUFFICES ASSUME NEW s \in Symbols, NEW t \in Minutes
               PROVE  RowFrom(Coming(s, t), t, stg[s], LandingSeries(s), NearBoth',
                              MissedOf(s), PassedOf(s))
    BY <1>1, <1>3, <1>4 DEF ComingStale
  <2> QED BY <1>3, RowNears DEF FeatureInv, ComingStale
<1>10. FeaturesFollow'
  BY <1>1, <1>3, <1>4 DEF FeatureInv, FeaturesFollow, Busy
<1> QED BY <1>1, <1>3, <1>5, <1>6, <1>7, <1>8, <1>9, <1>10, FeatWrites

LEMMA FeatFails ==
  ASSUME Shape, FeatureInv, Fail("feat") PROVE FeatureInv'
<1>1. /\ Feat' = Feat /\ Fact' = Fact /\ Pending' = Pending /\ phase'["feat"] = "failed"
      /\ phase'["fct"] = phase["fct"] /\ UNCHANGED <<stg, missed, passed>>
  BY DEF Fail, Shape, TypeOK, Feat, Fact, Pending, Models
<1>2. \A s \in Symbols, t \in Minutes : Forming'[s][t] = None
  BY FeatKeys DEF Fail, Shape, Forming, Empty
<1>3. /\ \A s \in Symbols, t \in Minutes :
           Coming(s, t)' = Feat[s][t] /\ (HasRow(s, t)' => HasRow(s, t))
      /\ Soon' = Soon
      /\ \A t \in Soon : t \in NearBoth'
      /\ \A t \in Sure : t \in Sure'
  <2>1. \A t : /\ InWindow(Feat, t)' <=> InWindow(Feat, t)
               /\ InWindow(Forming, t)'
    BY <1>1, <1>2 DEF InWindow
  <2>2. Soon' = Soon /\ \A t \in Soon : t \in NearBoth'
    BY <2>1 DEF Soon, NearBoth
  <2>3. \A t \in Sure : t \in Sure'
    BY <1>1, <2>2, SameFact DEF Sure, NearBoth
  <2>4. \A s \in Symbols, t \in Minutes : Coming(s, t)' = Feat[s][t]
    BY <1>1, <1>2 DEF Coming
  <2>5. \A s \in Symbols, t \in Minutes : HasRow(s, t)' => HasRow(s, t)
    BY <1>1, <1>2 DEF HasRow
  <2> QED BY <2>2, <2>3, <2>4, <2>5
<1>4. /\ \A s : LandingSeries(s)' = LandingSeries(s)
      /\ \A s : MissedOf(s)' = MissedOf(s) /\ PassedOf(s)' = PassedOf(s)
  BY <1>1, SameFact, SameRecord
<1>5. RowsAreGood'
  BY <1>1, <1>2 DEF FeatureInv, RowsAreGood, GoodRow
<1>6. QuietFeatures' /\ FormingIsNear' /\ FactFirst' /\ FeaturesFollow'
  BY <1>1, <1>2 DEF QuietFeatures, FormingIsNear, FactFirst, FeaturesFollow, Busy
<1>7. GoneFeatures'
  BY <1>1, <1>3, <1>4 DEF FeatureInv, GoneFeatures
<1>8. FeaturesStale'
  BY <1>1, <1>3, <1>4 DEF FeatureInv, FeaturesStale
<1>9. ComingStale'
  <2> SUFFICES ASSUME NEW s \in Symbols, NEW t \in Minutes
               PROVE  RowFrom(Feat[s][t], t, stg[s], LandingSeries(s), NearBoth',
                              MissedOf(s), PassedOf(s))
    BY <1>1, <1>3, <1>4 DEF ComingStale
  <2> QED BY <1>3, RowNears DEF FeatureInv, FeaturesStale
<1> QED BY <1>1, <1>3, <1>5, <1>6, <1>7, <1>8, <1>9, FeatWrites

(* The labels in the mart of a row that this build does not emit are those  *)
(* of the fact table it reads.                                              *)
LEMMA KeptRowFollows ==
  ASSUME Shape, NEW s \in Symbols, NEW t \in Minutes, t \notin Soon, Bar(s, t) # None,
         FactSeries(s) = LandingSeries(s), GoodRow(Feat[s][t], t),
         RowFrom(Feat[s][t], t, stg[s], LandingSeries(s), Soon, MissedOf(s), PassedOf(s)),
         \A u \in Minutes : Landing(s, u) = stg[s][u] \/ u \in Sure \cup MissedOf(s),
         \/ t \in Sure \cup MissedOf(s) \cup PassedOf(s)
         \/ NextFrom(NextOf(LandingSeries(s), t), t, stg[s], LandingSeries(s), MissedOf(s))
  PROVE  RowFollows(Feat[s][t], t, FactSeries(s), MissedOf(s), PassedOf(s))
<1> DEFINE row == Feat[s][t]
           f == FactSeries(s)
           M == MissedOf(s)
           P == PassedOf(s)
<1>1. f \in Series /\ f[t] # None /\ \A u \in Minutes : f[u] = Landing(s, u)
  BY SeriesAre DEF FactSeries, LandingSeries
<1>2. \A u \in Minutes : u <= t => u \notin Soon /\ u \notin Sure
  BY LaterIsNear DEF Sure, NearBoth
<1>3. t <= t
  BY GridAssumption DEF Minutes
<1> HIDE DEF row, f, M, P
<1>4. RowFrom(row, t, stg[s], f, Soon, M, P) /\ GoodRow(row, t)
  BY DEF row, f, M, P
<1>5. \A u \in Minutes : u <= t => f[u] = stg[s][u] \/ u \in M
  BY <1>1, <1>2 DEF M
<1>6. t \in M \cup P \/ NextFrom(NextOf(f, t), t, stg[s], f, M)
  BY <1>2, <1>3 DEF M, P, f
<1>7. CASE t \in M
  BY <1>7 DEF RowFollows, row, f, M, P
<1>8. CASE t \notin M /\ row = None
  BY <1>1, <1>3, <1>4, <1>5, <1>8 DEF RowFrom
<1>9. CASE t \notin M /\ row # None
  <2>1. /\ FrameFrom(row.frame, t, stg[s], Soon \cup M)
        /\ t \in Soon \cup P \/ NextFrom(row.next, t, stg[s], f, M)
        /\ GoodNext(row.next, t)
    BY <1>4, <1>9 DEF RowFrom, GoodRow
  <2>2. FrameFrom(row.frame, t, f, M)
    BY <1>2, <1>5, <2>1, FrameStays
  <2>3. t \in P \/ NextFrom(row.next, t, stg[s], f, M)
    BY <2>1
  <2>4. row.next = NextOf(f, t) \/ t \in P \/ \E r \in row.next : r[1] \in M
    BY <1>1, <1>6, <1>9, <2>1, <2>3, NextsAgree
  <2> QED BY <1>9, <2>2, <2>4 DEF RowFollows, row, f, M, P
<1> QED BY <1>7, <1>8, <1>9

LEMMA FeatSelects ==
  ASSUME Shape, FreshnessInv, FeatureInv, Select("feat") PROVE FeatureInv'
<1>1. /\ Feat' = Feat /\ Fact' = Fact /\ Pending' = Pending
      /\ Forming' = Selected("feat")
      /\ phase["feat"] = "waiting" /\ phase'["feat"] = "selected"
      /\ phase["fct"] = "done" /\ phase'["fct"] = "done"
      /\ UNCHANGED <<stg, missed, passed>>
  BY DEF Select, Shape, TypeOK, Feat, Forming, Fact, Pending, Models, Parents
<1>2. \A s \in Symbols, t \in Minutes :
        Forming[s][t] = None /\ Pending[s][t] = None
  BY <1>1 DEF FeatureInv, QuietFeatures, FreshnessInv, Quiet
<1>3. \A s \in Symbols, t \in Minutes : Landing(s, t) = Bar(s, t)
  BY <1>2 DEF Landing
<1>4. \A s \in Symbols, t \in Minutes :
        /\ Forming'[s][t] = IF Bar(s, t) # None /\ t \in Soon THEN FeatureRow(s, t) ELSE None
        /\ FeatureRow(s, t) # None /\ GoodNext(FeatureRow(s, t).next, t)
  BY <1>1, SelectedFeat
<1>5. /\ \A s : LandingSeries(s)' = LandingSeries(s) /\ FactSeries(s)' = FactSeries(s)
      /\ \A s : MissedOf(s)' = MissedOf(s) /\ PassedOf(s)' = PassedOf(s)
      /\ \A s, t : Bar(s, t)' = Bar(s, t)
  BY <1>1, SameFact, SameRecord
<1>6. \A s \in Symbols : FactSeries(s) = LandingSeries(s) /\ FactSeries(s) \in Series
  BY <1>3, SeriesAre DEF FactSeries, LandingSeries
<1>7. Soon' = Soon /\ \A t \in Sure : t \in NearBoth' /\ t \in Sure'
  <2>1. \A t : InWindow(Feat, t)' <=> InWindow(Feat, t)
    BY <1>1 DEF InWindow
  <2>2. \A s \in Symbols, t \in Minutes : Forming'[s][t] # None => Fact[s][t] # None
    BY <1>4 DEF Bar, Fact
  <2>3. \A t : InWindow(Fact, t) => InWindow(Forming, t)'
    BY <2>2 DEF InWindow
  <2>4. Soon' = Soon
    BY <2>1 DEF Soon
  <2>5. \A t \in Sure : t \in NearBoth'
    BY <2>3, <2>4 DEF Sure, NearBoth
  <2>6. \A t \in Sure : t \in Sure'
    BY <1>1, <2>5, SameFact DEF Sure
  <2> QED BY <2>4, <2>5, <2>6
<1>8. \A s \in Symbols, t \in Minutes :
        Coming(s, t)' = IF Bar(s, t) # None /\ t \in Soon THEN FeatureRow(s, t) ELSE Feat[s][t]
  BY <1>1, <1>4 DEF Coming
<1>9. \A s \in Symbols, t \in Minutes : HasRow(s, t)' => HasRow(s, t) \/ Bar(s, t) # None
  BY <1>1, <1>4 DEF HasRow
<1>10. /\ \A s \in Symbols, t \in Minutes : stg[s][t] = Bar(s, t) \/ t \in Sure \cup MissedOf(s)
       /\ \A s \in Symbols, t \in Minutes : HasRow(s, t) => Bar(s, t) # None \/ t \in MissedOf(s)
       /\ \A s \in Symbols, t \in Minutes : Bar(s, t) # None =>
            \/ t \in Sure \cup MissedOf(s) \cup PassedOf(s)
            \/ NextFrom(NextOf(LandingSeries(s), t), t, stg[s], LandingSeries(s), MissedOf(s))
  <2>1. phase["fct"] \in Busy
    BY <1>1 DEF Busy
  <2> QED BY <1>3, <2>1 DEF FeatureInv, FreshFact, KeptFeatures, FreshLabels
<1>11. RowsAreGood'
  BY <1>1, <1>4 DEF FeatureInv, RowsAreGood, GoodRow
<1>12. QuietFeatures' /\ FormingIsNear' /\ FactFirst'
  BY <1>1, <1>4, <1>7 DEF QuietFeatures, FormingIsNear, FactFirst
<1>13. GoneFeatures'
  <2> SUFFICES ASSUME NEW s \in Symbols, NEW t \in Minutes, HasRow(s, t)'
               PROVE  stg[s][t] # None \/ t \in MissedOf(s)
    BY <1>1, <1>5 DEF GoneFeatures
  <2>1. CASE HasRow(s, t)
    BY <2>1 DEF FeatureInv, GoneFeatures
  <2>2. CASE Bar(s, t) # None
    BY <2>2 DEF Bar, Fact, FreshnessInv, GoneIsMissed, MissedOf
  <2> QED BY <1>9, <2>1, <2>2
<1>14. FeaturesStale'
  BY <1>1, <1>5, <1>7 DEF FeatureInv, FeaturesStale
<1>15. ComingStale'
  <2> SUFFICES ASSUME NEW s \in Symbols, NEW t \in Minutes
               PROVE  RowFrom(Coming(s, t)', t, stg[s], LandingSeries(s), NearBoth',
                              MissedOf(s), PassedOf(s))
    BY <1>1, <1>5 DEF ComingStale
  <2>1. CASE Bar(s, t) # None /\ t \in Soon
    <3>1. Coming(s, t)' = FeatureRow(s, t) /\ FeatureRow(s, t) # None
      BY <1>4, <1>8, <2>1
    <3>2. FrameFrom(FeatureRow(s, t).frame, t, stg[s], NearBoth' \cup MissedOf(s))
      <4>1. \A u \in Minutes : FactSeries(s)[u] = stg[s][u] \/ u \in NearBoth' \cup MissedOf(s)
        BY <1>7, <1>10 DEF FactSeries
      <4>2. ReadFrom \in Int /\ ReadFrom <= t - (Warmup - Lookback)
        BY <2>1, FeatEmitted
      <4>3. FeatureRow(s, t).frame = FrameOf(FactSeries(s), t, ReadFrom)
        BY FeatureRowIs
      <4> QED BY <1>6, <4>1, <4>2, <4>3 DEF FrameFrom
    <3>3. FeatureRow(s, t).next = NextOf(LandingSeries(s), t)
      BY <1>6, FeatureRowIs
    <3>4. \/ t \in MissedOf(s) \/ t \in NearBoth' \cup PassedOf(s)
          \/ NextFrom(FeatureRow(s, t).next, t, stg[s], LandingSeries(s), MissedOf(s))
      BY <1>7, <1>10, <2>1, <3>3
    <3> QED BY <3>1, <3>2, <3>4 DEF RowFrom
  <2>2. CASE t \in Soon /\ Bar(s, t) = None
    <3>1. Coming(s, t)' = Feat[s][t]
      BY <1>8, <2>2
    <3>2. Feat[s][t] = None \/ t \in MissedOf(s)
      BY <1>10, <2>2 DEF HasRow
    <3>3. stg[s][t] = None \/ t \in NearBoth' \/ t \in MissedOf(s)
      BY <1>7, <1>10, <2>2
    <3> QED BY <3>1, <3>2, <3>3 DEF RowFrom
  <2>3. CASE t \notin Soon
    <3>1. Coming(s, t)' = Feat[s][t]
      BY <1>8, <2>3
    <3>2. \A u \in Minutes : u <= t => u \notin Soon
      BY <2>3, LaterIsNear
    <3>3. RowFrom(Feat[s][t], t, stg[s], LandingSeries(s), Soon, MissedOf(s), PassedOf(s))
      BY DEF FeatureInv, FeaturesStale
    <3>4. RowFrom(Feat[s][t], t, stg[s], LandingSeries(s), NearBoth', MissedOf(s), PassedOf(s))
      BY <3>2, <3>3, RowStays
    <3> QED BY <3>1, <3>4
  <2> QED BY <2>1, <2>2, <2>3
<1>16. FeaturesFollow'
  <2> SUFFICES ASSUME NEW s \in Symbols, NEW t \in Minutes, Bar(s, t) # None
               PROVE  RowFollows(Coming(s, t)', t, FactSeries(s), MissedOf(s), PassedOf(s))
    BY <1>1, <1>5 DEF FeaturesFollow
  <2>1. CASE t \in Soon
    <3>1. Coming(s, t)' = FeatureRow(s, t) /\ FeatureRow(s, t) # None
      BY <1>4, <1>8, <2>1
    <3>2. FrameFrom(FeatureRow(s, t).frame, t, FactSeries(s), MissedOf(s))
      BY <1>6, <2>1, FeatEmitted, FeatureRowIs DEF FrameFrom
    <3> QED BY <3>1, <3>2, FeatureRowIs DEF RowFollows
  <2>2. CASE t \notin Soon
    <3>1. Coming(s, t)' = Feat[s][t]
      BY <1>8, <2>2
    <3>2. GoodRow(Feat[s][t], t)
      BY DEF FeatureInv, RowsAreGood
    <3>3. RowFrom(Feat[s][t], t, stg[s], LandingSeries(s), Soon, MissedOf(s), PassedOf(s))
      BY DEF FeatureInv, FeaturesStale
    <3>4. \A u \in Minutes : Landing(s, u) = stg[s][u] \/ u \in Sure \cup MissedOf(s)
      BY <1>3, <1>10
    <3> QED BY <1>6, <1>10, <2>2, <3>1, <3>2, <3>3, <3>4, KeptRowFollows
  <2> QED BY <2>1, <2>2
<1> QED BY <1>1, <1>3, <1>7, <1>9, <1>11, <1>12, <1>13, <1>14, <1>15, <1>16, FeatWrites

---------------------------------------------------------------------------
(* Steps of the fact model.                                                 *)

FactStep == Select("fct") \/ Delete("fct") \/ Insert("fct") \/ Fail("fct")

LEMMA FactStepIs ==
  ASSUME Shape, FeatureInv, FactStep
  PROVE  /\ UNCHANGED <<Feat, Forming, stg, missed, passed>>
         /\ phase'["feat"] = phase["feat"] /\ phase["feat"] \notin Busy
         /\ \A s, t : Coming(s, t)' = Coming(s, t) /\ (HasRow(s, t)' <=> HasRow(s, t))
         /\ Soon' = Soon /\ NearBoth' = NearBoth
         /\ \A s : MissedOf(s)' = MissedOf(s) /\ PassedOf(s)' = PassedOf(s)
<1>1. /\ mart'["feat"] = mart["feat"] /\ batch'["feat"] = batch["feat"]
      /\ phase'["feat"] = phase["feat"] /\ UNCHANGED <<stg, missed, passed>>
      /\ phase["fct"] # "done"
  BY DEF FactStep, Select, Delete, Insert, Fail, Shape, TypeOK, Models
<1>2. phase["feat"] \notin Busy
  BY <1>1 DEF FeatureInv, FactFirst
<1>3. Feat' = Feat /\ Forming' = Forming
  BY <1>1 DEF Feat, Forming
<1> QED BY <1>1, <1>2, <1>3, SameFeatures, SameRecord

LEMMA FactWriteKeepsFeatures ==
  ASSUME Shape, FeatureInv, FactStep,
         FeaturesStale', ComingStale', KeptFeatures', FreshFact', FreshLabels'
  PROVE  FeatureInv'
<1>1. RowsAreGood' /\ QuietFeatures' /\ FormingIsNear'
  BY FactStepIs DEF FeatureInv, RowsAreGood, QuietFeatures, FormingIsNear
<1>2. FactFirst' /\ FeaturesFollow'
  BY FactStepIs DEF FactFirst, FeaturesFollow
<1>3. GoneFeatures'
  BY FactStepIs DEF FeatureInv, GoneFeatures
<1> QED BY <1>1, <1>2, <1>3 DEF FeatureInv

(* No row appears in the fact table to be that staging does not have.       *)
LEMMA FactKeepsRows ==
  ASSUME Shape, FeatureInv, FactStep,
         \A s \in Symbols, t \in Minutes :
           stg[s][t] = None /\ Landing(s, t)' # None => Landing(s, t) # None
  PROVE  FeaturesStale' /\ ComingStale'
<1>1. \A s \in Symbols, u \in Minutes :
        stg[s][u] = None /\ LandingSeries(s)'[u] # None => LandingSeries(s)[u] # None
  BY DEF LandingSeries
<1>2. ASSUME NEW row, NEW s \in Symbols, NEW t \in Minutes, NEW N,
             RowFrom(row, t, stg[s], LandingSeries(s), N, MissedOf(s), PassedOf(s))
      PROVE  RowFrom(row, t, stg[s], LandingSeries(s)', N, MissedOf(s), PassedOf(s))
  BY <1>1, <1>2, RowStays
<1>3. FeaturesStale'
  BY <1>2, FactStepIs DEF FeatureInv, FeaturesStale
<1>4. ComingStale'
  BY <1>2, FactStepIs DEF FeatureInv, ComingStale
<1> QED BY <1>3, <1>4

(* The table to be is the same, and no minute leaves the window.            *)
LEMMA FactLandsFeatures ==
  ASSUME Shape, FeatureInv, FactStep, phase["fct"] \in Busy,
         \A s \in Symbols, t \in Minutes : Landing(s, t)' = Landing(s, t),
         \A t \in Sure : t \in Sure'
  PROVE  FeatureInv'
<1>1. \A s \in Symbols : LandingSeries(s)' = LandingSeries(s)
  BY DEF LandingSeries
<1>2. FeaturesStale' /\ ComingStale'
  BY FactKeepsRows
<1>3. KeptFeatures'
  BY FactStepIs DEF FeatureInv, KeptFeatures
<1>4. FreshFact'
  BY FactStepIs DEF FeatureInv, FreshFact
<1>5. FreshLabels'
  <2> SUFFICES ASSUME NEW s \in Symbols, NEW t \in Minutes, Landing(s, t) # None
               PROVE  \/ t \in Sure' \cup MissedOf(s) \cup PassedOf(s)
                      \/ NextFrom(NextOf(LandingSeries(s), t), t, stg[s], LandingSeries(s),
                                  MissedOf(s))
    BY <1>1, FactStepIs DEF FreshLabels
  <2> QED BY DEF FeatureInv, FreshLabels
<1> QED BY <1>2, <1>3, <1>4, <1>5, FactWriteKeepsFeatures

LEMMA FactDeletes ==
  ASSUME Shape, FreshnessInv, FeatureInv, FollowInv, Delete("fct")
  PROVE  FeatureInv' /\ FollowInv'
<1>1. /\ Pending' = Pending /\ phase["fct"] = "selected" /\ FactStep
      /\ UNCHANGED <<stg, missed, passed>>
  BY DEF Delete, Pending, FactStep
<1>2. \A s \in Symbols, t \in Minutes :
        Fact'[s][t] = IF Pending[s][t] # None THEN None ELSE Fact[s][t]
  BY FactKeys DEF Delete, Shape, Fact, Pending, Models
<1>3. \A s \in Symbols, t \in Minutes :
        /\ Bar(s, t)' = IF Pending[s][t] # None THEN None ELSE Bar(s, t)
        /\ Landing(s, t)' = Landing(s, t)
  BY <1>1, <1>2 DEF Bar, Landing, Fact
<1>4. \A t : /\ InWindow(Fact, t) => InWindow(Fact, t)'
             /\ InWindow(Pending, t)' <=> InWindow(Pending, t)
  BY <1>1, <1>2 DEF InWindow
<1>5. \A t \in Sure : t \in Sure'
  BY <1>1, <1>4, FactStepIs DEF Sure
<1>6. FeatureInv'
  BY <1>1, <1>3, <1>5, FactLandsFeatures DEF Busy
<1>7. LandingFollows'
  <2>1. \A s \in Symbols : LandingSeries(s)' = LandingSeries(s)
    BY <1>3 DEF LandingSeries
  <2> QED BY <1>1, <1>4, <2>1, SameRecord DEF FollowInv, LandingFollows
<1>8. FactFollows'
  <2> SUFFICES ASSUME NEW s \in Symbols, NEW t \in Minutes, NEW k \in Minutes,
                      ~InWindow(Fact, k)
               PROVE  Tracks(FactSeries(s)', t, k, stg[s], MissedOf(s) \cup PassedOf(s))
    BY <1>1, <1>4, SameRecord DEF FactFollows
  <2>1. Tracks(FactSeries(s), t, k, stg[s], MissedOf(s) \cup PassedOf(s))
    BY DEF FollowInv, FactFollows
  <2>2. \A u \in Minutes : /\ FactSeries(s)'[u] \in {None, FactSeries(s)[u]}
                           /\ u <= k => FactSeries(s)'[u] = FactSeries(s)[u]
    <3>1. \A u \in Minutes : u <= k => ~InWindow(Fact, u)
      BY LaterIsInWindow
    <3>2. \A u \in Minutes : Pending[s][u] # None => InWindow(Fact, u)
      BY <1>1 DEF FreshnessInv, BatchInWindow
    <3> QED BY <1>3, <3>1, <3>2 DEF FactSeries
  <2>3. k <= k /\ \A u \in Minutes : u < k => u <= k
    BY GridAssumption DEF Minutes
  <2> QED BY <2>1, <2>2, <2>3 DEF Tracks
<1> QED BY <1>6, <1>7, <1>8 DEF FollowInv

LEMMA FactInserts ==
  ASSUME Shape, FreshnessInv, FeatureInv, FollowInv, Insert("fct")
  PROVE  FeatureInv' /\ FollowInv'
<1>1. phase["fct"] = "deleted" /\ FactStep /\ UNCHANGED <<stg, missed, passed>>
  BY DEF Insert, FactStep
<1>2. \A s \in Symbols, t \in Minutes :
        /\ Fact'[s][t] = IF Pending[s][t] # None THEN Pending[s][t] ELSE Fact[s][t]
        /\ Pending'[s][t] = None
  BY FactKeys DEF Insert, Shape, Fact, Pending, Models, Empty
<1>3. \A s \in Symbols, t \in Minutes :
        Bar(s, t)' = Landing(s, t) /\ Landing(s, t)' = Landing(s, t)
  BY <1>2 DEF Bar, Landing, Fact
<1>4. \A t : /\ InWindow(Fact, t) /\ InWindow(Pending, t) => InWindow(Fact, t)'
             /\ InWindow(Pending, t)'
  BY <1>2 DEF InWindow
<1>5. \A t \in Sure : t \in Sure'
  BY <1>1, <1>4, FactStepIs DEF Sure
<1>6. FeatureInv'
  BY <1>1, <1>3, <1>5, FactLandsFeatures DEF Busy
<1>7. \A s \in Symbols : /\ LandingSeries(s)' = LandingSeries(s)
                         /\ FactSeries(s)' = LandingSeries(s)
  BY <1>3 DEF LandingSeries, FactSeries
<1>8. FactFollows' /\ LandingFollows'
  BY <1>1, <1>4, <1>7, SameRecord DEF FollowInv, FactFollows, LandingFollows
<1> QED BY <1>6, <1>8 DEF FollowInv

LEMMA FactFails ==
  ASSUME Shape, FreshnessInv, FeatureInv, FollowInv, Fail("fct")
  PROVE  FeatureInv' /\ FollowInv'
<1>1. /\ Fact' = Fact /\ phase'["fct"] = "failed" /\ FactStep
      /\ UNCHANGED <<stg, missed, passed>>
  BY DEF Fail, Shape, TypeOK, Fact, FactStep, Models
<1>2. \A s \in Symbols, t \in Minutes : Pending'[s][t] = None
  BY FactKeys DEF Fail, Shape, Pending, Models, Empty
<1>3. \A s \in Symbols, t \in Minutes : Bar(s, t)' = Bar(s, t) /\ Landing(s, t)' = Bar(s, t)
  BY <1>1, <1>2 DEF Bar, Landing, Fact
<1>4. \A t : /\ InWindow(Fact, t)' <=> InWindow(Fact, t)
             /\ InWindow(Pending, t)'
  BY <1>1, <1>2 DEF InWindow
<1>5. \A s \in Symbols, t \in Minutes : Pending[s][t] # None => Pending[s][t].bar # None
  BY DataAssumption DEF Shape, FactTable, FactRows
<1>6. FeaturesStale' /\ ComingStale'
  BY <1>1, <1>3, <1>5, FactKeepsRows DEF Landing
<1>7. KeptFeatures' /\ FreshFact' /\ FreshLabels'
  BY <1>1 DEF KeptFeatures, FreshFact, FreshLabels, Busy
<1>8. \A s \in Symbols : LandingSeries(s)' = FactSeries(s) /\ FactSeries(s)' = FactSeries(s)
  BY <1>3 DEF LandingSeries, FactSeries
<1>9. FactFollows' /\ LandingFollows'
  BY <1>1, <1>4, <1>8, SameRecord DEF FollowInv, FactFollows, LandingFollows
<1> QED BY <1>1, <1>6, <1>7, <1>9, FactWriteKeepsFeatures DEF FollowInv

(* What a select will land: staging's row where it looks and there is one,  *)
(* and otherwise what is there, which is staging's or on the record.        *)
LEMMA SelectLands ==
  ASSUME Shape, FreshnessInv, Select("fct")
  PROVE  \A s \in Symbols :
           /\ LandingSeries(s)' \in Series
           /\ \A t \in Minutes :
                /\ Landing(s, t)' = stg[s][t] \/ t \in MissedOf(s)
                /\ InWindow(Fact, t) /\ stg[s][t] # None => Landing(s, t)' = stg[s][t]
                /\ ~(InWindow(Fact, t) /\ stg[s][t] # None) => Landing(s, t)' = Bar(s, t)
                /\ Landing(s, t) = Bar(s, t)
<1>1. /\ Fact' = Fact /\ Pending' = Selected("fct") /\ phase["fct"] = "waiting"
  BY DEF Select, Shape, Fact, Pending, Models
<1>2. \A s \in Symbols, t \in Minutes :
        Pending'[s][t] = IF InWindow(Fact, t) THEN FactRow(s, t) ELSE None
  BY <1>1, SelectedFact
<1>3. \A s \in Symbols, t \in Minutes :
        Landing(s, t)' = IF Pending'[s][t] # None THEN Pending'[s][t].bar ELSE Bar(s, t)
  BY <1>1 DEF Landing, Bar, Fact
<1>4. \A s \in Symbols, t \in Minutes : Landing(s, t) = Bar(s, t)
  BY <1>1 DEF FreshnessInv, Quiet, Landing
<1>5. ASSUME NEW s \in Symbols, NEW t \in Minutes, InWindow(Fact, t), stg[s][t] # None
      PROVE  Landing(s, t)' = stg[s][t]
  BY <1>2, <1>3, <1>5, FactRowIs
<1>6. ASSUME NEW s \in Symbols, NEW t \in Minutes, ~(InWindow(Fact, t) /\ stg[s][t] # None)
      PROVE  /\ Landing(s, t)' = Bar(s, t)
             /\ Landing(s, t)' = stg[s][t] \/ t \in MissedOf(s)
  <2>1. Landing(s, t)' = Bar(s, t)
    BY <1>2, <1>3, <1>6, FactRowIs
  <2>2. CASE ~InWindow(Fact, t)
    BY <2>1, <2>2 DEF FreshnessInv, FactStale, MissedOf
  <2>3. CASE stg[s][t] = None
    <3>1. Bar(s, t) # None => Fact[s][t] # None
      BY DEF Bar, Fact
    <3> QED BY <2>1, <2>3, <3>1 DEF FreshnessInv, GoneIsMissed, MissedOf
  <2> QED BY <1>6, <2>1, <2>2, <2>3
<1>7. ASSUME NEW s \in Symbols PROVE LandingSeries(s)' \in Series
  <2>1. \A t \in Minutes : Landing(s, t)' \in {stg[s][t], Bar(s, t)}
    BY <1>5, <1>6
  <2>2. \A t \in Minutes : stg[s][t] \in Bars \cup {None} /\ Bar(s, t) \in Bars \cup {None}
    BY SeriesAre DEF Series, FactSeries
  <2>3. LandingSeries(s)' = [t \in Minutes |-> Landing(s, t)']
    BY DEF LandingSeries
  <2> QED BY <2>1, <2>2, <2>3 DEF Series
<1> QED BY <1>4, <1>5, <1>6, <1>7

(* The next row of the fact table to be, where staging has one.             *)
LEMMA SelectFollows ==
  ASSUME Shape, FreshnessInv, FollowInv, Select("fct"), NEW s \in Symbols,
         NEW t \in Minutes, NEW k \in Minutes
  PROVE  Tracks(LandingSeries(s)', t, k, stg[s], MissedOf(s) \cup PassedOf(s))
<1> DEFINE h == LandingSeries(s)'
<1>1. \A u \in Minutes :
        /\ InWindow(Fact, u) /\ stg[s][u] # None => h[u] = stg[s][u]
        /\ ~InWindow(Fact, u) => h[u] = FactSeries(s)[u]
  BY SelectLands DEF LandingSeries, FactSeries
<1> HIDE DEF h
<1>2. CASE InWindow(Fact, k)
  BY <1>1, <1>2 DEF Tracks, h
<1>3. CASE ~InWindow(Fact, k)
  <2>1. \A u \in Minutes : u <= k => h[u] = FactSeries(s)[u]
    BY <1>1, <1>3, LaterIsInWindow
  <2>2. k <= k /\ \A u \in Minutes : u < k => u <= k
    BY GridAssumption DEF Minutes
  <2>3. Tracks(FactSeries(s), t, k, stg[s], MissedOf(s) \cup PassedOf(s))
    BY <1>3 DEF FollowInv, FactFollows
  <2> QED BY <2>1, <2>2, <2>3 DEF Tracks, h
<1> QED BY <1>2, <1>3

LEMMA SelectLabels ==
  ASSUME Shape, FreshnessInv, FollowInv, Select("fct"), NEW s \in Symbols,
         NEW t \in Minutes, Landing(s, t)' # None, t \notin MissedOf(s) \cup PassedOf(s)
  PROVE  NextFrom(NextOf(LandingSeries(s)', t), t, stg[s], LandingSeries(s)', MissedOf(s))
<1> DEFINE h == LandingSeries(s)'
           g == stg[s]
           M == MissedOf(s)
<1>1. /\ h \in Series /\ h[t] # None
      /\ \A u \in Minutes : h[u] = g[u] \/ u \in M
  BY SelectLands DEF LandingSeries
<1>2. \A k \in Minutes : Tracks(h, t, k, g, M \cup PassedOf(s))
  BY SelectFollows
<1>3. \A k \in Minutes : k \in Int
  BY GridAssumption DEF Minutes
<1> HIDE DEF h, g, M
<1>4. ASSUME NEW u \in Minutes, t < u, g[u] # None \/ h[u] # None
      PROVE  \E r \in NextOf(h, t) : r[1] <= u
  <2>1. CASE h[u] # None
    BY <1>1, <1>4, <2>1, NextIs
  <2>2. CASE h[u] = None
    <3> DEFINE L == {k \in Minutes : t < k /\ g[k] # None}
    <3>1. u \in L
      BY <1>4, <2>2
    <3>2. PICK k \in L : \A j \in L : k <= j
      <4>1. L \in SUBSET Minutes /\ L # {}
        BY <3>1
      <4> QED BY <4>1, FirstIs
    <3>3. \A x \in Minutes : t < x /\ x < k => g[x] = None
      <4> SUFFICES ASSUME NEW x \in Minutes, t < x, x < k, g[x] # None PROVE FALSE
        OBVIOUS
      <4>1. k <= x
        BY <3>2
      <4> QED BY <1>3, <4>1
    <3>4. Tracks(h, t, k, g, M \cup PassedOf(s))
      BY <1>2
    <3>5. h[k] = g[k] \/ \E x \in Minutes : t < x /\ x < k /\ h[x] # None
      BY <1>1, <3>2, <3>3, <3>4 DEF Tracks, M
    <3>6. PICK x \in Minutes : t < x /\ x <= k /\ h[x] # None
      BY <1>3, <3>2, <3>5
    <3>7. PICK r \in NextOf(h, t) : r[1] <= x
      BY <1>1, <3>6, NextIs
    <3>8. r[1] \in Minutes
      BY <1>1, NextIs DEF GoodNext
    <3>9. k <= u /\ k \in Minutes
      BY <3>1, <3>2
    <3> HIDE DEF L
    <3> QED BY <1>3, <3>2, <3>6, <3>7, <3>8, <3>9
  <2> QED BY <2>1, <2>2
<1>5. ASSUME NEW r \in NextOf(h, t) PROVE g[r[1]] = r[2] \/ r[1] \in M
  <2>1. h[r[1]] = r[2] /\ r[1] \in Minutes
    BY <1>1, NextIs DEF GoodNext
  <2> QED BY <1>1, <2>1
<1>6. NextFrom(NextOf(h, t), t, g, h, M)
  BY <1>4, <1>5 DEF NextFrom
<1> QED BY <1>6 DEF h, g, M

LEMMA FactSelectKeepsFeatures ==
  ASSUME Shape, FreshnessInv, FeatureInv, FollowInv, Select("fct")
  PROVE  FeatureInv' /\ FollowInv'
<1>1. Fact' = Fact /\ FactStep /\ UNCHANGED <<stg, missed, passed>>
  BY DEF Select, Fact, FactStep
<1>2. FeaturesStale' /\ ComingStale'
  <2>1. \A s \in Symbols, t \in Minutes : stg[s][t] = None => Landing(s, t)' = Landing(s, t)
    BY SelectLands
  <2> QED BY <1>1, <2>1, FactKeepsRows
<1>3. KeptFeatures'
  <2> SUFFICES ASSUME NEW s \in Symbols, NEW t \in Minutes, HasRow(s, t)
               PROVE  Landing(s, t)' # None \/ t \in MissedOf(s)
    BY <1>1, FactStepIs DEF KeptFeatures
  <2>1. stg[s][t] # None \/ t \in MissedOf(s)
    BY DEF FeatureInv, GoneFeatures
  <2> QED BY <2>1, SelectLands
<1>4. FreshFact'
  <2> SUFFICES ASSUME NEW s \in Symbols, NEW t \in Minutes
               PROVE  Landing(s, t)' = stg[s][t] \/ t \in MissedOf(s)
    BY <1>1, FactStepIs DEF FreshFact
  <2> QED BY SelectLands
<1>5. FreshLabels'
  <2> SUFFICES ASSUME NEW s \in Symbols, NEW t \in Minutes, Landing(s, t)' # None,
                      t \notin MissedOf(s) \cup PassedOf(s)
               PROVE  NextFrom(NextOf(LandingSeries(s)', t), t, stg[s], LandingSeries(s)',
                               MissedOf(s))
    BY <1>1, FactStepIs DEF FreshLabels
  <2> QED BY SelectLabels
<1>6. FactFollows'
  <2>1. /\ \A s : FactSeries(s)' = FactSeries(s)
        /\ \A t : InWindow(Fact, t)' <=> InWindow(Fact, t)
    BY <1>1 DEF FactSeries, Bar, Fact, InWindow
  <2> QED BY <1>1, <2>1, SameRecord DEF FollowInv, FactFollows
<1>7. LandingFollows'
  BY <1>1, SelectFollows, SameRecord DEF LandingFollows
<1> QED BY <1>1, <1>2, <1>3, <1>4, <1>5, <1>6, <1>7, FactWriteKeepsFeatures DEF FollowInv

LEMMA FactStepKeepsFeatures ==
  ASSUME Shape, FreshnessInv, FeatureInv, FollowInv, FactStep
  PROVE  FeatureInv' /\ FollowInv'
BY FactSelectKeepsFeatures, FactDeletes, FactInserts, FactFails DEF FactStep

---------------------------------------------------------------------------
(* Steps of staging.                                                        *)

NoneBetween(s, t, u) == \A x \in Minutes : t < x /\ x < u => stg[s][x] = None

(* One minute of staging becomes v: a row in the window of all the tables,  *)
(* or on the record; and the row before it is in the window, or on the      *)
(* record too.                                                              *)
StagingMove(s0, u0, v) ==
  /\ UNCHANGED <<mart, batch, phase>>
  /\ stg' = [stg EXCEPT ![s0][u0] = v]
  /\ \A s \in Symbols : /\ MissedOf(s) \subseteq MissedOf(s)' /\ PassedOf(s) \subseteq PassedOf(s)'
                        /\ s # s0 => MissedOf(s)' = MissedOf(s) /\ PassedOf(s)' = PassedOf(s)
  /\ v = None => u0 \in MissedOf(s0)'
  /\ v # None => u0 \in Sure \cup MissedOf(s0)'
  /\ \A t \in Minutes : v # None /\ t < u0 /\ stg[s0][t] # None /\ NoneBetween(s0, t, u0)
       => t \in Sure \cup PassedOf(s0)'

LEMMA StagingMoveIs ==
  ASSUME Shape, NEW s0 \in Symbols, NEW u0 \in Minutes, NEW v, StagingMove(s0, u0, v)
  PROVE  /\ UNCHANGED <<Feat, Forming, Fact, Pending, phase>>
         /\ \A s \in Symbols : \A t : Coming(s, t)' = Coming(s, t) /\ (HasRow(s, t)' <=> HasRow(s, t))
         /\ Soon' = Soon /\ NearBoth' = NearBoth /\ Sure' = Sure
         /\ \A s \in Symbols : \A t : Bar(s, t)' = Bar(s, t) /\ Landing(s, t)' = Landing(s, t)
         /\ \A s \in Symbols : /\ FactSeries(s)' = FactSeries(s)
                               /\ LandingSeries(s)' = LandingSeries(s)
         /\ \A t : /\ InWindow(Fact, t)' <=> InWindow(Fact, t)
                   /\ InWindow(Pending, t)' <=> InWindow(Pending, t)
         /\ stg'[s0] = [stg[s0] EXCEPT ![u0] = v] /\ stg'[s0][u0] = v
         /\ \A s \in Symbols : s # s0 => stg'[s] = stg[s]
         /\ \A s \in Symbols, t \in Minutes : t # u0 => stg'[s][t] = stg[s][t]
         /\ stg[s0] \in Series
<1>1. UNCHANGED <<Feat, Forming, Fact, Pending, phase>>
  BY DEF StagingMove, Feat, Forming, Fact, Pending
<1>2. stg \in [Symbols -> [Minutes -> Bars \cup {None}]] /\ stg' = [stg EXCEPT ![s0][u0] = v]
  BY DEF Shape, TypeOK, StagingMove
<1> QED BY <1>1, <1>2, SameFeatures, SameFact DEF Series

Marked(s) == MissedOf(s) \cup PassedOf(s)

LEMMA FollowStages ==
  ASSUME Shape, FreshnessInv, FollowInv,
         NEW s0 \in Symbols, NEW u0 \in Minutes, NEW v, StagingMove(s0, u0, v)
  PROVE  FollowInv'
<1>1. \A s \in Symbols : Marked(s) \subseteq Marked(s)' /\ (s # s0 => Marked(s)' = Marked(s))
  BY DEF StagingMove, Marked
<1>0. /\ \A s \in Symbols : s # s0 => stg'[s] = stg[s]
      /\ \A s \in Symbols : /\ FactSeries(s)' = FactSeries(s)
                            /\ LandingSeries(s)' = LandingSeries(s)
      /\ \A t : /\ InWindow(Fact, t)' <=> InWindow(Fact, t)
                /\ InWindow(Pending, t)' <=> InWindow(Pending, t)
  BY StagingMoveIs
<1>2. ASSUME NEW h, NEW C \in SUBSET Minutes,
             \A j \in C, i \in Minutes : j < i => i \in C,
             \A j \in Sure, i \in Minutes : j < i => i \in C,
             \A t, j \in Minutes : Tracks(h, t, j, stg[s0], Marked(s0)) \/ j \in C,
             \A t \in Minutes : h[t] # None => stg[s0][t] # None \/ t \in MissedOf(s0),
             NEW t \in Minutes, NEW k \in Minutes
      PROVE  Tracks(h, t, k, stg'[s0], Marked(s0)') \/ k \in C
  <2>1. ASSUME v # None, t < u0, NoneBetween(s0, t, u0)
        PROVE  h[t] = None \/ t \in Marked(s0)' \/ u0 \in C
    <3>1. h[t] # None /\ t \notin MissedOf(s0)' => t \in Sure \cup PassedOf(s0)'
      BY <1>2, <2>1 DEF StagingMove
    <3> QED BY <1>2, <2>1, <3>1 DEF Marked
  <2>2. h[t] # None => stg[s0][t] # None \/ t \in Marked(s0)'
    BY <1>1, <1>2 DEF Marked
  <2>3. stg'[s0] = [stg[s0] EXCEPT ![u0] = v] /\ stg[s0] \in Series
    BY StagingMoveIs
  <2>4. \A j \in Minutes : Tracks(h, t, j, stg[s0], Marked(s0)') \/ j \in C
    BY <1>1, <1>2 DEF Tracks
  <2>5. \A j \in C : j \in Minutes /\ \A i \in Minutes : j < i => i \in C
    BY <1>2
  <2>6. v # None /\ t < u0 /\ (\A x \in Minutes : t < x /\ x < u0 => stg[s0][x] = None)
          => h[t] = None \/ t \in Marked(s0)' \/ u0 \in C
    BY <2>1 DEF NoneBetween
  <2>7. Tracks(h, t, k, [stg[s0] EXCEPT ![u0] = v], Marked(s0)') \/ k \in C
    BY <2>2, <2>3, <2>4, <2>5, <2>6, FollowsMoves
  <2> QED BY <2>3, <2>7
<1>3. \A t, u \in Minutes : /\ t < u => t <= u
                            /\ InWindow(Fact, t) /\ t < u => InWindow(Fact, u)
                            /\ InWindow(Pending, t) /\ t < u => InWindow(Pending, u)
                            /\ t \in Sure => InWindow(Fact, t) /\ InWindow(Pending, t)
  <2>1. \A t, u \in Minutes : t < u => t <= u
    BY GridAssumption DEF Minutes
  <2> QED BY <2>1, LaterIsInWindow DEF Sure
<1>4. FactFollows'
  <2> DEFINE C == {j \in Minutes : InWindow(Fact, j)}
  <2>1. ASSUME NEW t \in Minutes, NEW k \in Minutes
        PROVE  Tracks(FactSeries(s0), t, k, stg'[s0], Marked(s0)') \/ k \in C
    <3>1. \A j \in C, i \in Minutes : j < i => i \in C
      BY <1>3
    <3>2. \A j \in Sure, i \in Minutes : j < i => i \in C
      BY <1>3 DEF Sure, NearBoth, Soon
    <3>3. \A q, j \in Minutes : Tracks(FactSeries(s0), q, j, stg[s0], Marked(s0)) \/ j \in C
      BY DEF FollowInv, FactFollows, Marked
    <3>4. \A q \in Minutes : FactSeries(s0)[q] # None => stg[s0][q] # None \/ q \in MissedOf(s0)
      BY DEF FreshnessInv, GoneIsMissed, FactSeries, Bar, Fact, MissedOf
    <3> HIDE DEF C
    <3> QED BY <1>2, <3>1, <3>2, <3>3, <3>4 DEF C
  <2> SUFFICES ASSUME NEW s \in Symbols, NEW t \in Minutes, NEW k \in Minutes, k \notin C
               PROVE  Tracks(FactSeries(s), t, k, stg'[s], Marked(s)')
    BY <1>0 DEF FactFollows, Marked
  <2>2. CASE s = s0
    BY <2>1, <2>2
  <2>3. CASE s # s0
    <3>1. stg'[s] = stg[s] /\ Marked(s)' = Marked(s)
      BY <1>0, <1>1, <2>3
    <3>2. Tracks(FactSeries(s), t, k, stg[s], Marked(s))
      BY DEF FollowInv, FactFollows, Marked
    <3> QED BY <3>1, <3>2
  <2> QED BY <2>2, <2>3
<1>5. LandingFollows'
  <2> DEFINE C == {j \in Minutes : InWindow(Fact, j) /\ InWindow(Pending, j)}
  <2>1. ASSUME NEW t \in Minutes, NEW k \in Minutes
        PROVE  Tracks(LandingSeries(s0), t, k, stg'[s0], Marked(s0)') \/ k \in C
    <3>1. \A j \in C, i \in Minutes : j < i => i \in C
      BY <1>3
    <3>2. \A j \in Sure, i \in Minutes : j < i => i \in C
      BY <1>3 DEF Sure, NearBoth, Soon
    <3>3. \A q, j \in Minutes : Tracks(LandingSeries(s0), q, j, stg[s0], Marked(s0)) \/ j \in C
      BY DEF FollowInv, LandingFollows, Marked
    <3>4. \A q \in Minutes : LandingSeries(s0)[q] # None
            => stg[s0][q] # None \/ q \in MissedOf(s0)
      BY DEF FreshnessInv, GoneIsMissed, LandingSeries, Landing, Bar, Fact, MissedOf
    <3> HIDE DEF C
    <3> QED BY <1>2, <3>1, <3>2, <3>3, <3>4 DEF C
  <2> SUFFICES ASSUME NEW s \in Symbols, NEW t \in Minutes, NEW k \in Minutes, k \notin C
               PROVE  Tracks(LandingSeries(s), t, k, stg'[s], Marked(s)')
    BY <1>0 DEF LandingFollows, Marked
  <2>2. CASE s = s0
    BY <2>1, <2>2
  <2>3. CASE s # s0
    <3>1. stg'[s] = stg[s] /\ Marked(s)' = Marked(s)
      BY <1>0, <1>1, <2>3
    <3>2. Tracks(LandingSeries(s), t, k, stg[s], Marked(s))
      BY DEF FollowInv, LandingFollows, Marked
    <3> QED BY <3>1, <3>2
  <2> QED BY <2>2, <2>3
<1> QED BY <1>4, <1>5 DEF FollowInv

(* The row before u0 is in the window, or on the record.                    *)
LEMMA RowBefore ==
  ASSUME FeatureInv, NEW s0 \in Symbols, NEW u0 \in Minutes, NEW v, StagingMove(s0, u0, v),
         NEW t \in Minutes, stg[s0][t] # None \/ t \in MissedOf(s0)
  PROVE  v # None /\ t < u0 /\ (\A x \in Minutes : t < x /\ x < u0 => stg[s0][x] = None)
           => t \in Sure \cup MissedOf(s0)' \cup PassedOf(s0)'
BY DEF StagingMove, NoneBetween

LEMMA RowStages ==
  ASSUME Shape, FeatureInv, NEW s0 \in Symbols, NEW u0 \in Minutes, NEW v,
         StagingMove(s0, u0, v), NEW s \in Symbols, NEW t \in Minutes,
         NEW row, GoodRow(row, t), NEW N, Sure \subseteq N,
         row # None => HasRow(s, t),
         RowFrom(row, t, stg[s], LandingSeries(s), N, MissedOf(s), PassedOf(s))
  PROVE  RowFrom(row, t, stg'[s], LandingSeries(s), N, MissedOf(s)', PassedOf(s)')
<1>1. /\ stg[s0] \in Series /\ stg'[s0] = [stg[s0] EXCEPT ![u0] = v]
      /\ s # s0 => stg'[s] = stg[s]
  BY StagingMoveIs
<1>2. MissedOf(s) \subseteq MissedOf(s)' /\ PassedOf(s) \subseteq PassedOf(s)'
  BY DEF StagingMove
<1>3. CASE s # s0
  <2>1. MissedOf(s)' = MissedOf(s) /\ PassedOf(s)' = PassedOf(s)
    BY <1>3 DEF StagingMove
  <2> QED BY <1>1, <1>3, <2>1
<1>4. CASE s = s0
  <2>1. RowFrom(row, t, stg[s0], LandingSeries(s), N, MissedOf(s0)', PassedOf(s0)')
    BY <1>2, <1>4, RowMarked
  <2>2. row # None => stg[s0][t] # None \/ t \in MissedOf(s0)
    BY <1>4 DEF FeatureInv, GoneFeatures
  <2>3. v # None /\ t < u0 /\ (\A x \in Minutes : t < x /\ x < u0 => stg[s0][x] = None)
          => row = None \/ t \in N \cup MissedOf(s0)' \cup PassedOf(s0)'
    BY <2>2, RowBefore
  <2>4. /\ v = None => u0 \in MissedOf(s0)'
        /\ v # None => u0 \in N \cup MissedOf(s0)'
    BY DEF StagingMove
  <2>5. RowFrom(row, t, [stg[s0] EXCEPT ![u0] = v], LandingSeries(s), N,
                MissedOf(s0)', PassedOf(s0)')
    BY <1>1, <2>1, <2>3, <2>4, RowMoves
  <2> QED BY <1>1, <1>4, <2>5
<1> QED BY <1>3, <1>4

LEMMA FeaturesStage ==
  ASSUME Shape, FreshnessInv, FeatureInv,
         NEW s0 \in Symbols, NEW u0 \in Minutes, NEW v, StagingMove(s0, u0, v)
  PROVE  FeatureInv'
<1>1. /\ UNCHANGED <<Feat, Forming, Fact, Pending, phase>>
      /\ \A s \in Symbols, t \in Minutes :
           /\ Coming(s, t)' = Coming(s, t) /\ (HasRow(s, t)' <=> HasRow(s, t))
           /\ Bar(s, t)' = Bar(s, t) /\ Landing(s, t)' = Landing(s, t)
      /\ Soon' = Soon /\ NearBoth' = NearBoth /\ Sure' = Sure
      /\ \A s \in Symbols : /\ FactSeries(s)' = FactSeries(s)
                            /\ LandingSeries(s)' = LandingSeries(s)
  BY StagingMoveIs
<1>2. /\ stg[s0] \in Series /\ stg'[s0] = [stg[s0] EXCEPT ![u0] = v] /\ stg'[s0][u0] = v
      /\ \A s \in Symbols : s # s0 => stg'[s] = stg[s]
      /\ \A s \in Symbols, t \in Minutes : t # u0 => stg'[s][t] = stg[s][t]
  BY StagingMoveIs
<1>3. /\ \A s \in Symbols : /\ MissedOf(s) \subseteq MissedOf(s)'
                            /\ PassedOf(s) \subseteq PassedOf(s)'
      /\ \A s \in Symbols : s # s0 => MissedOf(s)' = MissedOf(s)
      /\ v = None => u0 \in MissedOf(s0)'
      /\ v # None => u0 \in Sure \cup MissedOf(s0)'
  BY DEF StagingMove
<1>4. Sure \subseteq NearBoth /\ Sure \subseteq Soon
  BY DEF Sure, NearBoth
<1>5. RowsAreGood' /\ QuietFeatures' /\ FormingIsNear' /\ FactFirst'
  BY <1>1 DEF FeatureInv, RowsAreGood, QuietFeatures, FormingIsNear, FactFirst
<1>6. GoneFeatures'
  <2> SUFFICES ASSUME NEW s \in Symbols, NEW t \in Minutes, HasRow(s, t)
               PROVE  stg'[s][t] # None \/ t \in MissedOf(s)'
    BY <1>1 DEF GoneFeatures
  <2>1. stg[s][t] # None \/ t \in MissedOf(s)
    BY DEF FeatureInv, GoneFeatures
  <2> QED BY <1>2, <1>3, <2>1
<1>7. FeaturesStale'
  <2> SUFFICES ASSUME NEW s \in Symbols, NEW t \in Minutes
               PROVE  RowFrom(Feat[s][t], t, stg'[s], LandingSeries(s), Soon,
                              MissedOf(s)', PassedOf(s)')
    BY <1>1 DEF FeaturesStale
  <2>1. GoodRow(Feat[s][t], t) /\ (Feat[s][t] # None => HasRow(s, t))
    BY DEF FeatureInv, RowsAreGood, HasRow
  <2>2. RowFrom(Feat[s][t], t, stg[s], LandingSeries(s), Soon, MissedOf(s), PassedOf(s))
    BY DEF FeatureInv, FeaturesStale
  <2> QED BY <1>4, <2>1, <2>2, RowStages
<1>8. ComingStale'
  <2> SUFFICES ASSUME NEW s \in Symbols, NEW t \in Minutes
               PROVE  RowFrom(Coming(s, t), t, stg'[s], LandingSeries(s), NearBoth,
                              MissedOf(s)', PassedOf(s)')
    BY <1>1 DEF ComingStale
  <2>1. GoodRow(Coming(s, t), t) /\ (Coming(s, t) # None => HasRow(s, t))
    BY DEF FeatureInv, RowsAreGood, HasRow, Coming
  <2>2. RowFrom(Coming(s, t), t, stg[s], LandingSeries(s), NearBoth, MissedOf(s), PassedOf(s))
    BY DEF FeatureInv, ComingStale
  <2> QED BY <1>4, <2>1, <2>2, RowStages
<1>9. KeptFeatures'
  BY <1>1, <1>3 DEF FeatureInv, KeptFeatures
<1>10. FreshFact'
  <2> SUFFICES ASSUME phase["fct"] \in Busy, NEW s \in Symbols, NEW t \in Minutes
               PROVE  Landing(s, t) = stg'[s][t] \/ t \in Sure \cup MissedOf(s)'
    BY <1>1 DEF FreshFact
  <2>1. Landing(s, t) = stg[s][t] \/ t \in Sure \cup MissedOf(s)
    BY DEF FeatureInv, FreshFact
  <2>2. stg'[s][t] = stg[s][t] \/ t \in Sure \cup MissedOf(s)'
    BY <1>2, <1>3
  <2> QED BY <1>3, <2>1, <2>2
<1>11. FreshLabels'
  <2> SUFFICES ASSUME phase["fct"] \in Busy, NEW s \in Symbols, NEW t \in Minutes,
                      Landing(s, t) # None
               PROVE  \/ t \in Sure \cup MissedOf(s)' \cup PassedOf(s)'
                      \/ NextFrom(NextOf(LandingSeries(s), t), t, stg'[s], LandingSeries(s),
                                  MissedOf(s)')
    BY <1>1 DEF FreshLabels
  <2>1. \/ t \in Sure \cup MissedOf(s) \cup PassedOf(s)
        \/ NextFrom(NextOf(LandingSeries(s), t), t, stg[s], LandingSeries(s), MissedOf(s))
    BY DEF FeatureInv, FreshLabels
  <2>2. \/ t \in Sure \cup MissedOf(s)' \cup PassedOf(s)'
        \/ NextFrom(NextOf(LandingSeries(s), t), t, stg[s], LandingSeries(s), MissedOf(s)')
    <3>1. NextFrom(NextOf(LandingSeries(s), t), t, stg[s], LandingSeries(s), MissedOf(s))
            => NextFrom(NextOf(LandingSeries(s), t), t, stg[s], LandingSeries(s), MissedOf(s)')
      BY <1>3 DEF NextFrom
    <3> QED BY <1>3, <2>1, <3>1
  <2>3. CASE s # s0
    BY <1>2, <2>2, <2>3
  <2>4. CASE s = s0
    <3>1. stg[s0][t] # None \/ t \in MissedOf(s0)
      <4>1. Pending[s0][t] # None \/ Fact[s0][t] # None
        BY <2>4 DEF Landing, Bar, Fact
      <4> QED BY <4>1 DEF FreshnessInv, GoneIsMissed, MissedOf
    <3>2. v # None /\ t < u0 /\ (\A x \in Minutes : t < x /\ x < u0 => stg[s0][x] = None)
            => t \in Sure \cup MissedOf(s0)' \cup PassedOf(s0)'
      BY <3>1, RowBefore
    <3>3. GoodNext(NextOf(LandingSeries(s0), t), t)
      BY SeriesAre, NextIs
    <3>4. \/ t \in Sure \cup MissedOf(s0)' \cup PassedOf(s0)'
          \/ NextFrom(NextOf(LandingSeries(s0), t), t, [stg[s0] EXCEPT ![u0] = v],
                      LandingSeries(s0), MissedOf(s0)')
      BY <1>2, <1>3, <2>2, <2>4, <3>2, <3>3, NextMoves
    <3> QED BY <1>2, <2>4, <3>4
  <2> QED BY <2>3, <2>4
<1>12. FeaturesFollow'
  <2> SUFFICES ASSUME phase["feat"] \in Busy, NEW s \in Symbols, NEW t \in Minutes,
                      Bar(s, t) # None
               PROVE  RowFollows(Coming(s, t), t, FactSeries(s), MissedOf(s)', PassedOf(s)')
    BY <1>1 DEF FeaturesFollow
  <2>1. RowFollows(Coming(s, t), t, FactSeries(s), MissedOf(s), PassedOf(s))
    BY DEF FeatureInv, FeaturesFollow
  <2>2. FrameFrom(Coming(s, t).frame, t, FactSeries(s), MissedOf(s))
          => FrameFrom(Coming(s, t).frame, t, FactSeries(s), MissedOf(s)')
    BY <1>3, FrameStays
  <2> QED BY <1>3, <2>1, <2>2 DEF RowFollows
<1> QED BY <1>5, <1>6, <1>7, <1>8, <1>9, <1>10, <1>11, <1>12 DEF FeatureInv

---------------------------------------------------------------------------
(* The invariant.                                                           *)

LEMMA RecentIsSure ==
  ASSUME Shape, NEW t \in Minutes, ~(t < Newest - Lookback)
  PROVE  t \in Sure
<1> DEFINE N == {-1} \cup Filled(stg) \cup
             UNION {Filled(mart[model]) \cup Filled(batch[model]) : model \in Models}
<1>1. Filled(stg) \subseteq Minutes
  BY DEF Filled, Shape, TypeOK
<1>2. \A model \in Models : Filled(mart[model]) \cup Filled(batch[model]) \subseteq Minutes
  BY FilledAreMinutes
<1>3. N \in SUBSET (Minutes \cup {-1}) /\ N # {}
  BY <1>1, <1>2
<1>4. Newest \in N /\ \A k \in N : k <= Newest
  BY <1>3, MaxOfIs DEF Newest
<1>5. Filled(Feat) \cup Filled(Forming) \subseteq N
  BY FeatKeys DEF Feat, Forming
<1>6. Newest \in Int /\ t \in Int /\ Lookback \in Int /\ N \subseteq Int
  BY <1>3, <1>4, LookbackAssumption, GridAssumption DEF Minutes
<1>7. Newest <= t + Lookback
  BY <1>6
<1> HIDE DEF N
<1>8. ASSUME NEW k \in Filled(Feat) \cup Filled(Forming) PROVE k <= t + Lookback
  <2>1. k \in Int /\ k <= Newest
    BY <1>4, <1>5, <1>6
  <2> QED BY <1>6, <1>7, <2>1
<1>9. InWindow(Feat, t) /\ InWindow(Forming, t)
  BY <1>8, FilledFeat DEF InWindow
<1> QED BY <1>9, RecentIsInWindow DEF Sure, NearBoth, Soon

LEMMA ArriveMoves ==
  ASSUME Shape, Arrive
  PROVE  \E s \in Symbols, u \in Minutes : \E v : StagingMove(s, u, v)
<1>1. PICK s0 \in Symbols, u0 \in Minutes, v \in Bars :
        /\ stg' = [stg EXCEPT ![s0][u0] = v]
        /\ missed' = IF u0 < Newest - Lookback THEN missed \cup {<<s0, u0>>} ELSE missed
        /\ passed' = passed \cup {<<s0, k>> : k \in {k \in Before(s0, u0) : k < Newest - Lookback}}
  BY DEF Arrive
<1>2. UNCHANGED <<mart, batch, phase>> /\ v # None
  BY DataAssumption DEF Arrive
<1>3. \A s \in Symbols :
        /\ MissedOf(s) \subseteq MissedOf(s)' /\ PassedOf(s) \subseteq PassedOf(s)'
        /\ s # s0 => MissedOf(s)' = MissedOf(s) /\ PassedOf(s)' = PassedOf(s)
  BY <1>1 DEF MissedOf, PassedOf
<1>4. u0 \in Sure \cup MissedOf(s0)'
  BY <1>1, RecentIsSure DEF MissedOf
<1>5. ASSUME NEW t \in Minutes, t < u0, stg[s0][t] # None, NoneBetween(s0, t, u0)
      PROVE  t \in Sure \cup PassedOf(s0)'
  <2>1. \A j \in Minutes : j < u0 /\ stg[s0][j] # None => j <= t
    <3> SUFFICES ASSUME NEW j \in Minutes, j < u0, stg[s0][j] # None, t < j PROVE FALSE
      BY GridAssumption DEF Minutes
    <3> QED BY <1>5 DEF NoneBetween
  <2>2. t \in Before(s0, u0)
    BY <1>5, <2>1 DEF Before
  <2>3. t < Newest - Lookback => <<s0, t>> \in passed'
    BY <1>1, <2>2
  <2> QED BY <2>3, RecentIsSure DEF PassedOf
<1>6. StagingMove(s0, u0, v)
  BY <1>1, <1>2, <1>3, <1>4, <1>5 DEF StagingMove
<1> QED BY <1>6

LEMMA VanishMoves ==
  ASSUME Shape, Vanish
  PROVE  \E s \in Symbols, u \in Minutes : \E v : StagingMove(s, u, v)
<1>1. PICK s0 \in Symbols, u0 \in Minutes :
        stg' = [stg EXCEPT ![s0][u0] = None] /\ missed' = missed \cup {<<s0, u0>>}
  BY DEF Vanish
<1>2. UNCHANGED <<mart, batch, phase, passed>>
  BY DEF Vanish
<1>3. \A s \in Symbols :
        /\ MissedOf(s) \subseteq MissedOf(s)' /\ PassedOf(s) \subseteq PassedOf(s)'
        /\ s # s0 => MissedOf(s)' = MissedOf(s) /\ PassedOf(s)' = PassedOf(s)
  BY <1>1, <1>2 DEF MissedOf, PassedOf
<1>4. u0 \in MissedOf(s0)'
  BY <1>1 DEF MissedOf
<1>5. StagingMove(s0, u0, None)
  BY <1>1, <1>2, <1>3, <1>4 DEF StagingMove
<1> QED BY <1>5

LEMMA InitFeatures == Init => FeatureInv /\ FollowInv
<1> SUFFICES ASSUME Init PROVE FeatureInv /\ FollowInv
  OBVIOUS
<1>1. Feat = Empty("feat") /\ Forming = Empty("feat")
  BY FeatKeys DEF Init, Feat, Forming
<1>2. \A s \in Symbols, t \in Minutes :
        /\ Feat[s][t] = None /\ Forming[s][t] = None /\ stg[s][t] = None
        /\ Coming(s, t) = None /\ ~HasRow(s, t)
  BY <1>1, FeatKeys DEF Init, Empty, Coming, HasRow
<1>3. phase["feat"] \notin Busy /\ phase["fct"] \notin Busy /\ phase["feat"] # "selected"
  BY FeatKeys DEF Init, Models, Busy
<1>4. RowsAreGood /\ QuietFeatures /\ FormingIsNear /\ FactFirst /\ GoneFeatures
  BY <1>2, <1>3 DEF RowsAreGood, GoodRow, QuietFeatures, FormingIsNear, FactFirst, GoneFeatures
<1>5. FeaturesStale /\ ComingStale
  BY <1>2 DEF FeaturesStale, ComingStale, RowFrom
<1>6. KeptFeatures /\ FreshFact /\ FreshLabels /\ FeaturesFollow
  BY <1>3 DEF KeptFeatures, FreshFact, FreshLabels, FeaturesFollow
<1>7. FollowInv
  BY <1>2 DEF FollowInv, FactFollows, LandingFollows, Tracks
<1> QED BY <1>4, <1>5, <1>6, <1>7 DEF FeatureInv

(* A new build: nothing has been selected in it yet.                        *)
LEMMA StartBuildKeepsFeatures ==
  ASSUME FeatureInv, FollowInv, StartBuild
  PROVE  FeatureInv' /\ FollowInv'
<1>1. /\ phase'["feat"] = "waiting" /\ phase'["fct"] = "waiting"
      /\ phase["feat"] \notin {"selected", "deleted"}
      /\ UNCHANGED <<Feat, Forming, Fact, Pending, stg, missed, passed>>
  BY DEF StartBuild, Running, Models, Feat, Forming, Fact, Pending
<1>2. RowsAreGood' /\ QuietFeatures' /\ FormingIsNear' /\ FactFirst'
  BY <1>1 DEF FeatureInv, RowsAreGood, QuietFeatures, FormingIsNear, FactFirst, Busy
<1>3. GoneFeatures'
  BY <1>1, SameFeatures, SameRecord DEF FeatureInv, GoneFeatures
<1>4. FeaturesStale' /\ ComingStale'
  BY <1>1, SameFeatures, SameFact, SameRecord DEF FeatureInv, FeaturesStale, ComingStale
<1>5. KeptFeatures' /\ FreshFact' /\ FreshLabels' /\ FeaturesFollow'
  BY <1>1 DEF KeptFeatures, FreshFact, FreshLabels, FeaturesFollow, Busy
<1>6. FollowInv'
  BY <1>1, FollowUntouched
<1> QED BY <1>2, <1>3, <1>4, <1>5, <1>6 DEF FeatureInv

(* The rollups write other tables.                                          *)
LEMMA RollupsLeaveFeatures ==
  ASSUME Shape, NEW model \in Models, model \notin {"fct", "feat"},
         Select(model) \/ Delete(model) \/ Insert(model) \/ Fail(model)
  PROVE  /\ UNCHANGED <<Feat, Forming, Fact, Pending, stg, missed, passed>>
         /\ phase'["feat"] = phase["feat"] /\ phase'["fct"] = phase["fct"]
<1>1. \A m \in {"fct", "feat"} :
        mart'[m] = mart[m] /\ batch'[m] = batch[m] /\ phase'[m] = phase[m]
  BY DEF Shape, TypeOK, Models, Select, Delete, Insert, Fail
<1>2. UNCHANGED <<stg, missed, passed>>
  BY DEF Select, Delete, Insert, Fail
<1> QED BY <1>1, <1>2 DEF Feat, Forming, Fact, Pending

LEMMA StepFeatures ==
  Shape /\ FreshnessInv /\ FeatureInv /\ FollowInv /\ [Next]_vars => FeatureInv' /\ FollowInv'
<1> SUFFICES ASSUME Shape, FreshnessInv, FeatureInv, FollowInv, [Next]_vars
             PROVE  FeatureInv' /\ FollowInv'
  OBVIOUS
<1>1. CASE Arrive \/ Vanish
  <2>1. PICK s \in Symbols, u \in Minutes : \E v : StagingMove(s, u, v)
    BY <1>1, ArriveMoves, VanishMoves
  <2> QED BY <2>1, FeaturesStage, FollowStages
<1>2. CASE RefreshFx \/ UNCHANGED vars
  <2>1. /\ UNCHANGED <<Feat, Forming, Fact, Pending, stg, missed, passed>>
        /\ phase'["feat"] = phase["feat"] /\ phase'["fct"] = phase["fct"]
    BY <1>2 DEF RefreshFx, vars, Feat, Forming, Fact, Pending
  <2> QED BY <2>1, FeaturesUntouched, FollowUntouched
<1>3. CASE StartBuild
  BY <1>3, StartBuildKeepsFeatures
<1>4. ASSUME NEW model \in Models,
             Select(model) \/ Delete(model) \/ Insert(model) \/ Fail(model)
      PROVE  FeatureInv' /\ FollowInv'
  <2>1. CASE model = "fct"
    BY <1>4, <2>1, FactStepKeepsFeatures DEF FactStep
  <2>2. CASE model = "feat"
    <3>1. FeatureInv'
      BY <1>4, <2>2, FeatSelects, FeatDeletes, FeatInserts, FeatFails
    <3>2. UNCHANGED <<Fact, Pending, stg, missed, passed>>
      <4>1. UNCHANGED <<stg, missed, passed>>
        BY <1>4 DEF Select, Delete, Insert, Fail
      <4> QED BY <1>4, <2>2, <4>1, OthersLeaveFact
    <3> QED BY <3>1, <3>2, FollowUntouched
  <2>3. CASE model \notin {"fct", "feat"}
    BY <1>4, <2>3, RollupsLeaveFeatures, FeaturesUntouched, FollowUntouched
  <2> QED BY <2>1, <2>2, <2>3
<1> QED BY <1>1, <1>2, <1>3, <1>4 DEF Next, Build

---------------------------------------------------------------------------
(* Warm frames, and labels of the next row.                                 *)

\* Once a build has succeeded, the features are those the fact table gives.
LEMMA BuiltFollows ==
  ASSUME FeatureInv, Built, NEW s \in Symbols, NEW t \in Minutes, Bar(s, t) # None
  PROVE  RowFollows(Feat[s][t], t, FactSeries(s), MissedOf(s), PassedOf(s))
<1>1. phase["feat"] = "done"
  BY FeatKeys DEF Built
<1>2. Coming(s, t) = Feat[s][t]
  BY <1>1 DEF FeatureInv, QuietFeatures, Coming
<1> QED BY <1>1, <1>2 DEF FeatureInv, FeaturesFollow, Busy

(* The frame of a row holds the row; so it has a first minute.              *)
LEMMA FrameStartIs ==
  ASSUME Shape, NEW s \in Symbols, NEW t \in Minutes, Bar(s, t) # None
  PROVE  /\ FrameStart(s, t) \in Minutes /\ FrameStart(s, t) <= t
         /\ \E r \in WindowFrame(s, t, 0) : r[1] = FrameStart(s, t)
         /\ \A r \in WindowFrame(s, t, 0) : FrameStart(s, t) <= r[1]
<1> DEFINE f == FactSeries(s)
           rows == FrameOf(f, t, 0)
           U == Upto(f, t, 0)
           K == {r[1] : r \in rows}
<1>1. f \in Series /\ f[t] # None
  BY SeriesAre DEF FactSeries
<1>2. /\ t \in Nat /\ t <= t /\ 0 <= t /\ Frame \in Nat /\ 0 < Frame
      /\ \A k \in Minutes : k \in Int
  BY GridAssumption, LookbackAssumption DEF Minutes
<1>3. t \in U /\ U \in SUBSET Minutes /\ \A k \in U : k <= t
  BY <1>1, <1>2 DEF Upto
<1> HIDE DEF U, f
<1>4. Cardinality(After(U, t)) < Frame
  <2>1. After(U, t) = {}
    <3>1. \A k \in U : ~(k > t)
      BY <1>2, <1>3
    <3> QED BY <3>1 DEF After
  <2> QED BY <1>2, <2>1, FS_EmptySet
<1>5. <<t, f[t]>> \in rows
  BY <1>1, <1>3, <1>4, FrameIs DEF U
<1>6. \A r \in rows : r[1] \in Minutes /\ r[1] <= t
  BY <1>1, <1>3, FrameIs DEF U
<1> HIDE DEF rows
<1>7. K \in SUBSET Minutes /\ t \in K
  BY <1>5, <1>6
<1>8. PICK a \in K : \A k \in K : a <= k
  <2> HIDE DEF K
  <2> QED BY <1>7, FirstIs
<1>9. a \in Minutes /\ (\E r \in rows : r[1] = a) /\ \A r \in rows : a <= r[1]
  BY <1>7, <1>8
<1>10. rows = WindowFrame(s, t, 0)
  BY FeatureRowIs DEF rows, f
<1>11. FrameStart(s, t) = CHOOSE k \in Minutes :
         /\ \E row \in WindowFrame(s, t, 0) : row[1] = k
         /\ \A row \in WindowFrame(s, t, 0) : k <= row[1]
  BY Zenon DEF FrameStart
<1>12. /\ FrameStart(s, t) \in Minutes
       /\ \E r \in rows : r[1] = FrameStart(s, t)
       /\ \A r \in rows : FrameStart(s, t) <= r[1]
  BY <1>9, <1>10, <1>11
<1>13. FrameStart(s, t) <= t
  BY <1>6, <1>12
<1> QED BY <1>10, <1>12, <1>13

LEMMA RowIsWarm ==
  ASSUME Shape, NEW s \in Symbols, NEW t \in Minutes, Bar(s, t) # None, Feat[s][t] # None,
         FrameFrom(Feat[s][t].frame, t, FactSeries(s), MissedOf(s)),
         ~(FrameStart(s, t) < t - (Warmup - Lookback)),
         ~MissedIn(s, FrameStart(s, t), t),
         \A r \in Feat[s][t].frame : <<s, r[1]>> \notin missed
  PROVE  Feat[s][t].frame = WindowFrame(s, t, 0)
<1> DEFINE f == FactSeries(s)
           a == FrameStart(s, t)
<1>1. PICK x \in Series, from \in Int :
        /\ Feat[s][t].frame = FrameOf(x, t, from)
        /\ from <= t - (Warmup - Lookback)
        /\ \A u \in Minutes : u <= t => x[u] = f[u] \/ u \in MissedOf(s)
  BY DEF FrameFrom
<1>2. /\ a \in Minutes /\ a <= t
      /\ \E r \in WindowFrame(s, t, 0) : r[1] = a
      /\ \A r \in WindowFrame(s, t, 0) : a <= r[1]
  BY FrameStartIs
<1>3. f \in Series /\ WindowFrame(s, t, 0) = FrameOf(f, t, 0)
  BY SeriesAre, FeatureRowIs
<1> HIDE DEF a, f
<1>4. /\ Warmup \in Int /\ Lookback \in Int /\ \A k \in Minutes : k \in Int
  BY LookbackAssumption, GridAssumption DEF Minutes
<1>5. from <= a
  BY <1>1, <1>2, <1>4 DEF a
<1>6. ASSUME NEW u \in Minutes, a <= u, u <= t PROVE x[u] = f[u]
  <2>1. u \in a .. t
    BY <1>2, <1>4, <1>6
  <2>2. <<s, u>> \notin missed
    BY <2>1 DEF MissedIn, a
  <2> QED BY <1>1, <1>6, <2>2 DEF MissedOf
<1>7. ASSUME NEW r \in FrameOf(x, t, from), r[1] < a PROVE f[r[1]] = x[r[1]]
  <2>1. r[1] \in Upto(x, t, from)
    BY FrameIs
  <2>2. r[1] \in Minutes /\ r[1] <= t
    BY <2>1 DEF Upto
  <2>3. <<s, r[1]>> \notin missed
    BY <1>1
  <2> QED BY <1>1, <2>2, <2>3 DEF MissedOf
<1>8. /\ \E r \in FrameOf(f, t, 0) : r[1] = a
      /\ \A r \in FrameOf(f, t, 0) : a <= r[1]
  BY <1>2, <1>3
<1>9. FrameOf(x, t, from) = FrameOf(f, t, 0)
  BY <1>2, <1>3, <1>5, <1>6, <1>7, <1>8, FrameSame
<1> QED BY <1>1, <1>3, <1>9

(* For every set of symbols and every history: after a build that succeeded *)
(* a feature row has the frame of a full rebuild, if that lies within the   *)
(* warm-up beyond the lookback and no missed row is involved, although the  *)
(* row may have been computed many builds ago from a fact table that has    *)
(* changed since, or been kept by a build whose fact model was interrupted. *)
THEOREM FeaturesWarm == Spec => []FeaturesAreWarm
<1>1. Shape /\ FeatureInv => FeaturesAreWarm
  <2> SUFFICES ASSUME Shape, FeatureInv, Built,
                      NEW s \in Symbols, NEW t \in Minutes, Bar(s, t) # None,
                      ~(FrameStart(s, t) < t - (Warmup - Lookback)),
                      ~MissedIn(s, FrameStart(s, t), t),
                      \A r \in Feature(s, t, "frame") : <<s, r[1]>> \notin missed
               PROVE  Feature(s, t, "frame") = WindowFrame(s, t, 0)
    BY DEF FeaturesAreWarm
  <2>1. RowFollows(Feat[s][t], t, FactSeries(s), MissedOf(s), PassedOf(s))
    BY BuiltFollows
  <2>2. t \notin MissedOf(s)
    <3>1. t \in FrameStart(s, t) .. t
      BY FrameStartIs, GridAssumption DEF Minutes
    <3> QED BY <3>1 DEF MissedIn, MissedOf
  <2>3. Feat[s][t] # None /\ FrameFrom(Feat[s][t].frame, t, FactSeries(s), MissedOf(s))
    BY <2>1, <2>2 DEF RowFollows
  <2>4. Feature(s, t, "frame") = Feat[s][t].frame
    BY <2>3 DEF Feature, Feat
  <2> QED BY <2>3, <2>4, RowIsWarm
<1> QED BY <1>1, InitShape, StepShape, InitFresh, StepFresh, InitFeatures, StepFeatures,
           PTL DEF Spec

(* For every set of symbols and every history: after a build that succeeded *)
(* a feature row's labels look at the row after it, however late that one   *)
(* came, except where the row was already behind the lookback when its      *)
(* successor changed or a missed row is named.                              *)
THEOREM LabelsFollow == Spec => []LabelsFollowFact
<1>1. FeatureInv => LabelsFollowFact
  <2> SUFFICES ASSUME FeatureInv, Built,
                      NEW s \in Symbols, NEW t \in Minutes, Bar(s, t) # None,
                      <<s, t>> \notin missed \cup passed
               PROVE  \/ Feature(s, t, "next") = NextRow(s, t)
                      \/ \E row \in Feature(s, t, "next") : <<s, row[1]>> \in missed
    BY DEF LabelsFollowFact
  <2>1. RowFollows(Feat[s][t], t, FactSeries(s), MissedOf(s), PassedOf(s))
    BY BuiltFollows
  <2>2. /\ Feat[s][t] # None
        /\ \/ Feat[s][t].next = NextOf(FactSeries(s), t)
           \/ \E r \in Feat[s][t].next : r[1] \in MissedOf(s)
    BY <2>1 DEF RowFollows, MissedOf, PassedOf
  <2>3. Feature(s, t, "next") = Feat[s][t].next
    BY <2>2 DEF Feature, Feat
  <2> QED BY <2>2, <2>3, FeatureRowIs DEF MissedOf
<1> QED BY <1>1, InitShape, StepShape, InitFresh, StepFresh, InitFeatures, StepFeatures,
           PTL DEF Spec

=============================================================================
