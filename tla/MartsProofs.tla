---------------------------- MODULE MartsProofs ----------------------------
(***************************************************************************)
(* Proofs about Marts, for every set of symbols, every history and every   *)
(* choice of bucket, day, lookback, warm-up and frame: the fact table, its *)
(* prices, and the rollups, whose buckets, days and lookbacks have to fit  *)
(* each other.                                                             *)
(***************************************************************************)
EXTENDS Marts, WellFoundedInduction, TLAPS

---------------------------------------------------------------------------
(* The inductive invariant.                                                 *)

FactRows  == [bar : Bars, rate : AsOfs \cup {None}] \cup {None}
FactTable == [Symbols -> [Minutes -> FactRows]]

Fact    == mart["fct"]
Pending == batch["fct"]

Shape ==
  /\ TypeOK
  /\ mart = [model \in Models |-> mart[model]]
  /\ batch = [model \in Models |-> batch[model]]
  /\ Fact \in FactTable /\ Pending \in FactTable

(* No row of a table is later than minute t plus the lookback: t is in the  *)
(* window of a build that starts with these tables.                         *)
InWindow(table, t) ==
  \A s \in Symbols, k \in Minutes : table[s][k] # None => k <= t + Lookback

\* The bar the fact table will have once the batch in flight is inserted.
Landing(s, t) == IF Pending[s][t] # None THEN Pending[s][t].bar ELSE Bar(s, t)

\* The temporary relation is empty between builds.
Quiet ==
  phase["fct"] \notin {"selected", "deleted"}
    => \A s \in Symbols, t \in Minutes : Pending[s][t] = None

\* Rows staging does not have any more were deleted there.
GoneIsMissed ==
  \A s \in Symbols, t \in Minutes :
    stg[s][t] = None /\ (Fact[s][t] # None \/ Pending[s][t] # None) => <<s, t>> \in missed

(* What is about to be deleted lies in the window of the next build, should *)
(* this one not get to its insert.                                          *)
BatchInWindow ==
  phase["fct"] = "selected" =>
    \A s \in Symbols, t \in Minutes : Pending[s][t] # None => InWindow(Fact, t)

FactStale ==
  \A s \in Symbols, t \in Minutes :
    Bar(s, t) = stg[s][t] \/ InWindow(Fact, t) \/ <<s, t>> \in missed

(* The same of the table the insert in flight will leave behind, with the   *)
(* watermark it will have.                                                  *)
LandingStale ==
  \A s \in Symbols, t \in Minutes :
    \/ Landing(s, t) = stg[s][t]
    \/ InWindow(Fact, t) /\ InWindow(Pending, t)
    \/ <<s, t>> \in missed

FreshnessInv == Quiet /\ GoneIsMissed /\ BatchInWindow /\ FactStale /\ LandingStale

IInv == Shape /\ FreshnessInv

---------------------------------------------------------------------------
(* Facts about the operators.                                               *)

(* A non-empty set of minutes, the -1 of an empty table among them, has a   *)
(* largest element, and MaxOf is it.                                        *)
LEMMA MaxOfIs ==
  ASSUME NEW T \in SUBSET (Minutes \cup {-1}), T # {}
  PROVE  MaxOf(T) \in T /\ \A k \in T : k <= MaxOf(T)
<1> DEFINE U == {MaxMinute - m : m \in T}
<1>0. MaxMinute \in Nat /\ T \subseteq Int /\ \A m \in T : m <= MaxMinute
  BY GridAssumption DEF Minutes
<1>1. U \subseteq Nat /\ U # {}
  <2>1. PICK t \in T : TRUE
    OBVIOUS
  <2>2. MaxMinute - t \in U
    OBVIOUS
  <2>3. \A m \in T : MaxMinute - m \in Nat
    BY <1>0
  <2> QED BY <2>2, <2>3
<1>2. \E x \in U : \A y \in U : ~(<<y, x>> \in OpToRel(<, Nat))
  BY <1>1, NatLessThanWellFounded, WFMin, Zenon
<1>3. PICK x \in U : \A y \in U : ~(y < x)
  BY <1>1, <1>2 DEF OpToRel
<1>4. PICK m \in T : x = MaxMinute - m
  BY <1>3
<1>5. \A k \in T : k <= m
  <2> SUFFICES ASSUME NEW k \in T PROVE k <= m
    OBVIOUS
  <2>1. MaxMinute - k \in U
    OBVIOUS
  <2>2. ~(MaxMinute - k < MaxMinute - m)
    BY <1>3, <1>4, <2>1
  <2> QED BY <2>2, <1>0, <1>4
<1> QED BY <1>4, <1>5, Zenon DEF MaxOf

LEMMA FactKeys == Keys("fct") = Minutes /\ \A model \in Models : Keys(model) \subseteq Minutes
<1>1. \A t \in Minutes : t % 1 = 0
  BY GridAssumption DEF Minutes
<1>2. Grain["fct"] = 1
  BY DEF Grain
<1> QED BY <1>1, <1>2 DEF Keys

LEMMA FilledFact ==
  ASSUME NEW table \in FactTable
  PROVE  Filled(table) = {k \in Minutes : \E s \in Symbols : table[s][k] # None}
BY DEF Filled, FactTable

LEMMA FilledAreMinutes ==
  ASSUME Shape, NEW model \in Models
  PROVE  /\ Filled(mart[model]) \in SUBSET Minutes
         /\ Filled(batch[model]) \in SUBSET Minutes
<1>1. ASSUME NEW table, \A s \in Symbols : DOMAIN table[s] = Keys(model)
      PROVE  Filled(table) \in SUBSET Minutes
  <2>1. Keys(model) \subseteq Minutes
    BY FactKeys
  <2> QED BY <1>1, <2>1 DEF Filled
<1>2. \A table \in {mart[model], batch[model]} : \A s \in Symbols : DOMAIN table[s] = Keys(model)
  BY DEF Shape, TypeOK
<1> QED BY <1>1, <1>2

(* The select of the fact table reads from t on exactly if t is in the      *)
(* window.                                                                  *)
LEMMA WindowIsEmitted ==
  ASSUME Fact \in FactTable, NEW t \in Minutes
  PROVE  t >= EmitFrom("fct") <=> InWindow(Fact, t)
<1> DEFINE T == Filled(mart["fct"])
<1>1. T = {k \in Minutes : \E s \in Symbols : Fact[s][k] # None}
  BY FilledFact DEF Fact
<1>2. EmitFrom("fct") = Watermark("fct") - Lookback
  BY DEF EmitFrom
<1>3. InWindow(Fact, t) <=> \A k \in T : k <= t + Lookback
  BY <1>1 DEF InWindow
<1>4. Lookback \in Nat /\ t \in Nat
  BY LookbackAssumption, GridAssumption DEF Minutes
<1>5. CASE T = {}
  <2>1. Watermark("fct") = -1
    BY <1>5 DEF Watermark
  <2> QED BY <2>1, <1>2, <1>3, <1>4, <1>5
<1>6. CASE T # {}
  <2>1. Watermark("fct") = MaxOf(T)
    BY <1>6 DEF Watermark
  <2>2. MaxOf(T) \in T /\ \A k \in T : k <= MaxOf(T)
    BY <1>1, <1>6, MaxOfIs
  <2>3. T \subseteq Int
    BY <1>1, GridAssumption DEF Minutes
  <2> QED BY <2>1, <2>2, <2>3, <1>2, <1>3, <1>4
<1> QED BY <1>5, <1>6

(* A change that is not behind the newest row of any table by more than the *)
(* lookback is in the window of the fact table and of its batch.            *)
LEMMA RecentIsInWindow ==
  ASSUME Shape, NEW t \in Minutes, ~(t < Newest - Lookback)
  PROVE  InWindow(Fact, t) /\ InWindow(Pending, t)
<1> DEFINE N == {-1} \cup Filled(stg) \cup
             UNION {Filled(mart[model]) \cup Filled(batch[model]) : model \in Models}
<1>1. Filled(stg) \subseteq Minutes
  BY DEF Filled, Shape, TypeOK
<1>2. \A model \in Models : Filled(mart[model]) \cup Filled(batch[model]) \subseteq Minutes
  BY FilledAreMinutes
<1>3. N \in SUBSET (Minutes \cup {-1}) /\ N # {}
  BY <1>1, <1>2
<1>4. Newest \in N /\ \A k \in N : k <= Newest
  BY <1>3, MaxOfIs DEF Newest
<1>5. "fct" \in Models
  BY DEF Models
<1>6. Filled(Fact) \cup Filled(Pending) \subseteq N
  BY <1>5 DEF Fact, Pending
<1>7. \A k \in Filled(Fact) \cup Filled(Pending) : k <= t + Lookback
  <2>1. Newest \in Int /\ t \in Int /\ Lookback \in Int /\ N \subseteq Int
    BY <1>3, <1>4, LookbackAssumption, GridAssumption DEF Minutes
  <2>2. Newest <= t + Lookback
    BY <2>1
  <2> SUFFICES ASSUME NEW k \in Filled(Fact) \cup Filled(Pending) PROVE k <= t + Lookback
    OBVIOUS
  <2>3. k \in N
    BY <1>6
  <2>4. k \in Int /\ k <= Newest
    BY <1>4, <2>1, <2>3, Zenon
  <2> QED BY <2>1, <2>2, <2>4
<1> QED BY <1>7, FilledFact DEF InWindow, Shape

LEMMA StagedRatesKnown ==
  ASSUME rates \in Seq(AsOfs)
  PROVE  StagedRates \subseteq AsOfs
BY DEF StagedRates

LEMMA AsOfKnown ==
  ASSUME NEW t, NEW history \in SUBSET AsOfs
  PROVE  AsOf(t, history) \in AsOfs \cup {None}
<1> DEFINE known == {r \in history : r <= t}
<1>1. known \in SUBSET (Minutes \cup {-1})
  BY DataAssumption
<1>2. known # {} => MaxOf(known) \in known
  BY <1>1, MaxOfIs
<1> QED BY <1>2 DEF AsOf

LEMMA FactRowIs ==
  ASSUME Shape, NEW s \in Symbols, NEW t \in Minutes
  PROVE  /\ FactRow(s, t) \in FactRows
         /\ stg[s][t] = None => FactRow(s, t) = None
         /\ stg[s][t] # None => FactRow(s, t) # None /\ FactRow(s, t).bar = stg[s][t]
<1>1. AsOf(t, StagedRates) \in AsOfs \cup {None}
  BY StagedRatesKnown, AsOfKnown DEF Shape, TypeOK
<1>2. stg[s][t] \in Bars \cup {None}
  BY DEF Shape, TypeOK
<1> QED BY <1>1, <1>2, DataAssumption DEF FactRow, FactRows

(* What the fact model selects: every row staging has in the window.        *)
LEMMA SelectedFact ==
  ASSUME Shape
  PROVE  /\ Selected("fct") \in FactTable
         /\ \A s \in Symbols, t \in Minutes :
              Selected("fct")[s][t] = IF InWindow(Fact, t) THEN FactRow(s, t) ELSE None
<1>1. \A s, t : Row("fct", s, t, EmitFrom("fct"))
                = IF t >= EmitFrom("fct") THEN FactRow(s, t) ELSE None
  BY Zenon DEF Row
<1>2. \A s \in Symbols, t \in Minutes : Selected("fct")[s][t]
                = IF InWindow(Fact, t) THEN FactRow(s, t) ELSE None
  BY <1>1, FactKeys, WindowIsEmitted DEF Selected, Shape
<1>3. \A s \in Symbols, t \in Minutes : Selected("fct")[s][t] \in FactRows
  BY <1>2, FactRowIs DEF FactRows
<1>4. /\ Selected("fct") = [s \in Symbols |-> Selected("fct")[s]]
      /\ \A s \in Symbols : Selected("fct")[s] = [t \in Minutes |-> Selected("fct")[s][t]]
  BY FactKeys DEF Selected
<1> QED BY <1>2, <1>3, <1>4 DEF FactTable

---------------------------------------------------------------------------
(* Type correctness, and the shape of the tables.                           *)

LEMMA InitShape == Init => Shape
<1> SUFFICES ASSUME Init PROVE Shape
  OBVIOUS
<1>1. "fct" \in Models
  BY DEF Models
<1>2. \A model \in Models : mart[model] = Empty(model) /\ batch[model] = Empty(model)
  BY DEF Init
<1>3. \A model \in Models, s \in Symbols : DOMAIN Empty(model)[s] = Keys(model)
  BY DEF Empty
<1>4. Empty("fct") \in FactTable
  BY FactKeys DEF Empty, FactTable, FactRows
<1>5. \A s \in Symbols, t \in Minutes : Empty("fct")[s][t] = None
  BY FactKeys DEF Empty
<1>6. mart["fct"] = Empty("fct") /\ batch["fct"] = Empty("fct")
  BY <1>1, <1>2
<1>7. TypeOK
  BY <1>2, <1>3, <1>5, <1>6, DataAssumption DEF Init, TypeOK
<1> QED BY <1>4, <1>6, <1>7 DEF Init, Shape, Fact, Pending

(* What a write to one model's table or temporary relation has to respect.  *)
LEMMA WriteKeepsShape ==
  ASSUME Shape, NEW model \in Models, NEW table,
         \A s \in Symbols : DOMAIN table[s] = Keys(model),
         model = "fct" => table \in FactTable,
         UNCHANGED <<stg, rates, changes, missed, passed>>,
         phase' \in [Models -> {"waiting", "selected", "deleted", "done", "failed"}],
         \/ mart' = [mart EXCEPT ![model] = table] /\ UNCHANGED batch
         \/ batch' = [batch EXCEPT ![model] = table] /\ UNCHANGED mart
  PROVE  Shape'
<1>1. /\ mart' = [m \in Models |-> mart'[m]]
      /\ batch' = [m \in Models |-> batch'[m]]
  BY DEF Shape
<1>2. \A m \in Models : /\ mart'[m] \in {mart[m], table} /\ batch'[m] \in {batch[m], table}
                        /\ m # model => mart'[m] = mart[m] /\ batch'[m] = batch[m]
  BY DEF Shape
<1>3. \A m \in Models : \A tab \in {mart'[m], batch'[m]} :
        \A s \in Symbols : DOMAIN tab[s] = Keys(m)
  BY <1>2 DEF Shape, TypeOK
<1>4. mart["fct"]' \in FactTable /\ batch["fct"]' \in FactTable
  BY <1>2 DEF Shape, Fact, Pending, Models
<1>5. \A s \in Symbols, t \in Minutes : mart'["fct"][s][t] \in FactRows
  BY <1>4 DEF FactTable
<1>6. TypeOK'
  BY <1>3, <1>5 DEF Shape, TypeOK, FactRows, Keys
<1> QED BY <1>1, <1>4, <1>6 DEF Shape, Fact, Pending

LEMMA StepShape == Shape /\ [Next]_vars => Shape'
<1> SUFFICES ASSUME Shape, [Next]_vars PROVE Shape'
  OBVIOUS
<1> USE DEF Shape, Fact, Pending
<1>1. CASE Arrive
  BY <1>1, DataAssumption DEF Arrive, Before, TypeOK, Keys
<1>2. CASE Vanish
  BY <1>2, DataAssumption DEF Vanish, TypeOK, Keys
<1>3. CASE RefreshFx
  <2>1. PICK asof \in AsOfs : UpsertFxRate(asof)
    BY <1>3 DEF RefreshFx, FetchRate
  <2>2. changes' = changes + 1 /\ changes < MaxChanges /\ changes \in Nat
    BY <1>3, DataAssumption DEF RefreshFx, TypeOK
  <2>3. rates' \in Seq(AsOfs) /\ Len(rates') <= changes + 1
    <3>1. rates \in Seq(AsOfs) /\ Len(rates) <= changes
      BY DEF TypeOK
    <3>2. rates' = Append(rates, asof) \/ rates' = rates
      BY <2>1 DEF UpsertFxRate
    <3> QED BY <2>2, <3>1, <3>2
  <2> QED BY <1>3, <2>2, <2>3, DataAssumption DEF RefreshFx, TypeOK, Keys
<1>4. CASE StartBuild
  BY <1>4 DEF StartBuild, TypeOK, Keys
<1>5. ASSUME NEW model \in Models, Select(model) PROVE Shape'
  <2>1. \A s \in Symbols : DOMAIN Selected(model)[s] = Keys(model)
    BY DEF Selected
  <2>2. Selected("fct") \in FactTable
    BY SelectedFact
  <2> QED BY <1>5, <2>1, <2>2, WriteKeepsShape DEF Select, TypeOK
<1>6. ASSUME NEW model \in Models, Delete(model) PROVE Shape'
  <2> DEFINE table == [s \in Symbols |-> [k \in Keys(model) |->
                         IF batch[model][s][k] # None THEN None ELSE mart[model][s][k]]]
  <2>1. \A s \in Symbols : DOMAIN table[s] = Keys(model)
    OBVIOUS
  <2>2. model = "fct" => table \in FactTable
    BY FactKeys DEF FactTable, FactRows
  <2>3. mart' = [mart EXCEPT ![model] = table] /\ UNCHANGED batch
    BY <1>6 DEF Delete
  <2> HIDE DEF table
  <2> QED BY <1>6, <2>1, <2>2, <2>3, WriteKeepsShape DEF Delete, TypeOK
<1>7. ASSUME NEW model \in Models, Insert(model) PROVE Shape'
  <2> DEFINE table == [s \in Symbols |-> [k \in Keys(model) |->
                         IF batch[model][s][k] # None THEN batch[model][s][k]
                         ELSE mart[model][s][k]]]
  <2>1. /\ mart' = [mart EXCEPT ![model] = table]
        /\ batch' = [batch EXCEPT ![model] = Empty(model)]
    BY <1>7 DEF Insert
  <2>2. model = "fct" => table \in FactTable /\ Empty(model) \in FactTable
    BY FactKeys DEF FactTable, FactRows, Empty
  <2>3. \A s \in Symbols : DOMAIN table[s] = Keys(model) /\ DOMAIN Empty(model)[s] = Keys(model)
    BY DEF Empty
  <2> HIDE DEF table
  <2>4. /\ mart' = [m \in Models |-> mart'[m]]
        /\ batch' = [m \in Models |-> batch'[m]]
    BY <2>1
  <2>5. \A m \in Models : /\ mart'[m] = (IF m = model THEN table ELSE mart[m])
                          /\ batch'[m] = (IF m = model THEN Empty(model) ELSE batch[m])
    BY <2>1
  <2>6. \A m \in Models : \A tab \in {mart'[m], batch'[m]} :
          \A s \in Symbols : DOMAIN tab[s] = Keys(m)
    BY <2>3, <2>5 DEF TypeOK
  <2>7. mart'["fct"] \in FactTable /\ batch'["fct"] \in FactTable
    BY <2>2, <2>5 DEF Models
  <2>8. \A s \in Symbols, t \in Minutes : mart'["fct"][s][t] \in FactRows
    BY <2>7 DEF FactTable
  <2>9. TypeOK'
    BY <1>7, <2>6, <2>8 DEF Insert, TypeOK, FactRows, Keys
  <2> QED BY <2>4, <2>7, <2>9
<1>8. ASSUME NEW model \in Models, Fail(model) PROVE Shape'
  <2>1. \A s \in Symbols : DOMAIN Empty(model)[s] = Keys(model)
    BY DEF Empty
  <2>2. Empty("fct") \in FactTable
    BY FactKeys DEF FactTable, FactRows, Empty
  <2> QED BY <1>8, <2>1, <2>2, WriteKeepsShape DEF Fail, TypeOK
<1>9. CASE UNCHANGED vars
  BY <1>9 DEF vars, TypeOK, Keys
<1> QED BY <1>1, <1>2, <1>3, <1>4, <1>5, <1>6, <1>7, <1>8, <1>9 DEF Next, Build

(* Every reachable state is well typed: no row is made of a missing bar.    *)
THEOREM TypeCorrect == Spec => []TypeOK
<1>1. Shape => TypeOK
  BY DEF Shape
<1> QED BY <1>1, InitShape, StepShape, PTL DEF Spec

---------------------------------------------------------------------------
(* No update is lost to the watermark.                                      *)

LEMMA InitFresh == Init => FreshnessInv
<1> SUFFICES ASSUME Init PROVE FreshnessInv
  OBVIOUS
<1>1. Fact = Empty("fct") /\ Pending = Empty("fct")
  BY DEF Init, Fact, Pending, Models
<1>2. \A s \in Symbols, t \in Minutes : Fact[s][t] = None /\ Pending[s][t] = None
  BY <1>1, FactKeys DEF Empty
<1>3. \A s \in Symbols, t \in Minutes : stg[s][t] = None /\ phase["fct"] = "failed"
  BY DEF Init, Models
<1> QED BY <1>2, <1>3 DEF FreshnessInv, Quiet, GoneIsMissed, BatchInWindow, FactStale,
             LandingStale, Landing, Bar, Fact

(* A step that leaves the fact table, its batch and staging alone.          *)
LEMMA FactUntouched ==
  ASSUME FreshnessInv, UNCHANGED <<Fact, Pending, phase["fct"], stg, missed>>
  PROVE  FreshnessInv'
BY DEF FreshnessInv, Quiet, GoneIsMissed, BatchInWindow, FactStale, LandingStale, Landing, Bar,
       Fact, Pending, InWindow

(* A change of one row of staging: either it is in the window of the tables *)
(* and leaves a row, or it is on the record.                                *)
LEMMA StagingChanges ==
  ASSUME Shape, FreshnessInv, UNCHANGED <<mart, batch, phase>>,
         NEW s0 \in Symbols, NEW t0 \in Minutes, NEW row,
         stg' = [stg EXCEPT ![s0][t0] = row],
         missed \subseteq missed',
         \/ <<s0, t0>> \in missed'
         \/ row # None /\ InWindow(Fact, t0) /\ InWindow(Pending, t0)
  PROVE  FreshnessInv'
<1>1. \A s \in Symbols, t \in Minutes :
        <<s, t>> # <<s0, t0>> => stg'[s][t] = stg[s][t]
  BY DEF Shape, TypeOK
<1>2. stg'[s0][t0] = row
  BY DEF Shape, TypeOK
<1>3. /\ Fact' = Fact /\ Pending' = Pending /\ phase'["fct"] = phase["fct"]
      /\ \A s \in Symbols, t \in Minutes :
           Bar(s, t)' = Bar(s, t) /\ Landing(s, t)' = Landing(s, t)
      /\ \A t \in Minutes : /\ InWindow(Fact, t)' = InWindow(Fact, t)
                            /\ InWindow(Pending, t)' = InWindow(Pending, t)
  BY DEF Fact, Pending, Bar, Landing, InWindow
<1>4. Quiet' /\ BatchInWindow'
  BY <1>3 DEF FreshnessInv, Quiet, BatchInWindow
<1>5. GoneIsMissed'
  BY <1>1, <1>2, <1>3 DEF FreshnessInv, GoneIsMissed
<1>6. FactStale'
  BY <1>1, <1>3 DEF FreshnessInv, FactStale
<1>7. LandingStale'
  BY <1>1, <1>3 DEF FreshnessInv, LandingStale
<1> QED BY <1>4, <1>5, <1>6, <1>7 DEF FreshnessInv

LEMMA FactSelectFresh ==
  ASSUME Shape, FreshnessInv, Select("fct") PROVE FreshnessInv'
<1>1. /\ Pending' = Selected("fct") /\ Fact' = Fact /\ phase'["fct"] = "selected"
      /\ UNCHANGED <<stg, missed>>
  BY DEF Select, Shape, TypeOK, Pending, Fact, Models
<1>2. \A s \in Symbols, t \in Minutes :
        /\ Pending'[s][t] = IF InWindow(Fact, t) THEN FactRow(s, t) ELSE None
        /\ stg[s][t] = None => FactRow(s, t) = None
        /\ stg[s][t] # None => FactRow(s, t) # None /\ FactRow(s, t).bar = stg[s][t]
  BY <1>1, SelectedFact, FactRowIs
<1>3. /\ \A s \in Symbols, t \in Minutes : Bar(s, t)' = Bar(s, t)
      /\ \A t \in Minutes : InWindow(Fact, t)' = InWindow(Fact, t)
  BY <1>1 DEF Bar, Fact, InWindow
<1>4. Quiet'
  BY <1>1 DEF Quiet
<1>5. GoneIsMissed'
  BY <1>1, <1>2 DEF FreshnessInv, GoneIsMissed
<1>6. BatchInWindow'
  BY <1>1, <1>2, <1>3 DEF BatchInWindow
<1>7. FactStale'
  BY <1>1, <1>3 DEF FreshnessInv, FactStale
<1>8. LandingStale'
  <2> SUFFICES ASSUME NEW s \in Symbols, NEW t \in Minutes,
                      <<s, t>> \notin missed
               PROVE  Landing(s, t)' = stg[s][t]
    BY <1>1 DEF LandingStale
  <2>1. Landing(s, t)' = IF Pending'[s][t] # None THEN Pending'[s][t].bar ELSE Bar(s, t)
    BY <1>3 DEF Landing
  <2>2. CASE ~InWindow(Fact, t)
    BY <2>1, <2>2, <1>2 DEF FreshnessInv, FactStale
  <2>3. CASE InWindow(Fact, t) /\ stg[s][t] # None
    BY <2>1, <2>3, <1>2
  <2>4. CASE InWindow(Fact, t) /\ stg[s][t] = None
    <3>1. Fact[s][t] = None
      BY <2>4 DEF FreshnessInv, GoneIsMissed
    <3> QED BY <3>1, <2>1, <2>4, <1>2 DEF Bar, Fact
  <2> QED BY <2>2, <2>3, <2>4
<1> QED BY <1>4, <1>5, <1>6, <1>7, <1>8 DEF FreshnessInv

LEMMA FactDeleteFresh ==
  ASSUME Shape, FreshnessInv, Delete("fct") PROVE FreshnessInv'
<1>1. /\ Pending' = Pending /\ phase["fct"] = "selected" /\ phase'["fct"] = "deleted"
      /\ UNCHANGED <<stg, missed>>
  BY DEF Delete, Shape, TypeOK, Pending, Models
<1>2. \A s \in Symbols, t \in Minutes :
        Fact'[s][t] = IF Pending[s][t] # None THEN None ELSE Fact[s][t]
  BY FactKeys DEF Delete, Shape, Fact, Pending, Models
<1>3. \A s \in Symbols, t \in Minutes :
        /\ Bar(s, t)' = IF Pending[s][t] # None THEN None ELSE Bar(s, t)
        /\ Landing(s, t)' = Landing(s, t)
  BY <1>1, <1>2 DEF Bar, Landing, Fact
<1>4. \A t \in Minutes : /\ InWindow(Fact, t) => InWindow(Fact, t)'
                         /\ InWindow(Pending, t) => InWindow(Pending, t)'
  BY <1>1, <1>2 DEF InWindow
<1>5. Quiet' /\ BatchInWindow'
  BY <1>1 DEF Quiet, BatchInWindow
<1>6. GoneIsMissed'
  BY <1>1, <1>2 DEF FreshnessInv, GoneIsMissed
<1>7. FactStale'
  BY <1>1, <1>3, <1>4 DEF FreshnessInv, FactStale, BatchInWindow
<1>8. LandingStale'
  BY <1>1, <1>3, <1>4 DEF FreshnessInv, LandingStale
<1> QED BY <1>5, <1>6, <1>7, <1>8 DEF FreshnessInv

LEMMA FactInsertFresh ==
  ASSUME Shape, FreshnessInv, Insert("fct") PROVE FreshnessInv'
<1>1. phase'["fct"] \in {"done", "failed"} /\ UNCHANGED <<stg, missed>>
  BY DEF Insert, Shape, TypeOK, Models
<1>2. \A s \in Symbols, t \in Minutes :
        /\ Fact'[s][t] = IF Pending[s][t] # None THEN Pending[s][t] ELSE Fact[s][t]
        /\ Pending'[s][t] = None
  BY FactKeys DEF Insert, Shape, Fact, Pending, Models, Empty
<1>3. \A s \in Symbols, t \in Minutes :
        Bar(s, t)' = Landing(s, t) /\ Landing(s, t)' = Landing(s, t)
  BY <1>2 DEF Bar, Landing, Fact
<1>4. \A t \in Minutes : InWindow(Fact, t) /\ InWindow(Pending, t)
                           => InWindow(Fact, t)' /\ InWindow(Pending, t)'
  BY <1>2 DEF InWindow
<1>5. Quiet' /\ BatchInWindow'
  BY <1>1, <1>2 DEF Quiet, BatchInWindow
<1>6. GoneIsMissed'
  BY <1>1, <1>2 DEF FreshnessInv, GoneIsMissed
<1>7. FactStale' /\ LandingStale'
  BY <1>1, <1>3, <1>4 DEF FreshnessInv, FactStale, LandingStale
<1> QED BY <1>5, <1>6, <1>7 DEF FreshnessInv

LEMMA FactFailFresh ==
  ASSUME Shape, FreshnessInv, Fail("fct") PROVE FreshnessInv'
<1>1. /\ Fact' = Fact /\ phase'["fct"] = "failed" /\ UNCHANGED <<stg, missed>>
  BY DEF Fail, Shape, TypeOK, Fact, Models
<1>2. \A s \in Symbols, t \in Minutes : Pending'[s][t] = None
  BY FactKeys DEF Fail, Shape, Pending, Models, Empty
<1>3. \A s \in Symbols, t \in Minutes : Bar(s, t)' = Bar(s, t) /\ Landing(s, t)' = Bar(s, t)
  BY <1>1, <1>2 DEF Bar, Landing, Fact
<1>4. \A t \in Minutes : InWindow(Fact, t) => InWindow(Fact, t)' /\ InWindow(Pending, t)'
  BY <1>1, <1>2 DEF InWindow
<1>5. Quiet' /\ BatchInWindow'
  BY <1>1, <1>2 DEF Quiet, BatchInWindow
<1>6. GoneIsMissed'
  BY <1>1, <1>2 DEF FreshnessInv, GoneIsMissed
<1>7. FactStale' /\ LandingStale'
  BY <1>1, <1>3, <1>4 DEF FreshnessInv, FactStale, LandingStale
<1> QED BY <1>5, <1>6, <1>7 DEF FreshnessInv

(* The other models read the fact table and write their own.                *)
LEMMA OthersLeaveFact ==
  ASSUME Shape, NEW model \in Models, model # "fct",
         Select(model) \/ Delete(model) \/ Insert(model) \/ Fail(model)
  PROVE  UNCHANGED <<Fact, Pending, phase["fct"], stg, missed>>
<1>1. /\ mart'["fct"] = mart["fct"] /\ batch'["fct"] = batch["fct"]
      /\ phase'["fct"] = phase["fct"] /\ UNCHANGED <<stg, missed>>
  BY DEF Shape, TypeOK, Models, Select, Delete, Insert, Fail
<1> QED BY <1>1 DEF Fact, Pending

LEMMA StepFresh == Shape /\ FreshnessInv /\ [Next]_vars => FreshnessInv'
<1> SUFFICES ASSUME Shape, FreshnessInv, [Next]_vars PROVE FreshnessInv'
  OBVIOUS
<1>1. CASE Arrive
  <2>1. PICK s \in Symbols, t \in Minutes, bar \in Bars :
          /\ stg' = [stg EXCEPT ![s][t] = bar]
          /\ missed' = IF t < Newest - Lookback THEN missed \cup {<<s, t>>} ELSE missed
    BY <1>1 DEF Arrive
  <2>2. bar # None
    BY DataAssumption
  <2>3. \/ <<s, t>> \in missed'
        \/ InWindow(Fact, t) /\ InWindow(Pending, t)
    BY <2>1, RecentIsInWindow
  <2>4. UNCHANGED <<mart, batch, phase>> /\ missed \subseteq missed'
    BY <1>1, <2>1 DEF Arrive
  <2> QED BY <2>1, <2>2, <2>3, <2>4, StagingChanges
<1>2. CASE Vanish
  <2>1. PICK s \in Symbols, t \in Minutes :
          /\ stg' = [stg EXCEPT ![s][t] = None]
          /\ missed' = missed \cup {<<s, t>>}
    BY <1>2 DEF Vanish
  <2>2. UNCHANGED <<mart, batch, phase>>
    BY <1>2 DEF Vanish
  <2> QED BY <2>1, <2>2, StagingChanges
<1>3. CASE RefreshFx
  BY <1>3, FactUntouched DEF RefreshFx, Fact, Pending
<1>4. CASE StartBuild
  <2>1. phase["fct"] \notin {"selected", "deleted"} /\ phase'["fct"] = "waiting"
    BY <1>4 DEF StartBuild, Running, Models
  <2>2. UNCHANGED <<Fact, Pending, stg, missed>>
    BY <1>4 DEF StartBuild, Fact, Pending
  <2> QED BY <2>1, <2>2 DEF FreshnessInv, Quiet, GoneIsMissed, BatchInWindow, FactStale,
             LandingStale, Landing, Bar, Fact, Pending, InWindow
<1>5. ASSUME NEW model \in Models,
             Select(model) \/ Delete(model) \/ Insert(model) \/ Fail(model)
      PROVE  FreshnessInv'
  <2>1. CASE model = "fct"
    BY <1>5, <2>1, FactSelectFresh, FactDeleteFresh, FactInsertFresh, FactFailFresh
  <2>2. CASE model # "fct"
    BY <1>5, <2>2, OthersLeaveFact, FactUntouched
  <2> QED BY <2>1, <2>2
<1>6. CASE UNCHANGED vars
  BY <1>6, FactUntouched DEF vars, Fact, Pending
<1> QED BY <1>1, <1>2, <1>3, <1>4, <1>5, <1>6 DEF Next, Build

(* Whatever the number of symbols and however they lag behind each other, a *)
(* fact row that differs from staging is read again by the next build, was  *)
(* changed behind the lookback, or was deleted upstream.                    *)
THEOREM NoUpdateIsLost == Spec => []StaleOnlyIfMissed
<1>1. Init => IInv
  BY InitShape, InitFresh DEF IInv
<1>2. IInv /\ [Next]_vars => IInv'
  BY StepShape, StepFresh DEF IInv
<1>3. IInv => StaleOnlyIfMissed
  BY WindowIsEmitted DEF IInv, Shape, FreshnessInv, FactStale, StaleOnlyIfMissed
<1> QED BY <1>1, <1>2, <1>3, PTL DEF Spec

---------------------------------------------------------------------------
(* Prices are point in time.                                                *)

\* The upsert guard lets only newer rates in.
RatesAscend == \A i, j \in 1 .. Len(rates) : i < j => rates[i] < rates[j]

\* What the as-of join gives once the first n rates are published.
PriceAfter(n, t) == AsOf(t, {rates[i] : i \in 1 .. n})

KnownAt(rate, t) == rate = None \/ \E n \in 1 .. Len(rates) : rate = PriceAfter(n, t)

Priced(table) ==
  \A s \in Symbols, t \in Minutes : table[s][t] # None => KnownAt(table[s][t].rate, t)

PricesInv == RatesAscend /\ Priced(Fact) /\ Priced(Pending)

(* A price of the rate staging offers is one of the whole history.          *)
LEMMA StagedPriceIsKnown ==
  ASSUME Shape, RatesAscend, NEW t \in Minutes
  PROVE  KnownAt(AsOf(t, StagedRates), t)
<1>1. rates \in Seq(AsOfs) /\ AsOfs \subseteq Int /\ t \in Int
  BY DataAssumption, GridAssumption DEF Shape, TypeOK, Minutes
<1>2. CASE rates = <<>>
  <2>1. StagedRates = {}
    BY <1>2 DEF StagedRates
  <2> QED BY <2>1 DEF AsOf, KnownAt
<1>3. CASE rates # <<>>
  <2> DEFINE n == Len(rates)
             all == {rates[i] : i \in 1 .. n}
  <2>1. n \in Nat /\ n >= 1 /\ \A i \in 1 .. n : rates[i] \in AsOfs /\ rates[i] \in Int
    <3>1. n \in Nat /\ n >= 1 /\ \A i \in 1 .. n : rates[i] \in AsOfs
      BY <1>1, <1>3
    <3> HIDE DEF n
    <3> QED BY <1>1, <3>1
  <2>2. StagedRates = {rates[n]}
    BY <2>1 DEF StagedRates, RawFxKey
  <2>3. CASE ~(rates[n] <= t)
    BY <2>2, <2>3 DEF AsOf, KnownAt
  <2>4. CASE rates[n] <= t
    <3> DEFINE one == {r \in StagedRates : r <= t}
               known == {r \in all : r <= t}
    <3>1. /\ one \in SUBSET (Minutes \cup {-1}) /\ one = {rates[n]}
          /\ known \in SUBSET (Minutes \cup {-1}) /\ rates[n] \in known
      BY <2>1, <2>2, <2>4, DataAssumption
    <3>2. MaxOf(one) = rates[n]
      BY <3>1, MaxOfIs
    <3>3. MaxOf(known) \in known /\ rates[n] <= MaxOf(known)
      BY <3>1, MaxOfIs
    <3>4. \A r \in known : r <= rates[n]
      <4> SUFFICES ASSUME NEW i \in 1 .. n PROVE rates[i] <= rates[n]
        OBVIOUS
      <4>1. rates[i] \in Int /\ rates[n] \in Int /\ n \in 1 .. n
        BY <2>1
      <4>2. i < n => rates[i] < rates[n]
        BY <4>1 DEF RatesAscend
      <4>3. i < n \/ i = n
        BY <2>1
      <4> QED BY <4>1, <4>2, <4>3
    <3>5. MaxOf(known) = rates[n]
      <4>1. MaxOf(known) \in Int /\ rates[n] \in Int /\ MaxOf(known) <= rates[n]
        BY <1>1, <2>1, <3>3, <3>4
      <4> QED BY <3>3, <4>1
    <3>6. AsOf(t, StagedRates) = MaxOf(one)
      BY <3>1 DEF AsOf
    <3>7. PriceAfter(n, t) = MaxOf(known)
      BY <3>1 DEF AsOf, PriceAfter
    <3>8. n \in 1 .. Len(rates) /\ AsOf(t, StagedRates) = PriceAfter(n, t)
      BY <2>1, <3>2, <3>5, <3>6, <3>7
    <3> QED BY <3>8, Zenon DEF KnownAt
  <2> QED BY <2>3, <2>4
<1> QED BY <1>2, <1>3

LEMMA SameRates ==
  ASSUME UNCHANGED rates
  PROVE  /\ RatesAscend' <=> RatesAscend
         /\ \A rate, t : KnownAt(rate, t)' <=> KnownAt(rate, t)
BY DEF RatesAscend, KnownAt, PriceAfter, AsOf

(* Publishing a rate takes nothing away from what was known before.         *)
LEMMA PublishingKeepsPrices ==
  ASSUME Shape, PricesInv, NEW asof \in AsOfs, UpsertFxRate(asof), UNCHANGED <<mart, batch>>
  PROVE  PricesInv'
<1>1. CASE rates' = rates
  BY <1>1, SameRates DEF PricesInv, Priced, Fact, Pending
<1>2. CASE rates' # rates
  <2>1. /\ rates' = Append(rates, asof)
        /\ rates = <<>> \/ rates[Len(rates)] < asof
    BY <1>2 DEF UpsertFxRate
  <2>2. rates \in Seq(AsOfs) /\ AsOfs \subseteq Int
    BY DataAssumption, GridAssumption DEF Shape, TypeOK, Minutes
  <2>3. /\ Len(rates') = Len(rates) + 1 /\ rates'[Len(rates) + 1] = asof
        /\ \A i \in 1 .. Len(rates) : rates'[i] = rates[i] /\ rates[i] \in Int
    <3>1. Len(rates) \in Nat /\ \A i \in 1 .. Len(rates) : rates[i] \in AsOfs
      BY <2>2
    <3>2. Len(Append(rates, asof)) = Len(rates) + 1 /\ Append(rates, asof)[Len(rates) + 1] = asof
      BY <2>2
    <3>3. \A i \in 1 .. Len(rates) : Append(rates, asof)[i] = rates[i]
      BY <2>2
    <3> QED BY <2>1, <2>2, <3>1, <3>2, <3>3
  <2>4. RatesAscend'
    <3> SUFFICES ASSUME NEW i \in 1 .. Len(rates) + 1, NEW j \in 1 .. Len(rates) + 1, i < j
                 PROVE  rates'[i] < rates'[j]
      BY <2>3 DEF RatesAscend
    <3>1. CASE j \in 1 .. Len(rates)
      BY <3>1, <2>2, <2>3 DEF PricesInv, RatesAscend
    <3>2. CASE j = Len(rates) + 1
      <4>1. i \in 1 .. Len(rates) /\ Len(rates) \in Nat
        BY <3>2, <2>2
      <4>2. rates[Len(rates)] < asof
        BY <2>1, <2>2, <4>1
      <4>3. rates[i] <= rates[Len(rates)]
        BY <4>1, <2>3 DEF PricesInv, RatesAscend
      <4> QED BY <3>2, <4>1, <4>2, <4>3, <2>2, <2>3
    <3> QED BY <3>1, <3>2, <2>2
  <2>5. \A n \in 1 .. Len(rates), t \in Minutes : PriceAfter(n, t)' = PriceAfter(n, t)
    <3> SUFFICES ASSUME NEW n \in 1 .. Len(rates), NEW t \in Minutes
                 PROVE  PriceAfter(n, t)' = PriceAfter(n, t)
      OBVIOUS
    <3>1. {rates'[i] : i \in 1 .. n} = {rates[i] : i \in 1 .. n}
      BY <2>2, <2>3
    <3> QED BY <3>1 DEF PriceAfter, AsOf
  <2>6. \A rate, t : t \in Minutes /\ KnownAt(rate, t) => KnownAt(rate, t)'
    BY <2>2, <2>3, <2>5 DEF KnownAt
  <2>7. Fact' = Fact /\ Pending' = Pending
    BY DEF Fact, Pending
  <2> QED BY <2>4, <2>6, <2>7 DEF PricesInv, Priced
<1> QED BY <1>1, <1>2

LEMMA StepPrices == Shape /\ PricesInv /\ [Next]_vars => PricesInv'
<1> SUFFICES ASSUME Shape, PricesInv, [Next]_vars PROVE PricesInv'
  OBVIOUS
<1>1. ASSUME UNCHANGED <<Fact, Pending, rates>> PROVE PricesInv'
  BY <1>1, SameRates DEF PricesInv, Priced
<1>2. ASSUME UNCHANGED rates, NEW table, Priced(table),
             Fact' \in {Fact, table}, Pending' \in {Pending, table}
      PROVE  PricesInv'
  BY <1>2, SameRates DEF PricesInv, Priced
<1>3. CASE Arrive
  BY <1>3, <1>1 DEF Arrive, Fact, Pending
<1>4. CASE Vanish
  BY <1>4, <1>1 DEF Vanish, Fact, Pending
<1>5. CASE RefreshFx
  BY <1>5, PublishingKeepsPrices DEF RefreshFx, FetchRate
<1>6. CASE StartBuild
  BY <1>6, <1>1 DEF StartBuild, Fact, Pending
<1>7. CASE Select("fct")
  <2>1. Pending' = Selected("fct") /\ Fact' = Fact /\ rates' = rates
    BY <1>7 DEF Select, Shape, Pending, Fact, Models
  <2>2. Priced(Selected("fct"))
    <3> SUFFICES ASSUME NEW s \in Symbols, NEW t \in Minutes, Selected("fct")[s][t] # None
                 PROVE  KnownAt(Selected("fct")[s][t].rate, t)
      BY DEF Priced
    <3>1. Selected("fct")[s][t] = FactRow(s, t)
      BY SelectedFact
    <3>2. FactRow(s, t) # None
      BY <3>1
    <3>3. FactRow(s, t).rate = AsOf(t, StagedRates)
      BY <3>2 DEF FactRow
    <3> QED BY <3>1, <3>3, StagedPriceIsKnown DEF PricesInv
  <2> QED BY <2>1, <2>2, <1>2
<1>8. CASE Delete("fct")
  <2>1. Pending' = Pending /\ rates' = rates
    BY <1>8 DEF Delete, Pending
  <2>2. \A s \in Symbols, t \in Minutes : Fact'[s][t] \in {None, Fact[s][t]}
    BY <1>8, FactKeys DEF Delete, Shape, Fact, Models
  <2>3. Priced(Fact')
    BY <2>2 DEF PricesInv, Priced
  <2> QED BY <2>1, <2>3, <1>2
<1>9. CASE Insert("fct")
  <2>1. rates' = rates
    BY <1>9 DEF Insert
  <2>2. \A s \in Symbols, t \in Minutes :
          Fact'[s][t] \in {Pending[s][t], Fact[s][t]} /\ Pending'[s][t] = None
    BY <1>9, FactKeys DEF Insert, Shape, Fact, Pending, Models, Empty
  <2>3. Priced(Fact') /\ Priced(Pending')
    BY <2>2 DEF PricesInv, Priced
  <2> QED BY <2>1, <2>3, SameRates DEF PricesInv, Priced
<1>10. CASE Fail("fct")
  <2>1. Fact' = Fact /\ rates' = rates
    BY <1>10 DEF Fail, Fact
  <2>2. \A s \in Symbols, t \in Minutes : Pending'[s][t] = None
    BY <1>10, FactKeys DEF Fail, Shape, Pending, Models, Empty
  <2>3. Priced(Pending')
    BY <2>2 DEF Priced
  <2> QED BY <2>1, <2>3, <1>2
<1>11. ASSUME NEW model \in Models, model # "fct",
              Select(model) \/ Delete(model) \/ Insert(model) \/ Fail(model)
       PROVE  PricesInv'
  <2>1. rates' = rates
    BY <1>11 DEF Select, Delete, Insert, Fail
  <2> QED BY <1>11, <2>1, <1>1, OthersLeaveFact
<1>12. CASE UNCHANGED vars
  BY <1>12, <1>1 DEF vars, Fact, Pending
<1> QED BY <1>3, <1>4, <1>5, <1>6, <1>7, <1>8, <1>9, <1>10, <1>11, <1>12 DEF Next, Build

(* A price is the newest rate at or before the minute among those published *)
(* by some moment, whichever provider answers and in whatever order.        *)
THEOREM PricesArePointInTime == Spec => []PricedPointInTime
<1>1. Init => PricesInv
  <2> SUFFICES ASSUME Init PROVE PricesInv
    OBVIOUS
  <2>1. Fact = Empty("fct") /\ Pending = Empty("fct")
    BY DEF Init, Fact, Pending, Models
  <2>2. \A s \in Symbols, t \in Minutes : Fact[s][t] = None /\ Pending[s][t] = None
    BY <2>1, FactKeys DEF Empty
  <2> QED BY <2>2 DEF Init, PricesInv, RatesAscend, Priced
<1>2. PricesInv => PricedPointInTime
  BY DEF PricesInv, Priced, KnownAt, PriceAfter, PricedPointInTime, Fact
<1> QED BY <1>1, <1>2, InitShape, StepShape, StepPrices, PTL DEF Spec

---------------------------------------------------------------------------
(* The rollups.  Their inductive invariant speaks of buckets: what a table  *)
(* holds of a bucket is the bucket's row itself, or the row a day was       *)
(* summed up from.                                                          *)

Rollups == {"agg", "daily"}
Busy    == {"selected", "deleted", "done"}

Reach(m)  == IF m = "daily" THEN DayLookback ELSE Lookback
Key(m, t) == Truncate(t, Grain[m])

RowSet(row) == IF row = None THEN {} ELSE {row}

Content(m, table, s, b) ==
  LET row == table[s][Key(m, b)]
  IN  IF row = None THEN {}
      ELSE IF m = "agg" THEN {row} ELSE {p[2] : p \in {q \in row.of : q[1] = b}}

\* What staging, the fact table and the fact table to be aggregate to.
StgRow(s, b)  == OrNone(Group(stg[s], b, Bucket, 0))
FctRow(s, b)  == OrNone(Group([t \in Minutes |-> Bar(s, t)], b, Bucket, 0))
LandRow(s, b) == OrNone(Group([t \in Minutes |-> Landing(s, t)], b, Bucket, 0))

\* What the table a rollup reads holds of a bucket.
SourceContent(m, s, b) ==
  IF m = "agg" THEN RowSet(FctRow(s, b)) ELSE Content("agg", mart["agg"], s, b)

\* What a rollup will hold once the batch in flight is inserted.
Landed(m, s, b) ==
  Content(m, IF batch[m][s][Key(m, b)] = None THEN mart[m] ELSE batch[m], s, b)

MissedBucket(s, b) == \E t \in Span(b, Bucket) : <<s, t>> \in missed

\* Bucket b is in the window of a build that starts with this table.
Near(m, table, b) ==
  \A s \in Symbols, k \in Keys(m) : table[s][k] # None => k <= Key(m, b) + Reach(m)

\* Minute t is in every window, whatever the build in progress inserts.
Keyed   == UNION {Filled(mart[m]) \cup Filled(batch[m]) : m \in Rollups \cup {"fct"}}
Wide(t) == \A k \in Keyed : k <= t + Lookback

\* The shape of the rows.
DayRowsOf(d) ==
  {row \in DayRows : row.of # {} /\ \A p \in row.of : p[1] \in Keys("agg") /\ Key("daily", p[1]) = d}
GoodRows(m, k) == {None} \cup (IF m = "agg" THEN BucketRows ELSE DayRowsOf(k))

GoodTables(m) ==
  \A s \in Symbols : \A k \in Keys(m) :
    mart[m][s][k] \in GoodRows(m, k) /\ batch[m][s][k] \in GoodRows(m, k)

RowsAreRows == \A m \in Rollups : GoodTables(m)

QuietRollup(m) ==
  phase[m] \notin {"selected", "deleted"}
    => \A s \in Symbols, k \in Keys(m) : batch[m][s][k] = None

BatchIsNear(m) ==
  phase[m] = "selected" => \A s \in Symbols, b \in Keys("agg") :
    batch[m][s][Key(m, b)] # None => Near(m, mart[m], b)

(* Buckets a rollup has and staging has not were deleted there.             *)
GoneContent(m) ==
  \A s \in Symbols, b \in Keys("agg") :
    \/ Content(m, mart[m], s, b) = {} /\ Content(m, batch[m], s, b) = {}
    \/ StgRow(s, b) # None
    \/ MissedBucket(s, b)

RollupStale(m) ==
  \A s \in Symbols, b \in Keys("agg") :
    \/ Content(m, mart[m], s, b) = RowSet(StgRow(s, b))
    \/ Near(m, mart[m], b)
    \/ MissedBucket(s, b)

LandedStale(m) ==
  \A s \in Symbols, b \in Keys("agg") :
    \/ Landed(m, s, b) = RowSet(StgRow(s, b))
    \/ Near(m, mart[m], b) /\ Near(m, batch[m], b)
    \/ MissedBucket(s, b)

(* No bucket a rollup has becomes empty in the fact table to be.            *)
Kept(m) ==
  phase["fct"] \in Busy => \A s \in Symbols, b \in Keys("agg") :
    \/ Content(m, mart[m], s, b) = {} /\ Content(m, batch[m], s, b) = {}
    \/ LandRow(s, b) # None
    \/ MissedBucket(s, b)

Follows(m) ==
  phase[m] \in Busy => \A s \in Symbols, b \in Keys("agg") :
    Landed(m, s, b) = SourceContent(m, s, b) \/ MissedBucket(s, b)

OneRollup(m) ==
  /\ GoodTables(m) /\ QuietRollup(m) /\ BatchIsNear(m)
  /\ GoneContent(m) /\ RollupStale(m) /\ LandedStale(m) /\ Kept(m) /\ Follows(m)

(* A model that got anywhere in this build has its parent's table complete. *)
Ordered ==
  /\ phase["agg"] \in Busy => phase["fct"] = "done"
  /\ phase["daily"] \in Busy => phase["agg"] = "done"

(* From its select on, the fact table to be differs from staging only where *)
(* every later model of this build still looks.                             *)
Fresh ==
  phase["fct"] \in Busy => \A s \in Symbols, t \in Minutes :
    Landing(s, t) = stg[s][t] \/ Wide(t) \/ <<s, t>> \in missed

RollupInv == Ordered /\ Fresh /\ \A m \in Rollups : OneRollup(m)

---------------------------------------------------------------------------
(* Multiples.                                                               *)

LEMMA Division ==
  ASSUME NEW g \in Nat \ {0}, NEW t \in Int
  PROVE  t = g * (t \div g) + (t % g) /\ t % g \in 0 .. g - 1 /\ t \div g \in Int
OBVIOUS

LEMMA NextMultiple ==
  ASSUME NEW g \in Nat \ {0}, NEW p \in Int, NEW q \in Int, g * p < g * q
  PROVE  g * p + g <= g * q
<1>1. p < q
  BY Z3
<1>2. p + 1 <= q
  BY <1>1
<1>3. g * (p + 1) <= g * q
  BY <1>2
<1> QED BY <1>3

LEMMA Remainder ==
  ASSUME NEW g \in Nat \ {0}, NEW p \in Int, NEW r \in 0 .. g - 1
  PROVE  (g * p + r) % g = r
<1> DEFINE t == g * p + r
           q == t \div g
           u == t % g
<1>1. t \in Int
  OBVIOUS
<1>2. t = g * q + u /\ u \in 0 .. g - 1 /\ q \in Int
  BY <1>1, Division
<1> HIDE DEF q, u
<1>3. ~(g * p < g * q)
  <2> SUFFICES ASSUME g * p < g * q PROVE FALSE
    OBVIOUS
  <2>1. g * p + g <= g * q
    BY <1>2, NextMultiple
  <2> QED BY <1>2, <2>1
<1>4. ~(g * q < g * p)
  <2> SUFFICES ASSUME g * q < g * p PROVE FALSE
    OBVIOUS
  <2>1. g * q + g <= g * p
    BY <1>2, NextMultiple
  <2> QED BY <1>2, <2>1
<1>5. g * p = g * q
  BY <1>2, <1>3, <1>4
<1> QED BY <1>2, <1>5 DEF u

LEMMA Quotient ==
  ASSUME NEW g \in Nat \ {0}, NEW a \in Int, a % g = 0
  PROVE  a = g * (a \div g) /\ a \div g \in Int
BY Division

LEMMA ProductIsMultiple ==
  ASSUME NEW g \in Nat \ {0}, NEW p \in Int
  PROVE  (g * p) % g = 0
<1>1. 0 \in 0 .. g - 1 /\ g * p + 0 = g * p
  OBVIOUS
<1> QED BY <1>1, Remainder

(* Truncating goes down to a multiple, less than one grain away.            *)
LEMMA TruncateIs ==
  ASSUME NEW g \in Nat \ {0}, NEW t \in Int
  PROVE  /\ Truncate(t, g) \in Int /\ Truncate(t, g) <= t /\ t < Truncate(t, g) + g
         /\ Truncate(t, g) % g = 0
<1>1. t % g \in 0 .. g - 1 /\ t = g * (t \div g) + (t % g) /\ t \div g \in Int
  BY Division
<1>2. Truncate(t, g) = g * (t \div g)
  BY <1>1 DEF Truncate
<1>3. Truncate(t, g) % g = 0
  BY <1>1, <1>2, ProductIsMultiple
<1> QED BY <1>1, <1>3 DEF Truncate

(* Different multiples are a grain apart.                                   *)
LEMMA GrainApart ==
  ASSUME NEW g \in Nat \ {0}, NEW a \in Int, NEW c \in Int, a % g = 0, c % g = 0, a < c
  PROVE  a + g <= c
<1>1. a = g * (a \div g) /\ a \div g \in Int /\ c = g * (c \div g) /\ c \div g \in Int
  BY Quotient
<1>2. g * (a \div g) < g * (c \div g)
  BY <1>1
<1>3. g * (a \div g) + g <= g * (c \div g)
  BY <1>1, <1>2, NextMultiple
<1> QED BY <1>1, <1>3

LEMMA SumIsMultiple ==
  ASSUME NEW g \in Nat \ {0}, NEW a \in Int, NEW c \in Int, a % g = 0, c % g = 0
  PROVE  (a + c) % g = 0 /\ (a - c) % g = 0
<1> DEFINE p == a \div g
           q == c \div g
<1>1. a = g * p /\ p \in Int /\ c = g * q /\ q \in Int
  BY Quotient
<1> HIDE DEF p, q
<1>2. a + c = g * (p + q) /\ a - c = g * (p - q)
  BY <1>1
<1>3. (g * (p + q)) % g = 0 /\ (g * (p - q)) % g = 0
  BY <1>1, ProductIsMultiple
<1> QED BY <1>2, <1>3

LEMMA MultipleOfMultiple ==
  ASSUME NEW g \in Nat \ {0}, NEW d \in Nat \ {0}, NEW a \in Int, a % d = 0, d % g = 0
  PROVE  a % g = 0
<1> DEFINE p == a \div d
           q == d \div g
<1>1. a = d * p /\ p \in Int /\ d = g * q /\ q \in Int
  BY Quotient
<1> HIDE DEF p, q
<1>2. a = g * (q * p)
  BY <1>1
<1>3. (g * (q * p)) % g = 0
  BY <1>1, ProductIsMultiple
<1> QED BY <1>2, <1>3

LEMMA TruncateBetween ==
  ASSUME NEW g \in Nat \ {0}, NEW a \in Int, NEW t \in Int, a % g = 0, a <= t, t < a + g
  PROVE  Truncate(t, g) = a
<1> DEFINE p == a \div g
           r == t - a
<1>1. a = g * p /\ p \in Int /\ r \in 0 .. g - 1 /\ g * p + r = t
  BY Quotient
<1> HIDE DEF p
<1>2. (g * p + r) % g = r
  BY <1>1, Remainder
<1> QED BY <1>1, <1>2 DEF Truncate

(* What is at most a multiple plus a reach has its multiple at most that:   *)
(* no window cuts a group in two.                                           *)
LEMMA ReachOfGroup ==
  ASSUME NEW g \in Nat \ {0}, NEW k \in Int, NEW t \in Int, NEW reach \in Nat,
         reach % g = 0, k <= t + reach
  PROVE  Truncate(k, g) <= Truncate(t, g) + reach
<1> DEFINE a == Truncate(k, g)
           c == Truncate(t, g)
<1>1. a \in Int /\ a <= k /\ a % g = 0 /\ c \in Int /\ t < c + g /\ c % g = 0
  BY TruncateIs
<1> HIDE DEF a, c
<1>2. c \in Int /\ reach \in Int /\ c % g = 0
  BY <1>1
<1>3. (c + reach) % g = 0
  BY <1>2, SumIsMultiple, Zenon
<1> DEFINE e == c + reach
<1>4. e \in Int /\ e % g = 0 /\ k < e + g
  BY <1>1, <1>2, <1>3
<1> HIDE DEF e
<1>5. e < a => e + g <= a
  BY <1>1, <1>4, GrainApart
<1>6. a <= e
  BY <1>1, <1>4, <1>5
<1> QED BY <1>6 DEF a, c, e

LEMMA TruncateMultiple ==
  ASSUME NEW g \in Nat \ {0}, NEW a \in Int, a % g = 0
  PROVE  Truncate(a, g) = a
BY TruncateBetween

---------------------------------------------------------------------------
(* Keys and windows.                                                        *)

LEMMA Grains ==
  ASSUME NEW m \in Rollups
  PROVE  /\ m \in Models /\ Grain[m] \in Nat \ {0} /\ Grain[m] % Bucket = 0
         /\ Reach(m) \in Nat /\ Lookback <= Reach(m) /\ Reach(m) % Grain[m] = 0
         /\ EmitFrom(m) = Watermark(m) - Reach(m)
<1>1. Bucket \in Nat \ {0} /\ Day \in Nat \ {0} /\ Day % Bucket = 0
  BY GridAssumption
<1>2. Bucket % Bucket = 0
  <2>1. (Bucket * 1) % Bucket = 0
    BY <1>1, ProductIsMultiple
  <2> QED BY <1>1, <2>1
<1>3. Grain["agg"] = Bucket /\ Grain["daily"] = Day
  BY DEF Grain
<1>4. m \in Models
  BY DEF Rollups, Models
<1>5. Reach(m) \in Nat /\ Lookback <= Reach(m) /\ Reach(m) % Grain[m] = 0
  BY <1>3, LookbackAssumption DEF Rollups, Reach
<1> QED BY <1>1, <1>2, <1>3, <1>4, <1>5 DEF Rollups, Reach, EmitFrom

LEMMA KeyIs ==
  ASSUME NEW m \in Rollups, NEW t \in Minutes
  PROVE  /\ Key(m, t) \in Keys(m) /\ Key(m, t) \in Minutes /\ Key(m, t) \in Int
         /\ Key(m, t) <= t /\ t < Key(m, t) + Grain[m] /\ Key(m, t) % Grain[m] = 0
<1> DEFINE g == Grain[m]
           k == Key(m, t)
<1>1. g \in Nat \ {0} /\ t \in Int /\ t >= 0 /\ t <= MaxMinute /\ MaxMinute \in Int
  BY Grains, GridAssumption DEF Minutes
<1>2. k \in Int /\ k <= t /\ t < k + g /\ k % g = 0
  BY <1>1, TruncateIs DEF Key
<1> HIDE DEF g, k
<1>3. k >= 0
  <2>1. (g * 0) % g = 0 /\ g * 0 = 0
    BY <1>1, ProductIsMultiple
  <2>2. 0 % g = 0
    BY <2>1
  <2>3. k < 0 => k + g <= 0
    BY <1>1, <1>2, <2>2, GrainApart
  <2> QED BY <1>1, <1>2, <2>3
<1>4. k \in Minutes
  BY <1>1, <1>2, <1>3 DEF Minutes
<1> QED BY <1>2, <1>4 DEF g, k, Keys

LEMMA KeyOfKey ==
  ASSUME NEW m \in Rollups, NEW k \in Keys(m)
  PROVE  k \in Minutes /\ Key(m, k) = k
<1>1. k \in Minutes /\ k % Grain[m] = 0 /\ k \in Int
  BY GridAssumption DEF Keys, Minutes
<1> QED BY <1>1, Grains, TruncateMultiple DEF Key

LEMMA BucketIs ==
  ASSUME NEW b \in Keys("agg")
  PROVE  b \in Minutes /\ Key("agg", b) = b /\ "agg" \in Rollups /\ "daily" \in Rollups
<1>1. "agg" \in Rollups /\ "daily" \in Rollups
  BY DEF Rollups
<1> QED BY <1>1, KeyOfKey

LEMMA SpanIs ==
  ASSUME NEW b \in Keys("agg"), NEW t \in Span(b, Bucket)
  PROVE  t \in Minutes /\ b <= t /\ t < b + Bucket /\ Key("agg", t) = b
<1>1. t \in Minutes /\ Key("agg", t) = b
  BY DEF Span, Key, Grain
<1>2. Grain["agg"] = Bucket
  BY DEF Grain
<1> QED BY <1>1, <1>2, BucketIs, KeyIs

(* A bucket lies in one day.                                                *)
LEMMA KeyOfSpan ==
  ASSUME NEW m \in Rollups, NEW b \in Keys("agg"), NEW t \in Span(b, Bucket)
  PROVE  Key(m, t) = Key(m, b)
<1> DEFINE d == Key(m, b)
           g == Grain[m]
<1>1. g \in Nat \ {0} /\ g % Bucket = 0 /\ Bucket \in Nat \ {0}
  BY Grains, GridAssumption
<1>2. b \in Minutes /\ b \in Int /\ t \in Int /\ b <= t /\ t < b + Bucket
  BY BucketIs, SpanIs, GridAssumption DEF Minutes
<1>3. d \in Int /\ d <= b /\ b < d + g /\ d % g = 0
  BY <1>2, KeyIs
<1>4. b % Bucket = 0
  BY DEF Keys, Grain
<1> HIDE DEF d, g
<1>5. d % Bucket = 0
  BY <1>1, <1>3, MultipleOfMultiple
<1>6. (d + g) % Bucket = 0
  <2>1. d \in Int /\ g \in Int
    BY <1>1, <1>3
  <2>2. g % Bucket = 0 /\ Bucket \in Nat \ {0}
    BY <1>1
  <2> QED BY <1>5, <2>1, <2>2, SumIsMultiple, Zenon
<1> DEFINE e == d + g
<1>7. e \in Int /\ e % Bucket = 0 /\ b < e
  BY <1>1, <1>3, <1>6
<1> HIDE DEF e
<1>8. b + Bucket <= e
  BY <1>1, <1>2, <1>4, <1>7, GrainApart
<1>9. d <= t /\ t < d + g
  BY <1>1, <1>2, <1>3, <1>7, <1>8 DEF e
<1>10. Truncate(t, g) = d
  BY <1>1, <1>2, <1>3, <1>9, TruncateBetween
<1> QED BY <1>10 DEF d, g, Key

(* What is within the lookback of a minute is within the reach of its group.*)
LEMMA WithinReach ==
  ASSUME NEW m \in Rollups, NEW b \in Keys("agg"), NEW t \in Span(b, Bucket),
         NEW k \in Minutes, k <= t + Lookback
  PROVE  Key(m, k) <= Key(m, b) + Reach(m)
<1>1. /\ Grain[m] \in Nat \ {0} /\ Reach(m) \in Nat /\ Lookback <= Reach(m)
      /\ Reach(m) % Grain[m] = 0
  BY Grains
<1>2. k \in Int /\ t \in Int /\ Lookback \in Int
  BY SpanIs, GridAssumption, LookbackAssumption DEF Minutes
<1>3. k <= t + Reach(m)
  BY <1>1, <1>2
<1>4. Key(m, k) <= Key(m, t) + Reach(m)
  BY <1>1, <1>2, <1>3, ReachOfGroup DEF Key
<1> QED BY <1>4, KeyOfSpan

LEMMA FilledIs ==
  ASSUME NEW m \in Models, NEW table, \A s \in Symbols : DOMAIN table[s] = Keys(m)
  PROVE  Filled(table) = {k \in Keys(m) : \E s \in Symbols : table[s][k] # None}
BY DEF Filled

(* A model's select starts at a group's key or earlier if the group is in   *)
(* the window, and after the whole group if it is not.                      *)
LEMMA WindowIsNear ==
  ASSUME Shape, NEW m \in Rollups, NEW b \in Keys("agg")
  PROVE  /\ EmitFrom(m) \in Int
         /\ Near(m, mart[m], b) => EmitFrom(m) <= Key(m, b)
         /\ ~Near(m, mart[m], b) => Key(m, b) + Grain[m] <= EmitFrom(m)
<1> DEFINE T == Filled(mart[m])
           key == Key(m, b)
           g == Grain[m]
           w == Watermark(m)
           r == Reach(m)
<1>1. m \in Models /\ g \in Nat \ {0} /\ r \in Nat /\ r % g = 0 /\ EmitFrom(m) = w - r
  BY Grains
<1>2. key \in Int /\ key >= 0 /\ key % g = 0
  BY BucketIs, KeyIs, GridAssumption DEF Minutes
<1>3. T = {k \in Keys(m) : \E s \in Symbols : mart[m][s][k] # None}
  BY <1>1, FilledIs DEF Shape, TypeOK
<1>4. Near(m, mart[m], b) <=> \A k \in T : k <= key + r
  BY <1>3 DEF Near
<1>5. w = IF T = {} THEN -1 ELSE MaxOf(T)
  BY DEF Watermark
<1>6. T \subseteq Minutes /\ \A k \in T : k \in Int /\ k % g = 0
  BY <1>3, GridAssumption DEF Keys, Minutes
<1> HIDE DEF T, key, g, w, r
<1>7. CASE T = {}
  BY <1>1, <1>2, <1>4, <1>5, <1>7 DEF key, g
<1>8. CASE T # {}
  <2>1. w \in T /\ \A k \in T : k <= w
    BY <1>5, <1>6, <1>8, MaxOfIs
  <2>2. w \in Int /\ w % g = 0
    BY <1>6, <2>1
  <2>3. Near(m, mart[m], b) <=> w <= key + r
    <3>1. Near(m, mart[m], b) => w <= key + r
      BY <1>4, <2>1
    <3>2. ASSUME w <= key + r, NEW k \in T PROVE k <= key + r
      BY <1>1, <1>2, <1>6, <2>1, <2>2, <3>2
    <3> QED BY <1>4, <3>1, <3>2
  <2>4. r \in Int /\ r % g = 0
    BY <1>1
  <2>5. (w - r) % g = 0
    BY <1>1, <2>2, <2>4, SumIsMultiple, Zenon
  <2> DEFINE e == w - r
  <2>6. e \in Int /\ e % g = 0
    BY <2>2, <2>4, <2>5
  <2>7. Near(m, mart[m], b) <=> e <= key
    BY <1>1, <1>2, <2>2, <2>3, <2>4
  <2>8. EmitFrom(m) = e
    BY <1>1
  <2> HIDE DEF e
  <2>9. key < e => key + g <= e
    BY <1>1, <1>2, <2>6, GrainApart
  <2> QED BY <1>1, <1>2, <2>6, <2>7, <2>8, <2>9 DEF key, g
<1> QED BY <1>7, <1>8

---------------------------------------------------------------------------
(* Groups.                                                                  *)

\* The rows of one minute-grained series of a symbol.
Series1m == [Minutes -> Bars \cup {None}]

LEMMA GroupIs ==
  ASSUME NEW f \in Series1m, NEW b \in Keys("agg")
  PROVE  /\ Group(f, b, Bucket, 0) \in SUBSET (Minutes \X Bars)
         /\ OrNone(Group(f, b, Bucket, 0)) \in BucketRows \cup {None}
         /\ OrNone(Group(f, b, Bucket, 0)) = None <=> \A t \in Span(b, Bucket) : f[t] = None
<1> DEFINE G == Group(f, b, Bucket, 0)
<1>1. G = {<<t, f[t]>> : t \in {k \in Minutes : k \in Span(b, Bucket) /\ f[k] # None}}
  BY GridAssumption DEF Group, Series1m, Minutes
<1>2. G \in SUBSET (Minutes \X Bars)
  <2>1. \A k \in Minutes : f[k] # None => f[k] \in Bars
    BY DEF Series1m
  <2> QED BY <1>1, <2>1
<1>3. G = {} <=> \A t \in Span(b, Bucket) : f[t] = None
  BY <1>1 DEF Span
<1> HIDE DEF G
<1>4. [of |-> G] \in BucketRows
  BY <1>2 DEF BucketRows
<1>5. OrNone(G) = None <=> G = {}
  BY <1>4, NoneAssumption DEF OrNone
<1>6. OrNone(G) \in BucketRows \cup {None}
  BY <1>4 DEF OrNone
<1> QED BY <1>2, <1>3, <1>5, <1>6 DEF G

LEMMA GroupSame ==
  ASSUME NEW f \in Series1m, NEW h \in Series1m, NEW b \in Keys("agg"),
         \A t \in Span(b, Bucket) : f[t] = h[t]
  PROVE  Group(f, b, Bucket, 0) = Group(h, b, Bucket, 0)
BY DEF Group, Series1m

LEMMA SeriesIs ==
  ASSUME Shape, NEW s \in Symbols
  PROVE  /\ stg[s] \in Series1m
         /\ [t \in Minutes |-> Bar(s, t)] \in Series1m
         /\ [t \in Minutes |-> Landing(s, t)] \in Series1m
<1>1. stg[s] \in Series1m
  BY DEF Shape, TypeOK, Series1m
<1>2. \A t \in Minutes : Bar(s, t) \in Bars \cup {None} /\ Landing(s, t) \in Bars \cup {None}
  <2> SUFFICES ASSUME NEW t \in Minutes
               PROVE  Bar(s, t) \in Bars \cup {None} /\ Landing(s, t) \in Bars \cup {None}
    OBVIOUS
  <2>1. Fact[s][t] \in FactRows /\ Pending[s][t] \in FactRows
    BY DEF Shape, FactTable
  <2>2. Bar(s, t) \in Bars \cup {None}
    BY <2>1 DEF Bar, Fact, FactRows
  <2> QED BY <2>1, <2>2 DEF Landing, FactRows
<1> QED BY <1>1, <1>2 DEF Series1m

(* The rows of a bucket: when there is none, and how two of them compare.   *)
LEMMA BucketRowsAre ==
  ASSUME Shape, NEW s \in Symbols, NEW b \in Keys("agg")
  PROVE  /\ {StgRow(s, b), FctRow(s, b), LandRow(s, b)} \subseteq BucketRows \cup {None}
         /\ StgRow(s, b) = None <=> \A t \in Span(b, Bucket) : stg[s][t] = None
         /\ FctRow(s, b) = None <=> \A t \in Span(b, Bucket) : Bar(s, t) = None
         /\ LandRow(s, b) = None <=> \A t \in Span(b, Bucket) : Landing(s, t) = None
         /\ FctRow(s, b) = StgRow(s, b) \/ \E t \in Span(b, Bucket) : Bar(s, t) # stg[s][t]
<1>1. \A t \in Span(b, Bucket) : t \in Minutes
  BY DEF Span
<1> DEFINE f == [t \in Minutes |-> Bar(s, t)]
           h == [t \in Minutes |-> Landing(s, t)]
<1>2. stg[s] \in Series1m /\ f \in Series1m /\ h \in Series1m
  BY SeriesIs
<1>3. \A t \in Span(b, Bucket) : f[t] = Bar(s, t) /\ h[t] = Landing(s, t)
  BY <1>1
<1>4. FctRow(s, b) = OrNone(Group(f, b, Bucket, 0)) /\ LandRow(s, b) = OrNone(Group(h, b, Bucket, 0))
  BY DEF FctRow, LandRow
<1> HIDE DEF f, h
<1>5. (\A t \in Span(b, Bucket) : f[t] = stg[s][t])
        => Group(f, b, Bucket, 0) = Group(stg[s], b, Bucket, 0)
  BY <1>2, GroupSame
<1> QED BY <1>2, <1>3, <1>4, <1>5, GroupIs DEF StgRow

---------------------------------------------------------------------------
(* What the rollups select.                                                 *)

LEMMA SelectedRow ==
  ASSUME NEW m \in Rollups, NEW s \in Symbols, NEW k \in Keys(m)
  PROVE  Selected(m)[s][k] =
           OrNone(IF m = "agg"
                  THEN Group([t \in Minutes |-> Bar(s, t)], k, Bucket, EmitFrom("agg"))
                  ELSE Group(mart["agg"][s], k, Day, EmitFrom("daily")))
<1>1. Selected(m)[s][k] = Row(m, s, k, EmitFrom(m))
  BY DEF Selected
<1>2. CASE m = "agg"
  BY <1>1, <1>2, Zenon DEF Row
<1>3. CASE m = "daily"
  BY <1>1, <1>3, Zenon DEF Row
<1> QED BY <1>2, <1>3 DEF Rollups

LEMMA SelectedBucket ==
  ASSUME Shape, NEW s \in Symbols, NEW b \in Keys("agg")
  PROVE  /\ Near("agg", mart["agg"], b) => Selected("agg")[s][b] = FctRow(s, b)
         /\ ~Near("agg", mart["agg"], b) => Selected("agg")[s][b] = None
         /\ Selected("agg")[s][b] \in {None, FctRow(s, b)}
<1> DEFINE f == [t \in Minutes |-> Bar(s, t)]
           from == EmitFrom("agg")
<1>1. "agg" \in Rollups /\ b \in Minutes /\ Key("agg", b) = b /\ Grain["agg"] = Bucket
  BY BucketIs DEF Grain
<1>2. Selected("agg")[s][b] = OrNone(Group(f, b, Bucket, from))
  BY <1>1, SelectedRow
<1>3. f \in Series1m
  BY SeriesIs
<1>4. FctRow(s, b) = OrNone(Group(f, b, Bucket, 0))
  BY DEF FctRow
<1>5. from \in Int /\ b \in Int /\ Bucket \in Int
  BY <1>1, WindowIsNear, GridAssumption DEF Minutes
<1>6. \A t \in Span(b, Bucket) : t \in Minutes /\ t \in Int /\ t >= 0 /\ b <= t /\ t < b + Bucket
  BY SpanIs, GridAssumption DEF Minutes
<1>7. CASE Near("agg", mart["agg"], b)
  <2>1. from <= b
    BY <1>1, <1>7, WindowIsNear
  <2> HIDE DEF f, from
  <2>2. Group(f, b, Bucket, from) = Group(f, b, Bucket, 0)
    BY <1>3, <1>5, <1>6, <2>1 DEF Group, Series1m
  <2> QED BY <1>2, <1>4, <1>7, <2>2
<1>8. CASE ~Near("agg", mart["agg"], b)
  <2>1. b + Bucket <= from
    BY <1>1, <1>8, WindowIsNear
  <2> HIDE DEF f, from
  <2>2. Group(f, b, Bucket, from) = {}
    BY <1>3, <1>5, <1>6, <2>1 DEF Group, Series1m
  <2> QED BY <1>2, <1>8, <2>2 DEF OrNone
<1> QED BY <1>7, <1>8

LEMMA DaySpan ==
  ASSUME NEW d \in Keys("daily"), NEW b \in Span(d, Day)
  PROVE  b \in Minutes /\ Key("daily", b) = d /\ d <= b /\ b < d + Day /\ b \in Int /\ b >= 0
<1>1. b \in Minutes /\ Key("daily", b) = d /\ Grain["daily"] = Day /\ "daily" \in Rollups
  BY DEF Span, Key, Grain, Rollups
<1> QED BY <1>1, KeyIs, GridAssumption DEF Minutes

\* The rows a day has in the table of buckets.
OfDay(s, d) ==
  {<<b, mart["agg"][s][b]>> : b \in {k \in Keys("agg") : Key("daily", k) = d /\ mart["agg"][s][k] # None}}

LEMMA DayGroup ==
  ASSUME Shape, NEW s \in Symbols, NEW d \in Keys("daily"), NEW from \in Int
  PROVE  /\ from <= d => Group(mart["agg"][s], d, Day, from) = OfDay(s, d)
         /\ d + Day <= from => Group(mart["agg"][s], d, Day, from) = {}
<1> DEFINE A == mart["agg"][s]
<1>1. DOMAIN A = Keys("agg") /\ Keys("agg") \subseteq Minutes
  BY DEF Shape, TypeOK, Models, Keys
<1>2. \A k \in Keys("agg") : k \in Span(d, Day) <=> Key("daily", k) = d
  BY <1>1 DEF Span, Key, Grain
<1>3. \A k \in Span(d, Day) : k \in Int /\ d <= k /\ k < d + Day
  BY DaySpan
<1>4. d \in Int /\ Day \in Int
  BY GridAssumption DEF Keys, Minutes
<1> HIDE DEF A
<1>5. Group(A, d, Day, from) =
        {<<t, A[t]>> : t \in {k \in Keys("agg") : k \in Span(d, Day) /\ k >= from /\ A[k] # None}}
  BY <1>1 DEF Group
<1>6. ASSUME from <= d PROVE Group(A, d, Day, from) = OfDay(s, d)
  <2>1. \A k \in Keys("agg") : k \in Span(d, Day) /\ k >= from <=> Key("daily", k) = d
    BY <1>2, <1>3, <1>4, <1>6
  <2> QED BY <1>5, <2>1, Zenon DEF OfDay, A
<1>7. ASSUME d + Day <= from PROVE Group(A, d, Day, from) = {}
  <2>1. \A k \in Span(d, Day) : ~(k >= from)
    BY <1>3, <1>4, <1>7
  <2> QED BY <1>5, <2>1
<1> QED BY <1>6, <1>7 DEF A

(* Every key is a bucket's.                                                 *)
LEMMA KeyIsBucket ==
  ASSUME NEW m \in Rollups, NEW k \in Keys(m)
  PROVE  k \in Keys("agg") /\ Key(m, k) = k
<1>1. k \in Minutes /\ k \in Int /\ k % Grain[m] = 0 /\ Key(m, k) = k
  BY KeyOfKey, GridAssumption DEF Keys, Minutes
<1>2. Grain[m] \in Nat \ {0} /\ Grain[m] % Bucket = 0 /\ Bucket \in Nat \ {0}
  BY Grains, GridAssumption
<1>3. k % Bucket = 0
  BY <1>1, <1>2, MultipleOfMultiple
<1> QED BY <1>1, <1>3 DEF Keys, Grain

LEMMA OfDayIs ==
  ASSUME Shape, RowsAreRows, NEW s \in Symbols, NEW d \in Keys("daily")
  PROVE  /\ OrNone(OfDay(s, d)) \in GoodRows("daily", d)
         /\ OrNone(OfDay(s, d)) = None <=> OfDay(s, d) = {}
<1>1. \A k \in Keys("agg") : k \in Minutes /\ mart["agg"][s][k] \in BucketRows \cup {None}
  BY FactKeys DEF RowsAreRows, GoodTables, GoodRows, Rollups, Models
<1>2. OfDay(s, d) \in SUBSET (Minutes \X BucketRows)
  BY <1>1 DEF OfDay
<1>3. \A p \in OfDay(s, d) : p[1] \in Keys("agg") /\ Key("daily", p[1]) = d
  BY DEF OfDay
<1> DEFINE O == OfDay(s, d)
<1> HIDE DEF O
<1>4. [of |-> O] \in DayRows /\ [of |-> O] # None /\ [of |-> O].of = O
  BY <1>2, NoneAssumption DEF DayRows, O
<1>5. O # {} => [of |-> O] \in DayRowsOf(d)
  BY <1>3, <1>4 DEF DayRowsOf, O
<1>6. OrNone(O) = None <=> O = {}
  BY <1>4 DEF OrNone
<1>7. OrNone(O) \in DayRowsOf(d) \cup {None}
  BY <1>5 DEF OrNone
<1> QED BY <1>6, <1>7 DEF O, GoodRows

LEMMA SelectedDay ==
  ASSUME Shape, NEW s \in Symbols, NEW d \in Keys("daily")
  PROVE  /\ Near("daily", mart["daily"], d) => Selected("daily")[s][d] = OrNone(OfDay(s, d))
         /\ ~Near("daily", mart["daily"], d) => Selected("daily")[s][d] = None
         /\ Selected("daily")[s][d] \in {None, OrNone(OfDay(s, d))}
<1> DEFINE from == EmitFrom("daily")
<1>1. /\ "daily" \in Rollups /\ Grain["daily"] = Day /\ d \in Keys("agg")
      /\ Key("daily", d) = d
  BY KeyIsBucket DEF Rollups, Grain
<1>2. /\ from \in Int
      /\ Near("daily", mart["daily"], d) => from <= d
      /\ ~Near("daily", mart["daily"], d) => d + Day <= from
  BY <1>1, WindowIsNear
<1>3. Selected("daily")[s][d] = OrNone(Group(mart["agg"][s], d, Day, from))
  BY <1>1, SelectedRow
<1> HIDE DEF from
<1> QED BY <1>2, <1>3, DayGroup DEF OrNone

LEMMA NearKey ==
  ASSUME NEW m \in Rollups, NEW table, NEW b \in Keys("agg")
  PROVE  Near(m, table, b) <=> Near(m, table, Key(m, b))
<1>1. Key(m, b) \in Keys(m)
  BY BucketIs, KeyIs
<1>2. Key(m, Key(m, b)) = Key(m, b)
  BY <1>1, KeyOfKey
<1> QED BY <1>2 DEF Near

(* What a rollup selects of a bucket in its window is what its source has.  *)
LEMMA SelectedContent ==
  ASSUME Shape, RowsAreRows, NEW m \in Rollups, NEW s \in Symbols, NEW b \in Keys("agg")
  PROVE  /\ Near(m, mart[m], b) => Content(m, Selected(m), s, b) = SourceContent(m, s, b)
         /\ ~Near(m, mart[m], b) => Selected(m)[s][Key(m, b)] = None
<1>1. CASE m = "agg"
  <2>1. Key(m, b) = b
    BY <1>1, BucketIs
  <2> QED BY <1>1, <2>1, SelectedBucket DEF Content, SourceContent, RowSet
<1>2. CASE m = "daily"
  <2> DEFINE d == Key("daily", b)
  <2>1. "daily" \in Rollups /\ "daily" # "agg" /\ b \in Minutes /\ d \in Keys("daily") /\ Key("agg", b) = b
    BY BucketIs, KeyIs
  <2>2. Near("daily", mart["daily"], b) <=> Near("daily", mart["daily"], d)
    BY <2>1, NearKey
  <2>3. ASSUME Near("daily", mart["daily"], b)
        PROVE  Content("daily", Selected("daily"), s, b) = Content("agg", mart["agg"], s, b)
    <3>1. Selected("daily")[s][d] = OrNone(OfDay(s, d))
      BY <2>1, <2>2, <2>3, SelectedDay
    <3>2. OrNone(OfDay(s, d)) = None <=> OfDay(s, d) = {}
      BY <2>1, OfDayIs
    <3>3. {p[2] : p \in {q \in OfDay(s, d) : q[1] = b}} = RowSet(mart["agg"][s][b])
      <4> DEFINE row == mart["agg"][s][b]
      <4>1. {q \in OfDay(s, d) : q[1] = b} = IF row = None THEN {} ELSE {<<b, row>>}
        BY DEF OfDay
      <4>2. {p[2] : p \in {<<b, row>>}} = {row}
        OBVIOUS
      <4> QED BY <4>1, <4>2 DEF RowSet
    <3>4. Content("agg", mart["agg"], s, b) = RowSet(mart["agg"][s][b])
      BY <2>1 DEF Content, RowSet
    <3>5. Content("daily", Selected("daily"), s, b) =
            IF Selected("daily")[s][d] = None THEN {}
            ELSE {p[2] : p \in {q \in Selected("daily")[s][d].of : q[1] = b}}
      BY <2>1 DEF Content
    <3>6. CASE OfDay(s, d) = {}
      BY <3>1, <3>2, <3>3, <3>4, <3>5, <3>6
    <3>7. CASE OfDay(s, d) # {}
      <4>1. Selected("daily")[s][d] # None /\ Selected("daily")[s][d].of = OfDay(s, d)
        BY <3>1, <3>2, <3>7 DEF OrNone
      <4> QED BY <3>3, <3>4, <3>5, <4>1
    <3> QED BY <3>6, <3>7
  <2>4. ~Near("daily", mart["daily"], b) => Selected("daily")[s][d] = None
    BY <2>1, <2>2, SelectedDay
  <2> QED BY <1>2, <2>1, <2>3, <2>4 DEF SourceContent
<1> QED BY <1>1, <1>2 DEF Rollups

LEMMA SelectedGood ==
  ASSUME Shape, RowsAreRows, NEW m \in Rollups, NEW s \in Symbols, NEW k \in Keys(m)
  PROVE  Selected(m)[s][k] \in GoodRows(m, k)
<1>1. CASE m = "agg"
  <2>1. Selected("agg")[s][k] \in {None, FctRow(s, k)} /\ FctRow(s, k) \in BucketRows \cup {None}
    BY <1>1, SelectedBucket, BucketRowsAre
  <2> QED BY <1>1, <2>1 DEF GoodRows
<1>2. CASE m = "daily"
  <2>1. Selected("daily")[s][k] \in {None, OrNone(OfDay(s, k))}
    BY <1>2, SelectedDay
  <2>2. OrNone(OfDay(s, k)) \in GoodRows("daily", k)
    BY <1>2, OfDayIs
  <2> QED BY <1>2, <2>1, <2>2 DEF GoodRows
<1> QED BY <1>1, <1>2 DEF Rollups

(* A rollup has no group its source has no row of.                          *)
LEMMA SelectedKeys ==
  ASSUME Shape, RowsAreRows, NEW m \in Rollups, NEW s \in Symbols, NEW k \in Keys(m),
         Selected(m)[s][k] # None
  PROVE  \E t \in Minutes :
           /\ Key(m, t) = k
           /\ m = "agg" => Fact[s][t] # None
           /\ m = "daily" => t \in Keys("agg") /\ mart["agg"][s][t] # None
<1>1. CASE m = "agg"
  <2>1. FctRow(s, k) # None
    BY <1>1, SelectedBucket
  <2>2. PICK t \in Span(k, Bucket) : Bar(s, t) # None
    BY <1>1, <2>1, BucketRowsAre
  <2>3. t \in Minutes /\ Key("agg", t) = k
    BY <1>1, SpanIs
  <2> QED BY <1>1, <2>2, <2>3 DEF Bar, Fact
<1>2. CASE m = "daily"
  <2>1. OfDay(s, k) # {}
    BY <1>2, SelectedDay, OfDayIs
  <2>2. PICK t \in Keys("agg") : Key("daily", t) = k /\ mart["agg"][s][t] # None
    BY <2>1 DEF OfDay
  <2> QED BY <1>2, <2>2, BucketIs
<1> QED BY <1>1, <1>2 DEF Rollups

---------------------------------------------------------------------------
(* Steps of the tables.                                                     *)

(* The invariant's terms after a step, in the tables after it.              *)
LEMMA Primed ==
  ASSUME NEW m \in Rollups, NEW s \in Symbols, NEW b \in Keys("agg")
  PROVE  /\ Content(m, mart[m], s, b)' = Content(m, mart'[m], s, b)
         /\ Content(m, batch[m], s, b)' = Content(m, batch'[m], s, b)
         /\ Near(m, mart[m], b)' <=> Near(m, mart'[m], b)
         /\ Near(m, batch[m], b)' <=> Near(m, batch'[m], b)
         /\ Landed(m, s, b)' = Content(m, IF batch'[m][s][Key(m, b)] = None THEN mart'[m]
                                          ELSE batch'[m], s, b)
         /\ stg' = stg => StgRow(s, b)' = StgRow(s, b)
         /\ missed' = missed => (MissedBucket(s, b)' <=> MissedBucket(s, b))
BY DEF Content, Near, Landed, StgRow, MissedBucket, Group, OrNone

LEMMA EmptyContent ==
  ASSUME NEW m, NEW table, NEW s, NEW b, table[s][Key(m, b)] = None
  PROVE  Content(m, table, s, b) = {}
BY DEF Content

LEMMA LandingPrimed ==
  ASSUME mart'["fct"] = mart["fct"], batch'["fct"] = batch["fct"]
  PROVE  /\ \A s \in Symbols, t \in Minutes : Bar(s, t)' = Bar(s, t) /\ Landing(s, t)' = Landing(s, t)
         /\ \A s \in Symbols, b \in Keys("agg") :
              FctRow(s, b)' = FctRow(s, b) /\ LandRow(s, b)' = LandRow(s, b)
<1>1. \A s, t : Bar(s, t)' = Bar(s, t) /\ Landing(s, t)' = Landing(s, t)
  BY DEF Bar, Landing, Pending
<1>2. \A s, b : FctRow(s, b)' = FctRow(s, b)
  BY DEF FctRow, Bar, Group, OrNone
<1>3. \A s, b : LandRow(s, b)' = LandRow(s, b)
  BY DEF LandRow, Landing, Pending, Bar, Group, OrNone
<1> QED BY <1>1, <1>2, <1>3

LEMMA WideIsNear ==
  ASSUME Shape, NEW m \in Rollups, NEW b \in Keys("agg"), NEW t \in Span(b, Bucket), Wide(t)
  PROVE  Near(m, mart[m], b) /\ Near(m, batch[m], b)
<1>1. m \in Models /\ m \in Rollups \cup {"fct"}
  BY Grains
<1>2. Filled(mart[m]) \cup Filled(batch[m]) \subseteq Keyed
  BY <1>1 DEF Keyed
<1>3. ASSUME NEW k \in Filled(mart[m]) \cup Filled(batch[m]), k \in Keys(m)
      PROVE  k <= Key(m, b) + Reach(m)
  <2>1. k <= t + Lookback
    BY <1>2, <1>3 DEF Wide
  <2>2. k \in Minutes /\ Key(m, k) = k
    BY <1>3, KeyOfKey
  <2>3. Key(m, k) <= Key(m, b) + Reach(m)
    BY <2>1, <2>2, WithinReach
  <2> QED BY <2>2, <2>3
<1>4. \A table \in {mart[m], batch[m]} :
        Filled(table) = {k \in Keys(m) : \E s \in Symbols : table[s][k] # None}
  <2>1. \A table \in {mart[m], batch[m]} : \A s \in Symbols : DOMAIN table[s] = Keys(m)
    BY <1>1 DEF Shape, TypeOK
  <2> QED BY <1>1, <2>1, FilledIs
<1>5. \A table \in {mart[m], batch[m]} : Near(m, table, b)
  <2> SUFFICES ASSUME NEW table \in {mart[m], batch[m]}, NEW s \in Symbols,
                      NEW k \in Keys(m), table[s][k] # None
               PROVE  k <= Key(m, b) + Reach(m)
    BY DEF Near
  <2>1. k \in Filled(table)
    BY <1>4
  <2> QED BY <1>3, <2>1
<1> QED BY <1>5

LEMMA RecentIsWide ==
  ASSUME Shape, NEW t \in Minutes, ~(t < Newest - Lookback)
  PROVE  Wide(t)
<1> DEFINE N == {-1} \cup Filled(stg) \cup
             UNION {Filled(mart[model]) \cup Filled(batch[model]) : model \in Models}
<1>1. Filled(stg) \subseteq Minutes
  BY DEF Filled, Shape, TypeOK
<1>2. \A model \in Models : Filled(mart[model]) \cup Filled(batch[model]) \subseteq Minutes
  BY FilledAreMinutes
<1>3. N \in SUBSET (Minutes \cup {-1}) /\ N # {}
  BY <1>1, <1>2
<1>4. Newest \in N /\ \A k \in N : k <= Newest
  BY <1>3, MaxOfIs DEF Newest
<1>5. Keyed \subseteq N
  <2>1. Rollups \cup {"fct"} \subseteq Models
    BY DEF Rollups, Models
  <2> QED BY <2>1 DEF Keyed
<1>6. Newest \in Int /\ t \in Int /\ Lookback \in Int /\ N \subseteq Int
  BY <1>3, <1>4, LookbackAssumption, GridAssumption DEF Minutes
<1>7. Newest <= t + Lookback
  BY <1>6
<1> HIDE DEF N
<1>8. ASSUME NEW k \in Keyed PROVE k <= t + Lookback
  <2>1. k \in Int /\ k <= Newest
    BY <1>4, <1>5, <1>6
  <2> QED BY <1>6, <1>7, <2>1
<1> QED BY <1>8 DEF Wide

(* A change of one row of staging.                                          *)
LEMMA StagingMoves ==
  ASSUME Shape, RollupInv, UNCHANGED <<mart, batch, phase>>,
         NEW s0 \in Symbols, NEW t0 \in Minutes, NEW row \in Bars \cup {None},
         stg' = [stg EXCEPT ![s0][t0] = row],
         missed \subseteq missed',
         <<s0, t0>> \in missed' \/ (row # None /\ Wide(t0))
  PROVE  RollupInv'
<1>1. \A m \in Rollups, s \in Symbols, b \in Keys("agg") :
        /\ Content(m, mart[m], s, b)' = Content(m, mart[m], s, b)
        /\ Content(m, batch[m], s, b)' = Content(m, batch[m], s, b)
        /\ Near(m, mart[m], b)' <=> Near(m, mart[m], b)
        /\ Near(m, batch[m], b)' <=> Near(m, batch[m], b)
        /\ Landed(m, s, b)' = Landed(m, s, b)
        /\ MissedBucket(s, b) => MissedBucket(s, b)'
  BY Primed DEF Landed, MissedBucket
<1>2. /\ \A s \in Symbols, t \in Minutes : Landing(s, t)' = Landing(s, t)
      /\ \A s \in Symbols, b \in Keys("agg") :
           FctRow(s, b)' = FctRow(s, b) /\ LandRow(s, b)' = LandRow(s, b)
      /\ \A t : Wide(t)' <=> Wide(t)
  BY LandingPrimed DEF Wide, Keyed
<1>3. \A m, s, b : SourceContent(m, s, b)' = SourceContent(m, s, b)
  BY DEF SourceContent, FctRow, Bar, Content, Group, OrNone, RowSet
<1>4. \A s \in Symbols, t \in Minutes : <<s, t>> # <<s0, t0>> => stg'[s][t] = stg[s][t]
  BY DEF Shape, TypeOK
<1>5. \A s \in Symbols : stg[s] \in Series1m /\ stg'[s] \in Series1m
  BY DEF Shape, TypeOK, Series1m
<1>6. ASSUME NEW s \in Symbols, NEW b \in Keys("agg")
      PROVE  \/ StgRow(s, b)' = StgRow(s, b)
             \/ MissedBucket(s, b)'
             \/ /\ StgRow(s, b)' # None
                /\ \A m \in Rollups : Near(m, mart[m], b) /\ Near(m, batch[m], b)
  <2>1. StgRow(s, b)' = OrNone(Group(stg'[s], b, Bucket, 0))
    BY DEF StgRow, Group, OrNone
  <2>2. CASE s = s0 /\ t0 \in Span(b, Bucket)
    <3>1. CASE <<s0, t0>> \in missed'
      BY <2>2, <3>1 DEF MissedBucket
    <3>2. CASE row # None /\ Wide(t0)
      <4>1. stg'[s][t0] = row
        BY <2>2 DEF Shape, TypeOK
      <4>2. StgRow(s, b)' # None
        BY <1>5, <2>1, <2>2, <3>2, <4>1, GroupIs
      <4> QED BY <2>2, <3>2, <4>2, WideIsNear
    <3> QED BY <3>1, <3>2
  <2>3. CASE ~(s = s0 /\ t0 \in Span(b, Bucket))
    <3>1. \A t \in Span(b, Bucket) : stg'[s][t] = stg[s][t]
      BY <1>4, <2>3 DEF Span
    <3>2. Group(stg'[s], b, Bucket, 0) = Group(stg[s], b, Bucket, 0)
      BY <1>5, <3>1, GroupSame
    <3> QED BY <2>1, <3>2 DEF StgRow
  <2> QED BY <2>2, <2>3
<1>7. Ordered'
  BY DEF RollupInv, Ordered
<1>8. Fresh'
  BY <1>2, <1>4 DEF RollupInv, Fresh
<1>9. ASSUME NEW m \in Rollups PROVE OneRollup(m)'
  <2>1. OneRollup(m)
    BY DEF RollupInv
  <2>2. GoodTables(m)' /\ QuietRollup(m)'
    BY <2>1 DEF OneRollup, GoodTables, QuietRollup, GoodRows, Keys
  <2>3. BatchIsNear(m)'
    BY <1>1, <2>1 DEF OneRollup, BatchIsNear
  <2>4. GoneContent(m)'
    BY <1>1, <1>6, <2>1 DEF OneRollup, GoneContent
  <2>5. RollupStale(m)'
    BY <1>1, <1>6, <2>1 DEF OneRollup, RollupStale, RowSet
  <2>6. LandedStale(m)'
    BY <1>1, <1>6, <2>1 DEF OneRollup, LandedStale, RowSet
  <2>7. Kept(m)'
    BY <1>1, <1>2, <2>1 DEF OneRollup, Kept
  <2>8. Follows(m)'
    BY <1>1, <1>3, <2>1 DEF OneRollup, Follows
  <2> QED BY <2>2, <2>3, <2>4, <2>5, <2>6, <2>7, <2>8 DEF OneRollup
<1> QED BY <1>7, <1>8, <1>9 DEF RollupInv

(* A step that leaves the three tables, their phases and staging alone.     *)
LEMMA RollupsUntouched ==
  ASSUME RollupInv, UNCHANGED <<stg, missed>>,
         \A m \in Rollups \cup {"fct"} :
           mart'[m] = mart[m] /\ batch'[m] = batch[m] /\ phase'[m] = phase[m]
  PROVE  RollupInv'
<1>1. \A m \in Rollups, s \in Symbols, b \in Keys("agg") :
        /\ Content(m, mart[m], s, b)' = Content(m, mart[m], s, b)
        /\ Content(m, batch[m], s, b)' = Content(m, batch[m], s, b)
        /\ Near(m, mart[m], b)' <=> Near(m, mart[m], b)
        /\ Near(m, batch[m], b)' <=> Near(m, batch[m], b)
        /\ Landed(m, s, b)' = Landed(m, s, b)
        /\ StgRow(s, b)' = StgRow(s, b)
        /\ MissedBucket(s, b)' <=> MissedBucket(s, b)
  BY Primed DEF Landed
<1>2. /\ \A s \in Symbols, t \in Minutes : Landing(s, t)' = Landing(s, t)
      /\ \A s \in Symbols, b \in Keys("agg") :
           FctRow(s, b)' = FctRow(s, b) /\ LandRow(s, b)' = LandRow(s, b)
  BY LandingPrimed
<1>3. \A t : Wide(t)' <=> Wide(t)
  BY DEF Wide, Keyed, Filled
<1>4. \A m \in Rollups, s \in Symbols, b \in Keys("agg") :
        SourceContent(m, s, b)' = SourceContent(m, s, b)
  BY <1>1, <1>2 DEF SourceContent, Rollups, RowSet
<1>5. Ordered' /\ Fresh'
  BY <1>2, <1>3 DEF RollupInv, Ordered, Fresh, Rollups
<1>6. ASSUME NEW m \in Rollups PROVE OneRollup(m)'
  <2>1. OneRollup(m)
    BY DEF RollupInv
  <2>2. GoodTables(m)' /\ QuietRollup(m)'
    BY <2>1 DEF OneRollup, GoodTables, QuietRollup, GoodRows, Keys
  <2>3. BatchIsNear(m)' /\ GoneContent(m)' /\ RollupStale(m)' /\ LandedStale(m)'
    BY <1>1, <2>1 DEF OneRollup, BatchIsNear, GoneContent, RollupStale, LandedStale, RowSet
  <2>4. Kept(m)' /\ Follows(m)'
    BY <1>1, <1>2, <1>4, <2>1 DEF OneRollup, Kept, Follows
  <2> QED BY <2>2, <2>3, <2>4 DEF OneRollup
<1> QED BY <1>5, <1>6 DEF RollupInv

(* A new build: nothing has been selected in it yet.                        *)
LEMMA StartBuildKeeps ==
  ASSUME Shape, RollupInv, StartBuild PROVE RollupInv'
<1>1. /\ \A m \in Rollups \cup {"fct"} :
           phase'[m] = "waiting" /\ phase[m] \notin {"selected", "deleted"}
      /\ UNCHANGED <<stg, mart, batch, missed>>
  BY DEF StartBuild, Running, Rollups, Models
<1>2. \A m \in Rollups, s \in Symbols, b \in Keys("agg") :
        /\ Content(m, mart[m], s, b)' = Content(m, mart[m], s, b)
        /\ Content(m, batch[m], s, b)' = Content(m, batch[m], s, b)
        /\ Near(m, mart[m], b)' <=> Near(m, mart[m], b)
        /\ Near(m, batch[m], b)' <=> Near(m, batch[m], b)
        /\ Landed(m, s, b)' = Landed(m, s, b)
        /\ StgRow(s, b)' = StgRow(s, b)
        /\ MissedBucket(s, b)' <=> MissedBucket(s, b)
  BY <1>1, Primed DEF Landed
<1>3. Ordered' /\ Fresh'
  BY <1>1 DEF Ordered, Fresh, Rollups, Busy
<1>4. ASSUME NEW m \in Rollups PROVE OneRollup(m)'
  <2>1. OneRollup(m)
    BY DEF RollupInv
  <2>2. GoodTables(m)' /\ QuietRollup(m)'
    BY <1>1, <2>1 DEF OneRollup, GoodTables, QuietRollup, GoodRows, Keys
  <2>3. BatchIsNear(m)' /\ GoneContent(m)' /\ RollupStale(m)' /\ LandedStale(m)'
    BY <1>1, <1>2, <2>1 DEF OneRollup, BatchIsNear, GoneContent, RollupStale, LandedStale, RowSet
  <2>4. Kept(m)' /\ Follows(m)'
    BY <1>1 DEF Kept, Follows, Busy
  <2> QED BY <2>2, <2>3, <2>4 DEF OneRollup
<1> QED BY <1>3, <1>4 DEF RollupInv

(* A step of one rollup's own table: what is left to show is about it.      *)
LEMMA OneRollupWrites ==
  ASSUME RollupInv, NEW m0 \in Rollups, phase[m0] # "done", UNCHANGED <<stg, missed>>,
         \A m \in (Rollups \cup {"fct"}) \ {m0} :
           mart'[m] = mart[m] /\ batch'[m] = batch[m] /\ phase'[m] = phase[m],
         phase'[m0] \in Busy => phase[IF m0 = "agg" THEN "fct" ELSE "agg"] = "done",
         \A k \in Keyed' : k \in Int /\ \E j \in Keyed : j \in Int /\ k <= j,
         OneRollup(m0)'
  PROVE  RollupInv'
<1>1. \A m \in Rollups \ {m0}, s \in Symbols, b \in Keys("agg") :
        /\ Content(m, mart[m], s, b)' = Content(m, mart[m], s, b)
        /\ Content(m, batch[m], s, b)' = Content(m, batch[m], s, b)
        /\ Near(m, mart[m], b)' <=> Near(m, mart[m], b)
        /\ Near(m, batch[m], b)' <=> Near(m, batch[m], b)
        /\ Landed(m, s, b)' = Landed(m, s, b)
        /\ StgRow(s, b)' = StgRow(s, b)
        /\ MissedBucket(s, b)' <=> MissedBucket(s, b)
  BY Primed DEF Landed
<1>2. "fct" # m0 /\ phase'["fct"] = phase["fct"]
  BY DEF Rollups
<1>3. /\ \A s \in Symbols, t \in Minutes : Landing(s, t)' = Landing(s, t)
      /\ \A s \in Symbols, b \in Keys("agg") :
           FctRow(s, b)' = FctRow(s, b) /\ LandRow(s, b)' = LandRow(s, b)
  BY <1>2, LandingPrimed
<1>4. \A t \in Minutes : Wide(t) => Wide(t)'
  <2> SUFFICES ASSUME NEW t \in Minutes, Wide(t), NEW k \in Keyed' PROVE k <= t + Lookback
    BY DEF Wide
  <2>1. PICK j \in Keyed : k \in Int /\ j \in Int /\ k <= j
    OBVIOUS
  <2>2. j <= t + Lookback
    BY DEF Wide
  <2> QED BY <2>1, <2>2, LookbackAssumption, GridAssumption DEF Minutes
<1>5. Fresh'
  BY <1>2, <1>3, <1>4 DEF RollupInv, Fresh
<1>6. Ordered'
  BY <1>2 DEF RollupInv, Ordered, Rollups, Busy
<1>7. ASSUME NEW m \in Rollups \ {m0} PROVE OneRollup(m)'
  <2>1. OneRollup(m)
    BY DEF RollupInv
  <2>2. GoodTables(m)' /\ QuietRollup(m)'
    BY <2>1 DEF OneRollup, GoodTables, QuietRollup, GoodRows, Keys
  <2>3. BatchIsNear(m)' /\ GoneContent(m)' /\ RollupStale(m)' /\ LandedStale(m)'
    BY <1>1, <2>1 DEF OneRollup, BatchIsNear, GoneContent, RollupStale, LandedStale, RowSet
  <2>4. Kept(m)'
    BY <1>1, <1>2, <1>3, <2>1 DEF OneRollup, Kept
  <2>5. Follows(m)'
    <3>1. CASE m = "agg"
      <4>1. \A s \in Symbols, b \in Keys("agg") : SourceContent(m, s, b)' = SourceContent(m, s, b)
        BY <1>3, <3>1 DEF SourceContent, RowSet
      <4> QED BY <1>1, <2>1, <4>1 DEF OneRollup, Follows
    <3>2. CASE m = "daily"
      <4>1. m0 = "agg" /\ phase[m] \notin Busy /\ phase'[m] = phase[m]
        BY <3>2 DEF RollupInv, Ordered, Rollups
      <4> QED BY <4>1 DEF Follows
    <3> QED BY <3>1, <3>2 DEF Rollups
  <2> QED BY <2>2, <2>3, <2>4, <2>5 DEF OneRollup
<1> QED BY <1>5, <1>6, <1>7 DEF RollupInv

---------------------------------------------------------------------------
(* A rollup selects.                                                        *)

\* Where a rollup stands when it may select: what it reads is complete.
SourceDone(m) ==
  /\ phase["fct"] = "done" /\ (m = "daily" => phase["agg"] = "done")
  /\ \A s \in Symbols, t \in Minutes : Pending[s][t] = None
  /\ m = "daily" => \A s \in Symbols, b \in Keys("agg") : batch["agg"][s][b] = None

LEMMA MaySelect ==
  ASSUME Shape, FreshnessInv, RollupInv, NEW m \in Rollups, Select(m)
  PROVE  SourceDone(m) /\ \A s \in Symbols, k \in Keys(m) : batch[m][s][k] = None
<1>1. phase[m] = "waiting" /\ \A parent \in Parents[m] : phase[parent] = "done"
  BY DEF Select
<1>2. phase["fct"] = "done" /\ (m = "daily" => phase["agg"] = "done")
  BY <1>1 DEF Parents, Rollups, RollupInv, Ordered, Busy
<1>3. \A s \in Symbols, t \in Minutes : Pending[s][t] = None
  BY <1>2 DEF FreshnessInv, Quiet
<1>4. \A q \in Rollups : phase[q] \in {"waiting", "done"} =>
        \A s \in Symbols, k \in Keys(q) : batch[q][s][k] = None
  BY DEF RollupInv, OneRollup, QuietRollup
<1> QED BY <1>1, <1>2, <1>3, <1>4 DEF SourceDone, Rollups

LEMMA SourceLanding ==
  ASSUME Shape, RollupInv, NEW m \in Rollups, SourceDone(m),
         NEW s \in Symbols, NEW b \in Keys("agg")
  PROVE  /\ \A t \in Minutes : Landing(s, t) = Bar(s, t)
         /\ LandRow(s, b) = FctRow(s, b)
         /\ SourceContent(m, s, b) = RowSet(FctRow(s, b)) \/ MissedBucket(s, b)
<1>1. \A t \in Minutes : Landing(s, t) = Bar(s, t)
  BY DEF SourceDone, Landing
<1>2. LandRow(s, b) = FctRow(s, b)
  <2>1. [t \in Minutes |-> Landing(s, t)] = [t \in Minutes |-> Bar(s, t)]
    BY <1>1
  <2> QED BY <2>1, Zenon DEF LandRow, FctRow
<1>3. CASE m = "agg"
  BY <1>1, <1>2, <1>3 DEF SourceContent
<1>4. CASE m = "daily"
  <2>1. Key("agg", b) = b /\ "agg" \in Rollups /\ "daily" # "agg"
    BY BucketIs
  <2>2. phase["agg"] = "done" /\ batch["agg"][s][b] = None
    BY <1>4 DEF SourceDone
  <2>3. Landed("agg", s, b) = SourceContent("agg", s, b) \/ MissedBucket(s, b)
    BY <2>1, <2>2 DEF RollupInv, OneRollup, Follows, Busy
  <2>4. Landed("agg", s, b) = Content("agg", mart["agg"], s, b)
    BY <2>1, <2>2 DEF Landed
  <2> QED BY <1>1, <1>2, <1>4, <2>1, <2>3, <2>4 DEF SourceContent
<1> QED BY <1>1, <1>2, <1>3, <1>4 DEF Rollups

LEMMA SelfSpan ==
  ASSUME NEW b \in Keys("agg") PROVE b \in Span(b, Bucket)
BY BucketIs DEF Span, Key, Grain

(* Where the source differs from staging, no selected key is beyond reach.  *)
LEMMA SourceStale ==
  ASSUME Shape, FreshnessInv, RollupInv, NEW m \in Rollups,
         NEW s \in Symbols, NEW b \in Keys("agg")
  PROVE  \/ SourceContent(m, s, b) = RowSet(StgRow(s, b))
         \/ Near(m, Selected(m), b)
         \/ MissedBucket(s, b)
<1>0. RowsAreRows
  BY DEF RollupInv, OneRollup, RowsAreRows
<1>1. CASE m = "agg"
  <2> SUFFICES ASSUME FctRow(s, b) # StgRow(s, b), ~MissedBucket(s, b)
               PROVE  Near(m, Selected(m), b)
    BY <1>1 DEF SourceContent
  <2>1. PICK t \in Span(b, Bucket) : Bar(s, t) # stg[s][t]
    BY BucketRowsAre
  <2>2. t \in Minutes /\ <<s, t>> \notin missed
    BY DEF Span, MissedBucket
  <2>3. InWindow(Fact, t)
    BY <2>1, <2>2 DEF FreshnessInv, FactStale
  <2> SUFFICES ASSUME NEW q \in Symbols, NEW k \in Keys(m), Selected(m)[q][k] # None
               PROVE  k <= Key(m, b) + Reach(m)
    BY DEF Near
  <2>4. PICK u \in Minutes : Key(m, u) = k /\ Fact[q][u] # None
    BY <1>0, <1>1, SelectedKeys
  <2>5. u <= t + Lookback
    BY <2>3, <2>4 DEF InWindow
  <2> QED BY <2>4, <2>5, WithinReach
<1>2. CASE m = "daily"
  <2>1. "agg" \in Rollups /\ Key("agg", b) = b /\ Reach("agg") = Lookback /\ m # "agg"
    BY <1>2, BucketIs DEF Reach
  <2> SUFFICES ASSUME Content("agg", mart["agg"], s, b) # RowSet(StgRow(s, b)), ~MissedBucket(s, b)
               PROVE  Near(m, Selected(m), b)
    BY <2>1 DEF SourceContent
  <2>2. Near("agg", mart["agg"], b)
    BY <2>1 DEF RollupInv, OneRollup, RollupStale
  <2> SUFFICES ASSUME NEW q \in Symbols, NEW k \in Keys(m), Selected(m)[q][k] # None
               PROVE  k <= Key(m, b) + Reach(m)
    BY DEF Near
  <2>3. PICK u \in Minutes : Key(m, u) = k /\ u \in Keys("agg") /\ mart["agg"][q][u] # None
    BY <1>0, <1>2, SelectedKeys
  <2>4. u <= b + Lookback
    BY <2>1, <2>2, <2>3 DEF Near
  <2> QED BY <2>3, <2>4, SelfSpan, WithinReach
<1> QED BY <1>1, <1>2 DEF Rollups

(* While the parent is complete, the source differs only in the window.     *)
LEMMA SourceFresh ==
  ASSUME Shape, RollupInv, NEW m \in Rollups, SourceDone(m),
         NEW s \in Symbols, NEW b \in Keys("agg")
  PROVE  \/ SourceContent(m, s, b) = RowSet(StgRow(s, b))
         \/ Near(m, mart[m], b)
         \/ MissedBucket(s, b)
<1> SUFFICES ASSUME ~MissedBucket(s, b), SourceContent(m, s, b) # RowSet(StgRow(s, b))
             PROVE  Near(m, mart[m], b)
  OBVIOUS
<1>1. FctRow(s, b) # StgRow(s, b)
  BY SourceLanding
<1>2. PICK t \in Span(b, Bucket) : Bar(s, t) # stg[s][t]
  BY <1>1, BucketRowsAre
<1>3. t \in Minutes /\ <<s, t>> \notin missed
  BY DEF Span, MissedBucket
<1>4. Landing(s, t) = Bar(s, t)
  BY <1>3, SourceLanding
<1>5. Wide(t)
  BY <1>2, <1>3, <1>4 DEF RollupInv, Fresh, SourceDone, Busy
<1> QED BY <1>5, WideIsNear

(* A bucket the source has: staging has it, unless it was deleted there.    *)
LEMMA SourceGone ==
  ASSUME Shape, FreshnessInv, RollupInv, NEW m \in Rollups,
         NEW s \in Symbols, NEW b \in Keys("agg"), SourceContent(m, s, b) # {}
  PROVE  StgRow(s, b) # None \/ MissedBucket(s, b)
<1>1. CASE m = "agg"
  <2> SUFFICES ASSUME StgRow(s, b) = None PROVE MissedBucket(s, b)
    OBVIOUS
  <2>1. FctRow(s, b) # None
    BY <1>1 DEF SourceContent, RowSet
  <2>2. PICK t \in Span(b, Bucket) : Bar(s, t) # None
    BY <2>1, BucketRowsAre
  <2>3. t \in Minutes /\ stg[s][t] = None
    BY BucketRowsAre DEF Span
  <2>4. Fact[s][t] # None
    BY <2>2 DEF Bar, Fact
  <2>5. <<s, t>> \in missed
    BY <2>3, <2>4 DEF FreshnessInv, GoneIsMissed
  <2> QED BY <2>5 DEF MissedBucket
<1>2. CASE m = "daily"
  BY <1>2 DEF SourceContent, RollupInv, OneRollup, GoneContent, Rollups
<1> QED BY <1>1, <1>2 DEF Rollups

(* Selecting adds no key beyond those the tables have.                      *)
LEMMA SelectedWithin ==
  ASSUME Shape, RowsAreRows, NEW m \in Rollups, NEW k \in Filled(Selected(m))
  PROVE  k \in Int /\ \E j \in Keyed : j \in Int /\ k <= j
<1>1. m \in Models /\ "agg" \in Rollups
  BY Grains DEF Rollups
<1>2. \A s \in Symbols : DOMAIN Selected(m)[s] = Keys(m)
  BY DEF Selected
<1>3. PICK s \in Symbols : k \in Keys(m) /\ Selected(m)[s][k] # None
  BY <1>1, <1>2, FilledIs
<1>4. PICK t \in Minutes : /\ Key(m, t) = k
                           /\ m = "agg" => Fact[s][t] # None
                           /\ m = "daily" => t \in Keys("agg") /\ mart["agg"][s][t] # None
  BY <1>3, SelectedKeys
<1>5. k \in Int /\ k <= t /\ t \in Int
  BY <1>4, KeyIs, GridAssumption DEF Minutes
<1>6. CASE m = "agg"
  <2>1. t \in Filled(mart["fct"])
    BY <1>4, <1>6, FilledFact DEF Shape, Fact
  <2>2. t \in Keyed
    BY <2>1 DEF Keyed
  <2> QED BY <1>5, <2>2
<1>7. CASE m = "daily"
  <2>1. \A q \in Symbols : DOMAIN mart["agg"][q] = Keys("agg")
    BY <1>1, Grains DEF Shape, TypeOK
  <2>2. t \in Filled(mart["agg"])
    BY <1>4, <1>7, <2>1 DEF Filled
  <2>3. t \in Keyed
    BY <1>1, <2>2 DEF Keyed
  <2> QED BY <1>5, <2>3
<1> QED BY <1>6, <1>7 DEF Rollups

LEMMA KeyedAreKeys ==
  ASSUME Shape PROVE Keyed \subseteq Minutes /\ \A k \in Keyed : k \in Int
<1>1. \A m \in Rollups \cup {"fct"} : m \in Models
  BY DEF Rollups, Models
<1>2. \A m \in Rollups \cup {"fct"} : Filled(mart[m]) \cup Filled(batch[m]) \subseteq Minutes
  BY <1>1, FilledAreMinutes
<1>3. Keyed \subseteq Minutes
  BY <1>2 DEF Keyed
<1> QED BY <1>3, GridAssumption DEF Minutes

LEMMA RollupSelects ==
  ASSUME Shape, FreshnessInv, RollupInv, NEW m \in Rollups, Select(m)
  PROVE  RollupInv'
<1> DEFINE S == Selected(m)
<1>1. /\ SourceDone(m) /\ RowsAreRows /\ OneRollup(m) /\ m \in Models /\ "fct" \notin Rollups
      /\ \A s \in Symbols, k \in Keys(m) : batch[m][s][k] = None
  BY MaySelect, Grains DEF RollupInv, OneRollup, RowsAreRows, Rollups
<1>2. /\ UNCHANGED <<stg, missed, mart>> /\ phase[m] = "waiting" /\ phase'[m] = "selected"
      /\ batch'[m] = S
      /\ \A q \in (Rollups \cup {"fct"}) \ {m} :
           mart'[q] = mart[q] /\ batch'[q] = batch[q] /\ phase'[q] = phase[q]
  BY <1>1 DEF Select, Shape, TypeOK, Rollups, Models
<1>3. phase[IF m = "agg" THEN "fct" ELSE "agg"] = "done"
  BY <1>1 DEF SourceDone, Rollups
<1>4. \A k \in Keyed' : k \in Int /\ \E j \in Keyed : j \in Int /\ k <= j
  <2> SUFFICES ASSUME NEW k \in Keyed' PROVE k \in Int /\ \E j \in Keyed : j \in Int /\ k <= j
    OBVIOUS
  <2>1. Keyed' \subseteq Keyed \cup Filled(S)
    BY <1>2 DEF Keyed, Filled
  <2>2. CASE k \in Keyed
    BY <2>2, KeyedAreKeys
  <2>3. CASE k \in Filled(S)
    BY <1>1, <2>3, SelectedWithin
  <2> QED BY <2>1, <2>2, <2>3
<1>5. GoodTables(m)'
  <2>1. \A s \in Symbols : \A k \in Keys(m) : S[s][k] \in GoodRows(m, k)
    BY <1>1, SelectedGood
  <2> HIDE DEF S
  <2> QED BY <1>1, <1>2, <2>1 DEF OneRollup, GoodTables, GoodRows, Keys
<1>6. QuietRollup(m)'
  BY <1>2 DEF QuietRollup
<1> DEFINE L(s, b) == Content(m, IF S[s][Key(m, b)] = None THEN mart[m] ELSE S, s, b)
<1>7. ASSUME NEW s \in Symbols, NEW b \in Keys("agg")
      PROVE  /\ Content(m, mart[m], s, b)' = Content(m, mart[m], s, b)
             /\ Content(m, batch[m], s, b)' = Content(m, S, s, b)
             /\ Near(m, mart[m], b)' <=> Near(m, mart[m], b)
             /\ Near(m, batch[m], b)' <=> Near(m, S, b)
             /\ Landed(m, s, b)' = L(s, b)
             /\ StgRow(s, b)' = StgRow(s, b)
             /\ MissedBucket(s, b)' <=> MissedBucket(s, b)
  BY <1>2, Primed
<1>8. ASSUME NEW s \in Symbols, NEW b \in Keys("agg")
      PROVE  /\ Near(m, mart[m], b) => Content(m, S, s, b) = SourceContent(m, s, b)
             /\ ~Near(m, mart[m], b) => S[s][Key(m, b)] = None
             /\ S[s][Key(m, b)] = None =>
                  Content(m, S, s, b) = {} /\ L(s, b) = Content(m, mart[m], s, b)
             /\ S[s][Key(m, b)] # None => L(s, b) = Content(m, S, s, b)
  BY <1>1, SelectedContent, EmptyContent
<1>9. /\ \A s \in Symbols, b \in Keys("agg") :
           FctRow(s, b)' = FctRow(s, b) /\ LandRow(s, b)' = LandRow(s, b)
      /\ phase'["fct"] = phase["fct"]
  BY <1>1, <1>2, LandingPrimed
<1>10. \A s \in Symbols, b \in Keys("agg") : SourceContent(m, s, b)' = SourceContent(m, s, b)
  BY <1>2, <1>9 DEF SourceContent, Content, RowSet
<1> HIDE DEF S, L
<1>11. BatchIsNear(m)'
  BY <1>2, <1>7, <1>8 DEF BatchIsNear
<1>12. GoneContent(m)'
  <2>1. ASSUME NEW s \in Symbols, NEW b \in Keys("agg"), Content(m, S, s, b) # {}
        PROVE  StgRow(s, b) # None \/ MissedBucket(s, b)
    BY <1>8, <2>1, SourceGone
  <2> QED BY <1>1, <1>7, <2>1 DEF OneRollup, GoneContent
<1>13. RollupStale(m)'
  BY <1>1, <1>7 DEF OneRollup, RollupStale, RowSet
<1>14. LandedStale(m)'
  <2> SUFFICES ASSUME NEW s \in Symbols, NEW b \in Keys("agg"), ~MissedBucket(s, b)
               PROVE  L(s, b) = RowSet(StgRow(s, b)) \/ (Near(m, mart[m], b) /\ Near(m, S, b))
    BY <1>7 DEF LandedStale, RowSet
  <2>1. CASE ~Near(m, mart[m], b)
    BY <1>1, <1>8, <2>1 DEF OneRollup, RollupStale
  <2>2. CASE Near(m, mart[m], b) /\ SourceContent(m, s, b) = RowSet(StgRow(s, b))
    <3>1. CASE S[s][Key(m, b)] # None
      BY <1>8, <2>2, <3>1
    <3>2. CASE S[s][Key(m, b)] = None
      <4>1. RowSet(StgRow(s, b)) = {} /\ StgRow(s, b) = None
        BY <1>8, <2>2, <3>2 DEF RowSet
      <4>2. Content(m, mart[m], s, b) = {}
        BY <1>1, <4>1 DEF OneRollup, GoneContent
      <4> QED BY <1>8, <3>2, <4>1, <4>2
    <3> QED BY <3>1, <3>2
  <2>3. CASE Near(m, mart[m], b) /\ SourceContent(m, s, b) # RowSet(StgRow(s, b))
    BY <2>3, SourceStale DEF S
  <2> QED BY <2>1, <2>2, <2>3
<1>15. ASSUME NEW s \in Symbols, NEW b \in Keys("agg"),
              Content(m, mart[m], s, b) # {} \/ SourceContent(m, s, b) # {}
       PROVE  (LandRow(s, b) # None /\ SourceContent(m, s, b) # {}) \/ MissedBucket(s, b)
  <2>1. LandRow(s, b) = FctRow(s, b)
        /\ (SourceContent(m, s, b) = RowSet(FctRow(s, b)) \/ MissedBucket(s, b))
    BY <1>1, SourceLanding
  <2>2. Content(m, mart[m], s, b) # {} => LandRow(s, b) # None \/ MissedBucket(s, b)
    BY <1>1 DEF OneRollup, Kept, SourceDone, Busy
  <2> QED BY <1>15, <2>1, <2>2 DEF RowSet
<1>16. Kept(m)'
  <2> SUFFICES ASSUME NEW s \in Symbols, NEW b \in Keys("agg")
               PROVE  \/ Content(m, mart[m], s, b) = {} /\ Content(m, S, s, b) = {}
                      \/ LandRow(s, b) # None
                      \/ MissedBucket(s, b)
    BY <1>7, <1>9 DEF Kept
  <2> QED BY <1>8, <1>15
<1>17. Follows(m)'
  <2> SUFFICES ASSUME NEW s \in Symbols, NEW b \in Keys("agg"), ~MissedBucket(s, b)
               PROVE  L(s, b) = SourceContent(m, s, b)
    BY <1>7, <1>10 DEF Follows
  <2>1. CASE S[s][Key(m, b)] # None
    BY <1>8, <2>1
  <2>2. CASE S[s][Key(m, b)] = None /\ Near(m, mart[m], b)
    BY <1>8, <1>15, <2>2
  <2>3. CASE ~Near(m, mart[m], b)
    <3>1. SourceContent(m, s, b) = RowSet(StgRow(s, b))
      BY <1>1, <2>3, SourceFresh
    <3>2. Content(m, mart[m], s, b) = RowSet(StgRow(s, b))
      BY <1>1, <2>3 DEF OneRollup, RollupStale
    <3> QED BY <1>8, <2>3, <3>1, <3>2
  <2> QED BY <2>1, <2>2, <2>3
<1>18. OneRollup(m)'
  BY <1>5, <1>6, <1>11, <1>12, <1>13, <1>14, <1>16, <1>17 DEF OneRollup
<1> QED BY <1>2, <1>3, <1>4, <1>18, OneRollupWrites

---------------------------------------------------------------------------
(* A rollup deletes, inserts or fails.                                      *)

LEMMA ContentSame ==
  ASSUME NEW m, NEW T, NEW U, NEW s, NEW b, T[s][Key(m, b)] = U[s][Key(m, b)]
  PROVE  Content(m, T, s, b) = Content(m, U, s, b)
BY DEF Content

(* What such a step has in common: no new key, staging and source as before.*)
LEMMA OwnStep ==
  ASSUME Shape, RollupInv, NEW m \in Rollups, Delete(m) \/ Insert(m) \/ Fail(m)
  PROVE  /\ m \in Models /\ phase[m] \in {"selected", "deleted"} /\ UNCHANGED <<stg, missed>>
         /\ phase'[m] \in {"deleted", "done", "failed"}
         /\ \A q \in (Rollups \cup {"fct"}) \ {m} :
              mart'[q] = mart[q] /\ batch'[q] = batch[q] /\ phase'[q] = phase[q]
         /\ phase[IF m = "agg" THEN "fct" ELSE "agg"] = "done"
         /\ \A s \in Symbols, b \in Keys("agg") :
              /\ StgRow(s, b)' = StgRow(s, b) /\ (MissedBucket(s, b)' <=> MissedBucket(s, b))
              /\ LandRow(s, b)' = LandRow(s, b) /\ SourceContent(m, s, b)' = SourceContent(m, s, b)
         /\ phase'["fct"] = phase["fct"]
         /\ mart'[m] \in {mart[m], [s \in Symbols |-> [k \in Keys(m) |->
              IF batch[m][s][k] # None THEN None ELSE mart[m][s][k]]],
              [s \in Symbols |-> [k \in Keys(m) |->
              IF batch[m][s][k] # None THEN batch[m][s][k] ELSE mart[m][s][k]]]}
         /\ batch'[m] \in {batch[m], Empty(m)}
<1>1. m \in Models /\ "fct" \notin Rollups /\ "fct" # m
  BY Grains DEF Rollups
<1>2. phase[m] \in {"selected", "deleted"} /\ UNCHANGED <<stg, missed>>
  BY DEF Delete, Insert, Fail
<1>3. /\ phase'[m] \in {"deleted", "done", "failed"}
      /\ \A q \in (Rollups \cup {"fct"}) \ {m} :
           mart'[q] = mart[q] /\ batch'[q] = batch[q] /\ phase'[q] = phase[q]
  BY <1>1 DEF Delete, Insert, Fail, Shape, TypeOK, Rollups, Models
<1>4. phase[IF m = "agg" THEN "fct" ELSE "agg"] = "done"
  BY <1>2 DEF RollupInv, Ordered, Rollups, Busy
<1>5. \A s \in Symbols, b \in Keys("agg") :
        /\ StgRow(s, b)' = StgRow(s, b) /\ (MissedBucket(s, b)' <=> MissedBucket(s, b))
  BY <1>2, Primed
<1>6. \A s \in Symbols, b \in Keys("agg") :
        FctRow(s, b)' = FctRow(s, b) /\ LandRow(s, b)' = LandRow(s, b)
  BY <1>1, <1>3, LandingPrimed
<1>7. \A s \in Symbols, b \in Keys("agg") : SourceContent(m, s, b)' = SourceContent(m, s, b)
  <2>1. CASE m = "agg"
    BY <1>6, <2>1 DEF SourceContent, RowSet
  <2>2. CASE m = "daily"
    <3>1. mart'["agg"] = mart["agg"] /\ m # "agg"
      BY <1>3, <2>2 DEF Rollups
    <3> QED BY <3>1 DEF SourceContent, Content
  <2> QED BY <2>1, <2>2 DEF Rollups
<1>8. /\ mart'[m] \in {mart[m], [s \in Symbols |-> [k \in Keys(m) |->
              IF batch[m][s][k] # None THEN None ELSE mart[m][s][k]]],
              [s \in Symbols |-> [k \in Keys(m) |->
              IF batch[m][s][k] # None THEN batch[m][s][k] ELSE mart[m][s][k]]]}
      /\ batch'[m] \in {batch[m], Empty(m)}
  BY <1>1 DEF Delete, Insert, Fail, Shape
<1> QED BY <1>1, <1>2, <1>3, <1>4, <1>5, <1>6, <1>7, <1>8

LEMMA OwnStepKeys ==
  ASSUME Shape, RollupInv, NEW m \in Rollups, Delete(m) \/ Insert(m) \/ Fail(m)
  PROVE  \A k \in Keyed' : k \in Int /\ \E j \in Keyed : j \in Int /\ k <= j
<1>1. m \in Models
  BY OwnStep
<1>2. \A s \in Symbols : DOMAIN mart[m][s] = Keys(m) /\ DOMAIN batch[m][s] = Keys(m)
  BY <1>1 DEF Shape, TypeOK
<1>3. Filled(mart'[m]) \cup Filled(batch'[m]) \subseteq Filled(mart[m]) \cup Filled(batch[m])
  BY <1>2, OwnStep DEF Filled, Empty
<1>4. \A q \in (Rollups \cup {"fct"}) \ {m} : mart'[q] = mart[q] /\ batch'[q] = batch[q]
  BY OwnStep
<1>5. Keyed' \subseteq Keyed
  <2>1. Keyed' = UNION {Filled(mart'[q]) \cup Filled(batch'[q]) : q \in Rollups \cup {"fct"}}
    BY DEF Keyed, Filled
  <2>2. \A q \in Rollups \cup {"fct"} :
          Filled(mart'[q]) \cup Filled(batch'[q]) \subseteq Filled(mart[q]) \cup Filled(batch[q])
    BY <1>3, <1>4
  <2> HIDE DEF Filled
  <2> QED BY <2>1, <2>2 DEF Keyed
<1> QED BY <1>5, KeyedAreKeys

LEMMA RollupDeletes ==
  ASSUME Shape, RollupInv, NEW m \in Rollups, Delete(m)
  PROVE  RollupInv'
<1> DEFINE D == [s \in Symbols |-> [k \in Keys(m) |->
                  IF batch[m][s][k] # None THEN None ELSE mart[m][s][k]]]
<1>1. /\ mart'[m] = D /\ batch'[m] = batch[m] /\ phase[m] = "selected" /\ phase'[m] = "deleted"
      /\ OneRollup(m)
  BY OwnStep DEF Delete, Shape, TypeOK, RollupInv
<1>2. ASSUME NEW s \in Symbols, NEW b \in Keys("agg")
      PROVE  /\ Key(m, b) \in Keys(m)
             /\ D[s][Key(m, b)] = IF batch[m][s][Key(m, b)] # None THEN None
                                  ELSE mart[m][s][Key(m, b)]
  BY BucketIs, KeyIs
<1>3. ASSUME NEW s \in Symbols, NEW b \in Keys("agg")
      PROVE  /\ Content(m, mart[m], s, b)' = Content(m, D, s, b)
             /\ Content(m, batch[m], s, b)' = Content(m, batch[m], s, b)
             /\ Near(m, mart[m], b)' <=> Near(m, D, b)
             /\ Near(m, batch[m], b)' <=> Near(m, batch[m], b)
             /\ Landed(m, s, b)' = Content(m, IF batch[m][s][Key(m, b)] = None THEN D
                                              ELSE batch[m], s, b)
  BY <1>1, Primed
<1>4. \A b \in Keys("agg") : Near(m, mart[m], b) => Near(m, D, b)
  BY DEF Near
<1>5. GoodTables(m)'
  <2>1. \A s \in Symbols : \A k \in Keys(m) : D[s][k] \in GoodRows(m, k)
    BY <1>1 DEF OneRollup, GoodTables, GoodRows
  <2> HIDE DEF D
  <2> QED BY <1>1, <2>1 DEF OneRollup, GoodTables, GoodRows, Keys
<1> HIDE DEF D
<1>6. ASSUME NEW s \in Symbols, NEW b \in Keys("agg")
      PROVE  /\ batch[m][s][Key(m, b)] # None => Content(m, D, s, b) = {}
             /\ batch[m][s][Key(m, b)] = None => Content(m, D, s, b) = Content(m, mart[m], s, b)
             /\ Landed(m, s, b)' = Landed(m, s, b)
  BY <1>2, <1>3, EmptyContent, ContentSame DEF Landed
<1>7. QuietRollup(m)' /\ BatchIsNear(m)'
  BY <1>1 DEF QuietRollup, BatchIsNear
<1>8. GoneContent(m)'
  BY <1>1, <1>3, <1>6, OwnStep DEF OneRollup, GoneContent
<1>9. RollupStale(m)'
  <2> SUFFICES ASSUME NEW s \in Symbols, NEW b \in Keys("agg")
               PROVE  \/ Content(m, D, s, b) = RowSet(StgRow(s, b))
                      \/ Near(m, D, b) \/ MissedBucket(s, b)
    BY <1>3, OwnStep DEF RollupStale, RowSet
  <2>1. CASE batch[m][s][Key(m, b)] # None
    BY <1>1, <1>4, <2>1 DEF OneRollup, BatchIsNear
  <2>2. CASE batch[m][s][Key(m, b)] = None
    BY <1>1, <1>4, <1>6, <2>2 DEF OneRollup, RollupStale
  <2> QED BY <2>1, <2>2
<1>10. LandedStale(m)'
  BY <1>1, <1>3, <1>4, <1>6, OwnStep DEF OneRollup, LandedStale, RowSet
<1>11. Kept(m)'
  BY <1>1, <1>3, <1>6, OwnStep DEF OneRollup, Kept
<1>12. Follows(m)'
  BY <1>1, <1>6, OwnStep DEF OneRollup, Follows, Busy
<1>13. OneRollup(m)'
  BY <1>5, <1>7, <1>8, <1>9, <1>10, <1>11, <1>12 DEF OneRollup
<1>14. UNCHANGED <<stg, missed>> /\ phase[m] # "done"
  BY <1>1, OwnStep
<1> QED BY <1>13, <1>14, OwnStep, OwnStepKeys, OneRollupWrites

LEMMA RollupInserts ==
  ASSUME Shape, RollupInv, NEW m \in Rollups, Insert(m)
  PROVE  RollupInv'
<1> DEFINE I == [s \in Symbols |-> [k \in Keys(m) |->
                  IF batch[m][s][k] # None THEN batch[m][s][k] ELSE mart[m][s][k]]]
<1>1. /\ mart'[m] = I /\ batch'[m] = Empty(m) /\ phase[m] = "deleted"
      /\ phase'[m] \in {"done", "failed"} /\ OneRollup(m)
  BY OwnStep DEF Insert, Shape, TypeOK, RollupInv
<1>2. ASSUME NEW s \in Symbols, NEW b \in Keys("agg")
      PROVE  /\ I[s][Key(m, b)] = IF batch[m][s][Key(m, b)] # None THEN batch[m][s][Key(m, b)]
                                  ELSE mart[m][s][Key(m, b)]
             /\ Empty(m)[s][Key(m, b)] = None
  BY BucketIs, KeyIs DEF Empty
<1>3. ASSUME NEW s \in Symbols, NEW b \in Keys("agg")
      PROVE  /\ Content(m, mart[m], s, b)' = Content(m, I, s, b)
             /\ Content(m, batch[m], s, b)' = Content(m, Empty(m), s, b)
             /\ Near(m, mart[m], b)' <=> Near(m, I, b)
             /\ Near(m, batch[m], b)' <=> Near(m, Empty(m), b)
             /\ Landed(m, s, b)' = Content(m, IF Empty(m)[s][Key(m, b)] = None THEN I
                                              ELSE Empty(m), s, b)
  BY <1>1, Primed
<1>4. \A b \in Keys("agg") : /\ Near(m, Empty(m), b)
                             /\ Near(m, mart[m], b) /\ Near(m, batch[m], b) => Near(m, I, b)
  BY DEF Near, Empty
<1>5. GoodTables(m)' /\ QuietRollup(m)'
  <2>1. \A s \in Symbols : \A k \in Keys(m) : /\ I[s][k] \in GoodRows(m, k)
                                              /\ Empty(m)[s][k] = None
    BY <1>1 DEF OneRollup, GoodTables, Empty
  <2>2. \A k \in Keys(m) : None \in GoodRows(m, k)
    BY DEF GoodRows
  <2> HIDE DEF I
  <2> QED BY <1>1, <2>1, <2>2 DEF GoodTables, GoodRows, Keys, QuietRollup
<1> HIDE DEF I
<1>6. ASSUME NEW s \in Symbols, NEW b \in Keys("agg")
      PROVE  /\ Content(m, Empty(m), s, b) = {}
             /\ Content(m, I, s, b) = Landed(m, s, b)
             /\ Landed(m, s, b)' = Landed(m, s, b)
             /\ Landed(m, s, b) \in {Content(m, mart[m], s, b), Content(m, batch[m], s, b)}
  BY <1>2, <1>3, EmptyContent, ContentSame DEF Landed
<1>7. BatchIsNear(m)'
  BY <1>1 DEF BatchIsNear
<1>8. GoneContent(m)'
  BY <1>1, <1>3, <1>6, OwnStep DEF OneRollup, GoneContent
<1>9. RollupStale(m)' /\ LandedStale(m)'
  BY <1>1, <1>3, <1>4, <1>6, OwnStep DEF OneRollup, LandedStale, RollupStale, RowSet
<1>10. Kept(m)'
  BY <1>1, <1>3, <1>6, OwnStep DEF OneRollup, Kept
<1>11. Follows(m)'
  BY <1>1, <1>6, OwnStep DEF OneRollup, Follows, Busy
<1>12. OneRollup(m)'
  BY <1>5, <1>7, <1>8, <1>9, <1>10, <1>11 DEF OneRollup
<1>13. UNCHANGED <<stg, missed>> /\ phase[m] # "done"
  BY <1>1, OwnStep
<1> QED BY <1>12, <1>13, OwnStep, OwnStepKeys, OneRollupWrites

LEMMA RollupFails ==
  ASSUME Shape, RollupInv, NEW m \in Rollups, Fail(m)
  PROVE  RollupInv'
<1>1. /\ mart'[m] = mart[m] /\ batch'[m] = Empty(m) /\ phase'[m] = "failed"
      /\ phase[m] # "done" /\ OneRollup(m)
  BY OwnStep DEF Fail, Shape, TypeOK, RollupInv
<1>2. ASSUME NEW s \in Symbols, NEW b \in Keys("agg")
      PROVE  /\ Empty(m)[s][Key(m, b)] = None
             /\ Content(m, Empty(m), s, b) = {}
             /\ Near(m, Empty(m), b)
  <2>1. Empty(m)[s][Key(m, b)] = None /\ Near(m, Empty(m), b)
    BY BucketIs, KeyIs DEF Empty, Near
  <2> QED BY <2>1, EmptyContent
<1>3. ASSUME NEW s \in Symbols, NEW b \in Keys("agg")
      PROVE  /\ Content(m, mart[m], s, b)' = Content(m, mart[m], s, b)
             /\ Content(m, batch[m], s, b)' = {}
             /\ Near(m, mart[m], b)' <=> Near(m, mart[m], b)
             /\ Near(m, batch[m], b)'
             /\ Landed(m, s, b)' = Content(m, mart[m], s, b)
  BY <1>1, <1>2, Primed
<1>4. GoodTables(m)' /\ QuietRollup(m)'
  <2>1. \A s \in Symbols : \A k \in Keys(m) : Empty(m)[s][k] = None /\ None \in GoodRows(m, k)
    BY DEF Empty, GoodRows
  <2> QED BY <1>1, <2>1 DEF OneRollup, GoodTables, GoodRows, Keys, QuietRollup
<1>5. BatchIsNear(m)' /\ Follows(m)'
  BY <1>1 DEF BatchIsNear, Follows, Busy
<1>6. GoneContent(m)' /\ RollupStale(m)' /\ LandedStale(m)' /\ Kept(m)'
  <2>1. \A s \in Symbols, b \in Keys("agg") :
          /\ StgRow(s, b)' = StgRow(s, b) /\ (MissedBucket(s, b)' <=> MissedBucket(s, b))
          /\ LandRow(s, b)' = LandRow(s, b)
    BY OwnStep
  <2>2. phase'["fct"] = phase["fct"]
    BY OwnStep
  <2>3. GoneContent(m)'
    BY <1>1, <1>3, <2>1 DEF OneRollup, GoneContent
  <2>4. RollupStale(m)'
    BY <1>1, <1>3, <2>1 DEF OneRollup, RollupStale, RowSet
  <2>5. LandedStale(m)'
    BY <1>1, <1>3, <2>1 DEF OneRollup, LandedStale, RollupStale, RowSet
  <2>6. Kept(m)'
    BY <1>1, <1>3, <2>1, <2>2 DEF OneRollup, Kept
  <2> QED BY <2>3, <2>4, <2>5, <2>6
<1>7. OneRollup(m)'
  BY <1>4, <1>5, <1>6 DEF OneRollup
<1>8. UNCHANGED <<stg, missed>>
  BY OwnStep
<1> QED BY <1>1, <1>7, <1>8, OwnStep, OwnStepKeys, OneRollupWrites

---------------------------------------------------------------------------
(* The fact table is rebuilt.                                               *)

(* A step of the fact table: the rollups have not started in this build.    *)
LEMMA FactWrites ==
  ASSUME Shape, RollupInv, phase["fct"] # "done",
         Select("fct") \/ Delete("fct") \/ Insert("fct") \/ Fail("fct"),
         Fresh', \A m \in Rollups : Kept(m)'
  PROVE  RollupInv'
<1>1. /\ UNCHANGED <<stg, missed>> /\ "agg" \in Rollups
      /\ \A m \in Rollups : mart'[m] = mart[m] /\ batch'[m] = batch[m] /\ phase'[m] = phase[m]
  BY DEF Select, Delete, Insert, Fail, Shape, TypeOK, Rollups, Models
<1>2. \A m \in Rollups : phase[m] \notin Busy
  BY DEF RollupInv, Ordered, Rollups, Busy
<1>3. \A m \in Rollups, s \in Symbols, b \in Keys("agg") :
        /\ Content(m, mart[m], s, b)' = Content(m, mart[m], s, b)
        /\ Content(m, batch[m], s, b)' = Content(m, batch[m], s, b)
        /\ Near(m, mart[m], b)' <=> Near(m, mart[m], b)
        /\ Near(m, batch[m], b)' <=> Near(m, batch[m], b)
        /\ Landed(m, s, b)' = Landed(m, s, b)
        /\ StgRow(s, b)' = StgRow(s, b)
        /\ MissedBucket(s, b)' <=> MissedBucket(s, b)
  BY <1>1, Primed DEF Landed
<1>4. Ordered'
  BY <1>1, <1>2 DEF Ordered, Rollups
<1>5. ASSUME NEW m \in Rollups PROVE OneRollup(m)'
  <2>1. OneRollup(m)
    BY DEF RollupInv
  <2>2. GoodTables(m)' /\ QuietRollup(m)'
    BY <1>1, <2>1 DEF OneRollup, GoodTables, QuietRollup, GoodRows, Keys
  <2>3. BatchIsNear(m)' /\ GoneContent(m)' /\ RollupStale(m)' /\ LandedStale(m)'
    BY <1>1, <1>3, <2>1 DEF OneRollup, BatchIsNear, GoneContent, RollupStale, LandedStale, RowSet
  <2>4. Follows(m)'
    BY <1>1, <1>2 DEF Follows
  <2> QED BY <2>2, <2>3, <2>4 DEF OneRollup
<1> QED BY <1>4, <1>5 DEF RollupInv

(* What a select will land: staging's row, or one that is on the record.    *)
LEMMA SelectedLands ==
  ASSUME Shape, FreshnessInv, Select("fct"), NEW s \in Symbols, NEW t \in Minutes
  PROVE  /\ Landing(s, t)' = stg[s][t] \/ <<s, t>> \in missed
         /\ Landing(s, t)' \in Bars \cup {None}
<1>1. Fact' = Fact /\ Pending' = Selected("fct")
  BY DEF Select, Shape, Fact, Pending, Models
<1>2. Pending'[s][t] = IF InWindow(Fact, t) THEN FactRow(s, t) ELSE None
  BY <1>1, SelectedFact
<1>3. Landing(s, t)' = IF Pending'[s][t] # None THEN Pending'[s][t].bar ELSE Bar(s, t)
  BY <1>1 DEF Landing, Bar, Fact
<1>4. stg[s][t] \in Bars \cup {None} /\ Bar(s, t) \in Bars \cup {None}
  <2>1. [k \in Minutes |-> Bar(s, k)] \in Series1m /\ stg[s] \in Series1m
    BY SeriesIs
  <2> QED BY <2>1 DEF Series1m
<1>5. CASE InWindow(Fact, t) /\ stg[s][t] # None
  BY <1>2, <1>3, <1>4, <1>5, FactRowIs
<1>6. CASE InWindow(Fact, t) /\ stg[s][t] = None
  <2>1. Landing(s, t)' = Bar(s, t)
    BY <1>2, <1>3, <1>6, FactRowIs
  <2>2. Bar(s, t) # None => Fact[s][t] # None
    BY DEF Bar, Fact
  <2> QED BY <1>4, <1>6, <2>1, <2>2 DEF FreshnessInv, GoneIsMissed
<1>7. CASE ~InWindow(Fact, t)
  BY <1>2, <1>3, <1>4, <1>7 DEF FreshnessInv, FactStale
<1> QED BY <1>5, <1>6, <1>7

LEMMA FactSelects ==
  ASSUME Shape, FreshnessInv, RollupInv, Select("fct")
  PROVE  RollupInv'
<1>1. /\ UNCHANGED <<stg, missed>> /\ phase["fct"] = "waiting"
      /\ \A m \in Rollups : /\ mart'[m] = mart[m] /\ batch'[m] = batch[m]
                            /\ phase[m] \notin {"selected", "deleted"}
  BY DEF Select, Running, Shape, TypeOK, Rollups, Models
<1>2. Fresh'
  BY <1>1, SelectedLands DEF Fresh
<1>3. ASSUME NEW m \in Rollups, NEW s \in Symbols, NEW b \in Keys("agg"),
             ~MissedBucket(s, b), LandRow(s, b)' = None
      PROVE  Content(m, mart[m], s, b) = {} /\ Content(m, batch[m], s, b) = {}
  <2> DEFINE h == [t \in Minutes |-> Landing(s, t)']
  <2>1. h \in Series1m
    BY SelectedLands DEF Series1m
  <2>2. LandRow(s, b)' = OrNone(Group(h, b, Bucket, 0))
    BY DEF LandRow, Group, OrNone
  <2>3. \A t \in Span(b, Bucket) : t \in Minutes /\ h[t] = Landing(s, t)' /\ <<s, t>> \notin missed
    BY <1>3 DEF Span, MissedBucket
  <2> HIDE DEF h
  <2>4. \A t \in Span(b, Bucket) : h[t] = None
    BY <1>3, <2>1, <2>2, GroupIs
  <2>5. \A t \in Span(b, Bucket) : stg[s][t] = None
    BY <2>3, <2>4, SelectedLands
  <2>6. StgRow(s, b) = None
    BY <2>5, BucketRowsAre
  <2> QED BY <1>3, <2>6 DEF RollupInv, OneRollup, GoneContent
<1>4. \A m \in Rollups, s \in Symbols, b \in Keys("agg") :
        /\ Content(m, mart[m], s, b)' = Content(m, mart[m], s, b)
        /\ Content(m, batch[m], s, b)' = Content(m, batch[m], s, b)
        /\ MissedBucket(s, b)' <=> MissedBucket(s, b)
  BY <1>1, Primed
<1>5. \A m \in Rollups : Kept(m)'
  BY <1>3, <1>4 DEF Kept
<1> QED BY <1>1, <1>2, <1>5, FactWrites

(* A step that leaves the landing table as it is and adds no key.           *)
LEMMA FactLands ==
  ASSUME Shape, RollupInv, phase["fct"] \in {"selected", "deleted"},
         Delete("fct") \/ Insert("fct"),
         \A s \in Symbols, t \in Minutes : Landing(s, t)' = Landing(s, t),
         Filled(mart'["fct"]) \cup Filled(batch'["fct"])
           \subseteq Filled(mart["fct"]) \cup Filled(batch["fct"])
  PROVE  RollupInv'
<1>1. /\ UNCHANGED <<stg, missed>> /\ "fct" \notin Rollups
      /\ \A m \in Rollups : mart'[m] = mart[m] /\ batch'[m] = batch[m]
  BY DEF Delete, Insert, Shape, Rollups, Models
<1>2. Keyed' \subseteq Keyed
  <2>1. Keyed' = UNION {Filled(mart'[q]) \cup Filled(batch'[q]) : q \in Rollups \cup {"fct"}}
    BY DEF Keyed, Filled
  <2>2. \A q \in Rollups \cup {"fct"} :
          Filled(mart'[q]) \cup Filled(batch'[q]) \subseteq Filled(mart[q]) \cup Filled(batch[q])
    BY <1>1
  <2> HIDE DEF Filled
  <2> QED BY <2>1, <2>2 DEF Keyed
<1>3. \A t : Wide(t) => Wide(t)'
  BY <1>2 DEF Wide
<1>4. Fresh'
  BY <1>1, <1>3 DEF RollupInv, Fresh, Busy
<1>5. \A s \in Symbols, b \in Keys("agg") : LandRow(s, b)' = LandRow(s, b)
  <2> SUFFICES ASSUME NEW s \in Symbols, NEW b \in Keys("agg")
               PROVE  LandRow(s, b)' = LandRow(s, b)
    OBVIOUS
  <2>1. [t \in Minutes |-> Landing(s, t)'] = [t \in Minutes |-> Landing(s, t)]
    OBVIOUS
  <2>2. LandRow(s, b)' = OrNone(Group([t \in Minutes |-> Landing(s, t)'], b, Bucket, 0))
    BY DEF LandRow, Group, OrNone
  <2> QED BY <2>1, <2>2, Zenon DEF LandRow
<1>6. \A m \in Rollups, s \in Symbols, b \in Keys("agg") :
        /\ Content(m, mart[m], s, b)' = Content(m, mart[m], s, b)
        /\ Content(m, batch[m], s, b)' = Content(m, batch[m], s, b)
        /\ MissedBucket(s, b)' <=> MissedBucket(s, b)
  BY <1>1, Primed
<1>7. \A m \in Rollups : Kept(m)'
  BY <1>5, <1>6 DEF RollupInv, OneRollup, Kept, Busy
<1> QED BY <1>4, <1>7, FactWrites

LEMMA FactSteps ==
  ASSUME Shape, FreshnessInv, RollupInv,
         Select("fct") \/ Delete("fct") \/ Insert("fct") \/ Fail("fct")
  PROVE  RollupInv'
<1>1. "fct" \in Models /\ \A s \in Symbols : /\ DOMAIN mart["fct"][s] = Minutes
                                            /\ DOMAIN batch["fct"][s] = Minutes
  BY FactKeys DEF Shape, TypeOK, Models
<1>2. CASE Select("fct")
  BY <1>2, FactSelects
<1>3. CASE Delete("fct")
  <2>1. /\ phase["fct"] = "selected" /\ batch'["fct"] = batch["fct"]
        /\ mart'["fct"] = [s \in Symbols |-> [k \in Minutes |->
             IF batch["fct"][s][k] # None THEN None ELSE mart["fct"][s][k]]]
    BY <1>1, <1>3, FactKeys DEF Delete, Shape
  <2>2. \A s \in Symbols, t \in Minutes : Landing(s, t)' = Landing(s, t)
    BY <2>1 DEF Landing, Bar, Pending
  <2>3. Filled(mart'["fct"]) \cup Filled(batch'["fct"])
          \subseteq Filled(mart["fct"]) \cup Filled(batch["fct"])
    <3>1. \A s \in Symbols : DOMAIN mart'["fct"][s] = Minutes /\ DOMAIN batch'["fct"][s] = Minutes
      BY <1>1, <2>1
    <3>2. \A table \in {mart'["fct"], batch'["fct"], mart["fct"], batch["fct"]} :
            Filled(table) = {k \in Minutes : \E s \in Symbols : table[s][k] # None}
      BY <1>1, <3>1, FactKeys, FilledIs
    <3>3. \A q \in Symbols, k \in Minutes :
            mart'["fct"][q][k] # None \/ batch'["fct"][q][k] # None
              => mart["fct"][q][k] # None \/ batch["fct"][q][k] # None
      BY <2>1
    <3> HIDE DEF Filled
    <3> QED BY <3>2, <3>3
  <2> QED BY <1>3, <2>1, <2>2, <2>3, FactLands
<1>4. CASE Insert("fct")
  <2>1. /\ phase["fct"] = "deleted"
        /\ batch'["fct"] = [s \in Symbols |-> [k \in Minutes |-> None]]
        /\ mart'["fct"] = [s \in Symbols |-> [k \in Minutes |->
             IF batch["fct"][s][k] # None THEN batch["fct"][s][k] ELSE mart["fct"][s][k]]]
    BY <1>1, <1>4, FactKeys DEF Insert, Shape, Empty
  <2>2. \A s \in Symbols, t \in Minutes : Landing(s, t)' = Landing(s, t)
    BY <2>1 DEF Landing, Bar, Pending
  <2>3. Filled(mart'["fct"]) \cup Filled(batch'["fct"])
          \subseteq Filled(mart["fct"]) \cup Filled(batch["fct"])
    <3>1. \A s \in Symbols : DOMAIN mart'["fct"][s] = Minutes /\ DOMAIN batch'["fct"][s] = Minutes
      BY <1>1, <2>1
    <3>2. \A table \in {mart'["fct"], batch'["fct"], mart["fct"], batch["fct"]} :
            Filled(table) = {k \in Minutes : \E s \in Symbols : table[s][k] # None}
      BY <1>1, <3>1, FactKeys, FilledIs
    <3>3. \A q \in Symbols, k \in Minutes :
            mart'["fct"][q][k] # None \/ batch'["fct"][q][k] # None
              => mart["fct"][q][k] # None \/ batch["fct"][q][k] # None
      BY <2>1
    <3> HIDE DEF Filled
    <3> QED BY <3>2, <3>3
  <2> QED BY <1>4, <2>1, <2>2, <2>3, FactLands
<1>5. CASE Fail("fct")
  <2>1. phase["fct"] # "done" /\ phase'["fct"] = "failed"
    BY <1>5 DEF Fail, Shape, TypeOK, Models
  <2>2. Fresh' /\ \A m \in Rollups : Kept(m)'
    BY <2>1 DEF Fresh, Kept, Busy
  <2> QED BY <1>5, <2>1, <2>2, FactWrites
<1> QED BY <1>2, <1>3, <1>4, <1>5

---------------------------------------------------------------------------
(* The rollups follow the fact table.                                       *)

LEMMA InitRollups == Init => RollupInv
<1> SUFFICES ASSUME Init PROVE RollupInv
  OBVIOUS
<1>1. \A m \in Rollups \cup {"fct"} : m \in Models /\ phase[m] = "failed"
        /\ mart[m] = Empty(m) /\ batch[m] = Empty(m)
  BY DEF Init, Models, Rollups
<1>2. \A m \in Rollups, s \in Symbols : \A k \in Keys(m) : Empty(m)[s][k] = None
  BY DEF Empty
<1>3. ASSUME NEW m \in Rollups, NEW s \in Symbols, NEW b \in Keys("agg")
      PROVE  /\ Content(m, mart[m], s, b) = {} /\ Content(m, batch[m], s, b) = {}
             /\ Near(m, mart[m], b) /\ Near(m, batch[m], b)
  <2>1. Empty(m)[s][Key(m, b)] = None
    BY <1>2, BucketIs, KeyIs
  <2> QED BY <1>1, <1>2, <2>1, EmptyContent DEF Near
<1>4. Ordered /\ Fresh
  BY <1>1 DEF Ordered, Fresh, Rollups, Busy
<1>5. ASSUME NEW m \in Rollups PROVE OneRollup(m)
  <2>1. GoodTables(m) /\ QuietRollup(m)
    BY <1>1, <1>2 DEF GoodTables, QuietRollup, GoodRows
  <2>2. BatchIsNear(m) /\ Kept(m) /\ Follows(m)
    BY <1>1 DEF BatchIsNear, Kept, Follows, Busy
  <2>3. GoneContent(m) /\ RollupStale(m) /\ LandedStale(m)
    BY <1>3 DEF GoneContent, RollupStale, LandedStale
  <2> QED BY <2>1, <2>2, <2>3 DEF OneRollup
<1> QED BY <1>4, <1>5 DEF RollupInv

(* The feature matrix is nobody's source.                                   *)
LEMMA FeaturesLeaveRollups ==
  ASSUME Shape, Select("feat") \/ Delete("feat") \/ Insert("feat") \/ Fail("feat")
  PROVE  /\ UNCHANGED <<stg, missed>>
         /\ \A m \in Rollups \cup {"fct"} :
              mart'[m] = mart[m] /\ batch'[m] = batch[m] /\ phase'[m] = phase[m]
BY DEF Select, Delete, Insert, Fail, Shape, TypeOK, Rollups, Models

LEMMA StepRollups == Shape /\ FreshnessInv /\ RollupInv /\ [Next]_vars => RollupInv'
<1> SUFFICES ASSUME Shape, FreshnessInv, RollupInv, [Next]_vars PROVE RollupInv'
  OBVIOUS
<1>1. CASE Arrive
  <2>1. PICK s \in Symbols, t \in Minutes, bar \in Bars :
          /\ stg' = [stg EXCEPT ![s][t] = bar]
          /\ missed' = IF t < Newest - Lookback THEN missed \cup {<<s, t>>} ELSE missed
    BY <1>1 DEF Arrive
  <2>2. bar # None /\ bar \in Bars \cup {None}
    BY DataAssumption
  <2>3. <<s, t>> \in missed' \/ Wide(t)
    BY <2>1, RecentIsWide
  <2>4. UNCHANGED <<mart, batch, phase>> /\ missed \subseteq missed'
    BY <1>1, <2>1 DEF Arrive
  <2> QED BY <2>1, <2>2, <2>3, <2>4, StagingMoves
<1>2. CASE Vanish
  <2>1. PICK s \in Symbols, t \in Minutes :
          stg' = [stg EXCEPT ![s][t] = None] /\ missed' = missed \cup {<<s, t>>}
    BY <1>2 DEF Vanish
  <2>2. UNCHANGED <<mart, batch, phase>> /\ None \in Bars \cup {None}
    BY <1>2 DEF Vanish
  <2> QED BY <2>1, <2>2, StagingMoves
<1>3. CASE RefreshFx
  BY <1>3, RollupsUntouched DEF RefreshFx
<1>4. CASE StartBuild
  BY <1>4, StartBuildKeeps
<1>5. ASSUME NEW model \in Models,
             Select(model) \/ Delete(model) \/ Insert(model) \/ Fail(model)
      PROVE  RollupInv'
  <2>1. CASE model = "fct"
    BY <1>5, <2>1, FactSteps
  <2>2. CASE model \in Rollups
    BY <1>5, <2>2, RollupSelects, RollupDeletes, RollupInserts, RollupFails
  <2>3. CASE model = "feat"
    BY <1>5, <2>3, FeaturesLeaveRollups, RollupsUntouched
  <2> QED BY <2>1, <2>2, <2>3 DEF Models, Rollups
<1>6. CASE UNCHANGED vars
  BY <1>6, RollupsUntouched DEF vars
<1> QED BY <1>1, <1>2, <1>3, <1>4, <1>5, <1>6 DEF Next, Build

LEMMA MissedBucketIs ==
  ASSUME NEW s \in Symbols, NEW m \in Rollups, NEW k \in Keys(m),
         NEW b \in Keys("agg"), Key(m, b) = k, MissedBucket(s, b)
  PROVE  MissedIn(s, k, k + Grain[m] - 1)
<1>1. PICK t \in Span(b, Bucket) : <<s, t>> \in missed
  BY DEF MissedBucket
<1>2. t \in Minutes /\ Key(m, t) = k
  BY SpanIs, KeyOfSpan
<1>3. k \in Int /\ k <= t /\ t < k + Grain[m] /\ t \in Int /\ Grain[m] \in Int
  BY <1>2, KeyIs, Grains, GridAssumption DEF Minutes
<1>4. t \in k .. k + Grain[m] - 1
  BY <1>3
<1> QED BY <1>1, <1>4 DEF MissedIn

(* What a day holds of each of its buckets is what the day holds.           *)
LEMMA DayIsItsBuckets ==
  ASSUME Shape, RowsAreRows, NEW s \in Symbols, NEW d \in Keys("daily"),
         \A b \in Keys("agg") : Key("daily", b) = d =>
           Content("daily", mart["daily"], s, b) = Content("agg", mart["agg"], s, b)
  PROVE  mart["daily"][s][d] = OrNone(OfDay(s, d))
<1> DEFINE row == mart["daily"][s][d]
<1>1. row \in {None} \cup DayRowsOf(d)
  BY DEF RowsAreRows, GoodTables, GoodRows, Rollups
<1>2. \A b \in Keys("agg") : Key("daily", b) = d =>
        Content("agg", mart["agg"], s, b) = RowSet(mart["agg"][s][b])
  BY BucketIs DEF Content, RowSet
<1>3. \A b \in Keys("agg") : Key("daily", b) = d =>
        Content("daily", mart["daily"], s, b)
          = IF row = None THEN {} ELSE {p[2] : p \in {q \in row.of : q[1] = b}}
  BY DEF Content
<1> HIDE DEF row
<1>4. CASE row = None
  <2>1. OfDay(s, d) = {}
    BY <1>2, <1>3, <1>4 DEF OfDay, RowSet
  <2> QED BY <1>4, <2>1 DEF OrNone, row
<1>5. CASE row # None
  <2>1. /\ row \in DayRows /\ row.of # {}
        /\ \A p \in row.of : p[1] \in Keys("agg") /\ Key("daily", p[1]) = d
    BY <1>1, <1>5 DEF DayRowsOf
  <2>2. row.of \subseteq Minutes \X BucketRows /\ row = [of |-> row.of]
    BY <2>1 DEF DayRows
  <2>3. \A b \in Keys("agg") : Key("daily", b) = d =>
          {p[2] : p \in {q \in row.of : q[1] = b}} = RowSet(mart["agg"][s][b])
    BY <1>2, <1>3, <1>5
  <2>4. ASSUME NEW p \in row.of PROVE p \in OfDay(s, d)
    <3>1. p = <<p[1], p[2]>> /\ p[1] \in Keys("agg") /\ Key("daily", p[1]) = d
      BY <2>1, <2>2
    <3>2. p[2] \in RowSet(mart["agg"][s][p[1]])
      BY <2>3, <3>1
    <3>3. mart["agg"][s][p[1]] # None /\ p[2] = mart["agg"][s][p[1]]
      BY <3>2 DEF RowSet
    <3> QED BY <3>1, <3>3 DEF OfDay
  <2>5. ASSUME NEW b \in Keys("agg"), Key("daily", b) = d, mart["agg"][s][b] # None
        PROVE  <<b, mart["agg"][s][b]>> \in row.of
    <3>1. mart["agg"][s][b] \in {p[2] : p \in {q \in row.of : q[1] = b}}
      BY <2>3, <2>5 DEF RowSet
    <3>2. PICK p \in row.of : p[1] = b /\ p[2] = mart["agg"][s][b]
      BY <3>1
    <3>3. p = <<p[1], p[2]>>
      BY <2>2
    <3> QED BY <3>2, <3>3
  <2>6. row.of = OfDay(s, d)
    BY <2>4, <2>5 DEF OfDay
  <2> QED BY <2>1, <2>2, <2>6 DEF OrNone, row
<1> QED BY <1>4, <1>5

LEMMA InvImpliesRollupsFollow ==
  ASSUME Shape, RollupInv PROVE RollupsFollowFact
<1> SUFFICES ASSUME Built, NEW s \in Symbols
             PROVE  /\ \A b \in Keys("agg") :
                         \/ mart["agg"][s][b] =
                              OrNone(Group([t \in Minutes |-> Bar(s, t)], b, Bucket, 0))
                         \/ MissedIn(s, b, b + Bucket - 1)
                    /\ \A d \in Keys("daily") :
                         \/ mart["daily"][s][d] = OrNone(Group(mart["agg"][s], d, Day, 0))
                         \/ MissedIn(s, d, d + Day - 1)
  BY DEF RollupsFollowFact
<1>1. RowsAreRows /\ "agg" \in Rollups /\ "daily" \in Rollups /\ "daily" # "agg"
      /\ Grain["agg"] = Bucket /\ Grain["daily"] = Day
  BY DEF RollupInv, OneRollup, RowsAreRows, Rollups, Grain
<1>2. ASSUME NEW m \in Rollups, NEW b \in Keys("agg")
      PROVE  Content(m, mart[m], s, b) = SourceContent(m, s, b) \/ MissedBucket(s, b)
  <2>1. phase[m] = "done" /\ OneRollup(m)
    BY Grains DEF Built, RollupInv
  <2>2. batch[m][s][Key(m, b)] = None
    BY <2>1, BucketIs, KeyIs DEF OneRollup, QuietRollup
  <2>3. Landed(m, s, b) = Content(m, mart[m], s, b)
    BY <2>2 DEF Landed
  <2> QED BY <2>1, <2>3 DEF OneRollup, Follows, Busy
<1>3. ASSUME NEW b \in Keys("agg")
      PROVE  mart["agg"][s][b] = FctRow(s, b) \/ MissedIn(s, b, b + Bucket - 1)
  <2>1. CASE MissedBucket(s, b)
    BY <1>1, <2>1, BucketIs, MissedBucketIs
  <2>2. CASE ~MissedBucket(s, b)
    <3>1. Content("agg", mart["agg"], s, b) = RowSet(FctRow(s, b))
      BY <1>1, <1>2, <2>2 DEF SourceContent
    <3>2. Content("agg", mart["agg"], s, b) = RowSet(mart["agg"][s][b])
      BY BucketIs DEF Content, RowSet
    <3> QED BY <3>1, <3>2 DEF RowSet
  <2> QED BY <2>1, <2>2
<1>4. ASSUME NEW d \in Keys("daily")
      PROVE  \/ mart["daily"][s][d] = OrNone(Group(mart["agg"][s], d, Day, 0))
             \/ MissedIn(s, d, d + Day - 1)
  <2>1. CASE \E b \in Keys("agg") : Key("daily", b) = d /\ MissedBucket(s, b)
    BY <1>1, <2>1, MissedBucketIs
  <2>2. CASE \A b \in Keys("agg") : Key("daily", b) = d => ~MissedBucket(s, b)
    <3>1. mart["daily"][s][d] = OrNone(OfDay(s, d))
      BY <1>1, <1>2, <2>2, DayIsItsBuckets DEF SourceContent
    <3>2. 0 \in Int /\ 0 <= d
      BY GridAssumption DEF Keys, Minutes
    <3>3. Group(mart["agg"][s], d, Day, 0) = OfDay(s, d)
      BY <3>2, DayGroup
    <3> QED BY <3>1, <3>3
  <2> QED BY <2>1, <2>2
<1> QED BY <1>3, <1>4 DEF FctRow

(* After a build that succeeded, whatever changed and failed before and     *)
(* meanwhile, every bucket and every day is what the fact table aggregates  *)
(* to, but for rows behind the lookback or deleted upstream: for every      *)
(* choice of bucket, day and lookbacks in which a day is whole buckets and  *)
(* the lookbacks are whole groups.                                          *)
THEOREM RollupsFollow == Spec => []RollupsFollowFact
<1> DEFINE Inv == IInv /\ RollupInv
<1>1. Init => Inv
  BY InitShape, InitFresh, InitRollups DEF IInv
<1>2. Inv /\ [Next]_vars => Inv'
  BY StepShape, StepFresh, StepRollups DEF IInv
<1>3. Inv => RollupsFollowFact
  BY InvImpliesRollupsFollow DEF IInv
<1> QED BY <1>1, <1>2, <1>3, PTL DEF Spec

=============================================================================
