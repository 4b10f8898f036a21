------------------------------- MODULE Marts -------------------------------
(***************************************************************************)
(* The incremental dbt models over staging: fct_candles_1m, the rollups    *)
(* built on it (agg_candles_5m, fct_market_daily) and the feature matrix   *)
(* ml_features_1m, as `dbt build --select tag:mart' rebuilds them while    *)
(* staging keeps changing under it; and the FX rate that prices the fact.  *)
(*                                                                         *)
(* Staging is what module Replica promises of it: a table whose rows are   *)
(* inserted, corrected and deleted at any time, in any order of open_time. *)
(* Time is counted in minutes.  A rollup row is abstracted to the rows it  *)
(* aggregates and a feature row to the rows its window frame holds and the *)
(* one its labels look forward to: every column is a function of those.    *)
(***************************************************************************)
EXTENDS Integers, Sequences, FiniteSets

CONSTANTS
  Symbols,
  Bars,           \* the contents a bar may have
  None,           \* no row, no rate
  MaxMinute,      \* bound: the last minute of the instance
  Bucket,         \* minutes in a bucket of agg_candles_5m (5)
  Day,            \* minutes in a day of fct_market_daily (1440)
  Lookback,       \* incremental_lookback_hours, in minutes
  DayLookback,    \* the hours=72 of fct_market_daily, in minutes
  Warmup,         \* feature_warmup_hours, in minutes
  Frame,          \* rows in the widest window frame of ml_features_1m (60)
  MaxChanges,     \* bound: changes of staging rows and FX refreshes together
  AsOfs           \* bound: the as_of a published rate may have

Minutes == 0 .. MaxMinute

ASSUME GridAssumption ==
  /\ MaxMinute \in Nat /\ Bucket \in Nat \ {0} /\ Day \in Nat \ {0}
  /\ Day % Bucket = 0
ASSUME LookbackAssumption ==
  /\ Lookback \in Nat /\ Lookback % Bucket = 0
  /\ DayLookback \in Nat /\ DayLookback % Day = 0 /\ Lookback <= DayLookback
  /\ Warmup \in Nat /\ Lookback <= Warmup
  /\ Frame \in Nat \ {0}
ASSUME DataAssumption ==
  /\ IsFiniteSet(Symbols) /\ MaxChanges \in Nat /\ AsOfs \subseteq Minutes
  /\ None \notin Bars \cup Minutes \cup [bar : Bars, rate : AsOfs \cup {None}]

\* The rows of agg_candles_5m and of fct_market_daily.
BucketRows == [of : SUBSET (Minutes \X Bars)]
DayRows    == [of : SUBSET (Minutes \X BucketRows)]

\* The rows of ml_features_1m.
FeatureRows == [frame : SUBSET (Minutes \X Bars), next : SUBSET (Minutes \X Bars)]

ASSUME NoneAssumption == None \notin BucketRows \cup DayRows \cup FeatureRows

VARIABLES
  stg,        \* stg_market_candles: symbol -> minute -> bar or None
  rates,      \* the versions crypto.fx_rates has had, oldest first, each its as_of
  mart,       \* model -> symbol -> key -> row or None
  batch,      \* model -> the temporary relation of its delete+insert
  phase,      \* model -> where it stands in the current, or the last, dbt build
  changes,    \* counter for MaxChanges
  missed,     \* history: <<symbol, minute>> deleted, or changed behind the lookback
  passed      \* history: rows whose next row changed when they were behind it

vars == <<stg, rates, mart, batch, phase, changes, missed, passed>>

Models == {"fct", "agg", "daily", "feat"}

\* Where ref() makes a model wait for another one of the same build.
Parents == [fct |-> {}, agg |-> {"fct"}, feat |-> {"fct"}, daily |-> {"agg"}]

\* The grain of a model's time key.
Grain == [fct |-> 1, feat |-> 1, agg |-> Bucket, daily |-> Day]

Truncate(t, grain) == t - (t % grain)
Keys(model) == {t \in Minutes : t % Grain[model] = 0}
Span(t, grain) == {k \in Minutes : Truncate(k, grain) = t}

Empty(model) == [s \in Symbols |-> [k \in Keys(model) |-> None]]

MaxOf(S) == CHOOSE x \in S : \A y \in S : y <= x

Filled(table) == UNION {{k \in DOMAIN table[s] : table[s][k] # None} : s \in Symbols}

---------------------------------------------------------------------------
(* FX: upsert_fx_rate, the rates staging offers, and the as-of join.        *)

\* Slip: the upsert without its guard.
UpsertFxRateUnguarded(asof) == rates' = Append(rates, asof)

(* UPSERT_FX: the row is rewritten only by a newer as_of.                   *)
UpsertFxRate(asof) ==
  IF rates = <<>> \/ rates[Len(rates)] < asof THEN rates' = Append(rates, asof)
  ELSE UNCHANGED rates

(* The sorting key of raw.fx_rates, ORDER BY (base, quote), for the one     *)
(* configured pair: every version has the same.                             *)
RawFxKey(asof) == "pair"

\* stg_fx_rates: FINAL keeps, per key, the version with the greatest _lsn.
StagedRates ==
  {rates[i] : i \in {n \in 1 .. Len(rates) :
     \A later \in n + 1 .. Len(rates) : RawFxKey(rates[later]) # RawFxKey(rates[n])}}

\* asof left join on open_time >= as_of.
AsOf(t, history) ==
  LET known == {r \in history : r <= t}
  IN  IF known = {} THEN None ELSE MaxOf(known)

---------------------------------------------------------------------------
(* What each model selects.                                                 *)

\* Slip: the watermark of the table a rollup reads, at that table's grain.
WatermarkOfSource(model) ==
  LET source == IF model = "feat" THEN model ELSE "fct"
  IN  IF Filled(mart[source]) = {} THEN -1 ELSE MaxOf(Filled(mart[source]))

(* coalesce(max(watermark), 1970-01-01) of the model's own table.           *)
Watermark(model) ==
  IF Filled(mart[model]) = {} THEN -1 ELSE MaxOf(Filled(mart[model]))

\* Slip: only rows newer than what is there, the filter the macro warns of.
EmitFromNewer(model) == Watermark(model) + 1

(* incremental_since and feature_emit_since.                                *)
EmitFrom(model) ==
  Watermark(model) - (IF model = "daily" THEN DayLookback ELSE Lookback)

\* Slip: features are computed from the slice they are emitted for.
ReadFromCold == EmitFrom("feat")

(* feature_read_since.                                                      *)
ReadFrom == Watermark("feat") - Warmup

Bar(s, t) == IF mart["fct"][s][t] = None THEN None ELSE mart["fct"][s][t].bar

\* The rows of a grouped model's group that its source has from a minute on.
Group(source, key, grain, from) ==
  {<<t, source[t]>> : t \in {k \in DOMAIN source :
     k \in Span(key, grain) /\ k >= from /\ source[k] # None}}

(* rows between Frame - 1 preceding and current row, among the rows read.   *)
(* The log return of the frame's first row looks one row further back: with *)
(* frames of 60 rows, what a feature depends on is Frame = 61.              *)
WindowFrame(s, t, from) ==
  LET upto == {k \in Minutes : from <= k /\ k <= t /\ Bar(s, k) # None}
  IN  {<<k, Bar(s, k)>> : k \in {k \in upto :
         Cardinality({j \in upto : j > k}) < Frame}}

\* A group without rows is no row of a grouped model.
OrNone(rows) == IF rows = {} THEN None ELSE [of |-> rows]

\* Slip: the labels are looked up among the rows the feature table has.
NextRowKnown(s, t) ==
  LET later == {k \in Minutes : t < k /\ Bar(s, k) # None /\ mart["feat"][s][k] # None}
  IN  {<<k, Bar(s, k)>> : k \in {k \in later : \A j \in later : k <= j}}

\* rows between 1 following and 1 following: the row the labels of minute t look at.
NextRow(s, t) ==
  LET later == {k \in Minutes : t < k /\ Bar(s, k) # None}
  IN  {<<k, Bar(s, k)>> : k \in {k \in later : \A j \in later : k <= j}}

FeatureRow(s, t) == [frame |-> WindowFrame(s, t, ReadFrom), next |-> NextRow(s, t)]

\* Slip: the joins keep keys that staging does not have.
FactRowOuter(s, t) == [bar |-> stg[s][t], rate |-> AsOf(t, StagedRates)]

FactRow(s, t) ==
  IF stg[s][t] = None THEN None
  ELSE [bar |-> stg[s][t], rate |-> AsOf(t, StagedRates)]

Row(model, s, key, from) ==
  CASE model = "fct" -> IF key >= from THEN FactRow(s, key) ELSE None
    [] model = "agg" ->
         OrNone(Group([t \in Minutes |-> Bar(s, t)], key, Bucket, from))
    [] model = "daily" -> OrNone(Group(mart["agg"][s], key, Day, from))
    [] model = "feat" ->
         IF Bar(s, key) # None /\ key >= from THEN FeatureRow(s, key) ELSE None

Selected(model) ==
  [s \in Symbols |-> [key \in Keys(model) |-> Row(model, s, key, EmitFrom(model))]]

---------------------------------------------------------------------------
(* Staging changes.                                                         *)

\* The newest minute any table has a row for.
Newest == MaxOf({-1} \cup Filled(stg) \cup
                 UNION {Filled(mart[model]) \cup Filled(batch[model]) : model \in Models})

\* The minute of the row before minute t, if there is one.
Before(s, t) ==
  LET earlier == {k \in Minutes : k < t /\ stg[s][k] # None}
  IN  {k \in earlier : \A j \in earlier : j <= k}

Arrive ==
  /\ changes < MaxChanges /\ changes' = changes + 1
  /\ \E s \in Symbols, t \in Minutes, bar \in Bars :
       /\ stg[s][t] # bar
       /\ stg' = [stg EXCEPT ![s][t] = bar]
       /\ missed' = IF t < Newest - Lookback THEN missed \cup {<<s, t>>} ELSE missed
       /\ passed' = passed \cup {<<s, k>> : k \in {k \in Before(s, t) : k < Newest - Lookback}}
  /\ UNCHANGED <<rates, mart, batch, phase>>

Vanish ==
  /\ changes < MaxChanges /\ changes' = changes + 1
  /\ \E s \in Symbols, t \in Minutes :
       /\ stg[s][t] # None
       /\ stg' = [stg EXCEPT ![s][t] = None]
       /\ missed' = missed \cup {<<s, t>>}
  /\ UNCHANGED <<rates, mart, batch, phase, passed>>

\* fetch_rate: the first provider that answers with a plausible rate; it may be the
\* one whose publish time is behind the other's, or stamp the rate with now.
FetchRate == AsOfs

\* refresh_fx; when no provider answers nothing changes.
RefreshFx ==
  /\ changes < MaxChanges /\ changes' = changes + 1
  /\ \E asof \in FetchRate : UpsertFxRate(asof)
  /\ UNCHANGED <<stg, mart, batch, phase, missed, passed>>

---------------------------------------------------------------------------
(* dbt build.                                                               *)

Running == \E model \in Models : phase[model] \in {"selected", "deleted"}

StartBuild ==
  /\ ~Running
  /\ phase' = [model \in Models |-> "waiting"]
  /\ UNCHANGED <<stg, rates, mart, batch, changes, missed, passed>>

(* The model's select, into a temporary relation.  Models of which neither  *)
(* depends on the other write different tables and read none of each        *)
(* other's, so running them in parallel is running them in some order.      *)
Select(model) ==
  /\ phase[model] = "waiting" /\ ~Running
  /\ \A parent \in Parents[model] : phase[parent] = "done"
  /\ batch' = [batch EXCEPT ![model] = Selected(model)]
  /\ phase' = [phase EXCEPT ![model] = "selected"]
  /\ UNCHANGED <<stg, rates, mart, changes, missed, passed>>

\* delete where unique_key in (the temporary relation)
Delete(model) ==
  /\ phase[model] = "selected"
  /\ mart' = [mart EXCEPT ![model] =
       [s \in Symbols |-> [k \in Keys(model) |->
          IF batch[model][s][k] # None THEN None ELSE mart[model][s][k]]]]
  /\ phase' = [phase EXCEPT ![model] = "deleted"]
  /\ UNCHANGED <<stg, rates, batch, changes, missed, passed>>

(* insert, drop the temporary relation, run the model's tests.  A failing   *)
(* test keeps the rows and skips what depends on them.  The insert is taken *)
(* as one step, as ClickHouse makes it for one block and partition.         *)
Insert(model) ==
  /\ phase[model] = "deleted"
  /\ mart' = [mart EXCEPT ![model] =
       [s \in Symbols |-> [k \in Keys(model) |->
          IF batch[model][s][k] # None THEN batch[model][s][k] ELSE mart[model][s][k]]]]
  /\ batch' = [batch EXCEPT ![model] = Empty(model)]
  /\ \E outcome \in {"done", "failed"} : phase' = [phase EXCEPT ![model] = outcome]
  /\ UNCHANGED <<stg, rates, changes, missed, passed>>

\* A query fails: what it has done stays, the rest of the build goes on.
Fail(model) ==
  /\ phase[model] \in {"selected", "deleted"}
  /\ batch' = [batch EXCEPT ![model] = Empty(model)]
  /\ phase' = [phase EXCEPT ![model] = "failed"]
  /\ UNCHANGED <<stg, rates, mart, changes, missed, passed>>

Build == StartBuild \/ \E model \in Models :
           Select(model) \/ Delete(model) \/ Insert(model) \/ Fail(model)

Init ==
  /\ stg = [s \in Symbols |-> [t \in Minutes |-> None]]
  /\ rates = <<>>
  /\ mart = [model \in Models |-> Empty(model)]
  /\ batch = [model \in Models |-> Empty(model)]
  /\ phase = [model \in Models |-> "failed"]
  /\ changes = 0 /\ missed = {} /\ passed = {}

Next == Arrive \/ Vanish \/ RefreshFx \/ Build

Spec == Init /\ [][Next]_vars

---------------------------------------------------------------------------
(* Properties.                                                              *)

TypeOK ==
  /\ stg \in [Symbols -> [Minutes -> Bars \cup {None}]]
  /\ rates \in Seq(AsOfs) /\ Len(rates) <= changes
  /\ \A model \in Models : \A table \in {mart[model], batch[model]} :
       \A s \in Symbols : DOMAIN table[s] = Keys(model)
  /\ \A s \in Symbols, t \in Minutes :
       mart["fct"][s][t] \in [bar : Bars, rate : AsOfs \cup {None}] \cup {None}
  /\ phase \in [Models -> {"waiting", "selected", "deleted", "done", "failed"}]
  /\ changes \in 0 .. MaxChanges
  /\ missed \subseteq Symbols \X Minutes /\ passed \subseteq Symbols \X Minutes

(* No update is lost to the watermark: a fact row that differs from staging *)
(* either will be read again by the next build, or changed when it was      *)
(* already more than the lookback behind the newest row, or was deleted     *)
(* upstream.  That holds whatever fails between a delete and its insert,    *)
(* and although a build's select and its insert are different moments.      *)
StaleOnlyIfMissed ==
  \A s \in Symbols, t \in Minutes :
    \/ Bar(s, t) = stg[s][t]
    \/ t >= EmitFrom("fct")
    \/ <<s, t>> \in missed

Built == \A model \in Models : phase[model] = "done"

MissedIn(s, from, to) == \E t \in from .. to : <<s, t>> \in missed

(* After a build that succeeded, the 5-minute and the daily rollup are what *)
(* the fact table aggregates to, over every bucket and day and not only the *)
(* reprocessed ones, as assert_rollup_reconciles.sql checks of a few hours: *)
(* no window cuts a bucket or a day in two, and a model that failed or was  *)
(* skipped in earlier builds catches up.                                    *)
RollupsFollowFact ==
  Built => \A s \in Symbols :
    /\ \A b \in Keys("agg") :
         \/ mart["agg"][s][b] = OrNone(Group([t \in Minutes |-> Bar(s, t)], b, Bucket, 0))
         \/ MissedIn(s, b, b + Bucket - 1)
    /\ \A d \in Keys("daily") :
         \/ mart["daily"][s][d] = OrNone(Group(mart["agg"][s], d, Day, 0))
         \/ MissedIn(s, d, d + Day - 1)

\* One side of a feature row; a missing one has neither.
Feature(s, t, side) ==
  IF mart["feat"][s][t] = None THEN {} ELSE mart["feat"][s][t][side]

\* The first minute of the frame a full rebuild would use.
FrameStart(s, t) ==
  LET rows == WindowFrame(s, t, 0) IN CHOOSE k \in Minutes :
    /\ \E row \in rows : row[1] = k
    /\ \A row \in rows : k <= row[1]

(* After a build that succeeded, every feature row is computed from the     *)
(* frame a full rebuild would use, provided the frame's rows lie within the *)
(* warm-up beyond the lookback: the left edge of an incremental batch is    *)
(* not quietly computed from a partial window.  As in the rollups, rows of  *)
(* the frame may be missed ones; so may rows of the frame it still has, of  *)
(* which the fact table has lost one between a delete and its insert.       *)
FeaturesAreWarm ==
  Built => \A s \in Symbols : \A t \in {k \in Minutes : Bar(s, k) # None} :
    \/ Feature(s, t, "frame") = WindowFrame(s, t, 0)
    \/ FrameStart(s, t) < t - (Warmup - Lookback)
    \/ MissedIn(s, FrameStart(s, t), t)
    \/ \E row \in Feature(s, t, "frame") : <<s, row[1]>> \in missed

(* After a build that succeeded, a row's labels are those of the row after  *)
(* it, resolved as soon as there is one, though they were unknown when the  *)
(* row was first emitted; except that a row already behind the lookback     *)
(* keeps its labels when its successor, still inside, changes, and a label  *)
(* may name a row that was missed.                                          *)
LabelsFollowFact ==
  Built => \A s \in Symbols : \A t \in {k \in Minutes : Bar(s, k) # None} :
    \/ Feature(s, t, "next") = NextRow(s, t)
    \/ <<s, t>> \in missed \cup passed
    \/ \E row \in Feature(s, t, "next") : <<s, row[1]>> \in missed

(* A priced fact row carries the newest rate at or before its minute, of    *)
(* the rates PostgreSQL had held by some moment: never a later one, and     *)
(* never an older one because a lagging provider overwrote a newer rate.    *)
PricedPointInTime ==
  \A s \in Symbols, t \in Minutes :
    LET row == mart["fct"][s][t]
    IN  row # None => row.rate = None \/ \E n \in 1 .. Len(rates) :
          row.rate = AsOf(t, {rates[i] : i \in 1 .. n})

(* What the comments of 02-raw-cdc-tables.sql and stg_fx_rates.sql say of   *)
(* the rate history ("every published rate survives as its own row"):       *)
(* rebuilding a fact row does not take away the price it had.               *)
PricesSurviveRebuild ==
  [][\A s \in Symbols, t \in Minutes :
       LET old == mart["fct"][s][t]
           new == batch'["fct"][s][t]
       IN  old # None /\ new # None => (old.rate # None => new.rate # None)]_vars

=============================================================================
