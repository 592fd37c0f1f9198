------------------------------ MODULE Measures ------------------------------
(* What a query of a metric answers (core/insights, adapters/postgres/        *)
(* insights_query_build.go, insights_rollup_query.go): the fully live         *)
(* statement over the tenant's events, and the stitched one that combines    *)
(* rolled-up partial aggregates with partial aggregates of the live tail.    *)
(* When buckets are rolled up, and what becomes of late events, is the       *)
(* subject of Rollups; here an event is tracked before its bucket is rolled. *)
(*                                                                           *)
(* An event has a time, a scope, one dimension and one measured field, both  *)
(* of which may be missing.  The sketches (count_distinct and percentile of  *)
(* a rollup) are approximate by design and left out.                         *)
EXTENDS Integers, FiniteSets, FiniteSetsExt

CONSTANTS
    MeasureSetups   \* a sequence of [grain, until, props, events, queries]: the rollup's bucket, the clock's end,
                    \* what events are about, how many there are, and the queries asked

VARIABLES
    mset,           \* the setup of this behaviour, by its index
    tracked,        \* the event table: [n, at, scope, dim, x]
    rolled,         \* the rollup table: [bucket, scope, dim, part, m], m the partial columns
    wm              \* the watermark, or NoTime

measureVars == <<mset, tracked, rolled, wm>>

Setup == MeasureSetups[mset]

Missing == -1       \* a NULL
NoTime == -1

-----------------------------------------------------------------------------
Floor(t, g) == t - (t % g)
Ceil(t, g) == IF t % g = 0 THEN t ELSE Floor(t, g) + g

(* SQL aggregates skip NULLs, and are NULL over nothing.                     *)
Values(E) == {e \in E : e.x # Missing}
SumOf(E, F(_)) == IF E = {} THEN Missing ELSE MapThenSumSet(F, E)
MinOf(S) == IF S = {} THEN Missing ELSE Min(S)
MaxOf(S) == IF S = {} THEN Missing ELSE Max(S)
Field(e) == e.x

(* The live aggregates of a group of events; an average is its sum and its   *)
(* count, or NULL.                                                           *)
measureAggExpr(E) ==
    [count |-> Cardinality(E),
     sum |-> SumOf(Values(E), Field),
     avg |-> IF Values(E) = {} THEN <<>> ELSE <<SumOf(Values(E), Field), Cardinality(Values(E))>>,
     min |-> MinOf({e.x : e \in Values(E)}),
     max |-> MaxOf({e.x : e \in Values(E)})]

(* The partial columns of a group, as the maintainer stores them and the     *)
(* live tail computes them: an average is kept as its sum and the count of   *)
(* the field.                                                                *)
(* (Mutant: the count of the rows is kept instead.)                          *)
AvgCountRows(E) == Cardinality(E)

AvgCount(E) == Cardinality(Values(E))

rollupMeasureSelect(E) ==
    [count |-> Cardinality(E),
     sum |-> SumOf(Values(E), Field),
     avgsum |-> SumOf(Values(E), Field),
     avgcount |-> AvgCount(E),
     min |-> MinOf({e.x : e \in Values(E)}),
     max |-> MaxOf({e.x : e \in Values(E)})]

(* The final SELECT over the partial rows of a group.                        *)
Combined(parts) ==
    LET some(F(_)) == {p \in parts : F(p) # Missing}
        sum(F(_)) == SumOf(some(F), F)
        count(p) == p.m.count
        total(p) == p.m.sum
        avgsum(p) == p.m.avgsum
        avgcount(p) == p.m.avgcount
    IN [count |-> sum(count),
        sum |-> sum(total),
        avg |-> IF sum(avgcount) = 0 THEN <<>> ELSE <<sum(avgsum), sum(avgcount)>>,
        min |-> MinOf({p.m.min : p \in parts} \ {Missing}),
        max |-> MaxOf({p.m.max : p \in parts} \ {Missing})]

-----------------------------------------------------------------------------
(* A condition on the dimension, or on another property: a comparison with   *)
(* NULL is not true.  The same operators are rendered for an event's         *)
(* property and for the rollup's column.                                     *)
mapCond(c, d) ==
    CASE c.op = "all" -> TRUE
      [] c.op = "eq" -> d # Missing /\ d = c.value
      [] c.op = "ne" -> d # Missing /\ d # c.value
      [] c.op = "gt" -> d # Missing /\ d > c.value
      [] c.op = "isnull" -> d = Missing

Prop(c, e) == IF c.on = "dim" THEN e.dim ELSE e.x

(* A condition on the result of a measure.                                   *)
mapHavingCond(h, m) ==
    CASE h.op = "all" -> TRUE
      [] h.op = "count" -> m.count >= h.value
      [] h.op = "sum" -> m.sum # Missing /\ m.sum > h.value

InRange(q, t) == (q.from # NoTime => t >= q.from) /\ (q.to # NoTime => t < q.to)

(* The query a metric's query runs: its own bucket, or the metric's.         *)
EffectiveBucket(q) == IF q.bucket = 0 THEN Setup.grain ELSE q.bucket

(* The fully live statement: the rows of its result.                         *)
buildInsightsSQL(q) ==
    LET b == EffectiveBucket(q)
        from == {e \in tracked : InRange(q, e.at) /\ mapCond(q.filter, Prop(q.filter, e))}
        groups == {<<Floor(e.at, b), e.dim>> : e \in from}
        row(g) == [group |-> g, m |-> measureAggExpr({e \in from : <<Floor(e.at, b), e.dim>> = g})]
    IN {r \in {row(g) : g \in groups} : mapHavingCond(q.having, r.m)}

(* The stitched one: sealed rows, partial rows of the live tail, regrouped.  *)
SealedLo(q) == IF q.from = NoTime THEN 0 ELSE Ceil(q.from, Setup.grain)
SealedHi(q) == IF q.to = NoTime \/ Floor(q.to, Setup.grain) >= wm THEN wm ELSE Floor(q.to, Setup.grain)

PartialRows(E, part) ==
    {[bucket |-> k[1], scope |-> k[2], dim |-> k[3], part |-> part,
      m |-> rollupMeasureSelect({e \in E : <<Floor(e.at, Setup.grain), e.scope, e.dim>> = k})] :
     k \in {<<Floor(e.at, Setup.grain), e.scope, e.dim>> : e \in E}}

buildStitchedRollupSQL(q) ==
    LET b == EffectiveBucket(q)
        sealed == {p \in rolled : SealedLo(q) <= p.bucket /\ p.bucket < SealedHi(q) /\ mapCond(q.filter, p.dim)}
        tail == {e \in tracked : /\ InRange(q, e.at)
                                 /\ e.at < SealedLo(q) \/ e.at >= SealedHi(q)
                                 /\ mapCond(q.filter, Prop(q.filter, e))}
        parts == sealed \cup PartialRows(tail, "live")
        groups == {<<Floor(p.bucket, b), p.dim>> : p \in parts}
        row(g) == [group |-> g, m |-> Combined({p \in parts : <<Floor(p.bucket, b), p.dim>> = g})]
    IN {r \in {row(g) : g \in groups} : mapHavingCond(q.having, r.m)}

(* The rollup answers a query whose buckets are multiples of its own and     *)
(* whose filter is on its dimensions.                                        *)
rollupCompatible(q) ==
    /\ EffectiveBucket(q) >= Setup.grain
    /\ EffectiveBucket(q) % Setup.grain = 0
    /\ q.filter.on = "dim"

(* The route a query takes.                                                  *)
Query(q) ==
    IF rollupCompatible(q) /\ wm # NoTime THEN buildStitchedRollupSQL(q) ELSE buildInsightsSQL(q)

-----------------------------------------------------------------------------
MeasureInit ==
    /\ mset \in DOMAIN MeasureSetups
    /\ tracked = {}
    /\ rolled = {}
    /\ wm = NoTime

Track(at, p) ==
    /\ Cardinality(tracked) < Setup.events
    /\ at >= wm
    /\ tracked' = tracked \cup {[n |-> Cardinality(tracked) + 1, at |-> at, scope |-> p.scope, dim |-> p.dim, x |-> p.x]}
    /\ UNCHANGED <<mset, rolled, wm>>

(* A pass of the maintainer up to a boundary.                                *)
RollupRange(to) ==
    /\ to > wm
    /\ rolled' = PartialRows({e \in tracked : e.at < to}, "sealed")
    /\ wm' = to
    /\ UNCHANGED <<mset, tracked>>

MeasureNext ==
    \/ \E at \in 0..Setup.until - 1, p \in Setup.props : Track(at, p)
    \/ \E to \in {t \in 0..Setup.until : t % Setup.grain = 0} : RollupRange(to)

MeasureSpec == MeasureInit /\ [][MeasureNext]_measureVars

-----------------------------------------------------------------------------
MeasureTypeOK ==
    /\ mset \in DOMAIN MeasureSetups
    /\ Cardinality(tracked) <= Setup.events
    /\ \A p \in rolled : p.bucket < wm

(* A query of a materialised metric answers what the fully live query        *)
(* answers, row for row and measure for measure, whatever its bounds, bucket, *)
(* filter and HAVING and wherever the watermark is ("the stitched result is  *)
(* EXACTLY equal to the fully-live result", insights_rollup_query.go).       *)
StitchedIsLive == \A q \in Setup.queries : Query(q) = buildInsightsSQL(q)
=============================================================================
