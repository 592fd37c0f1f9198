------------------------------ MODULE MCDerived -----------------------------
(* Instances of the analytics store, the rollups and the digest tree for TLC.*)
(* A behaviour is about one of them, its focus; the others stay as they      *)
(* begin.                                                                    *)
EXTENDS Integers, Analytics

CONSTANTS
    Replicas, RollupSetups,        \* Rollups
    DistillSetups,                 \* Distill, and Replicas
    SourceRows, DebounceSetups,    \* Debounce
    MeasureSetups                  \* Measures

VARIABLES
    focus,
    rset, now, events, roll, mark, lock, pass, held, overlaid, cut,
    dset, src, marks, tree, vectors, spent, work, used, last, base, seen, calm, restored, rework,
    bset, clock, arrived, repeats, dirty, armed, handle, deadline, fired, waiting, sweeping, leaf,
    since, overtaken,
    mset, tracked, rolled, wm

-----------------------------------------------------------------------------
(* A backfill among out-of-order deliveries; events no consumer can apply,   *)
(* and the passes that heal them; a reprojection while a replica is still on *)
(* the former allow-list; a purge.                                           *)
Kept(log, poison, wide, partitioned) ==
    [log |-> log, poison |-> poison, wide |-> wide, partitioned |-> partitioned,
     heals |-> 0, fills |-> 0, rewrites |-> 0, purges |-> 0, fails |-> 0]
Analyses ==
    { [Kept(<<"put", "put", "delete">>, {}, {}, FALSE) EXCEPT !.fills = 1, !.fails = 1],
      [Kept(<<"put", "put">>, {2}, {}, TRUE) EXCEPT !.heals = 2, !.fills = 1, !.fails = 1],
      [Kept(<<"put", "delete">>, {}, {"a"}, TRUE) EXCEPT !.fills = 1, !.rewrites = 1],
      [Kept(<<"put", "put">>, {1}, {}, FALSE) EXCEPT !.heals = 1, !.purges = 1, !.fails = 1] }

(* Events late by up to the re-roll window and more; two leaders after a     *)
(* lost session; two events in a bucket, with a re-roll window of one bucket *)
(* and of one and a half; a query that holds a watermark while passes go on. *)
Rolling(bucket, reroll, until, count, queries, losses) ==
    [bucket |-> bucket, grace |-> 1, reroll |-> reroll, until |-> until, events |-> count,
     queries |-> queries, losses |-> losses]
Rollings ==
    { Rolling(1, 2, 4, 1, 0, 0),
      Rolling(1, 1, 3, 1, 0, 1),
      Rolling(2, 2, 5, 2, 0, 0),
      Rolling(2, 3, 5, 2, 0, 0),
      Rolling(2, 2, 5, 1, 1, 0) }

(* Trees over two source rows, with two-bit embeddings of which one bit names*)
(* the cluster: rows that come, change, swap and go; texts that are blank or *)
(* blocked and events lost in a crash, before a backfill; a failing call;    *)
(* near clusters; blocked summaries; overlapping replicas; full nodes.       *)
Embeddings == <<<<0, 0>>, <<0, 1>>, <<1, 0>>>>
Digest ==
    [rows |-> <<"a", "b">>, texts |-> {1, 2}, scopes |-> {"x"}, blocked |-> {}, sem |-> Embeddings,
     sems |-> {<<0, 0>>}, bits |-> 1, subBits |-> 1, width |-> 2, floor |-> 2, radius |-> 0,
     fanIn |-> 2, batch |-> 2, replicas |-> {"r"}, writes |-> 2, errors |-> 0, crashes |-> 0,
     blocks |-> 0, backfills |-> 0]
Digests ==
    { [Digest EXCEPT !.writes = 3],
      [Digest EXCEPT !.texts = {1}, !.scopes = {"x", "y"}, !.radius = 1, !.writes = 3],
      [Digest EXCEPT !.texts = {0, 1, 3}, !.blocked = {3}, !.batch = 1, !.crashes = 1,
                     !.backfills = 1],
      [Digest EXCEPT !.texts = {1, 3}, !.errors = 1, !.backfills = 1],
      [Digest EXCEPT !.texts = {1}, !.blocks = 1, !.crashes = 1],
      [Digest EXCEPT !.texts = {1}, !.replicas = {"r", "s"}],
      [Digest EXCEPT !.rows = <<"a">>, !.replicas = {"r", "s"}],
      [Digest EXCEPT !.fanIn = 1, !.sems = {<<0, 0>>, <<1, 0>>}] }
(* A row that leaves a cluster and comes back.                               *)
Returning == { [Digest EXCEPT !.texts = {1, 3}, !.scopes = {""}, !.writes = 4] }

(* A wait capped by the deadline; the default cap with redeliveries; a cap   *)
(* below the wait.                                                           *)
Debounced(wait, max, until, again, timers) ==
    [debounce |-> wait, maxWait |-> max, until |-> until, versions |-> 2, again |-> again,
     timers |-> timers]
Debouncings == { Debounced(2, 3, 5, 0, 3), Debounced(0, 0, 3, 1, 3), Debounced(2, 1, 4, 0, 2) }

(* Queries with every pair of bounds, on and off the rollup's buckets, of    *)
(* the rollup's bucket, of twice it and of less; filters and HAVINGs; events *)
(* of two scopes, with and without the dimension and the field.              *)
Ask(op, value) == [on |-> "dim", op |-> op, value |-> value]
AskField(op, value) == [Ask(op, value) EXCEPT !.on = "x"]
Asked(buckets, filters, havings) ==
    [from : {-1, 1, 2}, to : {-1, 2, 3}, bucket : buckets, filter : filters, having : havings]
About(scope, dim, x) == [scope |-> scope, dim |-> dim, x |-> x]
Things == {About(1, 1, 3), About(2, 1, 1), About(1, 1, -1), About(1, -1, 2)}
Measurings ==
    << [grain |-> 2, until |-> 4, props |-> Things, events |-> 3,
        queries |-> Asked({0, 4}, {Ask("all", 0)}, {Ask("all", 0)})],
       [grain |-> 2, until |-> 4, props |-> Things, events |-> 2,
        queries |-> Asked({1, 2}, {Ask("eq", 1), Ask("ne", 1), Ask("isnull", 0), AskField("gt", 1)},
                          {Ask("all", 0), Ask("count", 2), Ask("sum", 2)})] >>

-----------------------------------------------------------------------------
R == INSTANCE Rollups
D == INSTANCE Distill WITH healed <- restored
B == INSTANCE Debounce
M == INSTANCE Measures

rollVars == <<rset, now, events, roll, mark, lock, pass, held, overlaid, cut>>
distVars == <<dset, src, marks, tree, vectors, spent, work, used, last, base, seen, calm, restored,
              rework>>
bounceVars == <<bset, clock, arrived, repeats, dirty, armed, handle, deadline, fired, waiting,
                sweeping, leaf, since, overtaken>>
measureVars == <<mset, tracked, rolled, wm>>
vars == <<focus, anaVars, rollVars, distVars, bounceVars, measureVars>>

Some(X) == CHOOSE x \in X : TRUE

Init ==
    /\ focus \in {"analytics", "rollups", "distill", "debounce", "measures"}
    /\ AnaInit /\ (focus # "analytics" => aset = Some(AnalyticsSetups))
    /\ R!RollInit /\ (focus # "rollups" => rset = Some(RollupSetups))
    /\ D!DistillInit /\ (focus # "distill" => dset = Some(DistillSetups))
    /\ B!DebounceInit /\ (focus # "debounce" => bset = Some(DebounceSetups))
    /\ M!MeasureInit /\ (focus # "measures" => mset = 1)

AnalyticsStep ==
    focus = "analytics" /\ AnaNext /\ UNCHANGED <<focus, rollVars, distVars, bounceVars, measureVars>>
RollupsStep ==
    focus = "rollups" /\ R!RollNext /\ UNCHANGED <<focus, anaVars, distVars, bounceVars, measureVars>>
DistillStep ==
    focus = "distill" /\ D!DistillNext /\ UNCHANGED <<focus, anaVars, rollVars, bounceVars, measureVars>>
DebounceStep ==
    focus = "debounce" /\ B!DebounceNext /\ UNCHANGED <<focus, anaVars, rollVars, distVars, measureVars>>
MeasuresStep ==
    focus = "measures" /\ M!MeasureNext /\ UNCHANGED <<focus, anaVars, rollVars, distVars, bounceVars>>

Next == AnalyticsStep \/ RollupsStep \/ DistillStep \/ DebounceStep \/ MeasuresStep

Spec == Init /\ [][Next]_vars

-----------------------------------------------------------------------------
(* The properties, stated and explained one by one in the components'       *)
(* modules.  Each is about the behaviours of its component: in the others   *)
(* the component stays in an initial state.                                 *)

(* The rollups (insights_rollup_maintain.go, insights_rollup_query.go): a stitched query     *)
(* counts nothing twice and every event tracked in time, and a late event stays within reach *)
(* of the next pass, each except in a bucket that a pass re-rolled from inside, whose row    *)
(* then has part of its events (a re-roll window that is no multiple of the bucket).         *)
RollupsCount == focus = "rollups" => R!RollTypeOK /\ R!TilesTheRange /\ R!OnTimeExact /\ R!LateNotStranded

(* The digest tree (rollup.go, distill.go): a pass leaves the tree its leaves give, and, in  *)
(* a calm history, a swept row has its leaf and vector, no member is missing below its node, *)
(* a clean backfill leaves no row without its leaf, an unchanged tree costs nothing; events  *)
(* are swept in time, and a burst comes to its last event (distillworker.go).                *)
DigestsFollow ==
    /\ focus = "distill" => D!DistillTypeOK /\ D!RollupExact /\ D!SweptIsCurrent /\ D!ChildrenCoverMembers
                                /\ D!BackfillHeals /\ D!NoRework
    /\ focus = "debounce" => B!DebounceTypeOK /\ B!SweptWithinMaxWait /\ B!BurstComesToItsLast

(* A stitched query answers what the fully live one does (insights_rollup_query.go,          *)
(* insights_query_build.go).                                                                 *)
StitchedIsLive == focus = "measures" => M!MeasureTypeOK /\ M!StitchedIsLive

(* A bucket above the noise floor has its node (distillation.mdx; rollup.go Rollup).         *)
PromotedAboveFloor == D!PromotedAboveFloor
=============================================================================
