------------------------------- MODULE MCLive -------------------------------
(* Instances of the live-query and subscription components for TLC.  A       *)
(* behaviour is about one of them, its focus; the others stay as they begin. *)
EXTENDS FilterTerms

CONSTANTS
    Focuses,                                    \* subset of {"hub", "window", "engine", "cluster", "filters", "remote", "edge"}
    MaxSessions, HubAggs, HubBuffer, HubSetups,                 \* Hub
    LiveKeys, LiveSetups,                                       \* LiveWindow
    MaxHandles, EngineBuffer, MaxAttempts, EngineSetups,        \* LiveEngine
    Shards, ClusterSubs, MaxReanchors, ClusterSetups,           \* LiveCluster
    Views, FilterSetups,                                        \* Filters
    RemoteSetups,                                               \* RemoteLive
    EdgeSetups                                                  \* GatewayEdge

VARIABLES
    focus,
    setup, topic, cs, hub, pumps, sess, hubOdd,
    lq, table, log, pos, view, client, recon, blame,
    esetup, current, parts, hs, engOdd,
    csetup, live, shard, registry, gate, blamed,
    fset, shown, byColVal, want, residual, row,
    remset, up, down, ctx, engine, handler, sending, pulling, cli, reader, replies, buf, pump, got, calls, hungup,
    edgeset, peer, conn, sub, serve, rpump, wpump, writing, wrote, seen, pctx, beats

-----------------------------------------------------------------------------
(* The tapes let an aggregate be conflated, come back in an older version,   *)
(* and reach raw and conflated subscribers; three sessions reuse an id.      *)
Ev(a, v) == [agg |-> a, ver |-> v]
Hubs ==
    { [tape |-> <<Ev("a", 1), Ev("a", 2), Ev("a", 1)>>, raw |-> <<FALSE, FALSE>>, ends |-> FALSE],
      [tape |-> <<Ev("a", 1), Ev("b", 1), Ev("a", 2)>>, raw |-> <<FALSE, FALSE>>, ends |-> FALSE],
      [tape |-> <<Ev("a", 1), Ev("b", 1)>>, raw |-> <<FALSE, FALSE, TRUE>>, ends |-> TRUE],
      [tape |-> <<Ev("a", 1), Ev("a", 2)>>, raw |-> <<TRUE, TRUE, TRUE>>, ends |-> FALSE],
      [tape |-> <<Ev("a", 1), Ev("a", 2), Ev("a", 3)>>, raw |-> <<TRUE>>, ends |-> FALSE],
      [tape |-> <<Ev("a", 1), Ev("a", 2)>>, raw |-> <<TRUE, TRUE>>, ends |-> TRUE] }

(* One visible row with one or two behind it: every write crosses a          *)
(* boundary of the window, and ties are broken by id.                        *)
Query(limit, cushion, indexed, mode, rows, commits, faults) ==
    [limit |-> limit, cushion |-> cushion, indexed |-> indexed, mode |-> mode, table |-> rows,
     commits |-> commits, faults |-> faults]
Queries ==
    { Query(1, 1, FALSE, "maintained", <<1, 2, 3>>, 3, FALSE),
      Query(1, 1, FALSE, "maintained", <<1, 0, 0>>, 2, FALSE),
      Query(1, 2, TRUE, "maintained", <<1, 1, 2, 3>>, 2, FALSE),
      Query(1, 2, FALSE, "maintained", <<1, 2, 2, 3>>, 2, TRUE),
      Query(1, 1, TRUE, "streamed", <<1, 0, 2>>, 3, FALSE) }

(* Three subscribers of one shape whose seed fails; two that reanchor and    *)
(* overflow; a feed that ends; Close against Reanchor; a streamed view.      *)
Engines ==
    { [handles |-> 3, reanchors |-> 0, deltas |-> 0, shapes |-> {1}, streamed |-> FALSE, wrong |-> {"seed"}],
      [handles |-> 2, reanchors |-> 1, deltas |-> 2, shapes |-> {1, 2}, streamed |-> FALSE, wrong |-> {}],
      [handles |-> 2, reanchors |-> 0, deltas |-> 1, shapes |-> {1}, streamed |-> FALSE, wrong |-> {"feed"}],
      [handles |-> 2, reanchors |-> 1, deltas |-> 0, shapes |-> {1, 2}, streamed |-> FALSE, wrong |-> {"race"}],
      [handles |-> 2, reanchors |-> 0, deltas |-> 1, shapes |-> {1}, streamed |-> TRUE, wrong |-> {}] }

(* A shard dies or stops and a call fails; a live one stalls past its TTL    *)
(* and a call fails.                                                         *)
Clusters ==
    { [crashes |-> 1, stalls |-> 0, errors |-> 1],
      [crashes |-> 0, stalls |-> 1, errors |-> 1] }

(* Conditions on a number and on a string, alone, in conjunctions with an    *)
(* indexed equality and in disjunctions, over rows with missing values; all  *)
(* short patterns over all short strings; ranges of strings in both          *)
(* collations, and of times in two zones; orders over two keys and an id.    *)
Timed(id, n, m, s, t) == [id |-> FloatOf(id), n |-> n, m |-> m, s |-> StrOf(s), t |-> t]
Row(id, n, m, s) == Timed(id, n, m, s, Null)
Zero == FloatOf(0)
One == FloatOf(1)
Strings(chars, len) == UNION {[1..k -> chars] : k \in 0..len}
Words == Strings({1, 2}, 3) \cup Strings({1, Star}, 2)
Patterns == Strings({1, Percent, Underscore}, 3) \cup Strings({Percent, Star}, 2)
Numeric == {Cond("n", op, <<IntOf(k)>>) : op \in {"eq", "ne", "gt", "gte", "lt", "lte"}, k \in 0..1}
           \cup {Cond("n", op, <<IntOf(0), FloatOf(2)>>) : op \in {"in", "notin"}}
           \cup {Cond("n", op, <<>>) : op \in {"isnull", "isnotnull"}}
Textual == {Cond("s", op, <<StrOf(<<1>>)>>) : op \in {"eq", "ne", "like", "ilike"}}
Leaves == Numeric \cup Textual
Comparing(col, vals) ==
    {Cond(col, op, <<x>>) : op \in {"eq", "ne", "gt", "gte", "lt", "lte"}, x \in vals}
    \cup {Cond(col, op, <<x, y>>) : op \in {"in", "notin"}, x, y \in vals}
Texts == {TextOf(1, 1), TextOf(1, 3), TextOf(2, 2)}
Letters == {<<>>, <<1>>, <<2>>, <<Upper(1)>>, <<1, 2>>, <<Upper(1), 1>>}
Collating(views, wheres, rows, sorts, collation) ==
    [views |-> views, wheres |-> wheres, rows |-> rows, sorts |-> sorts, collation |-> collation]
Filtering(views, wheres, rows, sorts) == Collating(views, wheres, rows, sorts, "C")
Unfiltered == Filtering({}, {}, {Row(1, Zero, Zero, <<>>)}, {})
Filterings ==
    { Unfiltered,
      Filtering({1, 2}, {<<c>> : c \in Leaves} \cup {<<Cond("s", "in", <<StrOf(<<1>>), StrOf(<<2>>)>>), c>> : c \in Numeric},
                {Row(1, n, Zero, s) : n \in {Absent, Null, Zero, One}, s \in {<<1>>, <<Upper(1)>>, <<2>>}}, {}),
      Filtering({1}, {<<Or(<<c, d>>)>> : c \in Leaves, d \in Numeric} \cup {<<c, d>> : c, d \in Numeric},
                {Row(1, n, Zero, <<1>>) : n \in {Null, Zero, One}}, {}),
      Filtering({1}, {<<Cond("s", op, <<StrOf(p)>>)>> : op \in {"like", "ilike"}, p \in Patterns},
                {Row(1, Zero, Zero, s) : s \in Words}, {}),
      Filtering({1}, {<<c>> : c \in Comparing("t", Texts \cup {TimeOf(1)})},
                {Timed(1, Zero, Zero, <<>>, t) : t \in Texts \cup {Null, Absent}},
                {<<[col |-> "t", desc |-> d]>> : d \in BOOLEAN}),
      Filtering({1}, {}, {Row(id, n, m, <<>>) : id \in 1..2, n \in {Null, Zero, One}, m \in {Zero, One}},
                {<<>>} \cup {<<[col |-> "n", desc |-> a], [col |-> "m", desc |-> b]>> : a, b \in BOOLEAN}) }
    \cup { Collating({1}, {<<c>> : c \in Comparing("s", {StrOf(s) : s \in Letters})},
                     {Row(1, Zero, Zero, s) : s \in Letters}, {<<[col |-> "s", desc |-> d]>> : d \in BOOLEAN}, order) :
           order \in {"C", "en"} }

(* Two Reanchor calls that may give up; a caller that hangs up one way or    *)
(* the other; a subscription that ends; a connection that breaks; a query    *)
(* that is refused.                                                          *)
Remoting(count, deltas, fates) ==
    [calls |-> count, deltas |-> deltas, room |-> 1, drains |-> FALSE, fates |-> fates]
Remotes ==
    { Remoting(2, 1, {"giveup"}), Remoting(1, 1, {"cancel", "fails"}), Remoting(1, 1, {"close"}),
      Remoting(1, 2, {"end", "fails"}), Remoting(1, 1, {"broken", "end"}), Remoting(0, 1, {"refused", "cancel"}) }

(* Clients that stall, leave, reanchor or unsubscribe, with and without a    *)
(* bound on the writes.                                                      *)
Edges ==
    { [kind |-> k, deltas |-> 2, beats |-> 1, timeout |-> t,
       fates |-> {"stall", "gone", "leave", "end", "cancel", "reanchor", "refused"}] :
      k \in {"ws", "sse"}, t \in BOOLEAN }

-----------------------------------------------------------------------------
H == INSTANCE Hub
W == INSTANCE LiveWindow
E == INSTANCE LiveEngine
C == INSTANCE LiveCluster
P == INSTANCE Filters
L == INSTANCE RemoteLive
G == INSTANCE GatewayEdge

hubVars == <<setup, topic, cs, hub, pumps, sess, hubOdd>>
liveVars == <<lq, table, log, pos, view, client, recon, blame>>
engVars == <<esetup, current, parts, hs, engOdd>>
clusVars == <<csetup, live, shard, registry, gate, blamed>>
filterVars == <<fset, shown, byColVal, want, residual, row>>
remoteVars == <<remset, up, down, ctx, engine, handler, sending, pulling, cli, reader, replies, buf, pump, got, calls,
                hungup>>
edgeVars == <<edgeset, peer, conn, sub, serve, rpump, wpump, writing, wrote, seen, pctx, beats>>
streamVars == <<remoteVars, edgeVars>>
vars == <<focus, hubVars, liveVars, engVars, clusVars, filterVars, streamVars>>

Some(S) == CHOOSE x \in S : TRUE

Init ==
    /\ focus \in Focuses
    /\ H!HubInit /\ (focus # "hub" => setup = Some(HubSetups))
    /\ W!LiveInit /\ (focus # "window" => lq = Some(LiveSetups))
    /\ E!EngInit /\ (focus # "engine" => esetup = Some(EngineSetups))
    /\ C!ClusInit /\ (focus # "cluster" => csetup = Some(ClusterSetups))
    /\ P!FilterInit /\ (focus # "filters" => fset = Unfiltered)
    /\ L!RemoteInit /\ (focus # "remote" => remset = Some(RemoteSetups))
    /\ G!EdgeInit /\ (focus # "edge" => edgeset = Some(EdgeSetups))

HubStep == focus = "hub" /\ H!HubNext /\ UNCHANGED <<focus, liveVars, engVars, clusVars, filterVars, streamVars>>
WindowStep == focus = "window" /\ W!LiveNext /\ UNCHANGED <<focus, hubVars, engVars, clusVars, filterVars, streamVars>>
EngineStep == focus = "engine" /\ E!EngNext /\ UNCHANGED <<focus, hubVars, liveVars, clusVars, filterVars, streamVars>>
ClusterStep == focus = "cluster" /\ C!ClusNext /\ UNCHANGED <<focus, hubVars, liveVars, engVars, filterVars, streamVars>>
FiltersStep == focus = "filters" /\ P!FilterNext /\ UNCHANGED <<focus, hubVars, liveVars, engVars, clusVars, streamVars>>
RemoteStep ==
    focus = "remote" /\ L!RemoteNext /\ UNCHANGED <<focus, hubVars, liveVars, engVars, clusVars, filterVars, edgeVars>>
EdgeStep ==
    focus = "edge" /\ G!EdgeNext /\ UNCHANGED <<focus, hubVars, liveVars, engVars, clusVars, filterVars, remoteVars>>

Next == HubStep \/ WindowStep \/ EngineStep \/ ClusterStep \/ FiltersStep \/ RemoteStep \/ EdgeStep

Spec == Init /\ [][Next]_vars

-----------------------------------------------------------------------------
(* The properties, stated and explained one by one in the components' modules. *)

(* The hub (hub.go, conflate.go): a channel with subscribers is tailed unless its last one   *)
(* left deltas pending; a raw subscriber receives a gap-free run of the stream; conflation   *)
(* loses no newest version; cancel closes its own subscriber.                                *)
SubscribersServed ==
    H!HubTypeOK /\ H!PumpUnlessLeftPending /\ H!RawComplete /\ H!NewestSurvives /\ H!CancelClosesItsOwn

(* The live window (window.go, dispatcher.go applyStreamed): it is an exact prefix of the    *)
(* ordered result, its visible part is full while rows exist, and streamed membership is     *)
(* exact, each until one of five events: a row is spliced past rows not held (window.go:84), *)
(* a refill runs ahead of the feed, the index withholds a change of a held row from a ready  *)
(* or a seeding view, a reconcile applies an old snapshot.  After the first it still shows   *)
(* only true rows in order.  A client that splices the deltas shows the window, with a       *)
(* cushion of two or more and no failed refill.                                              *)
WindowExact ==
    W!LiveTypeOK /\ W!ExactPrefix /\ W!RowsAreTrue /\ W!VisibleFull /\ W!ClientShowsWindow /\ W!StreamedExact

(* Shared views (engine.go attach, detach, release; dispatcher.go send): references are      *)
(* subscriptions, no view is left without a user, a closed subscription is on no view, and   *)
(* no delta of a view is missed by who joined it.                                            *)
ViewsShared ==
    E!EngTypeOK /\ E!RefsHeld /\ E!ViewsAreUsed /\ E!ClosedIsDetached /\ E!FanOutGapless

(* The sharded tier (shard.go): once settled, the owner alone serves every open              *)
(* subscription, except one whose control, start or claim went wrong on the way (the errors  *)
(* the code ignores, see SettledServed), and nothing is left of a cancelled one.             *)
ClusterSettles == C!ClusTypeOK /\ C!SettledServed /\ C!SettledReleased

(* The evaluators of a filter (match, postgres/filter.go, search/filter.go, livequery/index.go,   *)
(* order.go): membership is what the database selects, except by times and by string ranges  *)
(* that Go orders otherwise; the index leaves out no view; a search finds the same rows, but *)
(* for exclusions, times and string ranges; and a refill starts where the window ends.       *)
FiltersAgree ==
    focus = "filters" => P!FilterTypeOK /\ P!MembershipAgrees /\ P!CandidatesSound /\ P!SearchAgrees /\ P!KeysetExact

(* The streams at the edges (remote/live.go, remote/server.go LiveQuery; gateway/ws.go,      *)
(* gateway/sse.go): a Reanchor returns its own reply, deltas arrive gap-free and before the  *)
(* end, a returned handler has released its subscription, and a connection has one writer.   *)
EdgesServe ==
    /\ L!RemoteTypeOK /\ L!ReplyIsOwn /\ L!DeltasGapless /\ L!EndIsLast /\ L!HandleReleased
    /\ G!EdgeTypeOK /\ G!OneWriter /\ G!FramesGapless /\ G!ClosedIsQuiet
=============================================================================
