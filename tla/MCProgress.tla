----------------------------- MODULE MCProgress -----------------------------
(* Instances of the subscription, live-query and catalog components that     *)
(* promise to get something done, with the fairness of their loops, for TLC. *)
(* They are smaller than those of MCLive and MCTenants; a behaviour is again *)
(* about one component.                                                      *)
EXTENDS Naturals, Sequences

CONSTANTS
    Focuses,                                \* subset of {"hub", "engine", "cluster", "pool", "sweep", "remote", "edge"}
    MaxSessions, HubAggs, HubBuffer, HubSetups,                 \* Hub
    MaxHandles, EngineBuffer, MaxAttempts, EngineSetups,        \* LiveEngine
    Shards, ClusterSubs, MaxReanchors, ClusterSetups,           \* LiveCluster
    PoolShards, Clients, PoolSetups,                            \* ShardPool
    SweepTenants, Workers, BackoffCap, SweepSetups,        \* Sweep
    RemoteSetups, EdgeSetups                                    \* RemoteLive, GatewayEdge

VARIABLES
    focus,
    setup, topic, cs, hub, pumps, sess, hubOdd,
    esetup, current, parts, hs, engOdd,
    csetup, live, shard, registry, gate, blamed,
    psetup, entries, lru, pcap, ctr, auto, conns, cl, poolOdd,
    ssetup, eligible, backlog, state, pass, owed,
    remset, up, down, ctx, engine, handler, sending, pulling, cli, reader, replies, buf, pump, got, calls, hungup,
    edgeset, peer, conn, sub, serve, rpump, wpump, writing, wrote, seen, pctx, beats

-----------------------------------------------------------------------------
(* Two conflated subscribers, and a process that shuts down. *)
Ev(a, v) == [agg |-> a, ver |-> v]
Hubs ==
    { [tape |-> <<Ev("a", 1), Ev("b", 1), Ev("a", 2)>>, raw |-> <<FALSE>>, ends |-> FALSE],
      [tape |-> <<Ev("a", 1)>>, raw |-> <<FALSE, FALSE>>, ends |-> TRUE] }

(* Three subscribers whose seed fails; two that reanchor; a feed that ends. *)
Engine(handles, reanchors, shapes, wrong) ==
    [handles |-> handles, reanchors |-> reanchors, deltas |-> 0, shapes |-> shapes, streamed |-> FALSE,
     wrong |-> wrong]
Engines == { Engine(3, 0, {1}, {"seed"}), Engine(2, 1, {1, 2}, {}), Engine(2, 0, {1}, {"feed"}) }

Clusters == { [crashes |-> 1, stalls |-> 0, errors |-> 1] }

(* A pool of one shard that may be closed; one the autoscaler grows. *)
Pool(faults, ticks, closes, max, budget) ==
    [ops |-> 2, faults |-> faults, ticks |-> ticks, closes |-> closes,
     auto |-> [min |-> 1, max |-> max, conns |-> budget, perShard |-> 4, missHigh |-> 20, evictHigh |-> 10,
               fillLow |-> 75, utilLow |-> 50, growPct |-> 150, step |-> 1, confirm |-> 1, cooldown |-> 1]]
Pools == { Pool(1, 0, 1, 1, 0), Pool(0, 1, 0, 3, 8) }

(* No engine; a sweep that fails; a catalog that changes and fails. *)
Sweeping(on, wakes, changes, faults, outages) ==
    [running |-> on, writes |-> IF on THEN 1 ELSE 0, wakes |-> wakes, changes |-> changes, faults |-> faults, outages |-> outages]
Sweepings == { Sweeping(FALSE, 0, 0, 0, 0), Sweeping(TRUE, 1, 0, 1, 0), Sweeping(TRUE, 0, 1, 0, 1) }

(* A Reanchor call that may give up before a Close; a caller that drains     *)
(* a stream, which ends or not; a connection that breaks; a cancelled query. *)
Remoting(count, deltas, drains, fates) ==
    [calls |-> count, deltas |-> deltas, room |-> 1, drains |-> drains, fates |-> fates]
Remotes ==
    { Remoting(1, 0, FALSE, {"giveup", "close"}), Remoting(1, 1, TRUE, {"end"}), Remoting(0, 2, TRUE, {}), Remoting(1, 1, FALSE, {"broken"}),
      Remoting(0, 1, FALSE, {"cancel", "refused"}) }

Edges ==
    { [kind |-> k, deltas |-> 1, beats |-> 1, timeout |-> t,
       fates |-> {"stall", "gone", "leave", "end", "cancel", "refused"}] :
      k \in {"ws", "sse"}, t \in BOOLEAN }

-----------------------------------------------------------------------------
H == INSTANCE Hub
E == INSTANCE LiveEngine
C == INSTANCE LiveCluster
P == INSTANCE ShardPool
S == INSTANCE Sweep
L == INSTANCE RemoteLive
G == INSTANCE GatewayEdge

hubVars == <<setup, topic, cs, hub, pumps, sess, hubOdd>>
engVars == <<esetup, current, parts, hs, engOdd>>
clusVars == <<csetup, live, shard, registry, gate, blamed>>
poolVars == <<psetup, entries, lru, pcap, ctr, auto, conns, cl, poolOdd>>
sweepVars == <<ssetup, eligible, backlog, state, pass, owed>>
remoteVars == <<remset, up, down, ctx, engine, handler, sending, pulling, cli, reader, replies, buf, pump, got, calls,
                hungup>>
edgeVars == <<edgeset, peer, conn, sub, serve, rpump, wpump, writing, wrote, seen, pctx, beats>>
streamVars == <<remoteVars, edgeVars>>

Some(X) == CHOOSE x \in X : TRUE

Init ==
    /\ focus \in Focuses
    /\ H!HubInit /\ (focus # "hub" => setup = Some(HubSetups))
    /\ E!EngInit /\ (focus # "engine" => esetup = Some(EngineSetups))
    /\ C!ClusInit /\ (focus # "cluster" => csetup = Some(ClusterSetups))
    /\ P!PoolInit /\ (focus # "pool" => psetup = Some(PoolSetups))
    /\ S!SweepInit /\ (focus # "sweep" => ~ ssetup.running)
    /\ L!RemoteInit /\ (focus # "remote" => remset = Some(RemoteSetups))
    /\ G!EdgeInit /\ (focus # "edge" => edgeset = Some(EdgeSetups))

HubStep == focus = "hub" /\ H!HubNext /\ UNCHANGED <<focus, engVars, clusVars, poolVars, sweepVars, streamVars>>
EngineStep == focus = "engine" /\ E!EngNext /\ UNCHANGED <<focus, hubVars, clusVars, poolVars, sweepVars, streamVars>>
ClusterStep == focus = "cluster" /\ C!ClusNext /\ UNCHANGED <<focus, hubVars, engVars, poolVars, sweepVars, streamVars>>
PoolStep == focus = "pool" /\ P!PoolNext /\ UNCHANGED <<focus, hubVars, engVars, clusVars, sweepVars, streamVars>>
SweepStep == focus = "sweep" /\ S!SweepNext /\ UNCHANGED <<focus, hubVars, engVars, clusVars, poolVars, streamVars>>
RemoteStep ==
    focus = "remote" /\ L!RemoteNext /\ UNCHANGED <<focus, hubVars, engVars, clusVars, poolVars, sweepVars, edgeVars>>
EdgeStep ==
    focus = "edge" /\ G!EdgeNext /\ UNCHANGED <<focus, hubVars, engVars, clusVars, poolVars, sweepVars, remoteVars>>

Next == HubStep \/ EngineStep \/ ClusterStep \/ PoolStep \/ SweepStep \/ RemoteStep \/ EdgeStep

(* The loops of the component in focus run, as HubFair, EngFair, ClusFair,   *)
(* PoolFair, SweepFair, RemoteFairness and EdgeFairness say.                 *)
On(f, A) == focus = f /\ A

Fair ==
    /\ WF_hubVars(On("hub", H!TimerFires)) /\ WF_hubVars(On("hub", \E p \in DOMAIN pumps : H!TailDeliver(p)))
    /\ \A h \in 1..MaxHandles : WF_engVars(On("engine", h \in E!Handles /\ E!Call(h)))
    /\ \A n \in Shards :
          /\ WF_clusVars(On("cluster", C!Loop(n)))
          /\ WF_clusVars(On("cluster", shard[n].pc = "down" /\ C!HeartbeatExpires(n)))
    /\ \A c \in Clients :
          /\ WF_poolVars(On("pool", P!AcquireStep(c))) /\ WF_poolVars(On("pool", P!DialOk(c) \/ P!DialFails(c)))
          /\ WF_poolVars(On("pool", P!AwaitEnds(c))) /\ WF_poolVars(On("pool", P!Release(c)))
          /\ SF_poolVars(On("pool", P!TimesOut(c)))
    /\ WF_sweepVars(On("sweep", S!PassStarts)) /\ WF_sweepVars(On("sweep", S!Scan))
    /\ WF_sweepVars(On("sweep", S!Decay)) /\ SF_sweepVars(On("sweep", S!Tick))
    /\ \A t \in SweepTenants :
          /\ WF_sweepVars(On("sweep", S!Launch(t))) /\ WF_sweepVars(On("sweep", S!Sweeps(t)))
          /\ WF_sweepVars(On("sweep", S!Finish(t)))
    /\ WF_remoteVars(On("remote", L!Goroutines \/ (remset.drains /\ L!Take)))
    /\ WF_edgeVars(On("edge", G!Pumps \/ (peer.gone /\ G!ContextEnds)))

Spec == Init /\ [][Next]_<<focus, hubVars, engVars, clusVars, poolVars, sweepVars, streamVars>> /\ Fair

-----------------------------------------------------------------------------
(* A buffered delta is flushed (conflate.go), Subscribe, Reanchor and Close return           *)
(* (engine.go, dispatcher.go do), a registered subscription is served again after a failover *)
(* (shard.go), unless its control, start or claim went wrong (see SettledServed), a remote   *)
(* Reanchor returns and a remote query's deltas arrive while its stream holds                *)
(* (remote/live.go), and a stream its client is done with ends on both sides                 *)
(* (remote/server.go, gateway/ws.go).                                                        *)
SubscriptionsProgress ==
    /\ H!BufferDrains /\ E!CallsReturn /\ C!FailoverServes
    /\ L!ReanchorEnds /\ L!HungupEnds /\ L!DeltasArrive
    /\ G!EdgeReleased /\ G!StalledIsDropped

(* Every Acquire returns (provider.go Acquire), and an eligible tenant's work is swept       *)
(* (sweep.go Pass).                                                                          *)
TenantsProgress == P!AcquireReturns /\ S!BacklogDrains
=============================================================================
