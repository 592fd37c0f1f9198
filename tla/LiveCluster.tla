---------------------------- MODULE LiveCluster -----------------------------
(* The sharded live-query tier (core/livequery/cluster, adapters/redis       *)
(* cluster.go): heartbeat membership, rendezvous ownership, gateway control  *)
(* routed to the owning shard, the durable registry and failover.  One       *)
(* partition.  Shards are numbered by descending rendezvous weight for it.   *)
(* A shard's Run loop is one goroutine: while it handles a control or claims *)
(* the partition it neither heartbeats nor reconciles.                       *)
EXTENDS Naturals, Sequences, FiniteSets, FiniteSetsExt

CONSTANTS
    Shards,          \* 1 .. n, the heaviest first
    ClusterSubs,     \* subscriptions of one gateway
    MaxReanchors,    \* bound on a subscription's reanchors
    ClusterSetups    \* [crashes, stalls, errors: how many of each]

VARIABLES
    csetup,     \* what may still happen to the cluster
    live,       \* shards whose heartbeat key has not expired
    shard,      \* shard: the Run loop's state
    registry,   \* subscription: its stored window, 0 when not registered
    gate,       \* subscription: the gateway's side
    blamed      \* history: subscription -> what went wrong with it

clusVars == <<csetup, live, shard, registry, gate, blamed>>

(* A window is numbered 1, 2, ... as the client reanchors; 0 is none. *)
None == [s \in ClusterSubs |-> 0]
Down == [pc |-> "down", owned |-> FALSE, subs |-> None, ctrl |-> <<>>, regs |-> None, tail |-> "now"]

ClusInit ==
    /\ csetup \in ClusterSetups
    /\ live = {}
    /\ shard = [n \in Shards |-> Down]
    /\ registry = None
    /\ gate = [s \in ClusterSubs |-> [st |-> "new", window |-> 0]]
    /\ blamed = [s \in ClusterSubs |-> {}]

(* Owner: the live shard of the greatest weight, 0 when none is live. *)
Owner(ls) == IF ls = {} THEN 0 ELSE Min(ls)

Served(n) == {s \in ClusterSubs : shard[n].subs[s] # 0}

Blame(ss, what) == [s \in ClusterSubs |-> blamed[s] \cup IF s \in ss THEN {what} ELSE {}]

(* A call to the registry, the membership or the engine answers with an error. *)
Errs == csetup.errors > 0 /\ csetup' = [csetup EXCEPT !.errors = @ - 1]

(* Ownership moves with the set of live shards.  A shard compares what it    *)
(* owns with what it noted at its last tick: subscriptions taken before it   *)
(* noted its ownership are not released when it loses it, and one that lost  *)
(* and regained it between two ticks does not look at the registry again.    *)
LiveBecomes(ls, unread) ==
    LET was == Owner(live)
        now == Owner(ls)
    IN /\ live' = ls
       /\ blamed' = [s \in ClusterSubs |-> blamed[s] \cup
             {x \in {"lost", "stranded", "unnoticed"} :
                 CASE x = "lost" -> s \in unread
                   [] x = "stranded" -> was \notin {0, now} /\ ~ shard[was].owned /\ s \in Served(was)
                   [] x = "unnoticed" -> now \notin {0, was} /\ shard[now].owned
                                         /\ shard[now].subs[s] # registry[s]}]

-----------------------------------------------------------------------------
(* The shard's Run loop *)

(* Run: tail the control stream from now on, heartbeat, reconcile. *)
Run(n) ==
    /\ shard[n].pc = "down"
    /\ LiveBecomes(live \cup {n}, {})
    /\ shard' = [shard EXCEPT ![n] = [Down EXCEPT !.pc = "reconcile"]]
    /\ UNCHANGED <<csetup, registry, gate>>

Heartbeat(n) ==
    /\ shard[n].pc = "select" /\ n \notin live
    /\ LiveBecomes(live \cup {n}, {})
    /\ UNCHANGED <<csetup, shard, registry, gate>>

OwnershipTick(n) ==
    /\ shard[n].pc = "select" /\ shard[n].owned # (n = Owner(live))
    /\ shard' = [shard EXCEPT ![n].pc = "reconcile"]
    /\ UNCHANGED <<csetup, live, registry, gate, blamed>>

(* Mutant: what a lost partition served is not torn down. *)
reconcileOwnershipKeeps(n) ==
    /\ shard[n].pc = "reconcile"
    /\ LET owns == n = Owner(live)
       IN shard' = [shard EXCEPT ![n].owned = owns,
                                 ![n].pc = IF owns /\ ~ shard[n].owned THEN "claim" ELSE "select"]
    /\ UNCHANGED <<csetup, live, registry, gate, blamed>>

(* Mutant: a gained partition is not rebuilt from the registry. *)
reconcileOwnershipIdle(n) ==
    /\ shard[n].pc = "reconcile"
    /\ LET owns == n = Owner(live)
       IN shard' = [shard EXCEPT ![n].owned = owns, ![n].pc = "select",
                                 ![n].subs = IF owns THEN @ ELSE None]
    /\ UNCHANGED <<csetup, live, registry, gate, blamed>>

(* reconcileOwnership: a lost partition is released, a gained one claimed. *)
reconcileOwnership(n) ==
    /\ shard[n].pc = "reconcile"
    /\ LET owns == n = Owner(live)
           lost == shard[n].owned /\ ~ owns
           gained == owns /\ ~ shard[n].owned
       IN shard' = [shard EXCEPT ![n].owned = owns,
                                 ![n].subs = IF lost THEN None ELSE @,
                                 ![n].pc = IF gained THEN "claim" ELSE "select"]
    /\ UNCHANGED <<csetup, live, registry, gate, blamed>>

(* ... unless the live shards cannot be read: nothing changes until the next tick. *)
LiveShardsFails(n) ==
    /\ shard[n].pc = "reconcile" /\ Errs
    /\ shard' = [shard EXCEPT ![n].pc = "select"]
    /\ UNCHANGED <<live, registry, gate, blamed>>

(* claimPartition reads the registry ... *)
claimPartition(n) ==
    /\ shard[n].pc = "claim"
    /\ shard' = [shard EXCEPT ![n].regs = registry, ![n].pc = "start"]
    /\ UNCHANGED <<csetup, live, registry, gate, blamed>>

(* ... which may fail: the partition counts as owned all the same. *)
ClaimFails(n) ==
    /\ shard[n].pc = "claim" /\ Errs
    /\ shard' = [shard EXCEPT ![n].pc = "select"]
    /\ blamed' = Blame(ClusterSubs, "unclaimed")
    /\ UNCHANGED <<live, registry, gate>>

(* What a claim of the owner makes good: an earlier claim or start that failed. *)
Healed(n, ss) ==
    [s \in ClusterSubs |->
        blamed[s] \ IF n = Owner(live) /\ s \in ss THEN {"unclaimed", "unstarted"} ELSE {}]

(* ... and starts what it does not serve yet (startSub); one the engine      *)
(* refuses stays registered and is not tried again before the next claim.    *)
StartClaimed(n) ==
    /\ shard[n].pc = "start"
    /\ \E failed \in SUBSET ClusterSubs :
          LET new == {s \in ClusterSubs : shard[n].regs[s] # 0 /\ shard[n].subs[s] = 0}
              started == new \ failed
              old == {s \in started : registry[s] # shard[n].regs[s]}
          IN /\ failed \subseteq new
             /\ IF failed = {} THEN UNCHANGED csetup ELSE Errs
             /\ shard' = [shard EXCEPT ![n].subs = [s \in ClusterSubs |->
                                           IF s \in started THEN shard[n].regs[s] ELSE @[s]],
                                       ![n].regs = None, ![n].pc = "select"]
             /\ blamed' = [s \in ClusterSubs |->
                             IF s \in failed THEN blamed[s] \cup {"unstarted"}
                             ELSE Healed(n, started)[s] \cup IF s \in old THEN {"outdated"} ELSE {}]
    /\ UNCHANGED <<live, registry, gate>>

-----------------------------------------------------------------------------
(* handleControl *)

Take(n) == [shard[n] EXCEPT !.ctrl = Tail(@), !.tail = "id"]
Control(n, op) == shard[n].pc = "select" /\ shard[n].ctrl # <<>> /\ Head(shard[n].ctrl).op = op

(* OpSubscribe: only the owner goes on; anyone else drops the control, and   *)
(* so does a shard that cannot read who is live.                             *)
HandleSubscribe(n) ==
    /\ Control(n, "subscribe")
    /\ LET c == Head(shard[n].ctrl)
       IN \/ /\ n = Owner(live)
             /\ shard' = [shard EXCEPT ![n] = [Take(n) EXCEPT !.pc = "put", !.regs[c.sub] = 1]]
             /\ UNCHANGED <<csetup, blamed>>
          \/ /\ IF n = Owner(live) THEN Errs ELSE UNCHANGED csetup
             /\ shard' = [shard EXCEPT ![n] = Take(n)]
             /\ blamed' = Blame({c.sub}, "misrouted")
    /\ UNCHANGED <<live, registry, gate>>

(* A write of the registry whose error is ignored. *)
StoreWindow(n, s, w) ==
    \/ /\ registry' = [registry EXCEPT ![s] = w]
       /\ blamed' = IF n = Owner(live) THEN blamed ELSE Blame({s}, "misrouted")
       /\ UNCHANGED csetup
    \/ /\ Errs /\ UNCHANGED registry
       /\ blamed' = Blame({s}, "unstored")

(* Register the subscription and start it; one the engine refuses stays      *)
(* registered and unserved.                                                  *)
startSub(n) ==
    /\ shard[n].pc = "put"
    /\ LET s == CHOOSE x \in ClusterSubs : shard[n].regs[x] # 0
       IN \/ /\ StoreWindow(n, s, 1)
             /\ shard' = [shard EXCEPT ![n].subs[s] = 1, ![n].regs = None, ![n].pc = "select"]
          \/ /\ Errs
             /\ registry' \in {registry, [registry EXCEPT ![s] = 1]}
             /\ shard' = [shard EXCEPT ![n].regs = None, ![n].pc = "select"]
             /\ blamed' = Blame({s}, "unstarted")
    /\ UNCHANGED <<live, gate>>

(* OpReanchor: the shard that serves it moves the window and stores it,      *)
(* unless the engine answers with an error.                                  *)
HandleReanchor(n) ==
    /\ Control(n, "reanchor")
    /\ LET c == Head(shard[n].ctrl)
       IN \/ /\ shard[n].subs[c.sub] = 0
             /\ shard' = [shard EXCEPT ![n] = Take(n)]
             /\ blamed' = Blame({c.sub}, "early")
             /\ UNCHANGED <<csetup, registry>>
          \/ /\ shard[n].subs[c.sub] # 0
             /\ shard' = [shard EXCEPT ![n] = [Take(n) EXCEPT !.subs[c.sub] = c.window]]
             /\ StoreWindow(n, c.sub, c.window)
          \/ /\ shard[n].subs[c.sub] # 0 /\ Errs
             /\ shard' = [shard EXCEPT ![n] = Take(n)]
             /\ blamed' = Blame({c.sub}, "refused")
             /\ UNCHANGED registry
    /\ UNCHANGED <<live, gate>>

(* OpUnsubscribe: the registry is cleared only by the shard that serves it. *)
HandleUnsubscribe(n) ==
    /\ Control(n, "unsubscribe")
    /\ LET c == Head(shard[n].ctrl)
       IN /\ shard' = [shard EXCEPT ![n] = [Take(n) EXCEPT !.subs[c.sub] = 0]]
          /\ IF shard[n].subs[c.sub] = 0
             THEN UNCHANGED <<csetup, registry>> /\ blamed' = Blame({c.sub}, "early")
             ELSE StoreWindow(n, c.sub, 0)
    /\ UNCHANGED <<live, gate>>

-----------------------------------------------------------------------------
(* Failures: a crash, a graceful stop, and a loop stalled past its TTL.      *)
(* Controls a shard has not read are lost with it: its successor tails the   *)
(* control stream from now on.                                               *)

Unread(n) ==
    {shard[n].ctrl[i].sub : i \in DOMAIN shard[n].ctrl}
        \cup {s \in ClusterSubs : shard[n].pc = "put" /\ shard[n].regs[s] # 0}

Crash(n) ==
    /\ csetup.crashes > 0 /\ shard[n].pc # "down"
    /\ csetup' = [csetup EXCEPT !.crashes = @ - 1]
    /\ shard' = [shard EXCEPT ![n] = Down]
    /\ blamed' = Blame(Unread(n), "lost")
    /\ UNCHANGED <<live, registry, gate>>

Stop(n) ==
    /\ csetup.crashes > 0 /\ shard[n].pc = "select"
    /\ csetup' = [csetup EXCEPT !.crashes = @ - 1]
    /\ LiveBecomes(live \ {n}, Unread(n))
    /\ shard' = [shard EXCEPT ![n] = Down]
    /\ UNCHANGED <<registry, gate>>

HeartbeatExpires(n) ==
    /\ n \in live
    /\ IF shard[n].pc = "down" THEN UNCHANGED csetup
       ELSE csetup.stalls > 0 /\ csetup' = [csetup EXCEPT !.stalls = @ - 1]
    /\ LiveBecomes(live \ {n}, {})
    /\ UNCHANGED <<shard, registry, gate>>

-----------------------------------------------------------------------------
(* The gateway *)

(* SendControl to the owner.  readStream asks for entries after "$" until it *)
(* has read one: an entry added between two of its reads is skipped.         *)
SendControl(c) ==
    LET n == Owner(live)
        lost == /\ shard' = shard
                /\ blamed' = Blame({c.sub}, "lost")
    IN IF n = 0 \/ shard[n].pc = "down" THEN lost
       ELSE \/ /\ shard' = [shard EXCEPT ![n].ctrl = Append(@, c)]
               /\ UNCHANGED blamed
            \/ csetup.errors > 0 /\ shard[n].tail = "now" /\ shard[n].ctrl = <<>> /\ lost

(* Subscribe fails when no shard is live. *)
Subscribe(s) ==
    /\ gate[s].st = "new" /\ live # {}
    /\ gate' = [gate EXCEPT ![s] = [st |-> "open", window |-> 1]]
    /\ SendControl([op |-> "subscribe", sub |-> s, window |-> 1])
    /\ UNCHANGED <<csetup, live, registry>>

Reanchor(s) ==
    /\ gate[s].st = "open" /\ gate[s].window <= MaxReanchors /\ live # {}
    /\ gate' = [gate EXCEPT ![s].window = @ + 1]
    /\ SendControl([op |-> "reanchor", sub |-> s, window |-> gate[s].window + 1])
    /\ UNCHANGED <<csetup, live, registry>>

(* The cancel function Subscribe returned. *)
Unsubscribe(s) ==
    /\ gate[s].st = "open"
    /\ gate' = [gate EXCEPT ![s].st = "closed"]
    /\ SendControl([op |-> "unsubscribe", sub |-> s, window |-> 0])
    /\ UNCHANGED <<csetup, live, registry>>

-----------------------------------------------------------------------------
Loop(n) ==
    \/ Heartbeat(n) \/ OwnershipTick(n) \/ reconcileOwnership(n) \/ LiveShardsFails(n)
    \/ claimPartition(n) \/ StartClaimed(n)
    \/ HandleSubscribe(n) \/ startSub(n) \/ HandleReanchor(n) \/ HandleUnsubscribe(n)

ClusNext ==
    \/ \E n \in Shards :
           Run(n) \/ Loop(n) \/ ClaimFails(n) \/ Crash(n) \/ Stop(n) \/ HeartbeatExpires(n)
    \/ \E s \in ClusterSubs : Subscribe(s) \/ Reanchor(s) \/ Unsubscribe(s)

(* A running loop takes its turns; the heartbeat of a dead shard expires. *)
ClusFair ==
    \A n \in Shards : WF_clusVars(Loop(n)) /\ WF_clusVars(shard[n].pc = "down" /\ HeartbeatExpires(n))

ClusSpec == ClusInit /\ [][ClusNext]_clusVars /\ ClusFair

-----------------------------------------------------------------------------
ClusTypeOK ==
    /\ live \subseteq Shards
    /\ \A n \in Shards :
           /\ shard[n].pc \in {"down", "select", "reconcile", "claim", "start", "put"}
           /\ shard[n].subs \in [ClusterSubs -> 0 .. MaxReanchors + 1]
           /\ shard[n].pc \notin {"start", "put"} => shard[n].regs = None
    /\ registry \in [ClusterSubs -> 0 .. MaxReanchors + 1]
    /\ \A s \in ClusterSubs :
           blamed[s] \subseteq {"stranded", "unnoticed", "unclaimed", "outdated", "misrouted",
                               "early", "lost", "unstarted", "unstored", "refused"}

(* Membership is known and acted upon, and no control is under way. *)
Settled ==
    /\ live # {}
    /\ \A n \in Shards :
           /\ n \in live <=> shard[n].pc = "select"
           /\ n \notin live <=> shard[n].pc = "down"
           /\ shard[n].ctrl = <<>>
           /\ shard[n].owned <=> n = Owner(live)

Servers(s) == {n \in Shards : shard[n].subs[s] # 0}

(* Failover is transparent: once the cluster has settled, the owner and      *)
(* nobody else serves every open subscription, at the window its client last *)
(* asked for, whatever shards crashed or stalled in between                  *)
(* (shard.go reconcileOwnership, claimPartition, handleControl).  Except a   *)
(* subscription with which something went wrong: a control of it was lost,   *)
(* came to a shard that does not own the partition or does not serve it yet, *)
(* was refused by the engine or could not be stored (the code ignores these  *)
(* errors, shard.go:113-124, :144-147); its start failed or the claim of its *)
(* partition did, until a later claim starts it; or ownership came and went  *)
(* between two ticks.                                                        *)
SettledServed ==
    Settled => \A s \in ClusterSubs :
        gate[s].st = "open" /\ blamed[s] = {} =>
            /\ Servers(s) = {Owner(live)}
            /\ shard[Owner(live)].subs[s] = gate[s].window
            /\ registry[s] = gate[s].window

(* Once settled, nothing is left of a subscription its client cancelled.     *)
SettledReleased ==
    Settled => \A s \in ClusterSubs :
        gate[s].st = "closed" /\ blamed[s] = {} => Servers(s) = {} /\ registry[s] = 0

(* A subscription whose control reached the owner is served in the end, as   *)
(* long as some shard runs and whichever crash, unless something went wrong  *)
(* with it as for SettledServed; a start the engine refused is among that    *)
(* and is not tried again before a shard claims the partition                *)
(* (shard.go:144-147).                                                       *)
FailoverServes ==
    \A s \in ClusterSubs :
        registry[s] # 0 ~> \/ Servers(s) # {} \/ gate[s].st = "closed" \/ blamed[s] # {}
                           \/ \A n \in Shards : shard[n].pc = "down"

(* "Failover is transparent", as the documentation has it: once the cluster  *)
(* has settled, every registered subscription of an open client is served by *)
(* the partition's owner.                                                    *)
FailoverTransparent ==
    Settled => \A s \in ClusterSubs :
        gate[s].st = "open" /\ registry[s] # 0 => shard[Owner(live)].subs[s] # 0
=============================================================================
