------------------------------ MODULE Rebuild ------------------------------
(***************************************************************************)
(* Blue-green rebuild of one tenant's projection (Rebuilder) beside the     *)
(* consumers that keep applying events (Engine). projection_state names the *)
(* live model version and its status. While it is "building" consumers      *)
(* apply every event to the live target and to the one being built; the     *)
(* rebuilder replays the rows of Postgres, page by page in id order, into   *)
(* the new target, flips the state to it, and drops the old target after a  *)
(* soak. Consumers look the state up through caches (open.go). Targets are  *)
(* numbered by model version; the relay and the group are abstracted to the *)
(* set of events not yet acknowledged. Readers follow the state; the alias  *)
(* that search queries go through (OnFlip) is left out.                     *)
(***************************************************************************)
EXTENDS Integers, FiniteSets

CONSTANTS
    Aggs,        \* aggregates, as numbers in id order
    MaxVersion,  \* versions per aggregate
    Consumers,   \* replicas of the engine
    Rebuilders,  \* operators running a rebuild
    MaxModel,    \* bound on model versions
    PageSize,    \* rows per snapshot page (500 in the code)
    MaxFaults,   \* how often something fails
    Setups       \* the deployments considered, see Setup

Models == 1..MaxModel

(* The kind of projection, the consumers that run, whether rows are deleted, *)
(* how many model versions are built, what may fail or crash, and whether   *)
(* consumers may answer a lookup of the state from their cache, as open.go  *)
(* always lets them.                                                        *)
Setup == [sink : {"graph", "search"}, consumers : SUBSET Consumers, deletes : BOOLEAN,
          models : Models, faults : SUBSET {"apply", "consumer", "rebuild"},
          cached : BOOLEAN]

ASSUME RebuildAssumption ==
    /\ Aggs \subseteq Nat \ {0} /\ IsFiniteSet(Aggs)
    /\ MaxVersion \in Nat /\ MaxFaults \in Nat
    /\ MaxModel \in Nat \ {0} /\ PageSize \in Nat \ {0}
    /\ Setups \subseteq Setup

Events == Aggs \X (1..MaxVersion)
NoEvent == <<0, 0>>
State == [model : Models, status : {"live", "building", "soaking"}]

VARIABLES
    setup,   \* the deployment, fixed
    ver,     \* ver[a]: version of the last committed event of a
    gone,    \* aggregates whose row is deleted
    astray,  \* history: events handled by a stale lookup, deletions forgotten
    todo,    \* committed events not yet acknowledged by the group
    failed,  \* those whose handling failed: delivered again, out of order
    state,   \* fabriq_projection_state
    doc,     \* doc[<<m, a>>]: version of a's document in target m, 0 if none
    gate,    \* gate[<<m, a>>]: version target m compares a write with
    hand,    \* the event a consumer handles
    pc,      \* where a consumer is: "idle", "live", "build" or "done"
    plan,    \* the second target of the event it handles, 0 if none
    seen,    \* the state the consumer read last (cachedState)
    seenLive,\* the live target it resolved last (liveGraphResolver)
    rpc,     \* where a rebuilder is
    mine,    \* the model version in the rebuilder's copy of the state
    cursor,  \* last id its snapshot has read
    page,    \* rows read and not yet replayed, with their versions
    faults   \* faults so far

rowVars == <<ver, gone>>
sinkVars == <<doc, gate>>
consumerVars == <<hand, pc, plan, seen, seenLive>>
rebuildVars == <<rpc, mine, cursor, page>>
vars == <<setup, rowVars, astray, todo, failed, state, sinkVars, consumerVars, rebuildVars, faults>>

TypeOK ==
    /\ setup \in Setups
    /\ ver \in [Aggs -> 0..MaxVersion] /\ gone \subseteq Aggs
    /\ astray \subseteq Aggs \X (0..MaxVersion)
    /\ failed \subseteq todo /\ todo \subseteq Events
    /\ state \in State
    /\ doc \in [Models \X Aggs -> 0..MaxVersion]
    /\ gate \in [Models \X Aggs -> 0..MaxVersion]
    /\ hand \in [Consumers -> Events \cup {NoEvent}]
    /\ pc \in [Consumers -> {"idle", "live", "build", "done"}]
    /\ plan \in [Consumers -> Models \cup {0}]
    /\ seen \in [Consumers -> State] /\ seenLive \in [Consumers -> Models]
    /\ rpc \in [Rebuilders -> {"idle", "mark", "drop", "snap", "last", "soak", "final"}]
    /\ mine \in [Rebuilders -> Models]
    /\ cursor \in [Rebuilders -> Aggs \cup {0}]
    /\ page \in [Rebuilders -> SUBSET Events]
    /\ faults \in 0..MaxFaults

Live(m) == [model |-> m, status |-> "live"]

Init ==
    /\ setup \in Setups
    /\ ver = [a \in Aggs |-> 0] /\ gone = {}
    /\ astray = {}
    /\ todo = {} /\ failed = {}
    /\ state = Live(1)
    /\ doc = [x \in Models \X Aggs |-> 0]
    /\ gate = [x \in Models \X Aggs |-> 0]
    /\ hand = [c \in Consumers |-> NoEvent]
    /\ pc = [c \in Consumers |-> "idle"]
    /\ plan = [c \in Consumers |-> 0]
    /\ seen = [c \in Consumers |-> Live(1)]
    /\ seenLive = [c \in Consumers |-> 1]
    /\ rpc = [r \in Rebuilders |-> "idle"]
    /\ mine = [r \in Rebuilders |-> 1]
    /\ cursor = [r \in Rebuilders |-> 0]
    /\ page = [r \in Rebuilders |-> {}]
    /\ faults = 0

Fault(f) == f \in setup.faults /\ faults < MaxFaults /\ faults' = faults + 1

Rows == {a \in Aggs : ver[a] > 0 /\ a \notin gone}
-----------------------------------------------------------------------------
(* A command commits: the row and its next event.                           *)
Write(a) ==
    /\ ver[a] < MaxVersion /\ a \notin gone
    /\ ver' = [ver EXCEPT ![a] = @ + 1]
    /\ gone' \in {gone} \cup (IF setup.deletes /\ ver[a] > 0 THEN {gone \cup {a}} ELSE {})
    /\ todo' = todo \cup {<<a, ver[a] + 1>>}
    /\ UNCHANGED <<astray, failed, state, sinkVars, consumerVars, rebuildVars, faults>>
-----------------------------------------------------------------------------
(* A write of target m: see Projection.                                     *)

IsDelete(e) == e[1] \in gone /\ e[2] = ver[e[1]]

Passes(m, e) == gate[<<m, e[1]>>] <= e[2]

(* e as an upsert, or the deletion if del.                                  *)
Apply(m, e, del) ==
    IF del /\ setup.sink = "graph"
    THEN /\ doc' = [doc EXCEPT ![<<m, e[1]>>] = 0]
         /\ gate' = [gate EXCEPT ![<<m, e[1]>>] = 0]
    ELSE IF Passes(m, e)
    THEN /\ doc' = [doc EXCEPT ![<<m, e[1]>>] = IF del THEN 0 ELSE e[2]]
         /\ gate' = [gate EXCEPT ![<<m, e[1]>>] = e[2]]
    ELSE UNCHANGED sinkVars

(* The search engine drops the version of a deleted document after a while  *)
(* (gc_deletes, which no index sets).                                       *)
Expire(m, a) ==
    /\ setup.sink = "search"
    /\ a \in gone /\ gate[<<m, a>>] = ver[a]
    /\ gate' = [gate EXCEPT ![<<m, a>>] = 0]
    /\ astray' = astray \cup {<<a, ver[a]>>}
    /\ UNCHANGED <<rowVars, todo, failed, state, doc, consumerVars, rebuildVars, faults>>

DropTarget(m) ==
    /\ doc' = [x \in Models \X Aggs |-> IF x[1] = m THEN 0 ELSE doc[x]]
    /\ gate' = [x \in Models \X Aggs |-> IF x[1] = m THEN 0 ELSE gate[x]]
-----------------------------------------------------------------------------
(* Engine                                                                   *)

InHand == {hand[c] : c \in Consumers}

(* Mutant: events go to the live target only.                               *)
LiveOnly(s) == 0

(* TargetsFor: the second target of an event when the state read is s.      *)
TargetsFor(s) == IF s.status = "building" THEN s.model + 1 ELSE 0

(* The group delivers events of an aggregate in order, to any consumer; the *)
(* consumer asks for the targets, from the cache if it may.                 *)
Take(c) ==
    /\ c \in setup.consumers /\ pc[c] = "idle"
    /\ \E e \in todo \ InHand :
          /\ \/ e \in failed
             \/ \A d \in todo \ (InHand \cup failed) : d[1] = e[1] => e[2] <= d[2]
          /\ hand' = [hand EXCEPT ![c] = e]
    /\ \E s \in {state} \cup (IF setup.cached THEN {seen[c]} ELSE {}) :
          /\ seen' = [seen EXCEPT ![c] = s]
          /\ plan' = [plan EXCEPT ![c] = TargetsFor(s)]
          /\ astray' = astray \cup (IF TargetsFor(s) = TargetsFor(state) THEN {} ELSE {hand'[c]})
    /\ pc' = [pc EXCEPT ![c] = "live"]
    /\ UNCHANGED <<rowVars, todo, failed, state, sinkVars, seenLive, rebuildVars, faults>>

(* Target "": the live one, as the sink resolves it.                        *)
ApplyLive(c) ==
    /\ pc[c] = "live"
    /\ \E m \in {state.model} \cup (IF setup.cached THEN {seenLive[c]} ELSE {}) :
          /\ seenLive' = [seenLive EXCEPT ![c] = m]
          /\ astray' = astray \cup (IF m = state.model THEN {} ELSE {hand[c]})
          /\ Apply(m, hand[c], IsDelete(hand[c]))
    /\ pc' = [pc EXCEPT ![c] = IF plan[c] = 0 THEN "done" ELSE "build"]
    /\ UNCHANGED <<rowVars, todo, failed, state, hand, plan, seen, rebuildVars, faults>>

ApplyBuilding(c) ==
    /\ pc[c] = "build"
    /\ Apply(plan[c], hand[c], IsDelete(hand[c]))
    /\ pc' = [pc EXCEPT ![c] = "done"]
    /\ UNCHANGED <<rowVars, astray, todo, failed, state, hand, plan, seen, seenLive, rebuildVars, faults>>

Free(c) ==
    /\ hand' = [hand EXCEPT ![c] = NoEvent]
    /\ pc' = [pc EXCEPT ![c] = "idle"]
    /\ plan' = [plan EXCEPT ![c] = 0]

(* SetApplied and the acknowledgement.                                      *)
Done(c) ==
    /\ pc[c] = "done"
    /\ todo' = todo \ {hand[c]} /\ failed' = failed \ {hand[c]}
    /\ Free(c)
    /\ UNCHANGED <<rowVars, astray, state, sinkVars, seen, seenLive, rebuildVars, faults>>

(* An apply fails: the event stays pending while later ones are handled.    *)
ApplyFails(c) ==
    /\ pc[c] # "idle"
    /\ Fault("apply")
    /\ failed' = failed \cup {hand[c]}
    /\ Free(c)
    /\ UNCHANGED <<rowVars, astray, todo, state, sinkVars, seen, seenLive, rebuildVars>>

(* A consumer dies; what it left is claimed before it reads on.             *)
ConsumerCrash(c) ==
    /\ pc[c] # "idle"
    /\ Fault("consumer")
    /\ Free(c)
    /\ UNCHANGED <<rowVars, astray, todo, failed, state, sinkVars, seen, seenLive, rebuildVars>>
-----------------------------------------------------------------------------
(* Rebuilder.Rebuild                                                        *)

Goto(r, l) == rpc' = [rpc EXCEPT ![r] = l]

(* The state is read, and a rebuild in progress refused.                    *)
Get(r) ==
    /\ rpc[r] = "idle"
    /\ state.status # "building"
    /\ state.model < setup.models
    /\ mine' = [mine EXCEPT ![r] = state.model]
    /\ Goto(r, "mark")
    /\ UNCHANGED <<rowVars, astray, todo, failed, state, sinkVars, consumerVars, cursor, page, faults>>

(* The building marker.                                                     *)
MarkBuilding(r) ==
    /\ rpc[r] = "mark"
    /\ state' = [model |-> mine[r], status |-> "building"]
    /\ Goto(r, "drop")
    /\ UNCHANGED <<rowVars, astray, todo, failed, sinkVars, consumerVars, mine, cursor, page, faults>>

(* What an abandoned attempt left is removed.                               *)
DropNew(r) ==
    /\ rpc[r] = "drop"
    /\ DropTarget(mine[r] + 1)
    /\ cursor' = [cursor EXCEPT ![r] = 0]
    /\ page' = [page EXCEPT ![r] = {}]
    /\ Goto(r, "snap")
    /\ UNCHANGED <<rowVars, astray, todo, failed, state, consumerVars, mine, faults>>

(* One page: the first PageSize rows after the cursor, at their versions.   *)
(* A short page is the last one.                                            *)
SnapshotPage(r) ==
    LET rest == {a \in Rows : a > cursor[r]}
        next == {a \in rest : Cardinality({b \in rest : b < a}) < PageSize}
    IN  /\ rpc[r] = "snap" /\ page[r] = {}
        /\ page' = [page EXCEPT ![r] = {<<a, ver[a]>> : a \in next}]
        /\ cursor' = [cursor EXCEPT ![r] =
                        IF next = {} THEN @ ELSE CHOOSE a \in next : \A b \in next : b <= a]
        /\ Goto(r, IF Cardinality(next) < PageSize THEN "last" ELSE "snap")
        /\ UNCHANGED <<rowVars, astray, todo, failed, state, sinkVars, consumerVars, mine, faults>>

(* One row of the page is replayed, as an update at its version.            *)
Replay(r) ==
    /\ \E e \in page[r] :
          /\ \A d \in page[r] : e[1] <= d[1]
          /\ Apply(mine[r] + 1, e, FALSE)
          /\ page' = [page EXCEPT ![r] = @ \ {e}]
    /\ UNCHANGED <<rowVars, astray, todo, failed, state, consumerVars, rpc, mine, cursor, faults>>

(* The pointer moves. If that fails the state stays as it is, if OnFlip     *)
(* fails after it the pointer has moved; Rebuild returns as by a Crash.     *)
Flip(r) ==
    /\ rpc[r] = "last" /\ page[r] = {}
    /\ state' = [model |-> mine[r] + 1, status |-> "soaking"]
    /\ Goto(r, "soak")
    /\ UNCHANGED <<rowVars, astray, todo, failed, sinkVars, consumerVars, mine, cursor, page, faults>>

(* An error before the flip: the state is put back.                         *)
Revert(r) ==
    /\ rpc[r] \in {"drop", "snap", "last"}
    /\ Fault("rebuild")
    /\ state' = Live(mine[r])
    /\ page' = [page EXCEPT ![r] = {}]
    /\ Goto(r, "idle")
    /\ UNCHANGED <<rowVars, astray, todo, failed, sinkVars, consumerVars, mine, cursor>>

(* The process dies; nothing is put back.                                   *)
Crash(r) ==
    /\ rpc[r] # "idle"
    /\ Fault("rebuild")
    /\ page' = [page EXCEPT ![r] = {}]
    /\ Goto(r, "idle")
    /\ UNCHANGED <<rowVars, astray, todo, failed, state, sinkVars, consumerVars, mine, cursor>>

(* Mutant: Finalize drops the target it is told to.                         *)
IsOldAnyway(m) == TRUE

IsOld(m) == m # state.model

(* Rebuilder.Finalize, given the name of a target (the operator may leave   *)
(* it out): it is dropped unless it is the live one.                        *)
FinalizeDrop(r) ==
    /\ rpc[r] = "soak"
    /\ \/ UNCHANGED sinkVars
       \/ \E m \in Models : IsOld(m) /\ m <= state.model /\ DropTarget(m)
    /\ mine' = [mine EXCEPT ![r] = state.model]
    /\ Goto(r, "final")
    /\ UNCHANGED <<rowVars, astray, todo, failed, state, consumerVars, cursor, page, faults>>

FinalizeLive(r) ==
    /\ rpc[r] = "final"
    /\ state' = Live(mine[r])
    /\ Goto(r, "idle")
    /\ UNCHANGED <<rowVars, astray, todo, failed, sinkVars, consumerVars, mine, cursor, page, faults>>
-----------------------------------------------------------------------------
Engine(c) == Take(c) \/ ApplyLive(c) \/ ApplyBuilding(c) \/ Done(c)
             \/ ApplyFails(c) \/ ConsumerCrash(c)

Build(r) == \/ Get(r) \/ MarkBuilding(r) \/ DropNew(r) \/ SnapshotPage(r) \/ Replay(r)
            \/ Flip(r) \/ FinalizeDrop(r) \/ FinalizeLive(r)

Next == /\ \/ \E a \in Aggs : Write(a)
           \/ \E c \in Consumers : Engine(c)
           \/ \E r \in Rebuilders : Build(r) \/ Revert(r) \/ Crash(r)
           \/ \E m \in Models, a \in Aggs : Expire(m, a)
        /\ UNCHANGED setup

Spec == Init /\ [][Next]_vars
-----------------------------------------------------------------------------
(* Properties                                                               *)

(* All of a's events are acknowledged, and the live target has it as its    *)
(* row is, or some are still to come.                                       *)
Converged(a) == (\A e \in todo : e[1] # a) =>
                    doc[<<state.model, a>>] = IF a \in gone THEN 0 ELSE ver[a]

(* An aggregate all of whose events are acknowledged is in the live target  *)
(* as its row is, before, during and after a rebuild: "the new target is    *)
(* never stale on flip" (rebuild-and-reconcile.mdx:29).                     *)
LiveTargetConverged == \A a \in Aggs : Converged(a)

(* The same with the caches of the code, except for an aggregate whose last *)
(* event a consumer handled by a state or a live target that was out of     *)
(* date (its cache is up to 2 s old, open.go:647), or whose deletion the    *)
(* search engine forgot before the snapshot replayed the row.               *)
ConvergedUnlessStale == \A a \in Aggs : <<a, ver[a]>> \in astray \/ Converged(a)

(* No target is dropped while the state names it as live: readers always    *)
(* have one ("the flip is atomic for them", rebuild.go:34).                 *)
LiveNeverDropped ==
    [][\A a \in Aggs : doc'[<<state.model, a>>] = 0 => doc[<<state.model, a>>] = 0 \/ a \in gone]_vars
=============================================================================
