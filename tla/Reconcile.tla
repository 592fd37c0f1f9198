----------------------------- MODULE Reconcile -----------------------------
(***************************************************************************)
(* Drift repair of one projection of one tenant (Reconciler) beside the     *)
(* commands, the relay and the consumers. The reconciler reads the versions *)
(* of the rows, then those of the projection, and for each difference       *)
(* upserts an outbox row (Adapter.Repair) that the relay publishes again; it *)
(* never writes the projection itself. An event on its way to the           *)
(* projection may be lost (a trimmed stream, a skipped poison entry): that  *)
(* is the drift it is there to heal. The relay and the consumer group are   *)
(* abstracted to the set of events in flight.                               *)
(***************************************************************************)
EXTENDS Integers, FiniteSets

CONSTANTS
    RecAggs,        \* aggregates, as numbers in id order
    MaxRecVersion,  \* versions a command may reach
    RecSetups       \* the deployments considered, see Setup

(* The kind of projection, the aggregates whose first version is committed  *)
(* at the start, those commands write and how often, how many events are    *)
(* lost.                                                                    *)
Setup == [sink : {"graph", "search"}, existing : SUBSET RecAggs, written : SUBSET RecAggs,
          versions : 0..MaxRecVersion, lost : Nat]

ASSUME ReconcileAssumption ==
    /\ RecAggs \subseteq Nat \ {0}
    /\ MaxRecVersion \in Nat \ {0}
    /\ RecSetups \subseteq Setup

(* A synthetic deletion may be one version past the last command.           *)
Versions == 1..(MaxRecVersion + 1)
Types == {"updated", "deleted"}   \* "created" is handled as "updated" is

(* The payload of an event is the version column in it; 0 is the payload {}. *)
Envelope == [agg : RecAggs, version : Versions, type : Types, payload : 0..MaxRecVersion]

(* Kept apart from a node of version 0: one with no version property.       *)
Bare == -1

VARIABLES
    recSetup,   \* the deployment, fixed
    ver,     \* ver[a]: version of a's row, of its deletion once it is gone
    gone,    \* aggregates whose row is deleted
    outbox,  \* the outbox rows
    unpub,   \* the keys <<a, v>> of those not published
    flight,  \* events published and not yet applied
    doc,     \* doc[a]: version of a in the projection, 0 if absent
    gate,    \* gate[a]: version the projection compares a write with
    rpc,     \* where the reconciler is
    truth,   \* the versions of rows it has read, 0 if no row
    drifts,  \* the drifts it has still to repair
    row,     \* payload read for the repair under way
    lost,    \* events lost so far
    caught   \* history: aggregates created between the two scans of a pass

sinkVars == <<doc, gate>>
reconcileVars == <<rpc, truth, drifts, row>>
recVars == <<recSetup, ver, gone, outbox, unpub, flight, sinkVars, reconcileVars, lost, caught>>

Key(e) == <<e.agg, e.version>>
Drift == [agg : RecAggs, tv : 0..MaxRecVersion, pv : 0..(MaxRecVersion + 1)]

RecTypeOK ==
    /\ recSetup \in RecSetups
    /\ ver \in [RecAggs -> 0..MaxRecVersion] /\ gone \subseteq RecAggs
    /\ outbox \subseteq Envelope
    /\ \A e, f \in outbox : Key(e) = Key(f) => e = f
    /\ unpub \subseteq {Key(e) : e \in outbox}
    /\ flight \subseteq Envelope
    /\ doc \in [RecAggs -> Versions \cup {0, Bare}]
    /\ gate \in [RecAggs -> Versions \cup {0}]
    /\ rpc \in {"idle", "projected", "repair", "upsert"}
    /\ truth \in [RecAggs -> 0..MaxRecVersion]
    /\ drifts \subseteq Drift
    /\ row \in 0..MaxRecVersion
    /\ lost \in 0..recSetup.lost /\ caught \subseteq RecAggs

Updated(a, v, p) == [agg |-> a, version |-> v, type |-> "updated", payload |-> p]
Deleted(a, v) == [agg |-> a, version |-> v, type |-> "deleted", payload |-> 0]

RecInit ==
    /\ recSetup \in RecSetups
    /\ ver = [a \in RecAggs |-> IF a \in recSetup.existing THEN 1 ELSE 0] /\ gone = {}
    /\ outbox = {Updated(a, 1, 1) : a \in recSetup.existing}
    /\ unpub = {Key(e) : e \in outbox} /\ flight = {}
    /\ doc = [a \in RecAggs |-> 0] /\ gate = [a \in RecAggs |-> 0]
    /\ rpc = "idle" /\ truth = [a \in RecAggs |-> 0] /\ drifts = {} /\ row = 0
    /\ lost = 0 /\ caught = {}

HasRow(a) == ver[a] > 0 /\ a \notin gone
-----------------------------------------------------------------------------
(* A command: the row and the outbox row of its next version. The insert of *)
(* the outbox row is plain, so a row of that version that is already there  *)
(* fails the command.                                                       *)
AppendOutbox(e) ==
    /\ \A f \in outbox : Key(f) # Key(e)
    /\ outbox' = outbox \cup {e}
    /\ unpub' = unpub \cup {Key(e)}

Exec(a) ==
    /\ a \in recSetup.written \ gone /\ ver[a] < recSetup.versions
    /\ ver' = [ver EXCEPT ![a] = @ + 1]
    /\ \/ gone' = gone /\ AppendOutbox(Updated(a, ver[a] + 1, ver[a] + 1))
       \/ /\ ver[a] > 0
          /\ gone' = gone \cup {a} /\ AppendOutbox(Deleted(a, ver[a] + 1))
    /\ caught' = IF ver[a] = 0 /\ rpc = "projected" THEN caught \cup {a} ELSE caught
    /\ UNCHANGED <<flight, sinkVars, reconcileVars, lost>>

(* The relay publishes a pending row.                                       *)
PublishRow(e) ==
    /\ e \in outbox /\ Key(e) \in unpub
    /\ unpub' = unpub \ {Key(e)}
    /\ flight' = flight \cup {e}
    /\ UNCHANGED <<ver, gone, outbox, sinkVars, reconcileVars, lost, caught>>

(* An event never reaches the projection.                                   *)
Lose(e) ==
    /\ e \in flight /\ lost < recSetup.lost
    /\ flight' = flight \ {e}
    /\ lost' = lost + 1
    /\ UNCHANGED <<ver, gone, outbox, unpub, sinkVars, reconcileVars, caught>>
-----------------------------------------------------------------------------
(* What the projection does with an event. A graph node takes its version   *)
(* from the payload and is gated on it; its deletion is not gated. A search *)
(* document has the event's version, kept for a while by a deletion.        *)

NodeUpsert(e) ==
    LET v == IF e.payload > 0 THEN e.payload
             ELSE IF doc[e.agg] = 0 THEN Bare ELSE doc[e.agg]
    IN  /\ doc' = [doc EXCEPT ![e.agg] = IF gate[e.agg] <= e.version THEN v ELSE @]
        /\ gate' = [gate EXCEPT ![e.agg] = IF @ <= e.version /\ v # Bare THEN v ELSE @]

NodeDelete(e) ==
    /\ doc' = [doc EXCEPT ![e.agg] = 0]
    /\ gate' = [gate EXCEPT ![e.agg] = 0]

DocWrite(e) ==
    /\ doc' = [doc EXCEPT ![e.agg] = IF gate[e.agg] > e.version THEN @
                                      ELSE IF e.type = "deleted" THEN 0 ELSE e.version]
    /\ gate' = [gate EXCEPT ![e.agg] = IF @ > e.version THEN @ ELSE e.version]

Apply(e) ==
    /\ e \in flight
    /\ flight' = flight \ {e}
    /\ IF recSetup.sink = "search" THEN DocWrite(e)
       ELSE IF e.type = "deleted" THEN NodeDelete(e) ELSE NodeUpsert(e)
    /\ UNCHANGED <<ver, gone, outbox, unpub, reconcileVars, lost, caught>>

(* Elasticsearch remembers the version of a deleted document for            *)
(* index.gc_deletes, which the index is created without (search/index.go).  *)
Expire(a) ==
    /\ recSetup.sink = "search" /\ doc[a] = 0 /\ gate[a] > 0
    /\ gate' = [gate EXCEPT ![a] = 0]
    /\ UNCHANGED <<ver, gone, outbox, unpub, flight, doc, reconcileVars, lost, caught>>
-----------------------------------------------------------------------------
(* The reconciler.                                                          *)

(* Mutant: a row is not seen while its last event is not published.         *)
TruthVersionPublished(a) == IF HasRow(a) /\ <<a, ver[a]>> \notin unpub THEN ver[a] ELSE 0

(* The version the scan of the rows returns for a, 0 if there is no row.    *)
TruthVersion(a) == IF HasRow(a) THEN ver[a] ELSE 0

(* Truth: the versions of the rows.                                         *)
Truth ==
    /\ rpc = "idle" /\ rpc' = "projected"
    /\ truth' = [a \in RecAggs |-> TruthVersion(a)]
    /\ UNCHANGED <<ver, gone, outbox, unpub, flight, sinkVars, drifts, row, lost, caught>>

(* A node without version is not in the map AggregateVersions returns.      *)
ProjectedVersion(a) == IF doc[a] = Bare THEN 0 ELSE doc[a]

IsDrift(tv, pv) == pv < tv \/ (tv = 0 /\ pv > 0)

(* Projected: the versions in the projection, and the comparison.           *)
Projected ==
    /\ rpc = "projected" /\ rpc' = "repair"
    /\ drifts' = {[agg |-> a, tv |-> truth[a], pv |-> ProjectedVersion(a)] :
                    a \in {b \in RecAggs : IsDrift(truth[b], ProjectedVersion(b))}}
    /\ truth' = [a \in RecAggs |-> 0]
    /\ UNCHANGED <<ver, gone, outbox, unpub, flight, sinkVars, row, lost, caught>>

(* The next drift to repair, in id order.                                   *)
IsNextDrift(d) == d \in drifts /\ \A x \in drifts : d.agg <= x.agg

(* rowValues of a row that is behind; a row gone meanwhile fails the run.   *)
RowValues ==
    /\ rpc = "repair"
    /\ \E d \in drifts :
         /\ IsNextDrift(d) /\ d.tv > 0
         /\ IF HasRow(d.agg)
            THEN rpc' = "upsert" /\ row' = ver[d.agg] /\ UNCHANGED drifts
            ELSE rpc' = "idle" /\ drifts' = {} /\ UNCHANGED row
    /\ UNCHANGED <<ver, gone, outbox, unpub, flight, sinkVars, truth, lost, caught>>

(* The row Repair writes: on a conflict the payload is replaced and the type *)
(* stays.                                                                   *)
RepairRow(d) ==
    LET e == IF d.tv > 0 THEN Updated(d.agg, d.tv, row) ELSE Deleted(d.agg, d.pv + 1)
        old == {f \in outbox : Key(f) = Key(e)}
    IN  IF old = {} THEN e ELSE [(CHOOSE f \in old : TRUE) EXCEPT !.payload = e.payload]

Upsert(e) ==
    /\ outbox' = {f \in outbox : Key(f) # Key(e)} \cup {e}
    /\ unpub' = unpub \cup {Key(e)}

Repair ==
    /\ \E d \in drifts :
         /\ IsNextDrift(d)
         /\ rpc = (IF d.tv > 0 THEN "upsert" ELSE "repair")
         /\ Upsert(RepairRow(d))
         /\ drifts' = drifts \ {d}
    /\ rpc' = "repair" /\ row' = 0
    /\ UNCHANGED <<ver, gone, flight, sinkVars, truth, lost, caught>>

(* Every drift has been repaired; the next tick starts over.                *)
EndRepairs ==
    /\ rpc = "repair" /\ drifts = {}
    /\ rpc' = "idle"
    /\ UNCHANGED <<ver, gone, outbox, unpub, flight, sinkVars, truth, drifts, row, lost, caught>>

Reconciler == Truth \/ Projected \/ RowValues \/ Repair \/ EndRepairs

RecNext ==
    /\ \/ \E a \in RecAggs : Exec(a)
       \/ \E e \in outbox : PublishRow(e)
       \/ \E e \in flight : Lose(e)
       \/ \E e \in flight : Apply(e)
       \/ \E a \in RecAggs : Expire(a)
       \/ Reconciler
    /\ UNCHANGED recSetup

RecSpec == RecInit /\ [][RecNext]_recVars
-----------------------------------------------------------------------------
(* A row that exists has no deletion in the outbox, published or not: the   *)
(* reconciler, which alone emits deletions no command asked for, does so    *)
(* only when the row is gone, or when it came between the two scans         *)
(* (Reconcile, Adapter.Repair).                                             *)
OnlyZombiesDeleted ==
    \A e \in outbox : e.type = "deleted" /\ e.agg \notin caught => ~HasRow(e.agg)

(* The projection never holds a version no command has committed, whatever  *)
(* was scanned, repaired and applied meanwhile: repairs go out under a      *)
(* version the row has had (Reconcile, Adapter.Repair).                     *)
NeverAhead == \A a \in RecAggs : HasRow(a) => doc[a] <= ver[a]

(* The reconciler (reconcile.go): the projection never runs ahead of the    *)
(* rows, and no deletion is emitted for a row that existed before the scan. *)
RepairsKept == RecTypeOK /\ NeverAhead /\ OnlyZombiesDeleted

(* A synthetic deletion fell on the outbox row of an update: it empties the *)
(* payload and keeps the type (ON CONFLICT, reconcile.go:95). The graph     *)
(* takes its versions from payloads: the node of the deleted row stays as   *)
(* it was, and every pass repairs it so again, or the update creates a node *)
(* without version after the deletion, which no pass sees.                  *)
Undead(a) ==
    /\ recSetup.sink = "graph"
    /\ \E e \in outbox : e.agg = a /\ e.type = "updated" /\ e.payload = 0

(* Once commands and losses stop, the projection holds every row at its     *)
(* version and nothing else: what was missing, stale or left behind is      *)
(* republished until it is right (Reconciler, lock 1002, every interval).   *)
(* Except, against "so the delete applies everywhere" (reconcile.go:56),    *)
(* the node in the graph of a deleted row that missed an update before the  *)
(* deletion, which may stay for good (Undead), and a row created between    *)
(* the two scans, whose document a deletion one version ahead may remove.   *)
Healed ==
    <>[](\A a \in RecAggs :
            a \in caught \/ Undead(a) \/ doc[a] = IF HasRow(a) THEN ver[a] ELSE 0)
=============================================================================
