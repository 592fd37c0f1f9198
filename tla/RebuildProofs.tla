--------------------------- MODULE RebuildProofs ---------------------------
(***************************************************************************)
(* Proofs about Rebuild, for any number of aggregates, versions, consumers, *)
(* model versions and faults, and one rebuilder: two that run at once drop  *)
(* each other's targets. The first half needs no more: the rebuilder's copy *)
(* of the state stays the state, so that what it drops is never live. The   *)
(* second half follows the latest version of each row into both targets:   *)
(* it is there, or a consumer that aims at the target has it, or one that   *)
(* used its cache had it, or, in the target being built, the snapshot has   *)
(* yet to read it or to replay it.                                          *)
(***************************************************************************)
EXTENDS Rebuild, FiniteSetTheorems, WellFoundedInduction, TLAPS

(* One operator at a time (RebuildAll runs the tenants one by one).         *)
OneRebuilder == \A r, s \in Rebuilders : r = s

(* The new target is being filled.                                          *)
Filling(r) == rpc[r] \in {"snap", "last"}

(* The rebuilder's copy of the state is the state, and names of targets are *)
(* within bounds.                                                           *)
Bounded(s) == s.status = "building" => s.model < MaxModel

StateKept ==
    /\ Bounded(state)
    /\ \A c \in Consumers : Bounded(seen[c])
    /\ \A r \in Rebuilders :
          /\ rpc[r] = "mark" => mine[r] = state.model /\ mine[r] < MaxModel
          /\ rpc[r] \in {"drop", "snap", "last"}
                => state = [model |-> mine[r], status |-> "building"]
          /\ rpc[r] = "final" => mine[r] = state.model
          /\ page[r] # {} => Filling(r)

(* A busy consumer has an event nobody has acknowledged.                    *)
HandsKept ==
    /\ \A c \in Consumers :
          /\ pc[c] = "idle" <=> hand[c] = NoEvent
          /\ pc[c] # "idle" => hand[c] \in todo /\ c \in setup.consumers
          /\ pc[c] = "build" => plan[c] # 0
    /\ \A c, d \in Consumers : hand[c] = hand[d] /\ hand[c] # NoEvent => c = d
-----------------------------------------------------------------------------
(* An index that one consumer keeps, applying in order.                     *)
InOrder(s) ==
    /\ s.sink = "search" /\ "apply" \notin s.faults
    /\ \A c, d \in s.consumers : c = d

(* The deployments the convergence is proved for: nothing is deleted, or    *)
(* deletions cannot be overtaken by what they follow.                       *)
Converges(s) == ~ s.deletes \/ InOrder(s)

(* Nothing is handled or replayed ahead of its row.                         *)
EventsKept ==
    /\ gone # {} => setup.deletes
    /\ \A e \in todo : e[2] <= ver[e[1]]
    /\ \A r \in Rebuilders : \A e \in page[r] :
          e[2] <= ver[e[1]] /\ (e[1] \in gone => e[2] < ver[e[1]])

(* A document is what the last write that passed its gate made it.          *)
GatesKept ==
    \A m \in Models, a \in Aggs :
        /\ gate[<<m, a>>] <= ver[a]
        /\ doc[<<m, a>>] = IF a \in gone /\ gate[<<m, a>>] = ver[a] THEN 0 ELSE gate[<<m, a>>]

(* Where rows are deleted, the events of an aggregate are acknowledged and  *)
(* handled in order.                                                        *)
OrderKept ==
    setup.deletes =>
        /\ failed = {}
        /\ \A e \in todo : \A v \in e[2]..ver[e[1]] : <<e[1], v>> \in todo
        /\ \A c \in Consumers : \A e \in todo : hand[c][1] = e[1] => hand[c][2] <= e[2]

(* Consumer c is going to write to target m.                                *)
Aims(c, m) ==
    \/ pc[c] = "live" /\ m \in {state.model, plan[c]}
    \/ pc[c] = "build" /\ m = plan[c]

(* The last event of a is not acknowledged, and who has it aims at m.       *)
Coming(m, a) ==
    /\ <<a, ver[a]>> \in todo
    /\ \A c \in Consumers : hand[c] = <<a, ver[a]>> => Aims(c, m)

(* Target m knew nothing of a when a was deleted, and never will.           *)
Unknown(m, a) ==
    /\ a \in gone /\ gate[<<m, a>>] = 0
    /\ \A e \in todo : e[1] = a => e[2] = ver[a]

(* Target m has the last event of a, or will; or that event went astray.    *)
Covered(m, a) == gate[<<m, a>>] = ver[a] \/ Coming(m, a) \/ <<a, ver[a]>> \in astray

(* The row of a is still to be read by the snapshot, or read and still to   *)
(* be replayed.                                                             *)
InSnapshot(r, a) ==
    \/ <<a, ver[a]>> \in page[r]
    \/ rpc[r] = "snap" /\ a > cursor[r] /\ a \notin gone

LiveCovered ==
    \A m \in Models : m = state.model => \A a \in Aggs : Covered(m, a) \/ Unknown(m, a)

(* Target m, being built by r, has or will have the row of a.               *)
Building(r, m, a) ==
    \/ Covered(m, a) \/ InSnapshot(r, a)
    \/ Unknown(m, a) /\ \A e \in page[r] : e[1] # a

BuildCovered ==
    \A r \in Rebuilders, m \in Models :
        Filling(r) /\ m = mine[r] + 1 => \A a \in Aggs : Building(r, m, a)

(* The inductive invariants.                                                *)
TInv == TypeOK /\ StateKept /\ HandsKept

CInv == EventsKept /\ GatesKept /\ OrderKept /\ LiveCovered /\ BuildCovered
-----------------------------------------------------------------------------
(* A write to a target keeps the types of what is stored, and empties only  *)
(* the document of a deleted row.                                           *)
LEMMA ApplyTyped ==
    ASSUME TypeOK, NEW m \in Models, NEW e \in Events, NEW del, Apply(m, e, del)
    PROVE  /\ doc' \in [Models \X Aggs -> 0..MaxVersion]
           /\ gate' \in [Models \X Aggs -> 0..MaxVersion]
           /\ \A k \in Models, a \in Aggs : doc'[<<k, a>>] = 0 => doc[<<k, a>>] = 0 \/ (del /\ a = e[1])
<1>1. e[1] \in Aggs /\ e[2] \in 1..MaxVersion /\ e[2] \in 0..MaxVersion /\ 0 \in 0..MaxVersion
  BY RebuildAssumption DEF Events, RebuildAssumption
<1>2. CASE UNCHANGED sinkVars
  BY Zenon, <1>2 DEF sinkVars, TypeOK
<1>3. CASE del /\ doc' = [doc EXCEPT ![<<m, e[1]>>] = 0] /\ gate' = [gate EXCEPT ![<<m, e[1]>>] = 0]
  BY Zenon, <1>1, <1>3 DEF TypeOK
<1>4. CASE doc' = [doc EXCEPT ![<<m, e[1]>>] = IF del THEN 0 ELSE e[2]] /\ gate' = [gate EXCEPT ![<<m, e[1]>>] = e[2]]
  BY <1>1, <1>4 DEF TypeOK
<1> QED
  BY Zenon, <1>2, <1>3, <1>4 DEF Apply

(* Dropping a target keeps the types, and every document of the others.     *)
LEMMA DropTyped ==
    ASSUME TypeOK, NEW m, DropTarget(m)
    PROVE  /\ doc' \in [Models \X Aggs -> 0..MaxVersion]
           /\ gate' \in [Models \X Aggs -> 0..MaxVersion]
           /\ \A k \in Models, a \in Aggs :
                 k # m => doc'[<<k, a>>] = doc[<<k, a>>] /\ gate'[<<k, a>>] = gate[<<k, a>>]
           /\ \A a \in Aggs : m \in Models => doc'[<<m, a>>] = 0 /\ gate'[<<m, a>>] = 0
<1>1. 0 \in 0..MaxVersion
  BY RebuildAssumption DEF RebuildAssumption
<1> QED
  BY Zenon, <1>1 DEF DropTarget, TypeOK

LEMMA InitTInv == Init => TInv
<1> SUFFICES ASSUME Init PROVE TInv
  BY Zenon
<1>1. 1 \in Models /\ 0 \in 0..MaxVersion /\ 0 \in 0..MaxFaults /\ Live(1) \in State
  BY RebuildAssumption DEF RebuildAssumption, Models, Live, State
<1>2. TypeOK
  BY Zenon, <1>1 DEF Init, TypeOK
<1>3. StateKept
  BY Zenon DEF Init, StateKept, Bounded, Live
<1>4. HandsKept
  BY Zenon DEF Init, HandsKept
<1> QED
  BY Zenon, <1>2, <1>3, <1>4 DEF TInv
-----------------------------------------------------------------------------
(* Consumers and commands                                                   *)

LEMMA WriteTInv ==
    ASSUME TInv, NEW a \in Aggs, Write(a), UNCHANGED setup
    PROVE  TInv'
<1>1. ver[a] + 1 \in 1..MaxVersion /\ <<a, ver[a] + 1>> \in Events /\ ver' \in [Aggs -> 0..MaxVersion]
  BY RebuildAssumption DEF RebuildAssumption, TInv, TypeOK, Write, Events
<1>2. gone' \subseteq Aggs
  BY Zenon DEF TInv, TypeOK, Write
<1>3. failed' \subseteq todo' /\ todo' \subseteq Events /\ todo \subseteq todo'
  BY Zenon, <1>1 DEF TInv, TypeOK, Write
<1>4. TypeOK'
  BY Zenon, <1>1, <1>2, <1>3 DEF TInv, TypeOK, Write, sinkVars, consumerVars, rebuildVars
<1>5. StateKept'
  BY Zenon DEF TInv, StateKept, Bounded, Filling, Write, consumerVars, rebuildVars
<1>6. HandsKept'
  BY Zenon, <1>3 DEF TInv, HandsKept, Write, consumerVars
<1> QED
  BY Zenon, <1>4, <1>5, <1>6 DEF TInv

LEMMA TakeTInv ==
    ASSUME TInv, NEW c \in Consumers, Take(c), UNCHANGED setup
    PROVE  TInv'
<1>1. PICK e \in todo \ InHand : hand' = [hand EXCEPT ![c] = e]
  BY Zenon DEF Take
<1>2. PICK s \in {state, seen[c]} :
          /\ seen' = [seen EXCEPT ![c] = s] /\ plan' = [plan EXCEPT ![c] = TargetsFor(s)]
          /\ astray' = astray \cup (IF TargetsFor(s) = TargetsFor(state) THEN {} ELSE {hand'[c]})
  BY Zenon DEF Take
<1>3. s \in State /\ Bounded(s) /\ TargetsFor(s) \in Models \cup {0}
  <2>1. s \in State /\ Bounded(s)
    BY <1>2 DEF TInv, TypeOK, StateKept
  <2> QED
    BY <2>1, RebuildAssumption DEF Bounded, State, Models, TargetsFor, RebuildAssumption
<1>4. e \in Events /\ e # NoEvent
  BY RebuildAssumption DEF TInv, TypeOK, Events, NoEvent, RebuildAssumption
<1>s. astray' \subseteq Aggs \X (0..MaxVersion)
  <2>1. hand'[c] = e /\ e \in Aggs \X (0..MaxVersion) /\ astray \subseteq Aggs \X (0..MaxVersion)
    BY <1>1, <1>4 DEF TInv, TypeOK, Events
  <2> QED
    BY Zenon, <1>2, <2>1
<1>5. TypeOK'
  BY Zenon, <1>1, <1>2, <1>3, <1>4, <1>s DEF TInv, TypeOK, Take, rowVars, sinkVars, rebuildVars
<1>6. StateKept'
  BY Zenon, <1>2, <1>3 DEF TInv, TypeOK, StateKept, Filling, Bounded, Take, rebuildVars
<1>7. HandsKept'
  BY <1>1, <1>4 DEF TInv, TypeOK, HandsKept, Take, InHand
<1> QED
  BY Zenon, <1>5, <1>6, <1>7 DEF TInv

(* What a busy consumer holds, and may write.                               *)
LEMMA InHandTyped ==
    ASSUME TInv, NEW c \in Consumers, pc[c] # "idle"
    PROVE  hand[c] \in Events /\ hand[c] \in todo /\ hand[c] # NoEvent
BY Zenon, RebuildAssumption DEF TInv, TypeOK, HandsKept, Events, NoEvent, RebuildAssumption

LEMMA ApplyLiveTInv ==
    ASSUME TInv, NEW c \in Consumers, ApplyLive(c), UNCHANGED setup
    PROVE  TInv'
<1>1. PICK m \in {state.model, seenLive[c]} :
          /\ seenLive' = [seenLive EXCEPT ![c] = m]
          /\ astray' = astray \cup (IF m = state.model THEN {} ELSE {hand[c]})
          /\ Apply(m, hand[c], IsDelete(hand[c]))
  BY Zenon DEF ApplyLive
<1>2. m \in Models
  BY <1>1 DEF TInv, TypeOK, State
<1>3. hand[c] \in Events
  BY Zenon, InHandTyped DEF ApplyLive
<1>4. TypeOK'
  <2>1. TypeOK
    BY Zenon DEF TInv
  <2>2. /\ doc' \in [Models \X Aggs -> 0..MaxVersion]
        /\ gate' \in [Models \X Aggs -> 0..MaxVersion]
    BY Zenon, <1>1, <1>2, <1>3, <2>1, ApplyTyped
  <2>3. astray' \subseteq Aggs \X (0..MaxVersion)
    <3>1. hand[c] \in Aggs \X (0..MaxVersion) /\ astray \subseteq Aggs \X (0..MaxVersion)
      BY <1>3, <2>1 DEF TypeOK, Events
    <3> QED
      BY Zenon, <1>1, <3>1
  <2> QED
    BY Zenon, <1>1, <1>2, <2>1, <2>2, <2>3 DEF TypeOK, ApplyLive, rowVars, rebuildVars
<1>5. StateKept'
  BY Zenon DEF TInv, TypeOK, StateKept, Filling, Bounded, ApplyLive, rebuildVars
<1>6. HandsKept'
  BY Zenon DEF TInv, TypeOK, HandsKept, ApplyLive
<1> QED
  BY Zenon, <1>4, <1>5, <1>6 DEF TInv

LEMMA ApplyBuildingTInv ==
    ASSUME TInv, NEW c \in Consumers, ApplyBuilding(c), UNCHANGED setup
    PROVE  TInv'
<1>1. TypeOK /\ hand[c] \in Events /\ plan[c] \in Models
  BY Zenon, InHandTyped DEF ApplyBuilding, TInv, TypeOK, HandsKept
<1>2. /\ doc' \in [Models \X Aggs -> 0..MaxVersion]
      /\ gate' \in [Models \X Aggs -> 0..MaxVersion]
  BY Zenon, <1>1, ApplyTyped DEF ApplyBuilding
<1>3. TypeOK'
  BY Zenon, <1>1, <1>2 DEF TypeOK, ApplyBuilding, rowVars, rebuildVars
<1>4. StateKept'
  BY Zenon DEF TInv, TypeOK, StateKept, Filling, Bounded, ApplyBuilding, rebuildVars
<1>5. HandsKept'
  BY Zenon DEF TInv, TypeOK, HandsKept, ApplyBuilding
<1> QED
  BY <1>3, <1>4, <1>5 DEF TInv

(* What a consumer lets go of stays with the group, or is acknowledged, and *)
(* nobody else has it.                                                      *)
LEMMA FreeTInv ==
    ASSUME TInv, NEW c \in Consumers, pc[c] # "idle", Free(c), UNCHANGED setup,
           todo' \in {todo, todo \ {hand[c]}}, failed' \subseteq todo', faults' \in 0..MaxFaults,
           UNCHANGED <<rowVars, astray, state, sinkVars, seen, seenLive, rebuildVars>>
    PROVE  TInv'
<1>1. TypeOK'
  BY Zenon DEF TInv, TypeOK, Free, rowVars, sinkVars, rebuildVars
<1>2. StateKept'
  BY Zenon DEF TInv, TypeOK, StateKept, Filling, Bounded, rebuildVars
<1>3. /\ hand' = [hand EXCEPT ![c] = NoEvent] /\ pc' = [pc EXCEPT ![c] = "idle"]
      /\ plan' = [plan EXCEPT ![c] = 0]
  BY Zenon DEF Free
<1>4. hand[c] # NoEvent
  BY Zenon, InHandTyped
<1>5. HandsKept'
  BY Zenon, <1>3, <1>4 DEF TInv, TypeOK, HandsKept
<1> QED
  BY Zenon, <1>1, <1>2, <1>5 DEF TInv

LEMMA FaultTyped ==
    ASSUME TInv, NEW f, Fault(f)
    PROVE  faults' \in 0..MaxFaults
BY RebuildAssumption DEF RebuildAssumption, TInv, TypeOK, Fault

LEMMA ReleaseTInv ==
    ASSUME TInv, NEW c \in Consumers, Done(c) \/ ApplyFails(c) \/ ConsumerCrash(c), UNCHANGED setup
    PROVE  TInv'
<1>1. CASE Done(c)
  <2>1. faults' \in 0..MaxFaults /\ failed' \subseteq todo'
    BY Zenon, <1>1 DEF Done, TInv, TypeOK
  <2> QED
    BY Zenon, <1>1, <2>1, FreeTInv DEF Done
<1>2. CASE ApplyFails(c)
  <2>1. faults' \in 0..MaxFaults /\ failed' \subseteq todo'
    BY Zenon, <1>2, FaultTyped, InHandTyped DEF ApplyFails, TInv, TypeOK
  <2> QED
    BY Zenon, <1>2, <2>1, FreeTInv DEF ApplyFails
<1>3. CASE ConsumerCrash(c)
  <2>1. faults' \in 0..MaxFaults /\ failed' \subseteq todo'
    BY Zenon, <1>3, FaultTyped DEF ConsumerCrash, TInv, TypeOK
  <2> QED
    BY Zenon, <1>3, <2>1, FreeTInv DEF ConsumerCrash
<1> QED
  BY Zenon, <1>1, <1>2, <1>3
-----------------------------------------------------------------------------
(* The rebuilder                                                            *)

LEMMA GetTInv ==
    ASSUME TInv, OneRebuilder, NEW r \in Rebuilders, Get(r), UNCHANGED setup
    PROVE  TInv'
<1>1. state.model \in Models /\ state.model < MaxModel
  <2>1. setup \in Setup /\ state \in State
    BY Zenon, RebuildAssumption DEF RebuildAssumption, TInv, TypeOK
  <2>2. setup.models \in 1..MaxModel /\ state.model \in 1..MaxModel /\ state.model < setup.models
    BY Zenon, <2>1 DEF Setup, State, Models, Get
  <2> QED
    BY <2>2, RebuildAssumption DEF RebuildAssumption, Models
<1>2. TypeOK'
  BY Zenon, <1>1 DEF TInv, TypeOK, Get, Goto, rowVars, sinkVars, consumerVars
<1>3. StateKept'
  BY <1>1 DEF TInv, TypeOK, StateKept, Filling, Bounded, Get, Goto, consumerVars, OneRebuilder
<1>4. HandsKept'
  BY Zenon DEF TInv, HandsKept, Get, consumerVars
<1> QED
  BY Zenon, <1>2, <1>3, <1>4 DEF TInv

LEMMA MarkTInv ==
    ASSUME TInv, OneRebuilder, NEW r \in Rebuilders, MarkBuilding(r), UNCHANGED setup
    PROVE  TInv'
<1>1. mine[r] \in Models /\ mine[r] < MaxModel
  BY Zenon DEF TInv, TypeOK, StateKept, MarkBuilding
<1>2. state' \in State /\ Bounded(state)'
  BY Zenon, <1>1 DEF MarkBuilding, State, Bounded
<1>3. TypeOK'
  BY Zenon, <1>2 DEF TInv, TypeOK, MarkBuilding, Goto, rowVars, sinkVars, consumerVars
<1>4. StateKept'
  BY Zenon, <1>2 DEF TInv, TypeOK, StateKept, Filling, Bounded, MarkBuilding, Goto, consumerVars, OneRebuilder
<1>5. HandsKept'
  BY Zenon DEF TInv, HandsKept, MarkBuilding, consumerVars
<1> QED
  BY <1>3, <1>4, <1>5 DEF TInv

LEMMA DropNewTInv ==
    ASSUME TInv, NEW r \in Rebuilders, DropNew(r), UNCHANGED setup
    PROVE  TInv'
<1>1. /\ doc' \in [Models \X Aggs -> 0..MaxVersion]
      /\ gate' \in [Models \X Aggs -> 0..MaxVersion]
  BY Zenon, DropTyped DEF DropNew, TInv
<1>2. TypeOK'
  BY Zenon, <1>1 DEF TInv, TypeOK, DropNew, Goto, rowVars, consumerVars
<1>3. StateKept'
  BY Zenon DEF TInv, TypeOK, StateKept, Filling, Bounded, DropNew, Goto, consumerVars
<1>4. HandsKept'
  BY Zenon DEF TInv, HandsKept, DropNew, consumerVars
<1> QED
  BY <1>2, <1>3, <1>4 DEF TInv

(* A finite set of numbers has a least and, unless empty, a greatest one.   *)
LEMMA LeastOf ==
    ASSUME NEW S, S \subseteq Nat, S # {}
    PROVE  \E x \in S : \A y \in S : x <= y
<1>1. PICK x \in S : \A y \in S : ~ (<<y, x>> \in OpToRel(<, Nat))
  BY Zenon, NatLessThanWellFounded, WFMin
<1>2. \A y \in S : ~ (y < x)
  BY Zenon, <1>1 DEF OpToRel
<1> QED
  BY <1>2

LEMMA GreatestOf ==
    ASSUME NEW S, S \subseteq Nat, IsFiniteSet(S), S # {}
    PROVE  \E x \in S : \A y \in S : y <= x
<1> DEFINE Above(x) == {y \in S : y > x}
<1>1. \A x \in S : IsFiniteSet(Above(x)) /\ Cardinality(Above(x)) \in Nat
  BY Zenon, FS_Subset, FS_CardinalityType
<1>2. PICK n \in {Cardinality(Above(x)) : x \in S} : \A k \in {Cardinality(Above(x)) : x \in S} : n <= k
  <2> DEFINE T == {Cardinality(Above(x)) : x \in S}
  <2>1. T \subseteq Nat /\ T # {}
    BY Zenon, <1>1
  <2> HIDE DEF T
  <2>2. \E n \in T : \A k \in T : n <= k
    BY Zenon, <2>1, LeastOf
  <2> QED
    BY Zenon, <2>2 DEF T
<1>3. PICK x \in S : n = Cardinality(Above(x))
  BY Zenon, <1>2
<1>4. \A y \in S : ~ (y > x)
  <2> SUFFICES ASSUME NEW y \in S, y > x PROVE FALSE
    BY Zenon
  <2>1. x \in Nat /\ y \in Nat /\ \A z \in S : z \in Nat
    BY Zenon
  <2>2. \A z \in S : z > y => z > x
    BY <2>1
  <2>3. Above(y) \in SUBSET Above(x) /\ y \in Above(x)
    BY Zenon, <2>2
  <2>4. y \notin Above(y)
    BY <2>1
  <2>5. Above(y) \in SUBSET Above(x) /\ Above(y) # Above(x)
    BY <2>3, <2>4, Zenon
  <2>6. n <= Cardinality(Above(y))
    BY Zenon, <1>2
  <2> HIDE DEF Above
  <2>7. Cardinality(Above(y)) <= Cardinality(Above(x)) /\ Cardinality(Above(y)) # Cardinality(Above(x))
    BY Zenon, <1>1, <2>5, FS_Subset
  <2> QED
    BY <1>1, <1>3, <2>7, <2>6
<1> QED
  BY <1>4

(* The rows after the cursor, and the page that is read of them.            *)
Rest(r) == {a \in Rows : a > cursor[r]}
NextPage(r) == {a \in Rest(r) : Cardinality({b \in Rest(r) : b < a}) < PageSize}

(* A page skips no row: what it leaves is beyond the new cursor, and only a *)
(* full page leaves anything.                                               *)
LEMMA PageTakesNext ==
    ASSUME TypeOK, NEW r \in Rebuilders, SnapshotPage(r)
    PROVE  /\ page' = [page EXCEPT ![r] = {<<a, ver[a]>> : a \in NextPage(r)}]
           /\ \E k \in Aggs \cup {0} :
                 /\ cursor' = [cursor EXCEPT ![r] = k]
                 /\ \A a \in Rest(r) \ NextPage(r) : a > k
           /\ \E l \in {"snap", "last"} :
                 /\ rpc' = [rpc EXCEPT ![r] = l]
                 /\ Rest(r) \ NextPage(r) # {} => l = "snap"
<1> DEFINE next == NextPage(r)
           Below(a) == {b \in Rest(r) : b < a}
           k == IF next = {} THEN cursor[r] ELSE CHOOSE a \in next : \A b \in next : b <= a
           l == IF Cardinality(next) < PageSize THEN "last" ELSE "snap"
<1>1. /\ page' = [page EXCEPT ![r] = {<<a, ver[a]>> : a \in next}]
      /\ cursor' = [cursor EXCEPT ![r] = k]
      /\ rpc' = [rpc EXCEPT ![r] = l]
  BY Zenon DEF SnapshotPage, Goto, NextPage, Rest
<1>2. /\ Rest(r) \subseteq Aggs /\ next \subseteq Rest(r) /\ Aggs \subseteq Nat
      /\ IsFiniteSet(Rest(r)) /\ IsFiniteSet(next)
  <2>1. Rest(r) \subseteq Aggs /\ next \subseteq Rest(r) /\ Aggs \subseteq Nat /\ IsFiniteSet(Aggs)
    BY Zenon, RebuildAssumption DEF RebuildAssumption, Rest, Rows, NextPage
  <2> QED
    BY Zenon, <2>1, FS_Subset
<1>3. \A a \in Rest(r) : Cardinality(Below(a)) \in Nat
  <2>1. \A a \in Rest(r) : Below(a) \in SUBSET Rest(r)
    BY Zenon
  <2> HIDE DEF Below
  <2> QED
    BY Zenon, <1>2, <2>1, FS_Subset, FS_CardinalityType
<1>4. \A a \in Rest(r) : a \in next <=> Cardinality(Below(a)) < PageSize
  BY Zenon DEF NextPage
<1>5. ASSUME NEW a \in Rest(r) \ next, NEW b \in next
      PROVE  b < a
  <2> SUFFICES ASSUME ~ (b < a) PROVE FALSE
    BY Zenon
  <2>1. a \in Nat /\ b \in Nat /\ \A z \in Rest(r) : z \in Nat
    BY Zenon, <1>2
  <2>2. \A z \in Rest(r) : z < a => z < b
    BY <2>1
  <2>3. Below(a) \in SUBSET Below(b)
    BY Zenon, <2>2
  <2>4. Below(b) \in SUBSET Rest(r) /\ b \in Rest(r) /\ a \in Rest(r)
    BY Zenon, <1>2
  <2> HIDE DEF Below, next
  <2>5. Cardinality(Below(a)) <= Cardinality(Below(b))
    BY Zenon, <1>2, <2>3, <2>4, FS_Subset
  <2> QED
    BY <1>3, <1>4, <2>4, <2>5, RebuildAssumption DEF RebuildAssumption
<1>6. k \in Aggs \cup {0} /\ \A a \in Rest(r) \ next : a > k
  <2>1. CASE next = {}
    BY Zenon, <2>1 DEF TypeOK, Rest
  <2>2. CASE next # {}
    <3> HIDE DEF next
    <3>1. next \subseteq Nat
      BY Zenon, <1>2
    <3>2. \E x \in next : \A y \in next : y <= x
      BY Zenon, <1>2, <2>2, <3>1, GreatestOf
    <3>3. k \in next
      BY Zenon, <2>2, <3>2
    <3> HIDE DEF k
    <3> QED
      BY Zenon, <1>2, <1>5, <3>3
  <2> QED
    BY Zenon, <2>1, <2>2
<1>7. ASSUME Rest(r) \ next # {} PROVE l = "snap"
  <2> DEFINE left == Rest(r) \ next
  <2>1. left \subseteq Nat /\ left # {}
    BY Zenon, <1>2, <1>7
  <2>2. PICK x \in left : \A y \in left : x <= y
    <3> HIDE DEF left
    <3> QED
      BY Zenon, <2>1, LeastOf
  <2>3. x \in Nat /\ \A z \in Rest(r) : z \in Nat
    BY Zenon, <1>2
  <2>4. \A z \in Rest(r) : z < x => z \in next
    BY <2>2, <2>3
  <2>5. Below(x) \in SUBSET next /\ x \in Rest(r) /\ x \notin next
    BY Zenon, <2>4
  <2> HIDE DEF Below, next
  <2>6. Cardinality(Below(x)) <= Cardinality(next) /\ Cardinality(next) \in Nat
    BY Zenon, <1>2, <2>5, FS_Subset, FS_CardinalityType
  <2> QED
    BY <1>3, <1>4, <2>5, <2>6, RebuildAssumption DEF RebuildAssumption
<1> HIDE DEF k, l
<1>8. l \in {"snap", "last"}
  BY Zenon DEF l
<1> QED
  BY <1>1, <1>6, <1>7, <1>8, Zenon

LEMMA SnapshotTInv ==
    ASSUME TInv, NEW r \in Rebuilders, SnapshotPage(r), UNCHANGED setup
    PROVE  TInv'
<1>1. TypeOK
  BY Zenon DEF TInv
<1>2. PICK k \in Aggs \cup {0} : cursor' = [cursor EXCEPT ![r] = k]
  BY Zenon, <1>1, PageTakesNext
<1>3. PICK l \in {"snap", "last"} : rpc' = [rpc EXCEPT ![r] = l]
  BY Zenon, <1>1, PageTakesNext
<1>4. page' = [page EXCEPT ![r] = {<<a, ver[a]>> : a \in NextPage(r)}]
  BY Zenon, <1>1, PageTakesNext
<1>5. {<<a, ver[a]>> : a \in NextPage(r)} \in SUBSET Events
  <2>1. \A a \in NextPage(r) : a \in Aggs /\ ver[a] \in 0..MaxVersion /\ ver[a] > 0
    BY Zenon, <1>1 DEF NextPage, Rest, Rows, TypeOK
  <2>2. \A a \in NextPage(r) : ver[a] \in 1..MaxVersion
    BY <2>1, RebuildAssumption DEF RebuildAssumption
  <2> QED
    BY <2>1, <2>2 DEF Events
<1>6. /\ rpc[r] = "snap" /\ mine' = mine
      /\ UNCHANGED <<rowVars, astray, todo, failed, state, sinkVars, consumerVars, mine, faults>>
  BY Zenon DEF SnapshotPage
<1>7. TypeOK'
  <2>1. /\ cursor' \in [Rebuilders -> Aggs \cup {0}]
        /\ page' \in [Rebuilders -> SUBSET Events]
    BY Zenon, <1>1, <1>2, <1>4, <1>5 DEF TypeOK
  <2> QED
    BY Zenon, <1>1, <1>3, <1>6, <2>1 DEF TypeOK, rowVars, sinkVars, consumerVars
<1>8. StateKept'
  BY Zenon, <1>1, <1>3, <1>4, <1>6 DEF TInv, TypeOK, StateKept, Filling, Bounded, consumerVars
<1>9. HandsKept'
  BY Zenon, <1>6 DEF TInv, HandsKept, consumerVars
<1> QED
  BY Zenon, <1>7, <1>8, <1>9 DEF TInv

(* Only a page being replayed makes the rebuilder write, and to the target  *)
(* it builds, which is not the live one.                                    *)
LEMMA BuildsNext ==
    ASSUME TInv, NEW r \in Rebuilders, rpc[r] \in {"drop", "snap", "last"}
    PROVE  mine[r] + 1 \in Models /\ mine[r] = state.model /\ mine[r] + 1 # state.model
<1>1. state = [model |-> mine[r], status |-> "building"] /\ mine[r] \in Models /\ Bounded(state)
  BY Zenon DEF TInv, TypeOK, StateKept
<1> QED
  BY <1>1, RebuildAssumption DEF RebuildAssumption, Models, Bounded

LEMMA ReplayTInv ==
    ASSUME TInv, NEW r \in Rebuilders, Replay(r), UNCHANGED setup
    PROVE  TInv'
<1>1. PICK e \in page[r] : Apply(mine[r] + 1, e, FALSE) /\ page' = [page EXCEPT ![r] = page[r] \ {e}]
  BY Zenon DEF Replay
<1>2. TypeOK /\ Filling(r) /\ e \in Events
  BY Zenon DEF TInv, TypeOK, StateKept
<1>3. mine[r] + 1 \in Models
  BY Zenon, <1>2, BuildsNext DEF Filling
<1>4. /\ doc' \in [Models \X Aggs -> 0..MaxVersion]
      /\ gate' \in [Models \X Aggs -> 0..MaxVersion]
  BY Zenon, <1>1, <1>2, <1>3, ApplyTyped
<1>5. TypeOK'
  BY Zenon, <1>1, <1>2, <1>4 DEF TypeOK, Replay, rowVars, consumerVars
<1>6. StateKept'
  BY Zenon, <1>1, <1>2 DEF TInv, TypeOK, StateKept, Filling, Bounded, Replay, consumerVars
<1>7. HandsKept'
  BY Zenon DEF TInv, HandsKept, Replay, consumerVars
<1> QED
  BY Zenon, <1>5, <1>6, <1>7 DEF TInv

LEMMA FlipTInv ==
    ASSUME TInv, OneRebuilder, NEW r \in Rebuilders, Flip(r), UNCHANGED setup
    PROVE  TInv'
<1>1. mine[r] + 1 \in Models
  BY Zenon, BuildsNext DEF Flip
<1>2. state' \in State /\ Bounded(state)'
  BY Zenon, <1>1 DEF Flip, State, Bounded
<1>3. TypeOK'
  BY Zenon, <1>2 DEF TInv, TypeOK, Flip, Goto, rowVars, sinkVars, consumerVars
<1>4. StateKept'
  BY Zenon, <1>2 DEF TInv, TypeOK, StateKept, Filling, Bounded, Flip, Goto, consumerVars, OneRebuilder
<1>5. HandsKept'
  BY Zenon DEF TInv, HandsKept, Flip, consumerVars
<1> QED
  BY <1>3, <1>4, <1>5 DEF TInv

LEMMA RevertTInv ==
    ASSUME TInv, OneRebuilder, NEW r \in Rebuilders, Revert(r), UNCHANGED setup
    PROVE  TInv'
<1>1. state' \in State /\ Bounded(state)'
  BY Zenon DEF TInv, TypeOK, Revert, State, Bounded, Live
<1>2. faults' \in 0..MaxFaults
  BY Zenon, FaultTyped DEF Revert
<1>3. TypeOK'
  BY Zenon, <1>1, <1>2 DEF TInv, TypeOK, Revert, Goto, rowVars, sinkVars, consumerVars
<1>4. StateKept'
  BY Zenon, <1>1 DEF TInv, TypeOK, StateKept, Filling, Bounded, Revert, Goto, consumerVars, OneRebuilder
<1>5. HandsKept'
  BY Zenon DEF TInv, HandsKept, Revert, consumerVars
<1> QED
  BY <1>3, <1>4, <1>5 DEF TInv

LEMMA CrashTInv ==
    ASSUME TInv, NEW r \in Rebuilders, Crash(r), UNCHANGED setup
    PROVE  TInv'
<1>1. faults' \in 0..MaxFaults
  BY Zenon, FaultTyped DEF Crash
<1>2. TypeOK'
  BY Zenon, <1>1 DEF TInv, TypeOK, Crash, Goto, rowVars, sinkVars, consumerVars
<1>3. StateKept'
  BY Zenon DEF TInv, TypeOK, StateKept, Filling, Bounded, Crash, Goto, consumerVars
<1>4. HandsKept'
  BY Zenon DEF TInv, HandsKept, Crash, consumerVars
<1> QED
  BY <1>2, <1>3, <1>4 DEF TInv

LEMMA FinalizeDropTInv ==
    ASSUME TInv, OneRebuilder, NEW r \in Rebuilders, FinalizeDrop(r), UNCHANGED setup
    PROVE  TInv'
<1>1. /\ doc' \in [Models \X Aggs -> 0..MaxVersion]
      /\ gate' \in [Models \X Aggs -> 0..MaxVersion]
  <2>1. CASE UNCHANGED sinkVars
    BY Zenon, <2>1 DEF sinkVars, TInv, TypeOK
  <2>2. CASE \E m \in Models : DropTarget(m)
    BY Zenon, <2>2, DropTyped DEF TInv
  <2> QED
    BY Zenon, <2>1, <2>2 DEF FinalizeDrop
<1>2. state.model \in Models
  BY Zenon DEF TInv, TypeOK, State
<1>3. TypeOK'
  BY Zenon, <1>1, <1>2 DEF TInv, TypeOK, FinalizeDrop, Goto, rowVars, consumerVars
<1>4. StateKept'
  BY <1>2 DEF TInv, TypeOK, StateKept, Filling, Bounded, FinalizeDrop, Goto, consumerVars, OneRebuilder
<1>5. HandsKept'
  BY Zenon DEF TInv, HandsKept, FinalizeDrop, consumerVars
<1> QED
  BY <1>3, <1>4, <1>5 DEF TInv

LEMMA FinalizeLiveTInv ==
    ASSUME TInv, OneRebuilder, NEW r \in Rebuilders, FinalizeLive(r), UNCHANGED setup
    PROVE  TInv'
<1>1. state' \in State /\ Bounded(state)'
  BY Zenon DEF TInv, TypeOK, FinalizeLive, State, Bounded, Live
<1>2. TypeOK'
  BY Zenon, <1>1 DEF TInv, TypeOK, FinalizeLive, Goto, rowVars, sinkVars, consumerVars
<1>3. StateKept'
  BY <1>1 DEF TInv, TypeOK, StateKept, Filling, Bounded, FinalizeLive, Goto, consumerVars, OneRebuilder
<1>4. HandsKept'
  BY Zenon DEF TInv, HandsKept, FinalizeLive, consumerVars
<1> QED
  BY <1>2, <1>3, <1>4 DEF TInv

LEMMA ExpireTInv ==
    ASSUME TInv, NEW m \in Models, NEW a \in Aggs, Expire(m, a), UNCHANGED setup
    PROVE  TInv'
<1>1. ver[a] \in 0..MaxVersion /\ 0 \in 0..MaxVersion
  BY RebuildAssumption DEF RebuildAssumption, TInv, TypeOK
<1>2. gate' \in [Models \X Aggs -> 0..MaxVersion] /\ astray' \subseteq Aggs \X (0..MaxVersion)
  <2>1. gate' = [gate EXCEPT ![<<m, a>>] = 0] /\ astray' = astray \cup {<<a, ver[a]>>}
    BY Zenon DEF Expire
  <2>2. gate \in [Models \X Aggs -> 0..MaxVersion] /\ astray \subseteq Aggs \X (0..MaxVersion)
    BY Zenon DEF TInv, TypeOK
  <2> QED
    BY <1>1, <2>1, <2>2
<1>3. TypeOK'
  BY Zenon, <1>2 DEF TInv, TypeOK, Expire, rowVars, consumerVars, rebuildVars
<1>4. StateKept' /\ HandsKept'
  BY Zenon DEF TInv, StateKept, Filling, Bounded, HandsKept, Expire, consumerVars, rebuildVars
<1> QED
  BY Zenon, <1>3, <1>4 DEF TInv

LEMMA StutterTInv ==
    ASSUME TInv, UNCHANGED vars
    PROVE  TInv'
BY Zenon DEF TInv, TypeOK, StateKept, HandsKept, Bounded, Filling, vars, rowVars, sinkVars, consumerVars, rebuildVars

LEMMA NextTInv ==
    ASSUME TInv, OneRebuilder, [Next]_vars
    PROVE  TInv'
<1>1. CASE UNCHANGED vars
  BY Zenon, <1>1, StutterTInv
<1>2. ASSUME NEW a \in Aggs, Write(a), UNCHANGED setup PROVE TInv'
  BY Zenon, <1>2, WriteTInv
<1>3. ASSUME NEW c \in Consumers, Engine(c), UNCHANGED setup PROVE TInv'
  BY <1>3, TakeTInv, ApplyLiveTInv, ApplyBuildingTInv, ReleaseTInv, Zenon DEF Engine
<1>4. ASSUME NEW r \in Rebuilders, Build(r) \/ Revert(r) \/ Crash(r), UNCHANGED setup PROVE TInv'
  BY Zenon, <1>4, GetTInv, MarkTInv, DropNewTInv, SnapshotTInv, ReplayTInv, FlipTInv, FinalizeDropTInv,
     FinalizeLiveTInv, RevertTInv, CrashTInv, Zenon DEF Build
<1>5. ASSUME NEW m \in Models, NEW a \in Aggs, Expire(m, a), UNCHANGED setup PROVE TInv'
  BY Zenon, <1>5, ExpireTInv
<1> QED
  BY <1>1, <1>2, <1>3, <1>4, <1>5, Zenon DEF Next

(* With one rebuilder its copy of the state stays the state, through        *)
(* reverts, crashes and restarts (Rebuilder.Rebuild, Finalize).             *)
THEOREM StateFollowed == ASSUME OneRebuilder PROVE Spec => []TInv
<1>1. TInv /\ [Next]_vars => TInv'
  BY Zenon, NextTInv
<1> QED
  BY <1>1, InitTInv, PTL DEF Spec

(* A step of the rebuilder keeps every document of the live target.         *)
LEMMA BuildKeepsLive ==
    ASSUME TInv, NEW r \in Rebuilders, Build(r) \/ Revert(r) \/ Crash(r),
           NEW a \in Aggs, doc'[<<state.model, a>>] = 0
    PROVE  doc[<<state.model, a>>] = 0
<1>1. state.model \in Models /\ state.model \in Int /\ TypeOK
  BY DEF TInv, TypeOK, State, Models
<1>2. CASE UNCHANGED sinkVars
  BY Zenon, <1>2 DEF sinkVars
<1>3. ASSUME NEW m, m # state.model, DropTarget(m) PROVE doc[<<state.model, a>>] = 0
  BY <1>1, <1>3, DropTyped
<1>4. CASE DropNew(r)
  <2>1. mine[r] + 1 # state.model
    BY <1>1, <1>4, BuildsNext DEF DropNew
  <2> QED
    BY Zenon, <1>3, <1>4, <2>1 DEF DropNew
<1>5. CASE Replay(r)
  <2>1. PICK e \in page[r] : Apply(mine[r] + 1, e, FALSE)
    BY Zenon, <1>5 DEF Replay
  <2>2. e \in Events /\ mine[r] + 1 \in Models
    BY Zenon, BuildsNext DEF TInv, TypeOK, StateKept, Filling
  <2>3. \A k \in Models, b \in Aggs : doc'[<<k, b>>] = 0 => doc[<<k, b>>] = 0 \/ (FALSE /\ b = e[1])
    BY <1>1, <2>1, <2>2, ApplyTyped, Zenon
  <2> QED
    BY <1>1, <2>3, Zenon
<1>6. CASE FinalizeDrop(r)
  BY <1>2, <1>3, <1>6, Zenon DEF FinalizeDrop, IsOld
<1> QED
  BY Zenon, <1>2, <1>4, <1>5, <1>6 DEF Build, Get, MarkBuilding, SnapshotPage, Flip, FinalizeLive, Revert, Crash

(* A step of a consumer empties only documents of deleted rows.             *)
LEMMA EngineKeepsLive ==
    ASSUME TInv, NEW c \in Consumers, Engine(c), NEW a \in Aggs, doc'[<<state.model, a>>] = 0
    PROVE  doc[<<state.model, a>>] = 0 \/ a \in gone
<1>1. state.model \in Models /\ TypeOK
  BY Zenon DEF TInv, TypeOK, State
<1>2. ASSUME NEW m \in Models, pc[c] # "idle", Apply(m, hand[c], IsDelete(hand[c]))
      PROVE  doc[<<state.model, a>>] = 0 \/ a \in gone
  <2>1. hand[c] \in Events
    BY Zenon, <1>2, InHandTyped
  <2>2. CASE IsDelete(hand[c])
    <3>1. Apply(m, hand[c], TRUE)
      BY Zenon, <1>2, <2>2 DEF Apply
    <3>2. \A k \in Models, b \in Aggs : doc'[<<k, b>>] = 0 => doc[<<k, b>>] = 0 \/ b = hand[c][1]
      BY <1>1, <1>2, <2>1, <3>1, ApplyTyped
    <3> QED
      BY <1>1, <2>2, <3>2, Zenon DEF IsDelete
  <2>3. CASE ~ IsDelete(hand[c])
    <3>1. Apply(m, hand[c], FALSE)
      BY Zenon, <1>2, <2>3 DEF Apply
    <3>2. \A k \in Models, b \in Aggs : doc'[<<k, b>>] = 0 => doc[<<k, b>>] = 0 \/ (FALSE /\ b = hand[c][1])
      BY <1>1, <1>2, <2>1, <3>1, ApplyTyped, Zenon
    <3> QED
      BY <1>1, <3>2, Zenon
  <2> QED
    BY Zenon, <2>2, <2>3
<1>3. CASE UNCHANGED sinkVars
  BY Zenon, <1>3 DEF sinkVars
<1>4. CASE ApplyLive(c)
  <2>1. PICK m \in {state.model, seenLive[c]} : Apply(m, hand[c], IsDelete(hand[c]))
    BY Zenon, <1>4 DEF ApplyLive
  <2>2. m \in Models /\ pc[c] # "idle"
    BY <1>1, <1>4, <2>1 DEF TypeOK, ApplyLive
  <2> QED
    BY Zenon, <1>2, <2>1, <2>2
<1>5. CASE ApplyBuilding(c)
  <2>1. plan[c] \in Models /\ pc[c] # "idle"
    BY Zenon, <1>1, <1>5 DEF TInv, TypeOK, HandsKept, ApplyBuilding
  <2> QED
    BY Zenon, <1>2, <1>5, <2>1 DEF ApplyBuilding
<1> QED
  BY Zenon, <1>3, <1>4, <1>5 DEF Engine, Take, Done, ApplyFails, ConsumerCrash

(* Readers always have a target: with one rebuilder, and whatever the       *)
(* consumers cached, no document leaves the live target unless its row was  *)
(* deleted (Rebuild drops the next target, Finalize refuses the live one).  *)
THEOREM LiveAlwaysThere == ASSUME OneRebuilder PROVE Spec => LiveNeverDropped
<1> DEFINE Kept == \A a \in Aggs : doc'[<<state.model, a>>] = 0 => doc[<<state.model, a>>] = 0 \/ a \in gone
<1>1. TInv /\ [Next]_vars => [Kept]_vars
  <2> SUFFICES ASSUME TInv, Next, NEW a \in Aggs, doc'[<<state.model, a>>] = 0
               PROVE  doc[<<state.model, a>>] = 0 \/ a \in gone
    BY Zenon
  <2>1. CASE (\E b \in Aggs : Write(b)) \/ \E m \in Models, b \in Aggs : Expire(m, b)
    BY Zenon, <2>1 DEF Write, Expire, sinkVars
  <2> QED
    BY <2>1, EngineKeepsLive, BuildKeepsLive, Zenon DEF Next
<1>2. Spec => []TInv
  BY Zenon, StateFollowed
<1> QED
  BY <1>1, <1>2, PTL DEF Spec, LiveNeverDropped
-----------------------------------------------------------------------------
(* Convergence of the live target                                           *)

LEMMA GatesTyped ==
    ASSUME TInv, NEW m \in Models, NEW a \in Aggs
    PROVE  gate[<<m, a>>] \in Int /\ ver[a] \in Int /\ 0 <= ver[a]
BY DEF TInv, TypeOK

LEMMA InitCInv == Init => CInv
<1> SUFFICES ASSUME Init PROVE CInv
  OBVIOUS
<1>1. 1 \in Models
  BY RebuildAssumption DEF RebuildAssumption, Models
<1>2. EventsKept /\ OrderKept
  BY Zenon DEF Init, EventsKept, OrderKept
<1>3. GatesKept
  BY DEF Init, GatesKept
<1>4. LiveCovered
  BY Zenon, <1>1 DEF Init, LiveCovered, Covered, Live
<1>5. BuildCovered
  BY Zenon DEF Init, BuildCovered, Filling
<1> QED
  BY Zenon, <1>2, <1>3, <1>4, <1>5 DEF CInv

(* What a write of e to target m does to the gates: it raises one of them   *)
(* to e's version unless it is beyond already.                              *)
Raised(m, e) ==
    \A k \in Models, a \in Aggs :
        gate'[<<k, a>>] = IF k = m /\ a = e[1] /\ gate[<<k, a>>] <= e[2] THEN e[2] ELSE gate[<<k, a>>]

LEMMA ApplyRaises ==
    ASSUME TypeOK, EventsKept, GatesKept, Converges(setup),
           NEW m \in Models, NEW e \in Events, e[2] <= ver[e[1]],
           NEW del, del <=> IsDelete(e), Apply(m, e, del), UNCHANGED rowVars
    PROVE  Raised(m, e) /\ GatesKept'
<1>1. /\ e[1] \in Aggs /\ e[2] \in Int /\ e[2] >= 1
      /\ \A k \in Models, a \in Aggs : gate[<<k, a>>] \in Int /\ doc[<<k, a>>] \in Int /\ ver[a] \in Int
  BY RebuildAssumption DEF RebuildAssumption, Events, TypeOK
<1>2. ver' = ver /\ gone' = gone
  BY Zenon DEF rowVars
<1>3. ~ (del /\ setup.sink = "graph")
  BY Zenon DEF EventsKept, Converges, InOrder, IsDelete
<1>4. CASE ~ Passes(m, e)
  <2>1. gate' = gate /\ doc' = doc
    BY Zenon, <1>3, <1>4 DEF Apply, sinkVars
  <2>2. Raised(m, e)
    BY Zenon, <1>1, <1>4, <2>1 DEF Raised, Passes
  <2>3. GatesKept'
    BY Zenon, <1>2, <2>1 DEF GatesKept
  <2> QED
    BY Zenon, <2>2, <2>3
<1>5. CASE Passes(m, e)
  <2>1. /\ doc' = [doc EXCEPT ![<<m, e[1]>>] = IF IsDelete(e) THEN 0 ELSE e[2]]
        /\ gate' = [gate EXCEPT ![<<m, e[1]>>] = e[2]]
    BY Zenon, <1>3, <1>5 DEF Apply
  <2>2. \A k \in Models, a \in Aggs :
            IF k = m /\ a = e[1]
            THEN gate'[<<k, a>>] = e[2] /\ doc'[<<k, a>>] = (IF IsDelete(e) THEN 0 ELSE e[2])
            ELSE gate'[<<k, a>>] = gate[<<k, a>>] /\ doc'[<<k, a>>] = doc[<<k, a>>]
    BY Zenon, <1>1, <2>1 DEF TypeOK
  <2>3. Raised(m, e)
    BY Zenon, <1>5, <2>2 DEF Raised, Passes
  <2>4. ASSUME NEW k \in Models, NEW a \in Aggs
        PROVE  /\ gate'[<<k, a>>] <= ver[a]
               /\ doc'[<<k, a>>] = IF a \in gone /\ gate'[<<k, a>>] = ver[a] THEN 0 ELSE gate'[<<k, a>>]
    <3>1. CASE k = m /\ a = e[1]
      BY Zenon, <2>2, <3>1 DEF IsDelete
    <3>2. CASE ~ (k = m /\ a = e[1])
      BY <2>2, <3>2 DEF GatesKept
    <3> QED
      BY Zenon, <3>1, <3>2
  <2>5. GatesKept'
    BY Zenon, <1>2, <2>4 DEF GatesKept
  <2> QED
    BY <2>3, <2>5
<1> QED
  BY Zenon, <1>4, <1>5

(* Once every event of an aggregate is acknowledged, the live target is     *)
(* where its row is.                                                        *)
LEMMA CoveredConverges ==
    ASSUME TInv, CInv
    PROVE  ConvergedUnlessStale
<1> SUFFICES ASSUME NEW a \in Aggs, \A e \in todo : e[1] # a, <<a, ver[a]>> \notin astray
             PROVE  doc[<<state.model, a>>] = IF a \in gone THEN 0 ELSE ver[a]
  BY Zenon DEF ConvergedUnlessStale, Converged
<1>1. state.model \in Models
  BY Zenon DEF TInv, TypeOK, State
<1>2. ~ Coming(state.model, a)
  <2>1. <<a, ver[a]>>[1] = a
    BY Zenon
  <2> QED
    BY Zenon, <2>1 DEF Coming
<1>3. gate[<<state.model, a>>] = ver[a] \/ (a \in gone /\ gate[<<state.model, a>>] = 0)
  BY Zenon, <1>1, <1>2 DEF CInv, LiveCovered, Covered, Unknown
<1> QED
  BY Zenon, <1>1, <1>3 DEF CInv, GatesKept
-----------------------------------------------------------------------------
(* Commands and consumers                                                   *)

(* What nobody has handled yet is versions of rows, and idle hands are      *)
(* empty.                                                                   *)
LEMMA Versions ==
    ASSUME TInv, EventsKept
    PROVE  /\ \A a \in Aggs : ver[a] \in Int /\ ver[a] >= 0 /\ a \in Nat /\ a # 0
           /\ \A e \in todo : e[1] \in Aggs /\ e[2] \in Int /\ e[2] >= 1 /\ e[2] <= ver[e[1]] /\ e = <<e[1], e[2]>>
           /\ \A c \in Consumers : hand[c] \in todo \/ hand[c] = <<0, 0>>
<1>1. \A a \in Aggs : ver[a] \in Int /\ ver[a] >= 0 /\ a \in Nat /\ a # 0
  BY RebuildAssumption DEF RebuildAssumption, TInv, TypeOK
<1>2. \A e \in todo : e[1] \in Aggs /\ e[2] \in Int /\ e[2] >= 1 /\ e[2] <= ver[e[1]] /\ e = <<e[1], e[2]>>
  BY RebuildAssumption DEF RebuildAssumption, TInv, TypeOK, Events, EventsKept
<1>3. \A c \in Consumers : hand[c] \in todo \/ hand[c] = <<0, 0>>
  BY Zenon DEF TInv, HandsKept, NoEvent
<1> QED
  BY Zenon, <1>1, <1>2, <1>3

LEMMA WriteCInv ==
    ASSUME TInv, CInv, NEW b \in Aggs, Write(b), UNCHANGED setup
    PROVE  CInv'
<1> DEFINE new == <<b, ver[b] + 1>>
<1>1. EventsKept /\ GatesKept /\ OrderKept /\ LiveCovered /\ BuildCovered
  BY Zenon DEF CInv
<1>2. /\ \A a \in Aggs : ver[a] \in Int /\ ver[a] >= 0 /\ a \in Nat /\ a # 0
      /\ \A e \in todo : e[1] \in Aggs /\ e[2] \in Int /\ e[2] >= 1 /\ e[2] <= ver[e[1]] /\ e = <<e[1], e[2]>>
      /\ \A c \in Consumers : hand[c] \in todo \/ hand[c] = <<0, 0>>
  BY Zenon, <1>1, Versions
<1>3. /\ \A a \in Aggs : ver'[a] = IF a = b THEN ver[a] + 1 ELSE ver[a]
      /\ todo' = todo \cup {new} /\ b \notin gone
      /\ gone' = gone \/ (gone' = gone \cup {b} /\ setup.deletes)
      /\ state' = state /\ doc' = doc /\ gate' = gate /\ hand' = hand /\ pc' = pc /\ plan' = plan
      /\ rpc' = rpc /\ mine' = mine /\ cursor' = cursor /\ page' = page /\ failed' = failed
      /\ astray' = astray
  BY Zenon DEF Write, sinkVars, consumerVars, rebuildVars, TInv, TypeOK
<1>4. EventsKept'
  <2>1. \A e \in todo' : e[2] <= ver'[e[1]]
    BY <1>2, <1>3
  <2>2. ASSUME NEW r \in Rebuilders, NEW e \in page[r]
        PROVE  e[2] <= ver'[e[1]] /\ (e[1] \in gone' => e[2] < ver'[e[1]])
    <3>1. e[1] \in Aggs /\ e[2] \in Int
      BY DEF TInv, TypeOK, Events
    <3> QED
      BY <1>1, <1>2, <1>3, <3>1 DEF EventsKept
  <2> QED
    BY Zenon, <1>1, <1>3, <2>1, <2>2 DEF EventsKept
<1>5. GatesKept'
  <2> SUFFICES ASSUME NEW m \in Models, NEW a \in Aggs
               PROVE  /\ gate[<<m, a>>] <= ver'[a]
                      /\ doc[<<m, a>>] = IF a \in gone' /\ gate[<<m, a>>] = ver'[a] THEN 0 ELSE gate[<<m, a>>]
    BY Zenon, <1>3 DEF GatesKept
  <2>1. gate[<<m, a>>] \in Int
    BY DEF TInv, TypeOK
  <2> QED
    BY <1>1, <1>2, <1>3, <2>1 DEF GatesKept
<1>6. OrderKept'
  <2> SUFFICES ASSUME setup.deletes
               PROVE  /\ failed = {}
                      /\ \A e \in todo' : \A v \in e[2]..ver'[e[1]] : <<e[1], v>> \in todo'
                      /\ \A c \in Consumers : \A e \in todo' : hand[c][1] = e[1] => hand[c][2] <= e[2]
    BY Zenon, <1>3 DEF OrderKept
  <2>1. /\ failed = {}
        /\ \A e \in todo : \A v \in e[2]..ver[e[1]] : <<e[1], v>> \in todo
        /\ \A c \in Consumers : \A e \in todo : hand[c][1] = e[1] => hand[c][2] <= e[2]
    BY Zenon, <1>1 DEF OrderKept
  <2>2. ASSUME NEW e \in todo', NEW v \in e[2]..ver'[e[1]] PROVE <<e[1], v>> \in todo'
    <3>1. CASE e = new
      BY <1>2, <1>3, <3>1
    <3>2. CASE e \in todo
      BY <1>2, <1>3, <2>1, <3>2
    <3> QED
      BY Zenon, <1>3, <3>1, <3>2
  <2>3. ASSUME NEW c \in Consumers, NEW e \in todo', hand[c][1] = e[1] PROVE hand[c][2] <= e[2]
    <3>1. CASE e = new
      BY <1>2, <2>3, <3>1
    <3>2. CASE e \in todo
      BY Zenon, <2>1, <2>3, <3>2
    <3> QED
      BY Zenon, <1>3, <3>1, <3>2
  <2> QED
    BY Zenon, <2>1, <2>2, <2>3
<1>7. \A m : Coming(m, b)'
  <2>1. \A c \in Consumers : hand[c] # new
    BY <1>2
  <2> QED
    BY Zenon, <1>3, <2>1 DEF Coming
<1>8. ASSUME NEW m, NEW a \in Aggs, a # b
      PROVE  (Covered(m, a) => Covered(m, a)') /\ (Unknown(m, a) => Unknown(m, a)')
  <2>1. ver'[a] = ver[a] /\ (a \in gone' <=> a \in gone)
    BY Zenon, <1>3, <1>8
  <2>2. Coming(m, a) => Coming(m, a)'
    BY Zenon, <1>3, <2>1 DEF Coming, Aims
  <2>3. Unknown(m, a) => Unknown(m, a)'
    BY <1>3, <1>8, <2>1 DEF Unknown
  <2> QED
    BY Zenon, <1>3, <2>1, <2>2, <2>3 DEF Covered
<1>9. LiveCovered'
  BY Zenon, <1>1, <1>3, <1>7, <1>8 DEF LiveCovered, Covered
<1>10. BuildCovered'
  <2> SUFFICES ASSUME NEW r \in Rebuilders, NEW m \in Models, Filling(r), m = mine[r] + 1, NEW a \in Aggs
               PROVE  Building(r, m, a)'
    BY Zenon, <1>3 DEF BuildCovered, Filling
  <2>1. CASE a = b
    BY Zenon, <1>7, <2>1 DEF Building, Covered
  <2>2. CASE a # b
    <3>1. InSnapshot(r, a) => InSnapshot(r, a)'
      BY Zenon, <1>3, <2>2 DEF InSnapshot
    <3>2. Building(r, m, a)
      BY Zenon, <1>1 DEF BuildCovered
    <3> QED
      BY Zenon, <1>3, <1>8, <2>2, <3>1, <3>2 DEF Building
  <2> QED
    BY Zenon, <2>1, <2>2
<1> QED
  BY Zenon, <1>4, <1>5, <1>6, <1>9, <1>10 DEF CInv

LEMMA TakeCInv ==
    ASSUME TInv, CInv, Converges(setup), NEW c \in Consumers, Take(c), UNCHANGED setup
    PROVE  CInv'
<1>1. EventsKept /\ GatesKept /\ OrderKept /\ LiveCovered /\ BuildCovered
  BY Zenon DEF CInv
<1>2. PICK e \in todo \ InHand :
          /\ e \in failed \/ \A d \in todo \ (InHand \cup failed) : d[1] = e[1] => e[2] <= d[2]
          /\ hand' = [hand EXCEPT ![c] = e]
  BY Zenon DEF Take
<1>s. PICK s : /\ plan' = [plan EXCEPT ![c] = TargetsFor(s)]
               /\ astray' = astray \cup (IF TargetsFor(s) = TargetsFor(state) THEN {} ELSE {hand'[c]})
  BY Zenon DEF Take
<1>3. /\ pc' = [pc EXCEPT ![c] = "live"] /\ pc[c] = "idle" /\ c \in setup.consumers
      /\ UNCHANGED <<ver, gone, todo, failed, state, doc, gate, rpc, mine, cursor, page>>
  BY Zenon DEF Take, rowVars, sinkVars, rebuildVars
<1>4. /\ \A d \in Consumers : d # c => hand'[d] = hand[d] /\ plan'[d] = plan[d] /\ pc'[d] = pc[d]
      /\ hand'[c] = e /\ plan'[c] = TargetsFor(s) /\ pc'[c] = "live"
  BY Zenon, <1>2, <1>s, <1>3 DEF TInv, TypeOK
<1>5. EventsKept' /\ GatesKept'
  BY Zenon, <1>1, <1>3 DEF EventsKept, GatesKept
<1>6. OrderKept'
  <2> SUFFICES ASSUME setup.deletes, NEW d \in Consumers, NEW f \in todo, hand'[d][1] = f[1]
               PROVE  hand'[d][2] <= f[2]
    BY Zenon, <1>1, <1>3 DEF OrderKept
  <2>1. CASE d # c
    BY Zenon, <1>1, <1>4, <2>1 DEF OrderKept
  <2>2. CASE d = c
    <3>1. failed = {} /\ InOrder(setup)
      BY Zenon, <1>1 DEF OrderKept, Converges
    <3>2. f \notin InHand
      <4> SUFFICES ASSUME NEW b \in Consumers, f = hand[b] PROVE FALSE
        BY Zenon DEF InHand
      <4>1. hand[b] # NoEvent
        BY <1>1, Versions DEF NoEvent
      <4>2. pc[b] # "idle" /\ b \in setup.consumers
        BY Zenon, <4>1 DEF TInv, HandsKept
      <4> QED
        BY Zenon, <1>3, <3>1, <4>2 DEF InOrder
    <3> QED
      BY <1>2, <1>4, <2>2, <3>1, <3>2
  <2> QED
    BY Zenon, <2>1, <2>2
<1>7. ASSUME NEW m, m \in {state.model, TargetsFor(state)}, NEW a
      PROVE  Covered(m, a) => Covered(m, a)'
  <2>1. Aims(c, m)' \/ e \in astray'
    BY Zenon, <1>s, <1>3, <1>4, <1>7 DEF Aims
  <2>2. \A d \in Consumers : d # c /\ Aims(d, m) => Aims(d, m)'
    BY Zenon, <1>3, <1>4 DEF Aims
  <2>3. Coming(m, a) => Coming(m, a)' \/ <<a, ver[a]>> \in astray'
    BY Zenon, <1>3, <1>4, <2>1, <2>2 DEF Coming
  <2>4. astray \subseteq astray'
    BY Zenon, <1>s
  <2> QED
    BY Zenon, <1>3, <2>3, <2>4 DEF Covered
<1>8. LiveCovered'
  BY Zenon, <1>1, <1>3, <1>7 DEF LiveCovered, Unknown
<1>9. BuildCovered'
  <2> SUFFICES ASSUME NEW r \in Rebuilders, NEW m \in Models, Filling(r), m = mine[r] + 1, NEW a \in Aggs
               PROVE  Building(r, m, a)'
    BY Zenon, <1>3 DEF BuildCovered, Filling
  <2>1. m = TargetsFor(state)
    <3>1. state = [model |-> mine[r], status |-> "building"]
      BY Zenon DEF TInv, StateKept, Filling
    <3> QED
      BY Zenon, <3>1 DEF TargetsFor
  <2>2. Building(r, m, a)
    BY Zenon, <1>1 DEF BuildCovered
  <2>3. Covered(m, a) => Covered(m, a)'
    BY Zenon, <1>7, <2>1
  <2>4. (InSnapshot(r, a) => InSnapshot(r, a)') /\ (Unknown(m, a) => Unknown(m, a)')
    BY Zenon, <1>3 DEF InSnapshot, Unknown
  <2> QED
    BY Zenon, <1>3, <2>2, <2>3, <2>4 DEF Building
<1> QED
  BY Zenon, <1>5, <1>6, <1>8, <1>9 DEF CInv

(* Consumer c writes its event to target p. A target c aimed at has the     *)
(* event now, unless c still aims at it or p was out of date.               *)
LEMMA WriteCovers ==
    ASSUME TInv, EventsKept, GatesKept, NEW c \in Consumers, NEW p \in Models, NEW l, Raised(p, hand[c]),
           pc[c] # "idle", pc' = [pc EXCEPT ![c] = l],
           UNCHANGED <<ver, gone, todo, state, hand, plan>>, astray \subseteq astray', NEW m \in Models,
           Aims(c, m) => p = m \/ (l = "build" /\ plan[c] = m) \/ hand[c] \in astray', NEW a \in Aggs
    PROVE  /\ Covered(m, a) => Covered(m, a)'
           /\ Unknown(m, a) => Covered(m, a)' \/ Unknown(m, a)'
<1>1. hand[c] \in todo /\ hand[c][1] \in Aggs /\ hand[c][2] \in Int /\ hand[c][2] <= ver[hand[c][1]]
      /\ hand[c] = <<hand[c][1], hand[c][2]>>
  BY Zenon, InHandTyped, Versions
<1>2. gate[<<m, a>>] \in Int /\ ver[a] \in Int /\ gate[<<m, a>>] <= ver[a]
  BY DEF TInv, TypeOK, GatesKept
<1>3. gate'[<<m, a>>] = IF m = p /\ a = hand[c][1] /\ gate[<<m, a>>] <= hand[c][2]
                        THEN hand[c][2] ELSE gate[<<m, a>>]
  BY Zenon DEF Raised
<1>4. gate[<<m, a>>] = ver[a] => gate'[<<m, a>>] = ver'[a]
  BY <1>1, <1>2, <1>3
<1>5. ASSUME Coming(m, a) PROVE Covered(m, a)'
  <2>1. CASE hand[c] = <<a, ver[a]>> /\ p = m
    BY <1>1, <1>2, <1>3, <2>1 DEF Covered
  <2>2. CASE <<a, ver[a]>> \in astray'
    BY Zenon, <2>2 DEF Covered
  <2>3. CASE ~ (hand[c] = <<a, ver[a]>> /\ p = m) /\ <<a, ver[a]>> \notin astray'
    <3>1. \A d \in Consumers : hand[d] = <<a, ver[a]>> => Aims(d, m)'
      <4> SUFFICES ASSUME NEW d \in Consumers, hand[d] = <<a, ver[a]>> PROVE Aims(d, m)'
        BY Zenon
      <4>1. Aims(d, m)
        BY Zenon, <1>5 DEF Coming
      <4>2. CASE d # c
        BY Zenon, <4>1, <4>2 DEF Aims, TInv, TypeOK
      <4>3. CASE d = c
        BY Zenon, <2>3, <4>1, <4>3 DEF Aims, TInv, TypeOK
      <4> QED
        BY Zenon, <4>2, <4>3
    <3> QED
      BY Zenon, <1>5, <3>1 DEF Coming, Covered
  <2> QED
    BY Zenon, <2>1, <2>2, <2>3
<1>6. ASSUME Unknown(m, a) PROVE Covered(m, a)' \/ Unknown(m, a)'
  <2>1. CASE a = hand[c][1]
    <3>1. hand[c][2] = ver[a]
      BY Zenon, <1>1, <1>6, <2>1 DEF Unknown
    <3>2. gate'[<<m, a>>] \in {ver[a], gate[<<m, a>>]}
      BY Zenon, <1>3, <3>1
    <3> QED
      BY Zenon, <1>6, <3>2 DEF Unknown, Covered
  <2>2. CASE a # hand[c][1]
    BY Zenon, <1>3, <1>6, <2>2 DEF Unknown
  <2> QED
    BY Zenon, <2>1, <2>2
<1> QED
  BY Zenon, <1>4, <1>5, <1>6 DEF Covered

(* A consumer's write keeps the invariant when it aims at the live target   *)
(* and at the one being built as WriteCovers asks.                          *)
LEMMA ApplyCInv ==
    ASSUME TInv, CInv, Converges(setup), NEW c \in Consumers, NEW p \in Models, NEW l,
           pc[c] # "idle", pc' = [pc EXCEPT ![c] = l], Apply(p, hand[c], IsDelete(hand[c])),
           \A m \in Models : Aims(c, m) => p = m \/ (l = "build" /\ plan[c] = m) \/ hand[c] \in astray',
           UNCHANGED <<setup, ver, gone, todo, failed, state, hand, plan, rpc, mine, cursor, page>>,
           astray \subseteq astray'
    PROVE  CInv'
<1>1. EventsKept /\ GatesKept /\ OrderKept /\ LiveCovered /\ BuildCovered
  BY Zenon DEF CInv
<1>2. Raised(p, hand[c]) /\ GatesKept'
  <2>1. hand[c] \in Events /\ hand[c][2] <= ver[hand[c][1]]
    BY Zenon, <1>1, InHandTyped, Versions
  <2>2. TypeOK /\ UNCHANGED rowVars
    BY Zenon DEF TInv, rowVars
  <2>3. CASE IsDelete(hand[c])
    <3>1. Apply(p, hand[c], TRUE)
      BY Zenon, <2>3 DEF Apply
    <3> QED
      BY Zenon, <1>1, <2>1, <2>2, <2>3, <3>1, ApplyRaises
  <2>4. CASE ~ IsDelete(hand[c])
    <3>1. Apply(p, hand[c], FALSE)
      BY Zenon, <2>4 DEF Apply
    <3> QED
      BY Zenon, <1>1, <2>1, <2>2, <2>4, <3>1, ApplyRaises
  <2> QED
    BY Zenon, <2>3, <2>4
<1>3. EventsKept' /\ OrderKept'
  BY Zenon, <1>1 DEF EventsKept, OrderKept
<1>4. ASSUME NEW m \in Models, NEW a \in Aggs
      PROVE  /\ Covered(m, a) => Covered(m, a)'
             /\ Unknown(m, a) => Covered(m, a)' \/ Unknown(m, a)'
  BY Zenon, <1>1, <1>2, WriteCovers
<1>5. LiveCovered'
  BY Zenon, <1>1, <1>4 DEF LiveCovered
<1>6. BuildCovered'
  <2> SUFFICES ASSUME NEW r \in Rebuilders, NEW m \in Models, Filling(r), m = mine[r] + 1, NEW a \in Aggs
               PROVE  Building(r, m, a)'
    BY Zenon DEF BuildCovered, Filling
  <2>1. Building(r, m, a)
    BY Zenon, <1>1 DEF BuildCovered
  <2>2. InSnapshot(r, a) => InSnapshot(r, a)'
    BY Zenon DEF InSnapshot
  <2> QED
    BY Zenon, <1>4, <2>1, <2>2 DEF Building
<1> QED
  BY Zenon, <1>2, <1>3, <1>5, <1>6 DEF CInv

LEMMA ApplyLiveCInv ==
    ASSUME TInv, CInv, Converges(setup), NEW c \in Consumers, ApplyLive(c), UNCHANGED setup
    PROVE  CInv'
<1> DEFINE l == IF plan[c] = 0 THEN "done" ELSE "build"
<1>1. state.model \in Models /\ seenLive[c] \in Models /\ 0 \notin Models
  BY DEF TInv, TypeOK, State, Models
<1>2. /\ pc[c] = "live" /\ pc' = [pc EXCEPT ![c] = l] /\ pc[c] # "idle"
      /\ UNCHANGED <<setup, ver, gone, todo, failed, state, hand, plan, rpc, mine, cursor, page>>
  BY Zenon DEF ApplyLive, rowVars, rebuildVars
<1>3. PICK p \in {state.model, seenLive[c]} :
          /\ astray' = astray \cup (IF p = state.model THEN {} ELSE {hand[c]})
          /\ Apply(p, hand[c], IsDelete(hand[c]))
  BY Zenon DEF ApplyLive
<1>4. p \in Models /\ astray \subseteq astray' /\ (p = state.model \/ hand[c] \in astray')
  BY Zenon, <1>1, <1>3
<1>5. \A m \in Models : Aims(c, m) => p = m \/ (l = "build" /\ plan[c] = m) \/ hand[c] \in astray'
  BY Zenon, <1>1, <1>2, <1>4 DEF Aims
<1> HIDE DEF l
<1> QED
  BY Zenon, <1>2, <1>3, <1>4, <1>5, ApplyCInv

LEMMA ApplyBuildingCInv ==
    ASSUME TInv, CInv, Converges(setup), NEW c \in Consumers, ApplyBuilding(c), UNCHANGED setup
    PROVE  CInv'
<1>1. plan[c] \in Models
  BY Zenon DEF TInv, TypeOK, HandsKept, ApplyBuilding
<1>2. /\ pc[c] = "build" /\ pc' = [pc EXCEPT ![c] = "done"]
      /\ Apply(plan[c], hand[c], IsDelete(hand[c]))
      /\ UNCHANGED <<setup, ver, gone, astray, todo, failed, state, hand, plan, rpc, mine, cursor, page>>
  BY Zenon DEF ApplyBuilding, rowVars, rebuildVars
<1>3. (\A m \in Models : Aims(c, m) => plan[c] = m) /\ astray \subseteq astray'
  BY Zenon, <1>2 DEF Aims
<1>4. PICK p \in Models : p = plan[c]
  BY Zenon, <1>1
<1>5. Apply(p, hand[c], IsDelete(hand[c])) /\ pc[c] # "idle"
  BY Zenon, <1>2, <1>4
<1> QED
  BY Zenon, <1>2, <1>3, <1>4, <1>5, ApplyCInv

(* A consumer lets its event go, acknowledged only when it aims at nothing  *)
(* any more.                                                                *)
LEMMA FreeCInv ==
    ASSUME TInv, CInv, NEW c \in Consumers, pc[c] # "idle", Free(c),
           todo' = todo \/ (pc[c] = "done" /\ todo' = todo \ {hand[c]}),
           setup.deletes => failed' = {},
           UNCHANGED <<setup, rowVars, astray, state, sinkVars, rebuildVars>>
    PROVE  CInv'
<1>1. EventsKept /\ GatesKept /\ OrderKept /\ LiveCovered /\ BuildCovered
  BY Zenon DEF CInv
<1>2. /\ \A e \in todo : e[1] \in Aggs /\ e[2] \in Int /\ e[2] >= 1 /\ e[2] <= ver[e[1]] /\ e = <<e[1], e[2]>>
      /\ \A a \in Aggs : a \in Nat /\ a # 0 /\ ver[a] \in Int
      /\ hand[c] \in todo
  BY Zenon, <1>1, Versions, InHandTyped
<1>3. /\ ver' = ver /\ gone' = gone /\ state' = state /\ gate' = gate /\ doc' = doc
      /\ rpc' = rpc /\ mine' = mine /\ cursor' = cursor /\ page' = page
      /\ todo' \subseteq todo
  BY Zenon DEF rowVars, sinkVars, rebuildVars
<1>4. /\ \A d \in Consumers : d # c => hand'[d] = hand[d] /\ plan'[d] = plan[d] /\ pc'[d] = pc[d]
      /\ hand'[c] = <<0, 0>>
  BY Zenon DEF Free, TInv, TypeOK, NoEvent
<1>5. EventsKept' /\ GatesKept'
  BY Zenon, <1>1, <1>3 DEF EventsKept, GatesKept
<1>6. OrderKept'
  <2> SUFFICES ASSUME setup.deletes
               PROVE  /\ \A e \in todo' : \A v \in e[2]..ver[e[1]] : <<e[1], v>> \in todo'
                      /\ \A d \in Consumers : \A e \in todo' : hand'[d][1] = e[1] => hand'[d][2] <= e[2]
    BY Zenon, <1>3 DEF OrderKept
  <2>1. /\ \A e \in todo : \A v \in e[2]..ver[e[1]] : <<e[1], v>> \in todo
        /\ \A d \in Consumers : \A e \in todo : hand[d][1] = e[1] => hand[d][2] <= e[2]
    BY Zenon, <1>1 DEF OrderKept
  <2>2. ASSUME NEW e \in todo', NEW v \in e[2]..ver[e[1]] PROVE <<e[1], v>> \in todo'
    <3>1. <<e[1], v>> \in todo /\ e \in todo
      BY Zenon, <1>3, <2>1
    <3>2. CASE hand[c] = <<e[1], v>>
      <4>1. hand[c] = e
        BY <1>2, <2>1, <3>1, <3>2
      <4> QED
        BY Zenon, <3>2, <4>1
    <3>3. CASE hand[c] # <<e[1], v>>
      BY Zenon, <3>1, <3>3
    <3> QED
      BY Zenon, <3>2, <3>3
  <2>3. ASSUME NEW d \in Consumers, NEW e \in todo', hand'[d][1] = e[1] PROVE hand'[d][2] <= e[2]
    BY <1>2, <1>3, <1>4, <2>1, <2>3
  <2> QED
    BY Zenon, <2>2, <2>3
<1>7. ASSUME NEW m, NEW a \in Aggs
      PROVE  (Coming(m, a) => Coming(m, a)') /\ (Unknown(m, a) => Unknown(m, a)')
  <2>1. ASSUME Coming(m, a) PROVE Coming(m, a)'
    <3>1. hand[c] = <<a, ver[a]>> => pc[c] # "done"
      BY Zenon, <2>1 DEF Coming, Aims
    <3>2. <<a, ver[a]>> \in todo'
      BY Zenon, <2>1, <3>1 DEF Coming
    <3>3. \A d \in Consumers : hand'[d] = <<a, ver[a]>> => Aims(d, m)'
      <4> SUFFICES ASSUME NEW d \in Consumers, hand'[d] = <<a, ver[a]>> PROVE Aims(d, m)'
        BY Zenon
      <4>1. d # c
        BY <1>2, <1>4
      <4>2. Aims(d, m)
        BY Zenon, <1>4, <2>1, <4>1 DEF Coming
      <4> QED
        BY Zenon, <1>3, <1>4, <4>1, <4>2 DEF Aims
    <3> QED
      BY Zenon, <1>3, <3>2, <3>3 DEF Coming
  <2>2. Unknown(m, a) => Unknown(m, a)'
    BY Zenon, <1>3 DEF Unknown
  <2> QED
    BY Zenon, <2>1, <2>2
<1>8. LiveCovered'
  BY Zenon, <1>1, <1>3, <1>7 DEF LiveCovered, Covered
<1>9. BuildCovered'
  <2> SUFFICES ASSUME NEW r \in Rebuilders, NEW m \in Models, Filling(r), m = mine[r] + 1, NEW a \in Aggs
               PROVE  Building(r, m, a)'
    BY Zenon, <1>3 DEF BuildCovered, Filling
  <2>1. Building(r, m, a)
    BY Zenon, <1>1 DEF BuildCovered
  <2>2. InSnapshot(r, a) => InSnapshot(r, a)'
    BY Zenon, <1>3 DEF InSnapshot
  <2> QED
    BY Zenon, <1>3, <1>7, <2>1, <2>2 DEF Building, Covered
<1> QED
  BY Zenon, <1>5, <1>6, <1>8, <1>9 DEF CInv

LEMMA ReleaseCInv ==
    ASSUME TInv, CInv, Converges(setup), NEW c \in Consumers, UNCHANGED setup,
           Done(c) \/ ApplyFails(c) \/ ConsumerCrash(c)
    PROVE  CInv'
<1>1. setup.deletes => failed = {} /\ "apply" \notin setup.faults
  BY Zenon DEF CInv, OrderKept, Converges, InOrder
<1>2. CASE Done(c)
  BY Zenon, <1>1, <1>2, FreeCInv DEF Done
<1>3. CASE ApplyFails(c)
  BY Zenon, <1>1, <1>3, FreeCInv DEF ApplyFails, Fault
<1>4. CASE ConsumerCrash(c)
  BY Zenon, <1>1, <1>4, FreeCInv DEF ConsumerCrash
<1> QED
  BY Zenon, <1>2, <1>3, <1>4
-----------------------------------------------------------------------------
(* The rebuilder's steps                                                    *)

(* A step that leaves rows, events, targets and the live model alone, after *)
(* which no target is being filled.                                         *)
LEMMA PointerCInv ==
    ASSUME TInv, CInv,
           UNCHANGED <<setup, ver, gone, astray, todo, failed, doc, gate, hand, pc, plan>>,
           state'.model = state.model, \A r \in Rebuilders : rpc'[r] \notin {"snap", "last"},
           \A r \in Rebuilders : page'[r] \subseteq page[r]
    PROVE  CInv'
<1>1. EventsKept /\ GatesKept /\ OrderKept /\ LiveCovered
  BY Zenon DEF CInv
<1>2. EventsKept' /\ GatesKept' /\ OrderKept'
  BY Zenon, <1>1 DEF EventsKept, GatesKept, OrderKept
<1>3. LiveCovered'
  BY <1>1 DEF LiveCovered, Covered, Coming, Aims, Unknown
<1>4. BuildCovered'
  BY Zenon DEF BuildCovered, Filling
<1> QED
  BY Zenon, <1>2, <1>3, <1>4 DEF CInv

LEMMA PointerStepsCInv ==
    ASSUME TInv, CInv, OneRebuilder, NEW r \in Rebuilders, UNCHANGED setup,
           Get(r) \/ MarkBuilding(r) \/ Revert(r) \/ Crash(r) \/ FinalizeLive(r)
    PROVE  CInv'
<1>1. UNCHANGED <<setup, ver, gone, astray, todo, failed, doc, gate, hand, pc, plan>>
  BY Zenon DEF Get, MarkBuilding, Revert, Crash, FinalizeLive, rowVars, sinkVars, consumerVars
<1>2. state'.model = state.model
  <2>1. CASE Get(r) \/ Crash(r)
    BY Zenon, <2>1 DEF Get, Crash
  <2>2. CASE MarkBuilding(r)
    BY Zenon, <2>2 DEF MarkBuilding, TInv, StateKept
  <2>3. CASE Revert(r)
    BY <2>3 DEF Revert, Live, TInv, StateKept
  <2>4. CASE FinalizeLive(r)
    BY Zenon, <2>4 DEF FinalizeLive, Live, TInv, StateKept
  <2> QED
    BY Zenon, <2>1, <2>2, <2>3, <2>4
<1>3. \A q \in Rebuilders : rpc'[q] \notin {"snap", "last"}
  <2>1. rpc'[r] \in {"mark", "drop", "idle"}
    BY Zenon DEF Get, MarkBuilding, Revert, Crash, FinalizeLive, Goto, TInv, TypeOK
  <2> QED
    BY Zenon, <2>1 DEF OneRebuilder
<1>4. \A q \in Rebuilders : page'[q] \subseteq page[q]
  BY Zenon DEF Get, MarkBuilding, Revert, Crash, FinalizeLive, TInv, TypeOK
<1> QED
  BY Zenon, <1>1, <1>2, <1>3, <1>4, PointerCInv

(* Targets other than the live one are dropped.                             *)
LEMMA DropCInv ==
    ASSUME TInv, CInv, NEW n, n # state.model, DropTarget(n),
           UNCHANGED <<setup, ver, gone, astray, todo, failed, hand, pc, plan, state>>,
           \A r \in Rebuilders : page'[r] \subseteq page[r]
    PROVE  EventsKept' /\ GatesKept' /\ OrderKept' /\ LiveCovered'
<1>1. EventsKept /\ GatesKept /\ OrderKept /\ LiveCovered /\ TypeOK
  BY Zenon DEF CInv, TInv
<1>2. /\ \A k \in Models, a \in Aggs :
             k # n => doc'[<<k, a>>] = doc[<<k, a>>] /\ gate'[<<k, a>>] = gate[<<k, a>>]
      /\ \A a \in Aggs : n \in Models => doc'[<<n, a>>] = 0 /\ gate'[<<n, a>>] = 0
  BY Zenon, <1>1, DropTyped
<1>3. EventsKept' /\ OrderKept'
  BY Zenon, <1>1 DEF EventsKept, OrderKept
<1>4. GatesKept'
  <2> SUFFICES ASSUME NEW k \in Models, NEW a \in Aggs
               PROVE  /\ gate'[<<k, a>>] <= ver[a]
                      /\ doc'[<<k, a>>] = IF a \in gone /\ gate'[<<k, a>>] = ver[a] THEN 0 ELSE gate'[<<k, a>>]
    BY Zenon DEF GatesKept
  <2>1. CASE k = n
    <3>1. gate'[<<k, a>>] = 0 /\ doc'[<<k, a>>] = 0
      BY Zenon, <1>2, <2>1
    <3>2. 0 <= ver[a]
      BY Zenon, GatesTyped
    <3> QED
      BY Zenon, <3>1, <3>2
  <2>2. CASE k # n
    <3>1. gate'[<<k, a>>] = gate[<<k, a>>] /\ doc'[<<k, a>>] = doc[<<k, a>>]
      BY Zenon, <1>2, <2>2
    <3> QED
      BY Zenon, <1>1, <3>1 DEF GatesKept
  <2> QED
    BY Zenon, <2>1, <2>2
<1>5. LiveCovered'
  <2> SUFFICES ASSUME NEW m \in Models, m = state.model, NEW a \in Aggs
               PROVE  Covered(m, a)' \/ Unknown(m, a)'
    BY Zenon DEF LiveCovered
  <2>1. Covered(m, a) \/ Unknown(m, a)
    BY Zenon, <1>1 DEF LiveCovered
  <2>2. gate'[<<m, a>>] = gate[<<m, a>>]
    BY Zenon, <1>2
  <2> QED
    BY Zenon, <2>1, <2>2 DEF Covered, Coming, Aims, Unknown
<1> QED
  BY Zenon, <1>3, <1>4, <1>5

LEMMA FinalizeDropCInv ==
    ASSUME TInv, CInv, OneRebuilder, NEW r \in Rebuilders, FinalizeDrop(r), UNCHANGED setup
    PROVE  CInv'
<1>1. /\ UNCHANGED <<setup, ver, gone, astray, todo, failed, hand, pc, plan, state, page>>
      /\ \A q \in Rebuilders : rpc'[q] \notin {"snap", "last"}
  BY Zenon DEF FinalizeDrop, rowVars, consumerVars, Goto, TInv, TypeOK, OneRebuilder
<1>2. CASE UNCHANGED sinkVars
  BY Zenon, <1>1, <1>2, PointerCInv DEF sinkVars
<1>3. CASE \E n \in Models : IsOld(n) /\ DropTarget(n)
  <2>1. EventsKept' /\ GatesKept' /\ OrderKept' /\ LiveCovered'
    BY Zenon, <1>1, <1>3, DropCInv DEF IsOld
  <2>2. BuildCovered'
    BY Zenon, <1>1 DEF BuildCovered, Filling
  <2> QED
    BY Zenon, <2>1, <2>2 DEF CInv
<1> QED
  BY Zenon, <1>2, <1>3 DEF FinalizeDrop

(* The new target starts empty: rows are still to be read, and of a deleted *)
(* one either nothing is left or its deletion has yet to be handled.        *)
LEMMA DropNewCInv ==
    ASSUME TInv, CInv, OneRebuilder, NEW r \in Rebuilders, DropNew(r), UNCHANGED setup
    PROVE  CInv'
<1>1. /\ UNCHANGED <<setup, ver, gone, astray, todo, failed, hand, pc, plan, state, mine>>
      /\ DropTarget(mine[r] + 1) /\ page'[r] = {} /\ cursor'[r] = 0 /\ rpc'[r] = "snap"
  BY Zenon DEF DropNew, rowVars, consumerVars, Goto, TInv, TypeOK
<1>2. mine[r] + 1 \in Models /\ mine[r] + 1 # state.model
  BY Zenon, BuildsNext DEF DropNew
<1>3. EventsKept' /\ GatesKept' /\ OrderKept' /\ LiveCovered'
  <2>1. PICK n \in Models : n = mine[r] + 1
    BY Zenon, <1>2
  <2>2. \A q \in Rebuilders : page'[q] \subseteq page[q]
    BY Zenon, <1>1 DEF OneRebuilder
  <2> QED
    BY Zenon, <1>1, <1>2, <2>1, <2>2, DropCInv
<1>4. BuildCovered'
  <2> SUFFICES ASSUME NEW m \in Models, m = mine[r] + 1, NEW a \in Aggs
               PROVE  Building(r, m, a)'
    BY Zenon, <1>1 DEF BuildCovered, OneRebuilder
  <2>1. CASE a \notin gone
    BY <1>1, <2>1, RebuildAssumption DEF RebuildAssumption, Building, InSnapshot
  <2>2. CASE a \in gone
    <3>1. gate'[<<m, a>>] = 0
      BY Zenon, <1>1, DropTyped DEF TInv
    <3>2. CASE \A e \in todo : e[1] = a => e[2] = ver[a]
      BY Zenon, <1>1, <2>2, <3>1, <3>2 DEF Building, Unknown
    <3>3. CASE \E e \in todo : e[1] = a /\ e[2] # ver[a]
      <4>1. PICK e \in todo : e[1] = a /\ e[2] # ver[a]
        BY Zenon, <3>3
      <4>2. EventsKept /\ OrderKept /\ setup.deletes
        BY Zenon, <2>2 DEF CInv, EventsKept
      <4>3. e[2] \in Int /\ ver[a] \in Int /\ e[2] < ver[a]
        BY <4>1, <4>2, Versions
      <4>4. <<a, ver[a]>> \in todo
        BY <4>1, <4>2, <4>3 DEF OrderKept
      <4>5. \A c \in Consumers : hand[c] # <<a, ver[a]>>
        BY <4>1, <4>2, <4>3 DEF OrderKept
      <4> QED
        BY Zenon, <1>1, <4>4, <4>5 DEF Building, Covered, Coming
    <3> QED
      BY Zenon, <3>2, <3>3
  <2> QED
    BY Zenon, <2>1, <2>2
<1> QED
  BY <1>3, <1>4 DEF CInv

LEMMA SnapshotCInv ==
    ASSUME TInv, CInv, OneRebuilder, NEW r \in Rebuilders, SnapshotPage(r), UNCHANGED setup
    PROVE  CInv'
<1>1. EventsKept /\ GatesKept /\ OrderKept /\ LiveCovered /\ BuildCovered /\ TypeOK
  BY Zenon DEF CInv, TInv
<1>2. /\ UNCHANGED <<setup, ver, gone, astray, todo, failed, hand, pc, plan, state, mine, doc, gate>>
      /\ rpc[r] = "snap" /\ page[r] = {}
  BY Zenon DEF SnapshotPage, rowVars, sinkVars, consumerVars
<1>3. page'[r] = {<<a, ver[a]>> : a \in NextPage(r)}
  BY <1>1, PageTakesNext DEF TypeOK
<1>4. \A a \in Rest(r) \ NextPage(r) : a > cursor'[r] /\ rpc'[r] = "snap"
  <2>1. PICK k \in Aggs \cup {0} : cursor' = [cursor EXCEPT ![r] = k] /\ \A a \in Rest(r) \ NextPage(r) : a > k
    BY Zenon, <1>1, PageTakesNext
  <2>2. PICK l \in {"snap", "last"} :
            rpc' = [rpc EXCEPT ![r] = l] /\ (Rest(r) \ NextPage(r) # {} => l = "snap")
    BY Zenon, <1>1, PageTakesNext
  <2> QED
    BY Zenon, <1>1, <2>1, <2>2 DEF TypeOK
<1>5. \A a \in NextPage(r) : a \in Aggs /\ a \notin gone
  BY Zenon DEF NextPage, Rest, Rows
<1>6. EventsKept'
  <2>1. \A e \in page'[r] : e[1] \notin gone /\ e[2] <= ver[e[1]]
    <3> SUFFICES ASSUME NEW a \in NextPage(r) PROVE a \notin gone /\ ver[a] <= ver[a]
      BY <1>3
    <3> QED
      BY <1>1, <1>5 DEF TypeOK
  <2> QED
    BY Zenon, <1>1, <1>2, <2>1 DEF EventsKept, OneRebuilder
<1>7. GatesKept' /\ OrderKept'
  BY Zenon, <1>1, <1>2 DEF GatesKept, OrderKept
<1>8. LiveCovered'
  BY <1>1, <1>2 DEF LiveCovered, Covered, Coming, Aims, Unknown
<1>9. BuildCovered'
  <2> SUFFICES ASSUME NEW m \in Models, m = mine[r] + 1, NEW a \in Aggs
               PROVE  Building(r, m, a)'
    BY Zenon, <1>2 DEF BuildCovered, OneRebuilder
  <2>1. Building(r, m, a)
    BY Zenon, <1>1, <1>2 DEF BuildCovered, Filling
  <2>2. CASE Covered(m, a)
    BY Zenon, <1>2, <2>2 DEF Building, Covered, Coming, Aims
  <2>3. CASE Unknown(m, a)
    <3>1. \A e \in page'[r] : e[1] # a
      BY <1>3, <1>5, <2>3 DEF Unknown
    <3> QED
      BY Zenon, <1>2, <2>3, <3>1 DEF Building, Unknown
  <2>4. CASE InSnapshot(r, a)
    <3>1. a > cursor[r] /\ a \notin gone
      BY Zenon, <1>2, <2>4 DEF InSnapshot
    <3>2. CASE ver[a] > 0
      <4>1. a \in Rest(r)
        BY Zenon, <3>1, <3>2 DEF Rest, Rows
      <4>2. CASE a \in NextPage(r)
        <5>1. <<a, ver[a]>> \in page'[r]
          BY Zenon, <1>3, <4>2
        <5> QED
          BY Zenon, <1>2, <5>1 DEF Building, InSnapshot
      <4>3. CASE a \notin NextPage(r)
        BY Zenon, <1>2, <1>4, <3>1, <4>1, <4>3 DEF Building, InSnapshot
      <4> QED
        BY Zenon, <4>2, <4>3
    <3>3. CASE ~ (ver[a] > 0)
      <4>1. gate[<<m, a>>] = ver[a]
        BY <1>1, <3>3 DEF GatesKept, TypeOK
      <4> QED
        BY Zenon, <1>2, <4>1 DEF Building, Covered
    <3> QED
      BY Zenon, <3>2, <3>3
  <2> QED
    BY Zenon, <2>1, <2>2, <2>3, <2>4 DEF Building
<1> QED
  BY Zenon, <1>6, <1>7, <1>8, <1>9 DEF CInv

LEMMA ReplayCInv ==
    ASSUME TInv, CInv, Converges(setup), OneRebuilder, NEW r \in Rebuilders, Replay(r), UNCHANGED setup
    PROVE  CInv'
<1>1. EventsKept /\ GatesKept /\ OrderKept /\ LiveCovered /\ BuildCovered /\ TypeOK
  BY Zenon DEF CInv, TInv
<1>2. PICK e \in page[r] : Apply(mine[r] + 1, e, FALSE) /\ page' = [page EXCEPT ![r] = page[r] \ {e}]
  BY Zenon DEF Replay
<1>3. UNCHANGED <<setup, ver, gone, astray, todo, failed, hand, pc, plan, state, mine, rpc, cursor>>
  BY Zenon DEF Replay, rowVars, consumerVars
<1>4. /\ e \in Events /\ e[1] \in Aggs /\ e[2] \in Int /\ e = <<e[1], e[2]>>
      /\ e[2] <= ver[e[1]] /\ ~ IsDelete(e) /\ page'[r] = page[r] \ {e}
  <2>1. e \in Events /\ e[1] \in Aggs /\ e[2] \in Int /\ e = <<e[1], e[2]>> /\ page'[r] = page[r] \ {e}
    BY <1>1, <1>2 DEF TypeOK, Events
  <2>2. e[2] <= ver[e[1]] /\ (e[1] \in gone => e[2] < ver[e[1]])
    BY Zenon, <1>1 DEF EventsKept
  <2>3. ~ IsDelete(e)
    BY <1>1, <2>1, <2>2 DEF IsDelete, TypeOK
  <2> QED
    BY Zenon, <2>1, <2>2, <2>3
<1>5. Filling(r) /\ mine[r] + 1 \in Models /\ mine[r] + 1 # state.model
  <2>1. Filling(r)
    BY Zenon, <1>2 DEF TInv, StateKept
  <2> QED
    BY Zenon, <2>1, BuildsNext DEF Filling
<1>6. PICK n \in Models : n = mine[r] + 1
  BY Zenon, <1>5
<1>7. Raised(n, e) /\ GatesKept'
  <2>1. Apply(n, e, FALSE) /\ (FALSE <=> IsDelete(e)) /\ UNCHANGED rowVars
    BY Zenon, <1>2, <1>3, <1>4, <1>6 DEF rowVars
  <2> QED
    BY Zenon, <1>1, <1>4, <2>1, ApplyRaises
<1>8. EventsKept' /\ OrderKept'
  BY Zenon, <1>1, <1>3, <1>4 DEF EventsKept, OrderKept, OneRebuilder
<1>9. LiveCovered'
  <2> SUFFICES ASSUME NEW m \in Models, m = state.model, NEW a \in Aggs
               PROVE  Covered(m, a)' \/ Unknown(m, a)'
    BY Zenon, <1>3 DEF LiveCovered
  <2>1. gate'[<<m, a>>] = gate[<<m, a>>]
    BY Zenon, <1>5, <1>6, <1>7 DEF Raised
  <2>2. Covered(m, a) \/ Unknown(m, a)
    BY Zenon, <1>1 DEF LiveCovered
  <2> QED
    BY Zenon, <1>3, <2>1, <2>2 DEF Covered, Coming, Aims, Unknown
<1>10. ASSUME NEW a \in Aggs PROVE Building(r, n, a)'
  <2>1. Building(r, n, a)
    BY Zenon, <1>1, <1>5, <1>6 DEF BuildCovered
  <2>2. /\ gate'[<<n, a>>] = IF a = e[1] /\ gate[<<n, a>>] <= e[2] THEN e[2] ELSE gate[<<n, a>>]
        /\ gate[<<n, a>>] \in Int /\ ver[a] \in Int /\ gate[<<n, a>>] <= ver[a]
    <3>1. gate'[<<n, a>>] = IF n = n /\ a = e[1] /\ gate[<<n, a>>] <= e[2] THEN e[2] ELSE gate[<<n, a>>]
      BY Zenon, <1>7 DEF Raised
    <3>2. gate[<<n, a>>] <= ver[a]
      BY Zenon, <1>1 DEF GatesKept
    <3> QED
      BY Zenon, <3>1, <3>2, GatesTyped
  <2>3. CASE Covered(n, a)
    <3>1. gate[<<n, a>>] = ver[a] => gate'[<<n, a>>] = ver[a]
      BY <1>4, <2>2
    <3>2. Coming(n, a) => Coming(n, a)'
      BY Zenon, <1>3 DEF Coming, Aims
    <3> QED
      BY Zenon, <1>3, <2>3, <3>1, <3>2 DEF Building, Covered
  <2>4. CASE InSnapshot(r, a)
    <3>1. CASE e = <<a, ver[a]>>
      <4>1. gate'[<<n, a>>] = ver[a]
        BY Zenon, <2>2, <3>1
      <4> QED
        BY Zenon, <1>3, <4>1 DEF Building, Covered
    <3>2. CASE e # <<a, ver[a]>>
      BY Zenon, <1>3, <1>4, <2>4, <3>2 DEF Building, InSnapshot
    <3> QED
      BY Zenon, <3>1, <3>2
  <2>5. CASE Unknown(n, a) /\ \A f \in page[r] : f[1] # a
    <3>1. gate'[<<n, a>>] = gate[<<n, a>>]
      BY Zenon, <2>2, <2>5
    <3> QED
      BY Zenon, <1>3, <1>4, <2>5, <3>1 DEF Building, Unknown
  <2> QED
    BY Zenon, <2>1, <2>3, <2>4, <2>5 DEF Building
<1>11. BuildCovered'
  BY Zenon, <1>3, <1>6, <1>10 DEF BuildCovered, OneRebuilder
<1> QED
  BY Zenon, <1>7, <1>8, <1>9, <1>11 DEF CInv

(* The flip: the snapshot is read and replayed, so what is not in the new   *)
(* target is on its way to it.                                              *)
LEMMA FlipCInv ==
    ASSUME TInv, CInv, OneRebuilder, NEW r \in Rebuilders, Flip(r), UNCHANGED setup
    PROVE  CInv'
<1>1. EventsKept /\ GatesKept /\ OrderKept /\ BuildCovered
  BY Zenon DEF CInv
<1>2. /\ UNCHANGED <<setup, ver, gone, astray, todo, failed, hand, pc, plan, doc, gate, page>>
      /\ rpc[r] = "last" /\ page[r] = {} /\ rpc'[r] = "soak" /\ state'.model = mine[r] + 1
  BY Zenon DEF Flip, rowVars, sinkVars, consumerVars, Goto, TInv, TypeOK
<1>3. EventsKept' /\ GatesKept' /\ OrderKept'
  BY Zenon, <1>1, <1>2 DEF EventsKept, GatesKept, OrderKept
<1>4. LiveCovered'
  <2> SUFFICES ASSUME NEW m \in Models, m = state'.model, NEW a \in Aggs
               PROVE  Covered(m, a)' \/ Unknown(m, a)'
    BY Zenon DEF LiveCovered
  <2>1. Covered(m, a) \/ Unknown(m, a)
    BY Zenon, <1>1, <1>2 DEF BuildCovered, Filling, Building, InSnapshot
  <2>2. Covered(m, a) => Covered(m, a)'
    <3>1. \A c \in Consumers : Aims(c, m) => Aims(c, m)'
      BY Zenon, <1>2 DEF Aims
    <3> QED
      BY Zenon, <1>2, <3>1 DEF Covered, Coming
  <2> QED
    BY Zenon, <1>2, <2>1, <2>2 DEF Unknown
<1>5. BuildCovered'
  BY Zenon, <1>2 DEF BuildCovered, Filling, OneRebuilder
<1> QED
  BY Zenon, <1>3, <1>4, <1>5 DEF CInv

(* A forgotten deletion counts as astray, and changes no document.          *)
LEMMA ExpireCInv ==
    ASSUME TInv, CInv, NEW n \in Models, NEW b \in Aggs, Expire(n, b), UNCHANGED setup
    PROVE  CInv'
<1>1. EventsKept /\ GatesKept /\ OrderKept /\ LiveCovered /\ BuildCovered
  BY Zenon DEF CInv
<1>2. /\ UNCHANGED <<setup, ver, gone, todo, failed, doc, hand, pc, plan, state, rpc, mine, cursor, page>>
      /\ b \in gone /\ gate[<<n, b>>] = ver[b] /\ astray' = astray \cup {<<b, ver[b]>>}
      /\ \A m \in Models, a \in Aggs :
            gate'[<<m, a>>] = IF m = n /\ a = b THEN 0 ELSE gate[<<m, a>>]
  BY Zenon DEF Expire, rowVars, consumerVars, rebuildVars, TInv, TypeOK
<1>3. EventsKept' /\ OrderKept'
  BY Zenon, <1>1, <1>2 DEF EventsKept, OrderKept
<1>4. GatesKept'
  <2> SUFFICES ASSUME NEW m \in Models, NEW a \in Aggs
               PROVE  /\ gate'[<<m, a>>] <= ver[a]
                      /\ doc[<<m, a>>] = IF a \in gone /\ gate'[<<m, a>>] = ver[a] THEN 0 ELSE gate'[<<m, a>>]
    BY Zenon, <1>2 DEF GatesKept
  <2>1. CASE m = n /\ a = b
    <3>1. gate'[<<m, a>>] = 0 /\ doc[<<m, a>>] = 0
      BY Zenon, <1>1, <1>2, <2>1 DEF GatesKept
    <3>2. 0 <= ver[a]
      BY Zenon, GatesTyped
    <3> QED
      BY Zenon, <3>1, <3>2
  <2>2. CASE ~ (m = n /\ a = b)
    <3>1. gate'[<<m, a>>] = gate[<<m, a>>]
      BY Zenon, <1>2, <2>2
    <3> QED
      BY Zenon, <1>1, <3>1 DEF GatesKept
  <2> QED
    BY Zenon, <2>1, <2>2
<1>5. ASSUME NEW m \in Models, NEW a \in Aggs
      PROVE  (Covered(m, a) => Covered(m, a)') /\ (Unknown(m, a) => Covered(m, a)' \/ Unknown(m, a)')
  <2>1. CASE a = b
    BY Zenon, <1>2, <2>1 DEF Covered
  <2>2. CASE a # b
    BY Zenon, <1>2, <2>2 DEF Covered, Coming, Aims, Unknown
  <2> QED
    BY Zenon, <2>1, <2>2
<1>6. LiveCovered'
  BY Zenon, <1>1, <1>2, <1>5 DEF LiveCovered
<1>7. BuildCovered'
  <2> SUFFICES ASSUME NEW r \in Rebuilders, NEW m \in Models, Filling(r), m = mine[r] + 1, NEW a \in Aggs
               PROVE  Building(r, m, a)'
    BY Zenon, <1>2 DEF BuildCovered, Filling
  <2>1. Building(r, m, a)
    BY Zenon, <1>1 DEF BuildCovered
  <2>2. InSnapshot(r, a) => InSnapshot(r, a)'
    BY Zenon, <1>2 DEF InSnapshot
  <2> QED
    BY Zenon, <1>2, <1>5, <2>1, <2>2 DEF Building
<1> QED
  BY Zenon, <1>3, <1>4, <1>6, <1>7 DEF CInv

LEMMA StutterCInv ==
    ASSUME CInv, UNCHANGED vars
    PROVE  CInv'
<1>1. UNCHANGED <<setup, ver, gone, astray, todo, failed, state, doc, gate, hand, pc, plan, rpc, mine, cursor, page>>
  BY DEF vars, rowVars, sinkVars, consumerVars, rebuildVars
<1>2. EventsKept' /\ GatesKept' /\ OrderKept'
  BY Zenon, <1>1 DEF CInv, EventsKept, GatesKept, OrderKept
<1>3. \A m, a : (Covered(m, a) => Covered(m, a)') /\ (Unknown(m, a) => Unknown(m, a)')
  BY Zenon, <1>1 DEF Covered, Coming, Aims, Unknown
<1>4. LiveCovered'
  BY Zenon, <1>1, <1>3 DEF CInv, LiveCovered
<1>5. \A r, m, a : Building(r, m, a) => Building(r, m, a)'
  BY Zenon, <1>1, <1>3 DEF Building, InSnapshot
<1>6. BuildCovered'
  BY Zenon, <1>1, <1>5 DEF CInv, BuildCovered, Filling
<1> QED
  BY Zenon, <1>2, <1>4, <1>6 DEF CInv

LEMMA NextCInv ==
    ASSUME TInv, CInv, OneRebuilder, Converges(setup), [Next]_vars
    PROVE  CInv'
<1>1. CASE UNCHANGED vars
  BY Zenon, <1>1, StutterCInv
<1>2. ASSUME NEW a \in Aggs, Write(a), UNCHANGED setup PROVE CInv'
  BY Zenon, <1>2, WriteCInv
<1>3. ASSUME NEW c \in Consumers, Engine(c), UNCHANGED setup PROVE CInv'
  BY <1>3, TakeCInv, ApplyLiveCInv, ApplyBuildingCInv, ReleaseCInv, Zenon DEF Engine
<1>4. ASSUME NEW r \in Rebuilders, Build(r) \/ Revert(r) \/ Crash(r), UNCHANGED setup PROVE CInv'
  BY <1>4, PointerStepsCInv, DropNewCInv, SnapshotCInv, ReplayCInv, FlipCInv, FinalizeDropCInv, Zenon DEF Build
<1>5. ASSUME NEW m \in Models, NEW a \in Aggs, Expire(m, a), UNCHANGED setup PROVE CInv'
  BY Zenon, <1>5, ExpireCInv
<1> QED
  BY <1>1, <1>2, <1>3, <1>4, <1>5, Zenon DEF Next

(* "The new target is never stale on flip" (rebuild-and-reconcile.mdx:29),  *)
(* with the caches of open.go: with one rebuilder, and no deletions or an   *)
(* index whose one consumer applies in order, an aggregate whose events are *)
(* all acknowledged is in the live target as its row is, through failed     *)
(* applies, crashes and rebuilds abandoned half way, unless its last event  *)
(* was handled by a lookup out of date or its deletion was forgotten.       *)
THEOREM LiveAlwaysConverged ==
    ASSUME OneRebuilder, \A s \in Setups : Converges(s)
    PROVE  Spec => []ConvergedUnlessStale
<1>1. Init => TInv /\ CInv
  BY Zenon, InitTInv, InitCInv
<1>2. TInv /\ CInv /\ [Next]_vars => TInv' /\ CInv'
  <2> SUFFICES ASSUME TInv, CInv, [Next]_vars PROVE TInv' /\ CInv'
    BY Zenon
  <2>1. Converges(setup)
    BY Zenon DEF TInv, TypeOK
  <2> QED
    BY Zenon, <2>1, NextTInv, NextCInv
<1>3. TInv /\ CInv => ConvergedUnlessStale
  BY Zenon, CoveredConverges
<1> QED
  BY <1>1, <1>2, <1>3, PTL DEF Spec
=============================================================================
