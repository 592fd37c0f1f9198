--------------------------- MODULE ReconcileProofs --------------------------
(* The reconciler for any number of aggregates, versions and lost events.    *)
(* A repair is made from two scans and a row read at three times, so what    *)
(* keeps it right is how old each of them may be: a scanned version is never *)
(* ahead of the row, every version of a row is in the outbox, and so the     *)
(* version past it is free for a deletion and taken for the next command.    *)
EXTENDS Reconcile, TLAPS

(* No event tells of a version or of a payload the row has not had.          *)
EventsInv ==
    \A e \in outbox \cup flight :
        e.payload <= ver[e.agg] /\ (e.type = "updated" => e.version <= ver[e.agg])

(* Every version of a row has its outbox row.                                *)
KeysInv ==
    \A a \in RecAggs, v \in Versions : v <= ver[a] => \E e \in outbox : Key(e) = <<a, v>>

(* A deletion is of a row that is gone, or lies past one that came late.     *)
DeletedInv ==
    \A e \in outbox : e.type = "deleted" => e.agg \in gone \/ (e.agg \in caught /\ e.version > ver[e.agg])

DocInv == \A a \in RecAggs : doc[a] <= ver[a]

(* Between the scans: what the first one did not see is gone or came late.   *)
TruthInv ==
    rpc = "projected" =>
        \A a \in RecAggs : truth[a] <= ver[a] /\ (truth[a] = 0 /\ ver[a] > 0 => a \in gone \cup caught)

(* The drifts, one for an aggregate, and the row read for the next one.      *)
DriftInv ==
    /\ \A d \in drifts : /\ d.tv <= ver[d.agg] /\ d.pv <= ver[d.agg]
                         /\ d.tv = 0 => d.pv > 0 /\ d.agg \in gone \cup caught
    /\ \A d, x \in drifts : d.agg = x.agg => d = x
    /\ rpc = "upsert" => \A d \in drifts : IsNextDrift(d) => row <= ver[d.agg]

RecInv == RecTypeOK /\ EventsInv /\ KeysInv /\ DeletedInv /\ DocInv /\ TruthInv /\ DriftInv

-----------------------------------------------------------------------------
(* What a repair writes: a row of a version and a payload the aggregate has  *)
(* had, or a deletion of one that is gone or came late, past its version.    *)
LEMMA RepairRowFits ==
    ASSUME RecInv, NEW d \in drifts, IsNextDrift(d), d.tv > 0 => rpc = "upsert"
    PROVE  /\ RepairRow(d) \in Envelope /\ RepairRow(d).agg = d.agg
           /\ RepairRow(d).payload <= ver[d.agg]
           /\ RepairRow(d).type = "updated" => RepairRow(d).version <= ver[d.agg]
           /\ RepairRow(d).type = "deleted" =>
                  d.agg \in gone \/ (d.agg \in caught /\ RepairRow(d).version > ver[d.agg])
<1> DEFINE e == IF d.tv > 0 THEN Updated(d.agg, d.tv, row) ELSE Deleted(d.agg, d.pv + 1)
           old == {f \in outbox : Key(f) = Key(e)}
           g == CHOOSE f \in old : TRUE
<1>a. /\ MaxRecVersion \in Nat /\ d \in Drift /\ row \in 0..MaxRecVersion
      /\ ver \in [RecAggs -> 0..MaxRecVersion] /\ outbox \subseteq Envelope
  BY ReconcileAssumption DEF RecInv, RecTypeOK
<1>b. /\ d.agg \in RecAggs /\ d.tv \in 0..MaxRecVersion /\ d.pv \in Nat
      /\ ver[d.agg] \in 0..MaxRecVersion /\ d.tv <= ver[d.agg] /\ d.pv <= ver[d.agg]
      /\ d.tv = 0 => d.pv > 0 /\ d.agg \in gone \cup caught
      /\ d.tv > 0 => row <= ver[d.agg]
  BY <1>a DEF Drift, RecInv, DriftInv
<1>1. CASE d.tv > 0
  <2>1. e = [agg |-> d.agg, version |-> d.tv, type |-> "updated", payload |-> row]
    BY <1>1 DEF Updated
  <2>2. e \in Envelope /\ e.agg = d.agg /\ e.version = d.tv /\ e.type = "updated" /\ e.payload = row
    BY <1>1, <1>a, <1>b, <2>1 DEF Envelope, Versions, Types
  <2>3. CASE old = {}
    <3>1. RepairRow(d) = e
      BY <2>3 DEF RepairRow
    <3> QED
      BY <3>1, <2>2, <1>1, <1>b
  <2>4. CASE old # {}
    <3>1. g \in outbox /\ Key(g) = Key(e)
      BY <2>4
    <3>2. RepairRow(d) = [g EXCEPT !.payload = e.payload]
      BY <2>4 DEF RepairRow
    <3> HIDE DEF g, e, old
    <3>3. g \in Envelope /\ g.agg = d.agg
      BY <3>1, <2>2, <1>a DEF Key
    <3>4. /\ RepairRow(d) \in Envelope /\ RepairRow(d).agg = g.agg /\ RepairRow(d).type = g.type
          /\ RepairRow(d).version = g.version /\ RepairRow(d).payload = row
      BY <3>2, <3>3, <2>2, <1>a DEF Envelope
    <3>5. /\ g.type = "updated" => g.version <= ver[g.agg]
          /\ g.type = "deleted" => g.agg \in gone \/ (g.agg \in caught /\ g.version > ver[g.agg])
      BY <3>1 DEF RecInv, EventsInv, DeletedInv
    <3> QED
      BY <3>3, <3>4, <3>5, <1>1, <1>b
  <2> QED
    BY <2>3, <2>4
<1>2. CASE d.tv = 0
  <2>1. e = [agg |-> d.agg, version |-> d.pv + 1, type |-> "deleted", payload |-> 0]
    BY <1>2 DEF Deleted
  <2>2. /\ e \in Envelope /\ e.agg = d.agg /\ e.version = d.pv + 1 /\ e.type = "deleted" /\ e.payload = 0
    BY <1>2, <1>a, <1>b, <2>1 DEF Envelope, Versions, Types
  <2>3. CASE old = {}
    <3>1. RepairRow(d) = e
      BY <2>3 DEF RepairRow
    <3>2. d.pv + 1 > ver[d.agg]
      <4>1. SUFFICES ASSUME d.pv + 1 <= ver[d.agg] PROVE FALSE
        BY <1>b
      <4>2. d.pv + 1 \in Versions
        BY <4>1, <1>a, <1>b DEF Versions
      <4>3. PICK f \in outbox : Key(f) = <<d.agg, d.pv + 1>>
        BY <4>1, <4>2, <1>b DEF RecInv, KeysInv
      <4>4. Key(e) = <<d.agg, d.pv + 1>>
        BY <2>2 DEF Key
      <4> QED
        BY <4>3, <4>4, <2>3
    <3> QED
      BY <3>1, <3>2, <2>2, <1>2, <1>b
  <2>4. CASE old # {}
    <3>1. g \in outbox /\ Key(g) = Key(e)
      BY <2>4
    <3>2. RepairRow(d) = [g EXCEPT !.payload = e.payload]
      BY <2>4 DEF RepairRow
    <3> HIDE DEF g, e, old
    <3>3. g \in Envelope /\ g.agg = d.agg
      BY <3>1, <2>2, <1>a DEF Key
    <3>4. /\ RepairRow(d) \in Envelope /\ RepairRow(d).agg = g.agg /\ RepairRow(d).type = g.type
          /\ RepairRow(d).version = g.version /\ RepairRow(d).payload = 0
      BY <3>2, <3>3, <2>2, <1>a DEF Envelope
    <3>5. /\ g.type = "updated" => g.version <= ver[g.agg]
          /\ g.type = "deleted" => g.agg \in gone \/ (g.agg \in caught /\ g.version > ver[g.agg])
      BY <3>1 DEF RecInv, EventsInv, DeletedInv
    <3> QED
      BY <3>3, <3>4, <3>5, <1>2, <1>b
  <2> QED
    BY <2>3, <2>4
<1> QED
  BY <1>1, <1>2, <1>b

-----------------------------------------------------------------------------
(* A command: the row moves to a version no outbox row has.                  *)
LEMMA ExecKeeps ==
    ASSUME RecInv, NEW a \in RecAggs, Exec(a), UNCHANGED recSetup
    PROVE  RecInv'
<1> DEFINE n == ver[a] + 1
<1>a. /\ MaxRecVersion \in Nat /\ recSetup \in Setup
      /\ ver \in [RecAggs -> 0..MaxRecVersion] /\ outbox \subseteq Envelope /\ flight \subseteq Envelope
  BY ReconcileAssumption DEF RecInv, RecTypeOK
<1>b. n \in 1..MaxRecVersion /\ a \notin gone
  BY <1>a DEF Exec, Setup
<1>c. /\ ver' = [ver EXCEPT ![a] = n]
      /\ UNCHANGED <<flight, doc, gate, rpc, truth, drifts, row, lost>>
      /\ caught' = IF ver[a] = 0 /\ rpc = "projected" THEN caught \cup {a} ELSE caught
  BY DEF Exec, sinkVars, reconcileVars
<1>d. PICK e \in {Updated(a, n, n), Deleted(a, n)} :
         /\ \A f \in outbox : Key(f) # Key(e)
         /\ outbox' = outbox \cup {e} /\ unpub' = unpub \cup {Key(e)}
         /\ gone' = IF e.type = "deleted" THEN gone \cup {a} ELSE gone
  BY DEF Exec, AppendOutbox, Updated, Deleted
<1>e. /\ e \in Envelope /\ e.agg = a /\ e.version = n /\ e.payload <= n /\ e.payload \in Nat
      /\ Key(e) = <<a, n>>
  BY <1>a, <1>b DEF Updated, Deleted, Envelope, Versions, Types, Key
<1>f. /\ ver' \in [RecAggs -> 0..MaxRecVersion] /\ ver'[a] = n
      /\ \A b \in RecAggs : ver'[b] >= ver[b] /\ (b # a => ver'[b] = ver[b])
  BY <1>a, <1>b, <1>c
<1>g. gone \subseteq gone' /\ caught \subseteq caught'
  BY <1>c, <1>d
<1> HIDE DEF n
<1>1. RecTypeOK'
  <2>1. gone' \subseteq RecAggs /\ caught' \subseteq RecAggs
    BY <1>c, <1>d DEF RecInv, RecTypeOK
  <2>2. outbox' \subseteq Envelope
    BY <1>a, <1>d, <1>e
  <2>3. \A f, h \in outbox' : Key(f) = Key(h) => f = h
    BY <1>d DEF RecInv, RecTypeOK
  <2>4. unpub' \subseteq {Key(f) : f \in outbox'}
    BY <1>d DEF RecInv, RecTypeOK
  <2> QED
    BY <2>1, <2>2, <2>3, <2>4, <1>c, <1>f DEF RecInv, RecTypeOK
<1>2. EventsInv'
  <2>1. \A f \in outbox \cup flight : f \in Envelope /\ f.agg \in RecAggs /\ f.payload \in Nat /\ f.version \in Nat
    BY <1>a DEF Envelope, Versions
  <2>2. \A f \in outbox \cup flight : f.payload <= ver'[f.agg] /\ (f.type = "updated" => f.version <= ver'[f.agg])
    BY <2>1, <1>a, <1>f DEF RecInv, EventsInv
  <2>3. e.payload <= ver'[e.agg] /\ e.version <= ver'[e.agg]
    BY <1>b, <1>e, <1>f
  <2> QED
    BY <2>2, <2>3, <1>c, <1>d DEF EventsInv
<1>3. KeysInv'
  <2> SUFFICES ASSUME NEW b \in RecAggs, NEW v \in Versions, v <= ver'[b]
               PROVE  \E f \in outbox' : Key(f) = <<b, v>>
    BY DEF KeysInv
  <2>1. CASE b = a /\ v = n
    BY <2>1, <1>d, <1>e
  <2>2. CASE ~(b = a /\ v = n)
    <3>1. v <= ver[b]
      BY <2>2, <1>a, <1>b, <1>f DEF Versions, n
    <3> QED
      BY <3>1, <1>d DEF RecInv, KeysInv
  <2> QED
    BY <2>1, <2>2
<1>4. DeletedInv'
  <2> SUFFICES ASSUME NEW f \in outbox', f.type = "deleted"
               PROVE  f.agg \in gone' \/ (f.agg \in caught' /\ f.version > ver'[f.agg])
    BY DEF DeletedInv
  <2>1. CASE f = e
    BY <2>1, <1>d, <1>e
  <2>2. CASE f \in outbox
    <3>1. f.agg \in RecAggs /\ f.version \in Nat
      BY <2>2, <1>a DEF Envelope, Versions
    <3>2. CASE f.agg \in gone
      BY <3>2, <1>g
    <3>3. CASE f.agg \in caught /\ f.version > ver[f.agg]
      <4>1. f.agg = a => f.version # n
        BY <2>2, <1>d, <1>e DEF Key
      <4>2. f.version > ver'[f.agg]
        BY <4>1, <3>1, <3>3, <1>a, <1>f DEF n
      <4> QED
        BY <4>2, <3>3, <1>g
    <3> QED
      BY <2>2, <3>2, <3>3 DEF RecInv, DeletedInv
  <2> QED
    BY <2>1, <2>2, <1>d
<1>5. DocInv'
  <2>1. \A b \in RecAggs : doc[b] \in Int
    BY <1>a DEF RecInv, RecTypeOK, Versions, Bare
  <2> QED
    BY <2>1, <1>a, <1>c, <1>f DEF RecInv, DocInv
<1>6. TruthInv'
  <2>1. \A b \in RecAggs : truth[b] \in Nat
    BY <1>a DEF RecInv, RecTypeOK
  <2> QED
    BY <2>1, <1>a, <1>c, <1>d, <1>f, <1>g DEF RecInv, TruthInv
<1>7. DriftInv'
  <2>1. \A d \in drifts : d.agg \in RecAggs /\ d.tv \in Nat /\ d.pv \in Nat
    BY <1>a DEF RecInv, RecTypeOK, Drift
  <2>2. row \in Nat
    BY <1>a DEF RecInv, RecTypeOK
  <2> QED
    BY <2>1, <2>2, <1>a, <1>c, <1>f, <1>g DEF RecInv, DriftInv, IsNextDrift
<1> QED
  BY <1>1, <1>2, <1>3, <1>4, <1>5, <1>6, <1>7 DEF RecInv

(* The projection takes an event, or leaves it.                              *)
LEMMA ApplyKeeps ==
    ASSUME RecInv, NEW e \in flight, Apply(e), UNCHANGED recSetup
    PROVE  RecInv'
<1>a. /\ MaxRecVersion \in Nat /\ ver \in [RecAggs -> 0..MaxRecVersion] /\ flight \subseteq Envelope
      /\ doc \in [RecAggs -> Versions \cup {0, Bare}] /\ gate \in [RecAggs -> Versions \cup {0}]
      /\ Versions \subseteq Nat /\ Bare = -1
  BY ReconcileAssumption DEF RecInv, RecTypeOK, Versions, Bare
<1>b. /\ e.agg \in RecAggs /\ e.version \in Versions /\ e.type \in Types /\ e.payload \in 0..MaxRecVersion
      /\ e.payload <= ver[e.agg] /\ (e.type = "updated" => e.version <= ver[e.agg])
  BY <1>a DEF Envelope, RecInv, EventsInv
<1>c. /\ flight' = flight \ {e}
      /\ UNCHANGED <<ver, gone, outbox, unpub, rpc, truth, drifts, row, lost, caught>>
  BY DEF Apply, reconcileVars
<1>d. doc[e.agg] <= ver[e.agg] /\ ver[e.agg] \in Nat
  BY <1>a, <1>b DEF RecInv, DocInv
<1>1. /\ doc' \in [RecAggs -> Versions \cup {0, Bare}] /\ gate' \in [RecAggs -> Versions \cup {0}]
      /\ DocInv'
  <2>1. CASE DocWrite(e)
    <3>1. doc' = [doc EXCEPT ![e.agg] = doc'[e.agg]] /\ gate' = [gate EXCEPT ![e.agg] = gate'[e.agg]]
      BY Zenon, <2>1, <1>a, <1>b DEF DocWrite
    <3>2. doc'[e.agg] \in {doc[e.agg], 0} \/ (e.type # "deleted" /\ doc'[e.agg] = e.version)
      BY <2>1, <1>a, <1>b DEF DocWrite
    <3>3. gate'[e.agg] \in {gate[e.agg], e.version}
      BY <2>1, <1>a, <1>b DEF DocWrite
    <3>4. doc'[e.agg] \in Versions \cup {0, Bare} /\ doc'[e.agg] <= ver[e.agg]
      BY <3>2, <1>a, <1>b, <1>d DEF Types
    <3> QED
      BY <3>1, <3>3, <3>4, <1>a, <1>b, <1>c DEF RecInv, DocInv
  <2>2. CASE NodeDelete(e)
    BY <2>2, <1>a, <1>b, <1>c, <1>d DEF NodeDelete, RecInv, DocInv
  <2>3. CASE NodeUpsert(e)
    <3> DEFINE v == IF e.payload > 0 THEN e.payload ELSE IF doc[e.agg] = 0 THEN Bare ELSE doc[e.agg]
    <3>1. /\ doc' = [doc EXCEPT ![e.agg] = IF gate[e.agg] <= e.version THEN v ELSE @]
          /\ gate' = [gate EXCEPT ![e.agg] = IF @ <= e.version /\ v # Bare THEN v ELSE @]
      BY <2>3 DEF NodeUpsert
    <3>2. v \in Versions \cup {Bare} /\ v <= ver[e.agg]
      <4>1. CASE e.payload > 0
        BY <4>1, <1>a, <1>b DEF Versions
      <4>2. CASE ~(e.payload > 0) /\ doc[e.agg] = 0
        BY <4>2, <1>a, <1>b, <1>d
      <4>3. CASE ~(e.payload > 0) /\ doc[e.agg] # 0
        BY <4>3, <1>a, <1>b, <1>d
      <4> QED
        BY <4>1, <4>2, <4>3
    <3> HIDE DEF v
    <3> QED
      BY <3>1, <3>2, <1>a, <1>b, <1>c DEF RecInv, DocInv
  <2> QED
    BY <2>1, <2>2, <2>3 DEF Apply
<1>2. RecTypeOK'
  BY <1>1, <1>c DEF RecInv, RecTypeOK
<1>3. EventsInv' /\ KeysInv' /\ DeletedInv' /\ TruthInv' /\ DriftInv'
  BY <1>c DEF RecInv, EventsInv, KeysInv, DeletedInv, TruthInv, DriftInv, IsNextDrift
<1> QED
  BY <1>1, <1>2, <1>3 DEF RecInv

(* A repair replaces an outbox row, or adds one.                             *)
LEMMA RepairKeeps ==
    ASSUME RecInv, Repair, UNCHANGED recSetup
    PROVE  RecInv'
<1>1. PICK d \in drifts :
         /\ IsNextDrift(d) /\ rpc = (IF d.tv > 0 THEN "upsert" ELSE "repair")
         /\ Upsert(RepairRow(d)) /\ drifts' = drifts \ {d}
  BY DEF Repair
<1> DEFINE r == RepairRow(d)
<1>a. /\ rpc' = "repair" /\ row' = 0
      /\ UNCHANGED <<ver, gone, flight, doc, gate, truth, lost, caught>>
  BY DEF Repair, sinkVars
<1>b. /\ outbox' = {f \in outbox : Key(f) # Key(r)} \cup {r}
      /\ unpub' = unpub \cup {Key(r)}
  BY <1>1 DEF Upsert
<1>c. /\ r \in Envelope /\ r.agg = d.agg /\ r.payload <= ver[d.agg]
      /\ r.type = "updated" => r.version <= ver[d.agg]
      /\ r.type = "deleted" => d.agg \in gone \/ (d.agg \in caught /\ r.version > ver[d.agg])
  BY <1>1, RepairRowFits
<1> HIDE DEF r
<1>d. 0 \in 0..MaxRecVersion
  BY ReconcileAssumption
<1>2. RecTypeOK'
  <2>1. outbox' \subseteq Envelope
    BY <1>b, <1>c DEF RecInv, RecTypeOK
  <2>2. \A f, h \in outbox' : Key(f) = Key(h) => f = h
    BY <1>b DEF RecInv, RecTypeOK
  <2>3. unpub' \subseteq {Key(f) : f \in outbox'}
    <3>1. \A f \in outbox : \E h \in outbox' : Key(h) = Key(f)
      BY <1>b
    <3> QED
      BY <3>1, <1>b DEF RecInv, RecTypeOK
  <2> QED
    BY <2>1, <2>2, <2>3, <1>1, <1>a, <1>d DEF RecInv, RecTypeOK
<1>3. EventsInv'
  BY <1>a, <1>b, <1>c DEF RecInv, EventsInv
<1>4. KeysInv'
  BY <1>a, <1>b DEF RecInv, KeysInv
<1>5. DeletedInv'
  BY <1>a, <1>b, <1>c DEF RecInv, DeletedInv
<1>6. DocInv' /\ TruthInv'
  BY <1>a DEF RecInv, DocInv, TruthInv
<1>7. DriftInv'
  BY <1>1, <1>a DEF RecInv, DriftInv
<1> QED
  BY <1>2, <1>3, <1>4, <1>5, <1>6, <1>7 DEF RecInv

(* The second scan: where the first one saw no row and the projection has    *)
(* one, the row is gone or came late.                                        *)
LEMMA ProjectedKeeps ==
    ASSUME RecInv, Projected, UNCHANGED recSetup
    PROVE  RecInv'
<1> DEFINE drifted == {b \in RecAggs : IsDrift(truth[b], ProjectedVersion(b))}
           D(a) == [agg |-> a, tv |-> truth[a], pv |-> ProjectedVersion(a)]
<1>a. /\ MaxRecVersion \in Nat /\ ver \in [RecAggs -> 0..MaxRecVersion]
      /\ truth \in [RecAggs -> 0..MaxRecVersion] /\ doc \in [RecAggs -> Versions \cup {0, Bare}]
      /\ Versions = 1..(MaxRecVersion + 1) /\ Bare = -1
  BY ReconcileAssumption DEF RecInv, RecTypeOK, Versions, Bare
<1>b. /\ rpc = "projected" /\ rpc' = "repair" /\ drifts' = {D(a) : a \in drifted}
      /\ truth' = [a \in RecAggs |-> 0]
      /\ UNCHANGED <<ver, gone, outbox, unpub, flight, doc, gate, row, lost, caught>>
  BY DEF Projected, sinkVars
<1>1. ASSUME NEW a \in drifted
      PROVE  /\ D(a) \in Drift /\ D(a).agg = a
             /\ D(a).tv <= ver[a] /\ D(a).pv <= ver[a]
             /\ D(a).tv = 0 => D(a).pv > 0 /\ a \in gone \cup caught
  <2>1. a \in RecAggs /\ IsDrift(truth[a], ProjectedVersion(a))
    OBVIOUS
  <2>2. ProjectedVersion(a) \in 0..(MaxRecVersion + 1) /\ ProjectedVersion(a) <= ver[a]
    BY <2>1, <1>a DEF ProjectedVersion, RecInv, DocInv
  <2>3. truth[a] <= ver[a] /\ (truth[a] = 0 /\ ver[a] > 0 => a \in gone \cup caught)
    BY <2>1, <1>b DEF RecInv, TruthInv
  <2>4. truth[a] = 0 => ProjectedVersion(a) > 0
    BY <2>1, <2>2, <1>a DEF IsDrift
  <2> QED
    BY <2>1, <2>2, <2>3, <2>4, <1>a DEF Drift
<1> HIDE DEF D, drifted
<1>2. RecTypeOK'
  BY <1>1, <1>a, <1>b DEF RecInv, RecTypeOK
<1>3. EventsInv' /\ KeysInv' /\ DeletedInv' /\ DocInv'
  BY <1>b DEF RecInv, EventsInv, KeysInv, DeletedInv, DocInv
<1>4. TruthInv'
  BY <1>b DEF TruthInv
<1>5. DriftInv'
  BY <1>1, <1>b DEF DriftInv
<1> QED
  BY <1>2, <1>3, <1>4, <1>5 DEF RecInv

(* The other steps of the reconciler, the relay and the stream.              *)
LEMMA OthersKeep ==
    ASSUME RecInv, UNCHANGED recSetup,
           \/ \E e \in outbox : PublishRow(e)
           \/ \E e \in flight : Lose(e)
           \/ \E a \in RecAggs : Expire(a)
           \/ Truth \/ RowValues \/ EndRepairs
    PROVE  RecInv'
<1>a. MaxRecVersion \in Nat /\ ver \in [RecAggs -> 0..MaxRecVersion]
  BY ReconcileAssumption DEF RecInv, RecTypeOK
<1>1. ASSUME NEW e \in outbox, PublishRow(e) PROVE RecInv'
  <2>1. /\ unpub' = unpub \ {Key(e)} /\ flight' = flight \cup {e}
        /\ UNCHANGED <<ver, gone, outbox, doc, gate, rpc, truth, drifts, row, lost, caught>>
    BY <1>1 DEF PublishRow, sinkVars, reconcileVars
  <2>2. RecTypeOK'
    BY <2>1 DEF RecInv, RecTypeOK
  <2>3. EventsInv' /\ KeysInv' /\ DeletedInv' /\ DocInv' /\ TruthInv' /\ DriftInv'
    BY <2>1 DEF RecInv, EventsInv, KeysInv, DeletedInv, DocInv, TruthInv, DriftInv, IsNextDrift
  <2> QED
    BY <2>2, <2>3 DEF RecInv
<1>2. ASSUME NEW e \in flight, Lose(e) PROVE RecInv'
  <2>1. /\ flight' = flight \ {e} /\ lost < recSetup.lost /\ lost' = lost + 1
        /\ UNCHANGED <<ver, gone, outbox, unpub, doc, gate, rpc, truth, drifts, row, caught>>
    BY <1>2 DEF Lose, sinkVars, reconcileVars
  <2>2. recSetup.lost \in Nat
    BY ReconcileAssumption DEF RecInv, RecTypeOK, Setup
  <2>3. lost' \in 0..recSetup.lost
    BY <2>1, <2>2 DEF RecInv, RecTypeOK
  <2>4. RecTypeOK'
    BY <2>1, <2>3 DEF RecInv, RecTypeOK
  <2>5. EventsInv' /\ KeysInv' /\ DeletedInv' /\ DocInv' /\ TruthInv' /\ DriftInv'
    BY <2>1 DEF RecInv, EventsInv, KeysInv, DeletedInv, DocInv, TruthInv, DriftInv, IsNextDrift
  <2> QED
    BY <2>4, <2>5 DEF RecInv
<1>3. CASE Truth
  <2>1. /\ rpc' = "projected" /\ truth' = [a \in RecAggs |-> TruthVersion(a)]
        /\ UNCHANGED <<ver, gone, outbox, unpub, flight, doc, gate, drifts, row, lost, caught>>
    BY <1>3 DEF Truth, sinkVars
  <2>2. \A a \in RecAggs : /\ TruthVersion(a) \in 0..MaxRecVersion /\ TruthVersion(a) <= ver[a]
                           /\ TruthVersion(a) = 0 /\ ver[a] > 0 => a \in gone
    BY <1>a DEF TruthVersion, HasRow
  <2>3. RecTypeOK'
    BY <2>1, <2>2 DEF RecInv, RecTypeOK
  <2>4. TruthInv'
    BY <2>1, <2>2 DEF TruthInv
  <2>5. EventsInv' /\ KeysInv' /\ DeletedInv' /\ DocInv' /\ DriftInv'
    BY <2>1 DEF RecInv, EventsInv, KeysInv, DeletedInv, DocInv, DriftInv
  <2> QED
    BY <2>3, <2>4, <2>5 DEF RecInv
<1>4. CASE RowValues
  <2>1. UNCHANGED <<ver, gone, outbox, unpub, flight, doc, gate, truth, lost, caught>>
    BY <1>4 DEF RowValues, sinkVars
  <2>2. PICK d \in drifts :
           /\ IsNextDrift(d) /\ d.tv > 0
           /\ \/ rpc' = "upsert" /\ row' = ver[d.agg] /\ drifts' = drifts
              \/ rpc' = "idle" /\ drifts' = {} /\ row' = row
    BY <1>4 DEF RowValues
  <2>3. d.agg \in RecAggs /\ \A x \in drifts : x.agg \in RecAggs
    BY DEF RecInv, RecTypeOK, Drift
  <2>4. RecTypeOK'
    BY <2>1, <2>2, <2>3, <1>a DEF RecInv, RecTypeOK
  <2>5. TruthInv'
    BY <2>2 DEF TruthInv
  <2>6. EventsInv' /\ KeysInv' /\ DeletedInv' /\ DocInv'
    BY <2>1 DEF RecInv, EventsInv, KeysInv, DeletedInv, DocInv
  <2>7. DriftInv'
    <3>1. CASE rpc' = "upsert" /\ row' = ver[d.agg] /\ drifts' = drifts
      <4>1. \A x \in drifts : IsNextDrift(x) => x.agg <= d.agg /\ d.agg <= x.agg
        BY <2>2 DEF IsNextDrift
      <4>2. d.agg \in Nat /\ \A x \in drifts : x.agg \in Nat
        BY Zenon, <2>3, ReconcileAssumption
      <4>3. \A x \in drifts : IsNextDrift(x) => x.agg = d.agg
        BY <4>1, <4>2
      <4> QED
        BY <4>3, <3>1, <2>1, <2>3, <1>a DEF RecInv, DriftInv, IsNextDrift
    <3>2. CASE rpc' = "idle" /\ drifts' = {}
      BY <3>2 DEF DriftInv
    <3> QED
      BY <2>2, <3>1, <3>2
  <2> QED
    BY <2>4, <2>5, <2>6, <2>7 DEF RecInv
<1>5. CASE EndRepairs
  <2>1. /\ rpc' = "idle"
        /\ UNCHANGED <<ver, gone, outbox, unpub, flight, doc, gate, truth, drifts, row, lost, caught>>
    BY <1>5 DEF EndRepairs, sinkVars
  <2>2. RecTypeOK'
    BY <2>1 DEF RecInv, RecTypeOK
  <2>3. EventsInv' /\ KeysInv' /\ DeletedInv' /\ DocInv' /\ TruthInv' /\ DriftInv'
    BY <2>1 DEF RecInv, EventsInv, KeysInv, DeletedInv, DocInv, TruthInv, DriftInv
  <2> QED
    BY <2>2, <2>3 DEF RecInv
<1>6. ASSUME NEW a \in RecAggs, Expire(a) PROVE RecInv'
  <2>1. /\ gate' = [gate EXCEPT ![a] = 0]
        /\ UNCHANGED <<ver, gone, outbox, unpub, flight, doc, rpc, truth, drifts, row, lost, caught>>
    BY <1>6 DEF Expire, reconcileVars
  <2>2. RecTypeOK'
    BY <2>1 DEF RecInv, RecTypeOK
  <2>3. EventsInv' /\ KeysInv' /\ DeletedInv' /\ DocInv' /\ TruthInv' /\ DriftInv'
    BY <2>1 DEF RecInv, EventsInv, KeysInv, DeletedInv, DocInv, TruthInv, DriftInv, IsNextDrift
  <2> QED
    BY <2>2, <2>3 DEF RecInv
<1> QED
  BY <1>1, <1>2, <1>3, <1>4, <1>5, <1>6

-----------------------------------------------------------------------------
(* Whatever is written, lost, scanned, repaired and applied meanwhile, the   *)
(* projection holds no version the row has not had, and no deletion goes out *)
(* for a row that is there, unless it came between the two scans of a pass   *)
(* (Reconcile, Adapter.Repair).                                              *)
THEOREM RepairsAlwaysKept == RecSpec => []RepairsKept
<1>1. RecInit => RecInv
  <2> SUFFICES ASSUME RecInit PROVE RecInv
    OBVIOUS
  <2>a. MaxRecVersion \in Nat \ {0} /\ recSetup \in RecSetups /\ recSetup \in Setup
    BY ReconcileAssumption DEF RecInit
  <2>b. recSetup.existing \subseteq RecAggs /\ recSetup.lost \in Nat
    BY <2>a DEF Setup
  <2>c. \A a \in recSetup.existing :
           /\ Updated(a, 1, 1) \in Envelope /\ Updated(a, 1, 1).agg = a /\ Updated(a, 1, 1).version = 1
           /\ Updated(a, 1, 1).type = "updated" /\ Updated(a, 1, 1).payload = 1
           /\ Key(Updated(a, 1, 1)) = <<a, 1>>
    BY <2>a, <2>b DEF Updated, Envelope, Versions, Types, Key
  <2>d. /\ outbox = {Updated(a, 1, 1) : a \in recSetup.existing} /\ flight = {}
        /\ \A a \in RecAggs : ver[a] = IF a \in recSetup.existing THEN 1 ELSE 0
    BY DEF RecInit
  <2>1. RecTypeOK
    <3>1. \A e, f \in outbox : Key(e) = Key(f) => e = f
      BY <2>c, <2>d
    <3>2. outbox \subseteq Envelope
      BY <2>c, <2>d
    <3> QED
      BY <3>1, <3>2, <2>a, <2>b DEF RecInit, RecTypeOK
  <2>2. EventsInv
    BY <2>b, <2>c, <2>d DEF EventsInv
  <2>3. KeysInv
    <3> SUFFICES ASSUME NEW a \in RecAggs, NEW v \in Versions, v <= ver[a]
                 PROVE  \E e \in outbox : Key(e) = <<a, v>>
      BY DEF KeysInv
    <3>1. a \in recSetup.existing /\ v = 1
      BY <2>a, <2>d DEF Versions
    <3> QED
      BY <3>1, <2>c, <2>d
  <2>4. DeletedInv
    BY <2>c, <2>d DEF DeletedInv
  <2>5. DocInv /\ TruthInv /\ DriftInv
    BY <2>d DEF RecInit, DocInv, TruthInv, DriftInv
  <2> QED
    BY <2>1, <2>2, <2>3, <2>4, <2>5 DEF RecInv
<1>2. RecInv /\ [RecNext]_recVars => RecInv'
  <2> SUFFICES ASSUME RecInv, [RecNext]_recVars PROVE RecInv'
    OBVIOUS
  <2>1. CASE RecNext
    BY <2>1, ExecKeeps, ApplyKeeps, RepairKeeps, ProjectedKeeps, OthersKeep DEF RecNext, Reconciler
  <2>2. CASE UNCHANGED recVars
    BY <2>2 DEF recVars, sinkVars, reconcileVars, RecInv, RecTypeOK, EventsInv, KeysInv, DeletedInv, DocInv,
       TruthInv, DriftInv, IsNextDrift
  <2> QED
    BY <2>1, <2>2
<1>3. RecInv => RepairsKept
  <2> SUFFICES ASSUME RecInv PROVE RepairsKept
    OBVIOUS
  <2>1. NeverAhead
    BY DEF RecInv, DocInv, NeverAhead
  <2>2. OnlyZombiesDeleted
    BY DEF RecInv, DeletedInv, OnlyZombiesDeleted, HasRow
  <2> QED
    BY <2>1, <2>2 DEF RecInv, RepairsKept
<1> QED
  BY <1>1, <1>2, <1>3, PTL DEF RecSpec
=============================================================================
