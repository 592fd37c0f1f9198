-------------------------- MODULE ProjectionProofs --------------------------
(***************************************************************************)
(* Proofs about Projection, for any number of consumers, any histories, any *)
(* stream, any faults and both sinks. What the sink shows follows its gate, *)
(* and the gate what is recorded as applied, until a deletion is forgotten: *)
(* a history ends with its deletion, so what is forgotten is all there is   *)
(* to show.                                                                 *)
(***************************************************************************)
EXTENDS Projection, TLAPS

(* An entry about to be acknowledged is poison or recorded as applied.      *)
AckInv ==
    \A c \in Consumers, i \in Entries :
        pc[c] = "ack" /\ IsFirst(c, i) => Dealt(i)

LossInv == TypeOK /\ NoneLost /\ AckInv

(* The sink shows the version its gate is at.                               *)
ShowsGate(a) ==
    /\ gate[a] <= Len(Hist[a])
    /\ doc[a] = IF gate[a] = 0 THEN 0 ELSE IF IsDelete(<<a, gate[a]>>) THEN 0 ELSE gate[a]

(* The gate has seen version v of a, if it has forgotten nothing of a.      *)
AtLeast(a, v) == gate[a] >= v \/ a \in forgotten

(* Only a deletion is forgotten, and it was the last event.                 *)
EndsDeleted(a) == Len(Hist[a]) > 0 /\ IsDelete(<<a, Len(Hist[a])>>)

Consistent(a) ==
    /\ ShowsGate(a)
    /\ AtLeast(a, applied[a]) /\ applied[a] <= Len(Hist[a])
    /\ a \in forgotten => EndsDeleted(a)

(* An entry about to be recorded has passed the gate or was behind it.      *)
RecordInv ==
    \A c \in Consumers, i \in Entries :
        pc[c] = "applied" /\ IsFirst(c, i) => AtLeast(stream[i][1], stream[i][2])

SinkInv ==
    /\ TypeOK
    /\ \A a \in Aggs : Consistent(a)
    /\ RecordInv
-----------------------------------------------------------------------------
(* An event is an aggregate and one of the versions of its history.         *)
LEMMA EventParts ==
    ASSUME NEW k \in Events
    PROVE  /\ k[1] \in Aggs /\ k[2] \in 1..Len(Hist[k[1]])
           /\ k[2] \in Nat \ {0} /\ Len(Hist[k[1]]) \in Nat
           /\ k = <<k[1], k[2]>>
<1>1. PICK a \in Aggs : k \in {a} \X (1..Len(Hist[a]))
  BY DEF Events
<1>2. Len(Hist[a]) \in Nat
  BY ProjectionAssumption
<1> QED BY <1>1, <1>2

(* The entry a consumer handles was delivered, so the stream holds it.      *)
LEMMA EntryInStream ==
    ASSUME TypeOK, NEW c \in Consumers, NEW i \in Entries, IsFirst(c, i)
    PROVE  i \in 1..delivered /\ i \in 1..Len(stream) /\ stream[i] \in Events
<1>1. i \in 1..delivered /\ delivered \in 0..Len(stream) /\ stream \in Seq(Events)
  BY DEF TypeOK, IsFirst
<1>2. Len(stream) \in Nat
  BY <1>1
<1> QED BY <1>1, <1>2

(* What a consumer sees of its batch does not change when entries are added *)
(* to the stream.                                                           *)
LEMMA StreamGrows ==
    ASSUME TypeOK, NEW k \in Events, stream' = Append(stream, k),
           NEW i \in 1..Len(stream)
    PROVE  stream'[i] = stream[i]
<1>1. stream \in Seq(Events)
  BY DEF TypeOK
<1> QED BY <1>1
-----------------------------------------------------------------------------
(* The types hold initially.                                                *)
LEMMA TypeInit == Init => TypeOK
<1> SUFFICES ASSUME Init PROVE TypeOK
  OBVIOUS
<1>1. <<>> \in Seq(Events) /\ Len(<<>>) = 0
  OBVIOUS
<1> QED BY <1>1, ProjectionAssumption DEF Init, TypeOK

(* Moving on to the next entry keeps pc and todo well typed.                *)
LEMMA NextEntryType ==
    ASSUME TypeOK, NEW c \in Consumers, NextEntry(c), UNCHANGED delivered
    PROVE  /\ pc' \in [Consumers -> {"down", "claim", "ready", "applied", "ack"}]
           /\ todo' \in [Consumers -> SUBSET (1..delivered')]
           /\ \A d \in Consumers : pc'[d] \in {"applied", "ack"} => todo'[d] # {}
<1>1. PICK i \in Entries : todo' = [todo EXCEPT ![c] = todo[c] \ {i}]
  BY Zenon DEF NextEntry
<1>2. pc' = [pc EXCEPT ![c] = "ready"]
  BY DEF NextEntry
<1> QED BY <1>1, <1>2 DEF TypeOK

(* The types are an invariant of every step.                                *)
LEMMA TypeStep == TypeOK /\ [Next]_vars => TypeOK'
<1> SUFFICES ASSUME TypeOK, [Next]_vars PROVE TypeOK'
  OBVIOUS
<1> USE ProjectionAssumption
<1>0. stream \in Seq(Events) /\ Len(stream) \in Nat /\ delivered \in Nat /\ delivered <= Len(stream)
  BY DEF TypeOK
<1>1. ASSUME NEW k \in Events, Publish(k) PROVE TypeOK'
  <2>1. stream' \in Seq(Events) /\ Len(stream') = Len(stream) + 1
    BY <1>0, <1>1 DEF Publish
  <2> QED BY <1>0, <1>1, <2>1 DEF Publish, TypeOK, groupVars, sinkVars
<1>2. ASSUME NEW c \in Consumers, Run(c) PROVE TypeOK'
  BY <1>2 DEF Run, TypeOK, groupVars, sinkVars
<1>3. ASSUME NEW c \in Consumers, claimStale(c) PROVE TypeOK'
  <2>1. PICK S \in SUBSET Pending :
           /\ owner' = [i \in Entries |-> IF i \in S THEN c ELSE owner[i]]
           /\ todo' = [todo EXCEPT ![c] = S]
    BY Zenon, <1>3 DEF claimStale
  <2>2. S \subseteq 1..delivered
    BY <1>0 DEF Pending, Entries, TypeOK
  <2>3. S \subseteq Entries /\ \A i \in Entries : i \in S => owner[i] # NoConsumer
    BY DEF Pending
  <2>4. owner' \in [Entries -> Consumers \cup {NoConsumer}]
        /\ \A i \in Entries : owner'[i] # NoConsumer => i <= delivered'
    BY <1>3, <2>1, <2>3 DEF claimStale, TypeOK
  <2> QED BY <1>3, <2>1, <2>2, <2>4 DEF claimStale, TypeOK, sinkVars
<1>4. ASSUME NEW c \in Consumers, XReadGroup(c) PROVE TypeOK'
  <2>1. PICK n \in 1..Count :
           /\ delivered + n <= Len(stream)
           /\ todo' = [todo EXCEPT ![c] = New(n)]
           /\ owner' = [i \in Entries |-> IF i \in New(n) THEN c ELSE owner[i]]
           /\ delivered' = delivered + n
    BY Zenon, <1>4 DEF XReadGroup
  <2>2. New(n) \subseteq 1..delivered' /\ delivered <= delivered' /\ delivered' \in Nat
    BY <1>0, <2>1 DEF New
  <2>3. delivered' \in 0..Len(stream') /\ stream' = stream
    BY <1>0, <1>4, <2>1 DEF XReadGroup
  <2>4. todo' \in [Consumers -> SUBSET (1..delivered')]
    BY <1>0, <2>1, <2>2 DEF TypeOK
  <2>5. owner' \in [Entries -> Consumers \cup {NoConsumer}]
        /\ \A i \in Entries : owner'[i] # NoConsumer => i <= delivered'
    BY <1>0, <2>1, <2>2 DEF TypeOK, Entries
  <2>6. \A d \in Consumers : pc'[d] \in {"applied", "ack"} => todo'[d] # {}
    BY <1>4, <2>1 DEF XReadGroup, TypeOK
  <2> QED BY <1>4, <2>3, <2>4, <2>5, <2>6 DEF XReadGroup, TypeOK, sinkVars
<1>5. ASSUME NEW c \in Consumers, ApplyMutations(c) PROVE TypeOK'
  <2>1. PICK i \in Entries : /\ IsFirst(c, i)
                             /\ doc' = DocAfter(doc, gate, stream[i])
                             /\ gate' = GateAfter(gate, stream[i])
                             /\ forgotten' = ForgottenAfter(stream[i])
    BY <1>5 DEF ApplyMutations
  <2>2. stream[i][1] \in Aggs /\ stream[i][2] \in Nat
    BY <2>1, EntryInStream, EventParts
  <2>3. doc' \in [Aggs -> Nat] /\ gate' \in [Aggs -> Nat] /\ forgotten' \subseteq Aggs
    BY <2>1, <2>2 DEF DocAfter, GateAfter, ForgottenAfter, TypeOK
  <2>4. todo[c] # {}
    BY <2>1 DEF IsFirst
  <2> QED BY <1>5, <2>3, <2>4 DEF ApplyMutations, TypeOK, groupVars
<1>6. ASSUME NEW c \in Consumers, Skip(c) PROVE TypeOK'
  <2>1. todo[c] # {}
    BY <1>6 DEF Skip, IsFirst
  <2> QED BY <1>6, <2>1 DEF Skip, TypeOK, groupVars, sinkVars
<1>7. ASSUME NEW c \in Consumers, SetApplied(c) PROVE TypeOK'
  <2>1. PICK i \in Entries :
           /\ IsFirst(c, i)
           /\ applied' = [applied EXCEPT ![stream[i][1]] = Greatest(stream[i][1], stream[i][2])]
    BY Zenon, <1>7 DEF SetApplied
  <2>2. stream[i][1] \in Aggs /\ stream[i][2] \in Nat
    BY <2>1, EntryInStream, EventParts
  <2>3. applied' \in [Aggs -> Nat]
    BY <2>1, <2>2 DEF Greatest, TypeOK
  <2> QED BY Zenon, <1>7, <2>3 DEF SetApplied, TypeOK, groupVars
<1>8. ASSUME NEW c \in Consumers, Ack(c) PROVE TypeOK'
  <2>1. faults' \subseteq Faults[sink] /\ owner' \in [Entries -> Consumers \cup {NoConsumer}]
        /\ \A i \in Entries : owner'[i] # NoConsumer => i <= delivered
    BY <1>8 DEF Ack, Fault, TypeOK
  <2>2. NextEntry(c) /\ UNCHANGED <<sink, stream, delivered, doc, gate, forgotten, applied>>
    BY <1>8 DEF Ack, sinkVars
  <2> QED BY <2>1, <2>2, NextEntryType DEF TypeOK
<1>9. ASSUME NEW c \in Consumers, ApplyFails(c) PROVE TypeOK'
  <2>1. faults' \subseteq Faults[sink]
    BY <1>9 DEF ApplyFails, Fault, TypeOK
  <2>2. NextEntry(c) /\ UNCHANGED <<sink, stream, delivered, owner, doc, gate, forgotten, applied>>
    BY <1>9 DEF ApplyFails, groupVars, sinkVars
  <2> QED BY <2>1, <2>2, NextEntryType DEF TypeOK
<1>10. ASSUME NEW c \in Consumers, Crash(c) PROVE TypeOK'
  <2>1. faults' \subseteq Faults[sink]
    BY <1>10 DEF Crash, Fault, TypeOK
  <2> QED BY <1>10, <2>1 DEF Crash, TypeOK, groupVars, sinkVars
<1>11. ASSUME NEW a \in Aggs, Expire(a) PROVE TypeOK'
  <2>1. faults' \subseteq Faults[sink]
    BY <1>11 DEF Expire, Fault, TypeOK
  <2> QED BY <1>11, <2>1 DEF Expire, TypeOK, groupVars
<1>12. ASSUME UNCHANGED vars PROVE TypeOK'
  BY <1>12 DEF vars, groupVars, sinkVars, TypeOK
<1> QED BY <1>1, <1>2, <1>3, <1>4, <1>5, <1>6, <1>7, <1>8, <1>9, <1>10, <1>11, <1>12 DEF Next, Handle

(* Every variable keeps its type; only delivered entries are pending or in  *)
(* a consumer's batch.                                                      *)
THEOREM TypeCorrect == Spec => []TypeOK
BY TypeInit, TypeStep, PTL DEF Spec
-----------------------------------------------------------------------------
(* Entries keep their place and the recorded version never goes back.       *)
LEMMA Monotone ==
    ASSUME TypeOK, [Next]_vars
    PROVE  /\ \A i \in 1..Len(stream) : stream'[i] = stream[i]
           /\ \A a \in Aggs : applied'[a] >= applied[a]
<1>1. ASSUME NEW k \in Events, Publish(k)
      PROVE  (\A i \in 1..Len(stream) : stream'[i] = stream[i]) /\ UNCHANGED applied
  <2>1. stream' = Append(stream, k) /\ UNCHANGED applied
    BY <1>1 DEF Publish, sinkVars
  <2> QED BY <2>1, StreamGrows
<1>2. ASSUME NEW c \in Consumers, SetApplied(c)
      PROVE  stream' = stream /\ \A a \in Aggs : applied'[a] >= applied[a]
  <2>1. PICK i \in Entries :
           /\ IsFirst(c, i)
           /\ applied' = [applied EXCEPT ![stream[i][1]] = Greatest(stream[i][1], stream[i][2])]
    BY Zenon, <1>2 DEF SetApplied
  <2>2. stream[i][1] \in Aggs /\ stream[i][2] \in Nat
    BY <2>1, EntryInStream, EventParts
  <2>3. Greatest(stream[i][1], stream[i][2]) >= applied[stream[i][1]]
    BY <2>2 DEF Greatest, TypeOK
  <2>4. applied \in [Aggs -> Nat] /\ stream' = stream
    BY <1>2 DEF SetApplied, TypeOK
  <2>5. \A a \in Aggs : applied[a] >= applied[a]
    BY <2>4
  <2> QED BY <2>1, <2>2, <2>3, <2>4, <2>5
<1>3. ASSUME NEW c \in Consumers,
             \/ Run(c) \/ claimStale(c) \/ XReadGroup(c) \/ ApplyMutations(c)
             \/ Skip(c) \/ Ack(c) \/ ApplyFails(c) \/ Crash(c)
      PROVE  UNCHANGED <<stream, applied>>
  BY <1>3 DEF Run, claimStale, XReadGroup, ApplyMutations, Skip, Ack, ApplyFails, Crash, sinkVars
<1>4. ASSUME UNCHANGED vars \/ \E a \in Aggs : Expire(a) PROVE UNCHANGED <<stream, applied>>
  BY <1>4 DEF vars, sinkVars, Expire
<1>5. \A a \in Aggs : applied[a] >= applied[a]
  BY DEF TypeOK
<1>6. CASE \E k \in Events : Publish(k)
  BY <1>1, <1>5, <1>6
<1>7. CASE \E c \in Consumers : SetApplied(c)
  BY <1>2, <1>7
<1>8. CASE \/ UNCHANGED vars \/ \E a \in Aggs : Expire(a)
           \/ \E c \in Consumers : \/ Run(c) \/ claimStale(c) \/ XReadGroup(c)
                                   \/ ApplyMutations(c) \/ Skip(c) \/ Ack(c)
                                   \/ ApplyFails(c) \/ Crash(c)
  BY <1>3, <1>4, <1>5, <1>8
<1> QED BY <1>6, <1>7, <1>8 DEF Next, Handle

(* What has been dealt with stays dealt with.                               *)
LEMMA DealtStays ==
    ASSUME TypeOK, [Next]_vars, NEW i \in 1..Len(stream), Dealt(i)
    PROVE  Dealt(i)'
<1>1. stream'[i] = stream[i] /\ \A a \in Aggs : applied'[a] >= applied[a]
  BY Monotone
<1>2. stream \in Seq(Events) /\ applied \in [Aggs -> Nat] /\ applied' \in [Aggs -> Nat]
  BY TypeStep DEF TypeOK
<1>3. stream[i] \in Events
  BY <1>2
<1>4. stream[i][1] \in Aggs /\ stream[i][2] \in Nat
  BY <1>3, EventParts
<1>5. applied'[stream[i][1]] >= applied[stream[i][1]]
  BY <1>1, <1>4
<1> QED BY <1>1, <1>2, <1>4, <1>5 DEF Dealt

(* A step after which nobody new is about to acknowledge keeps AckInv.      *)
LEMMA AckKept ==
    ASSUME LossInv, [Next]_vars,
           \A c \in Consumers : pc'[c] = "ack" => pc[c] = "ack" /\ todo'[c] = todo[c]
    PROVE  AckInv'
<1>1. ASSUME NEW c \in Consumers, NEW i \in Entries, pc'[c] = "ack", IsFirst(c, i)'
      PROVE  Dealt(i)'
  <2>1. pc[c] = "ack" /\ IsFirst(c, i)
    BY <1>1 DEF IsFirst
  <2>2. Dealt(i) /\ i \in 1..Len(stream)
    BY <2>1, EntryInStream DEF LossInv, AckInv
  <2> QED BY <2>2, DealtStays DEF LossInv
<1> QED BY <1>1 DEF AckInv

(* No step loses a delivered entry.                                         *)
LEMMA LossStep == LossInv /\ [Next]_vars => LossInv'
<1> SUFFICES ASSUME LossInv, [Next]_vars PROVE NoneLost' /\ AckInv'
  BY TypeStep DEF LossInv
<1>t. TypeOK /\ TypeOK'
  BY TypeStep DEF LossInv
<1>0. delivered \in Nat /\ Len(stream) \in Nat /\ delivered <= Len(stream)
  BY <1>t DEF TypeOK
<1>d. \A i \in 1..Len(stream) : Dealt(i) => Dealt(i)'
  BY <1>t, DealtStays
<1>e. 1..delivered \subseteq Entries
  BY <1>0, <1>t, ProjectionAssumption DEF TypeOK, Entries
<1>k. ASSUME UNCHANGED groupVars PROVE NoneLost'
  BY <1>0, <1>d, <1>k DEF NoneLost, LossInv, groupVars
<1>1. ASSUME NEW k \in Events, Publish(k) PROVE NoneLost' /\ AckInv'
  BY <1>1, <1>k, AckKept DEF Publish
<1>2. ASSUME NEW c \in Consumers, Run(c) \/ ApplyMutations(c) \/ Crash(c)
      PROVE  NoneLost' /\ AckInv'
  BY <1>2, <1>k, <1>t, AckKept DEF Run, ApplyMutations, Crash, TypeOK
<1>3. ASSUME NEW c \in Consumers, claimStale(c) PROVE NoneLost' /\ AckInv'
  <2>1. PICK S \in SUBSET Pending :
           owner' = [i \in Entries |-> IF i \in S THEN c ELSE owner[i]]
    BY <1>3 DEF claimStale
  <2>2. \A i \in Entries : owner[i] # NoConsumer => owner'[i] # NoConsumer
    BY <2>1, ProjectionAssumption
  <2>3. delivered' = delivered
    BY <1>3 DEF claimStale
  <2>4. NoneLost'
    BY <1>0, <1>d, <1>e, <2>2, <2>3 DEF NoneLost, LossInv
  <2>5. \A d \in Consumers : pc'[d] = "ack" => pc[d] = "ack" /\ todo'[d] = todo[d]
    BY <1>3, <1>t DEF claimStale, TypeOK
  <2> QED BY <2>4, <2>5, AckKept
<1>4. ASSUME NEW c \in Consumers, XReadGroup(c) PROVE NoneLost' /\ AckInv'
  <2>1. PICK n \in 1..Count :
           /\ delivered + n <= Len(stream)
           /\ owner' = [i \in Entries |-> IF i \in New(n) THEN c ELSE owner[i]]
           /\ delivered' = delivered + n
    BY <1>4 DEF XReadGroup
  <2>2. n \in Nat /\ 1..delivered' \subseteq Entries
    BY <1>0, <1>t, <2>1, ProjectionAssumption DEF TypeOK, Entries
  <2>3. \A i \in 1..delivered' : i \in 1..delivered \/ owner'[i] # NoConsumer
    BY <1>0, <2>1, <2>2, ProjectionAssumption DEF New
  <2>4. \A i \in Entries : owner[i] # NoConsumer => owner'[i] # NoConsumer
    BY <2>1, ProjectionAssumption
  <2>5. NoneLost'
    BY <1>0, <1>d, <2>2, <2>3, <2>4 DEF NoneLost, LossInv
  <2>6. \A d \in Consumers : pc'[d] = "ack" => pc[d] = "ack" /\ todo'[d] = todo[d]
    BY <1>4, <1>t DEF XReadGroup, TypeOK
  <2> QED BY <2>5, <2>6, AckKept
<1>5. ASSUME NEW c \in Consumers, Skip(c) \/ SetApplied(c) PROVE NoneLost' /\ AckInv'
  <2>1. PICK i \in Entries :
           /\ IsFirst(c, i)
           /\ \/ stream[i] \in Poison
              \/ applied' = [applied EXCEPT ![stream[i][1]] = Greatest(stream[i][1], stream[i][2])]
    BY <1>5 DEF Skip, SetApplied
  <2>2. stream' = stream /\ UNCHANGED <<groupVars, todo>> /\ pc' = [pc EXCEPT ![c] = "ack"]
    BY <1>5 DEF Skip, SetApplied
  <2>3. stream[i][1] \in Aggs /\ stream[i][2] \in Nat
    BY <1>t, <2>1, EntryInStream, EventParts
  <2>4. Dealt(i)'
    <3>1. applied \in [Aggs -> Nat]
      BY <1>t DEF TypeOK
    <3>2. Greatest(stream[i][1], stream[i][2]) >= stream[i][2]
      BY <2>3, <3>1 DEF Greatest
    <3> QED BY <2>1, <2>2, <2>3, <3>1, <3>2 DEF Dealt
  <2>5. NoneLost'
    BY <1>0, <1>d, <2>2 DEF NoneLost, LossInv, groupVars
  <2>6. ASSUME NEW d \in Consumers, NEW j \in Entries, pc'[d] = "ack", IsFirst(d, j)'
        PROVE  Dealt(j)'
    <3>1. IsFirst(d, j)
      BY <2>2, <2>6 DEF IsFirst
    <3>2. CASE d = c
      <4>1. i = j
        BY <2>1, <3>1, <3>2 DEF IsFirst, Entries
      <4> QED BY <4>1, <2>4
    <3>3. CASE d # c
      <4>1. pc[d] = "ack"
        BY <1>t, <2>2, <2>6, <3>3 DEF TypeOK
      <4>2. Dealt(j) /\ j \in 1..Len(stream)
        BY <1>t, <3>1, <4>1, EntryInStream DEF LossInv, AckInv
      <4> QED BY <4>2, <1>d
    <3> QED BY <3>2, <3>3
  <2> QED BY <2>5, <2>6 DEF AckInv
<1>6. ASSUME NEW c \in Consumers, Ack(c) PROVE NoneLost' /\ AckInv'
  <2>1. PICK i \in Entries : IsFirst(c, i) /\ (owner' = [owner EXCEPT ![i] = NoConsumer] \/ owner' = owner)
    BY <1>6 DEF Ack, NextEntry
  <2>2. Dealt(i) /\ i \in 1..Len(stream)
    BY <1>6, <1>t, <2>1, EntryInStream DEF Ack, LossInv, AckInv
  <2>3. delivered' = delivered
    BY <1>6 DEF Ack
  <2>4. NoneLost'
    BY <1>0, <1>t, <1>d, <1>e, <2>1, <2>2, <2>3 DEF NoneLost, LossInv, TypeOK
  <2>5. \A d \in Consumers : pc'[d] = "ack" => pc[d] = "ack" /\ todo'[d] = todo[d]
    BY <1>6, <1>t DEF Ack, NextEntry, TypeOK
  <2> QED BY <2>4, <2>5, AckKept
<1>7. ASSUME NEW c \in Consumers, ApplyFails(c) PROVE NoneLost' /\ AckInv'
  <2>1. \A d \in Consumers : pc'[d] = "ack" => pc[d] = "ack" /\ todo'[d] = todo[d]
    BY <1>7, <1>t DEF ApplyFails, NextEntry, TypeOK
  <2> QED BY <1>7, <1>k, <2>1, AckKept DEF ApplyFails
<1>8. ASSUME UNCHANGED vars \/ \E a \in Aggs : Expire(a) PROVE NoneLost' /\ AckInv'
  <2>1. UNCHANGED <<pc, todo>> /\ UNCHANGED groupVars
    BY <1>8 DEF vars, Expire
  <2> QED BY <1>k, <2>1, AckKept
<1> QED BY <1>1, <1>2, <1>3, <1>4, <1>5, <1>6, <1>7, <1>8 DEF Next, Handle

(* At least once (Consume, handleEntry): a delivered entry stays pending    *)
(* until it is applied, whatever crashes or fails and whoever claims it.    *)
THEOREM AtLeastOnce == Spec => []NoneLost
<1>1. Init => LossInv
  BY TypeInit DEF Init, LossInv, NoneLost, AckInv
<1>2. LossInv => NoneLost
  BY DEF LossInv
<1> QED BY <1>1, <1>2, LossStep, PTL DEF Spec
-----------------------------------------------------------------------------
(* What a write leaves behind.                                              *)
Written(k) ==
    /\ doc' = DocAfter(doc, gate, k)
    /\ gate' = GateAfter(gate, k)
    /\ forgotten' = ForgottenAfter(k)

(* The gate of a never goes back, unless a deletion of a is forgotten.      *)
GateKept(a) == gate'[a] >= gate[a] \/ a \in forgotten'

(* A write reaches its own version and leaves the sink showing what the     *)
(* gate says; a new document is at a version above the gate's.              *)
LEMMA GatedWrite ==
    ASSUME TypeOK, NEW k \in Events, \A a \in Aggs : ShowsGate(a), Written(k)
    PROVE  /\ \A a \in Aggs : GateKept(a) /\ ShowsGate(a)'
           /\ AtLeast(k[1], k[2])'
           /\ \A a \in Aggs : a \in forgotten' => a \in forgotten \/ EndsDeleted(a)
           /\ \A a \in Aggs : doc'[a] \notin {0, doc[a]} =>
                 doc'[a] = gate'[a] /\ gate'[a] > gate[a]
<1> DEFINE b == k[1] v == k[2]
<1>1. b \in Aggs /\ v \in 1..Len(Hist[b]) /\ v \in Nat \ {0} /\ Len(Hist[b]) \in Nat /\ k = <<b, v>>
  BY EventParts
<1>2. doc \in [Aggs -> Nat] /\ gate \in [Aggs -> Nat]
  BY DEF TypeOK
<1>3. \A a \in Aggs : gate[a] >= gate[a]
  BY <1>2
<1>4. CASE sink = "graph" /\ IsDelete(k)
  <2>1. Passes(gate, k)
    BY <1>4 DEF Passes
  <2>2. gate' = [gate EXCEPT ![b] = 0] /\ doc' = [doc EXCEPT ![b] = 0] /\ forgotten' = forgotten \cup {b}
    BY Zenon, <1>4, <2>1 DEF Written, DocAfter, GateAfter, ForgottenAfter
  <2>3. gate'[b] = 0 /\ doc'[b] = 0
    BY <1>1, <1>2, <2>2
  <2>4. \A a \in Aggs \ {b} : gate'[a] = gate[a] /\ doc'[a] = doc[a]
    BY <1>1, <1>2, <2>2
  <2>5. ShowsGate(b)'
    BY <1>1, <2>3 DEF ShowsGate
  <2>6. \A a \in Aggs \ {b} : ShowsGate(a)'
    BY <2>4 DEF ShowsGate
  <2>7. EndsDeleted(b)
    <3>1. v = Len(Hist[b])
      BY <1>1, <1>4, ProjectionAssumption DEF IsDelete
    <3> QED BY <1>1, <1>4, <3>1 DEF EndsDeleted
  <2>8. \A a \in Aggs : GateKept(a) /\ ShowsGate(a)'
    BY <1>3, <2>2, <2>4, <2>5, <2>6 DEF GateKept
  <2>9. AtLeast(b, v)'
    BY <2>2 DEF AtLeast
  <2> QED BY <2>2, <2>3, <2>4, <2>7, <2>8, <2>9
<1>5. CASE ~ (sink = "graph" /\ IsDelete(k)) /\ gate[b] <= v
  <2>1. Passes(gate, k)
    BY <1>5 DEF Passes
  <2>2. gate' = [gate EXCEPT ![b] = v] /\ doc' = [doc EXCEPT ![b] = IF IsDelete(k) THEN 0 ELSE v]
        /\ forgotten' = forgotten
    BY Zenon, <1>5, <2>1 DEF Written, DocAfter, GateAfter, ForgottenAfter
  <2>3. gate'[b] = v /\ doc'[b] = IF IsDelete(k) THEN 0 ELSE v
    BY <1>1, <1>2, <2>2
  <2>4. \A a \in Aggs \ {b} : gate'[a] = gate[a] /\ doc'[a] = doc[a]
    BY <1>1, <1>2, <2>2
  <2>5. ShowsGate(b)'
    BY <1>1, <2>3 DEF ShowsGate, IsDelete
  <2>6. \A a \in Aggs \ {b} : ShowsGate(a)'
    BY <2>4 DEF ShowsGate
  <2>7. doc'[b] \notin {0, doc[b]} => gate'[b] > gate[b]
    <3>1. SUFFICES ASSUME gate[b] = v PROVE doc'[b] = doc[b]
      BY <1>1, <1>2, <1>5, <2>3
    <3>2. ShowsGate(b)
      BY <1>1
    <3> QED BY <1>1, <2>3, <3>1, <3>2 DEF ShowsGate
  <2>8. gate'[b] >= gate[b] /\ gate'[b] >= v
    BY <1>1, <1>2, <1>5, <2>3
  <2>9. \A a \in Aggs : GateKept(a) /\ ShowsGate(a)'
    BY <1>3, <2>4, <2>5, <2>6, <2>8 DEF GateKept
  <2>10. AtLeast(b, v)'
    BY <2>8 DEF AtLeast
  <2> QED BY <2>2, <2>3, <2>4, <2>7, <2>9, <2>10
<1>6. CASE ~ (sink = "graph" /\ IsDelete(k)) /\ ~ (gate[b] <= v)
  <2>1. ~ Passes(gate, k)
    BY <1>6 DEF Passes
  <2>2. gate' = gate /\ doc' = doc /\ forgotten' = forgotten
    BY Zenon, <1>6, <2>1 DEF Written, DocAfter, GateAfter, ForgottenAfter
  <2>3. gate[b] >= v
    BY <1>1, <1>2, <1>6
  <2>4. \A a \in Aggs : GateKept(a) /\ ShowsGate(a)'
    BY <1>3, <2>2 DEF ShowsGate, GateKept
  <2>5. AtLeast(b, v)'
    BY <2>2, <2>3 DEF AtLeast
  <2> QED BY <2>2, <2>4, <2>5
<1> QED BY <1>4, <1>5, <1>6

(* What the gate has seen it has seen, or a deletion is forgotten.          *)
LEMMA AtLeastKept ==
    ASSUME gate \in [Aggs -> Nat], gate' \in [Aggs -> Nat], forgotten \subseteq forgotten',
           NEW a \in Aggs, NEW v \in Nat, AtLeast(a, v), GateKept(a)
    PROVE  gate'[a] >= v \/ a \in forgotten'
<1>1. gate[a] \in Nat /\ gate'[a] \in Nat
  OBVIOUS
<1> QED BY <1>1 DEF AtLeast, GateKept

(* The gates of a step that is not a write: kept, or an expired deletion.   *)
Unwritten ==
    /\ gate' \in [Aggs -> Nat] /\ forgotten \subseteq forgotten'
    /\ \A a \in Aggs : GateKept(a)

(* A step keeps RecordInv for a consumer that was about to record already.  *)
LEMMA RecordKept ==
    ASSUME SinkInv, [Next]_vars, Unwritten,
           NEW d \in Consumers, NEW j \in Entries, IsFirst(d, j)',
           pc[d] = "applied", todo'[d] = todo[d]
    PROVE  AtLeast(stream[j][1], stream[j][2])'
<1>1. IsFirst(d, j)
  BY DEF IsFirst
<1>2. TypeOK /\ gate \in [Aggs -> Nat]
  BY DEF SinkInv, TypeOK
<1>3. j \in 1..Len(stream) /\ stream[j][1] \in Aggs /\ stream[j][2] \in Nat
  BY <1>1, <1>2, EntryInStream, EventParts
<1>4. stream'[j] = stream[j]
  BY <1>2, <1>3, Monotone
<1>5. AtLeast(stream[j][1], stream[j][2])
  BY <1>1 DEF SinkInv, RecordInv
<1>6. gate'[stream[j][1]] >= stream[j][2] \/ stream[j][1] \in forgotten'
  BY <1>2, <1>3, <1>5, AtLeastKept DEF Unwritten
<1> QED BY <1>4, <1>6 DEF AtLeast

(* Every step keeps the sink in accordance with its gate and the record.    *)
LEMMA SinkStep == SinkInv /\ [Next]_vars => SinkInv'
<1> SUFFICES ASSUME SinkInv, [Next]_vars
             PROVE  (\A a \in Aggs : Consistent(a)') /\ RecordInv'
  BY TypeStep DEF SinkInv
<1>t. TypeOK /\ TypeOK'
  BY TypeStep DEF SinkInv
<1>g. gate \in [Aggs -> Nat] /\ gate' \in [Aggs -> Nat]
      /\ applied \in [Aggs -> Nat] /\ applied' \in [Aggs -> Nat]
  BY <1>t DEF TypeOK
<1>r. \A a \in Aggs : gate[a] >= gate[a]
  BY <1>g
<1>1. ASSUME NEW c \in Consumers, ApplyMutations(c)
      PROVE  (\A a \in Aggs : Consistent(a)') /\ RecordInv'
  <2>1. PICK i \in Entries : IsFirst(c, i) /\ Written(stream[i])
    BY <1>1 DEF ApplyMutations, Written
  <2>2. stream[i] \in Events
    BY <1>t, <2>1, EntryInStream
  <2>3. /\ \A a \in Aggs : GateKept(a) /\ ShowsGate(a)'
        /\ AtLeast(stream[i][1], stream[i][2])'
        /\ \A a \in Aggs : a \in forgotten' => a \in forgotten \/ EndsDeleted(a)
    <3>1. /\ \A a \in Aggs : GateKept(a) /\ ShowsGate(a)'
          /\ gate'[stream[i][1]] >= stream[i][2] \/ stream[i][1] \in forgotten'
          /\ \A a \in Aggs : a \in forgotten' => a \in forgotten \/ EndsDeleted(a)
      BY <1>t, <2>1, <2>2, GatedWrite DEF SinkInv, Consistent, AtLeast
    <3>2. stream' = stream
      BY <1>1 DEF ApplyMutations
    <3> QED BY <3>1, <3>2 DEF AtLeast
  <2>4. applied' = applied /\ stream' = stream /\ todo' = todo
        /\ pc' = [pc EXCEPT ![c] = "applied"]
    BY <1>1 DEF ApplyMutations
  <2>5. forgotten \subseteq forgotten'
    BY <2>1 DEF Written, ForgottenAfter
  <2>6. Unwritten
    BY <1>g, <2>3, <2>5 DEF Unwritten
  <2>7. ASSUME NEW a \in Aggs PROVE Consistent(a)'
    <3>1. Consistent(a) /\ applied'[a] \in Nat
      BY <1>g DEF SinkInv
    <3>2. gate'[a] >= applied[a] \/ a \in forgotten'
      BY <1>g, <2>3, <2>5, <3>1, AtLeastKept DEF Consistent
    <3> QED BY <2>3, <2>4, <3>1, <3>2 DEF Consistent, AtLeast, EndsDeleted
  <2>8. ASSUME NEW d \in Consumers, NEW j \in Entries, pc'[d] = "applied", IsFirst(d, j)'
        PROVE  AtLeast(stream[j][1], stream[j][2])'
    <3>1. CASE d = c
      <4>1. i = j
        BY <2>1, <2>4, <2>8, <3>1 DEF IsFirst, Entries
      <4> QED BY <4>1, <2>3
    <3>2. CASE d # c
      <4>1. pc[d] = "applied"
        BY <1>t, <2>4, <2>8, <3>2 DEF TypeOK
      <4> QED BY <2>4, <2>6, <2>8, <4>1, RecordKept
    <3> QED BY <3>1, <3>2
  <2> QED BY <2>7, <2>8 DEF RecordInv
<1>2. ASSUME NEW c \in Consumers, SetApplied(c)
      PROVE  (\A a \in Aggs : Consistent(a)') /\ RecordInv'
  <2>1. PICK i \in Entries :
           /\ IsFirst(c, i)
           /\ applied' = [applied EXCEPT ![stream[i][1]] = Greatest(stream[i][1], stream[i][2])]
    BY Zenon, <1>2 DEF SetApplied
  <2> DEFINE b == stream[i][1] v == stream[i][2]
  <2>2. b \in Aggs /\ v \in 1..Len(Hist[b]) /\ v \in Nat
    BY <1>t, <2>1, EntryInStream, EventParts
  <2>3. pc[c] = "applied" /\ pc' = [pc EXCEPT ![c] = "ack"] /\ todo' = todo
        /\ gate' = gate /\ doc' = doc /\ forgotten' = forgotten
    BY <1>2 DEF SetApplied
  <2>4. AtLeast(b, v)
    BY <2>1, <2>3 DEF SinkInv, RecordInv
  <2>5. applied'[b] \in {v, applied[b]} /\ \A a \in Aggs \ {b} : applied'[a] = applied[a]
    BY <1>g, <2>1, <2>2 DEF Greatest
  <2>6. ASSUME NEW a \in Aggs PROVE Consistent(a)'
    <3>1. Consistent(a) /\ Len(Hist[a]) \in Nat
      BY ProjectionAssumption DEF SinkInv
    <3>2. ShowsGate(a)' /\ (a \in forgotten' => EndsDeleted(a))
      BY <2>3, <3>1 DEF Consistent, ShowsGate
    <3>3. (gate'[a] >= applied'[a] \/ a \in forgotten') /\ applied'[a] <= Len(Hist[a])
      BY <2>2, <2>3, <2>4, <2>5, <3>1 DEF Consistent, AtLeast
    <3> QED BY <3>2, <3>3 DEF Consistent, AtLeast, EndsDeleted
  <2>7. Unwritten
    BY <1>g, <1>r, <2>3 DEF Unwritten, GateKept
  <2>8. \A d \in Consumers : pc'[d] = "applied" => pc[d] = "applied"
    BY <1>t, <2>3 DEF TypeOK
  <2>9. RecordInv'
    BY <2>3, <2>7, <2>8, RecordKept DEF RecordInv
  <2> QED BY <2>6, <2>9
<1>3. ASSUME NEW a \in Aggs, Expire(a)
      PROVE  (\A b \in Aggs : Consistent(b)') /\ RecordInv'
  <2>1. /\ sink = "search" /\ doc[a] = 0 /\ gate[a] > 0
        /\ gate' = [gate EXCEPT ![a] = 0] /\ forgotten' = forgotten \cup {a}
        /\ doc' = doc /\ applied' = applied /\ pc' = pc /\ todo' = todo
    BY <1>3 DEF Expire
  <2>2. Consistent(a) /\ Len(Hist[a]) \in Nat
    BY ProjectionAssumption DEF SinkInv
  <2>3. EndsDeleted(a)
    <3>1. gate[a] \in 1..Len(Hist[a]) /\ IsDelete(<<a, gate[a]>>)
      BY <1>g, <2>1, <2>2 DEF Consistent, ShowsGate
    <3>2. gate[a] = Len(Hist[a])
      BY <3>1, ProjectionAssumption DEF IsDelete
    <3> QED BY <2>1, <3>1, <3>2 DEF EndsDeleted
  <2>4. ASSUME NEW b \in Aggs PROVE Consistent(b)'
    <3>1. CASE b = a
      <4>1. gate'[a] = 0 /\ ShowsGate(a)'
        BY <1>g, <2>1, <2>2 DEF ShowsGate
      <4> QED BY <2>1, <2>2, <2>3, <3>1, <4>1 DEF Consistent, AtLeast, EndsDeleted
    <3>2. CASE b # a
      <4>1. gate'[b] = gate[b] /\ (b \in forgotten' <=> b \in forgotten) /\ Consistent(b)
        BY <1>g, <2>1, <3>2 DEF SinkInv
      <4> QED BY <2>1, <4>1 DEF Consistent, ShowsGate, AtLeast, EndsDeleted
    <3> QED BY <3>1, <3>2
  <2>5. \A b \in Aggs : GateKept(b)
    BY <1>g, <1>r, <2>1 DEF GateKept
  <2>6. Unwritten
    BY <1>g, <2>1, <2>5 DEF Unwritten
  <2> QED BY <2>1, <2>4, <2>6, RecordKept DEF RecordInv
<1>4. ASSUME UNCHANGED sinkVars,
             \A d \in Consumers : pc'[d] = "applied" => pc[d] = "applied" /\ todo'[d] = todo[d]
      PROVE  (\A a \in Aggs : Consistent(a)') /\ RecordInv'
  <2>1. doc' = doc /\ gate' = gate /\ applied' = applied /\ forgotten' = forgotten
    BY <1>4 DEF sinkVars
  <2>2. \A a \in Aggs : Consistent(a)'
    BY <2>1 DEF SinkInv, Consistent, ShowsGate, AtLeast, EndsDeleted
  <2>3. Unwritten
    BY <1>g, <1>r, <2>1 DEF Unwritten, GateKept
  <2> QED BY <1>4, <2>2, <2>3, RecordKept DEF RecordInv
<1>5. ASSUME NEW k \in Events, Publish(k)
      PROVE  UNCHANGED sinkVars /\ UNCHANGED <<pc, todo>>
  BY <1>5 DEF Publish
<1>6. ASSUME NEW c \in Consumers,
             \/ Run(c) \/ claimStale(c) \/ XReadGroup(c) \/ Skip(c) \/ Ack(c)
             \/ ApplyFails(c) \/ Crash(c)
      PROVE  /\ UNCHANGED sinkVars
             /\ \A d \in Consumers : pc'[d] = "applied" => pc[d] = "applied" /\ todo'[d] = todo[d]
  BY <1>6, <1>t DEF Run, claimStale, XReadGroup, Skip, Ack, ApplyFails, Crash, NextEntry, TypeOK
<1>7. ASSUME UNCHANGED vars
      PROVE  UNCHANGED sinkVars /\ UNCHANGED <<pc, todo>>
  BY <1>7 DEF vars
<1> QED BY <1>1, <1>2, <1>3, <1>4, <1>5, <1>6, <1>7 DEF Next, Handle

(* The sink invariant holds initially: everything is at version 0.          *)
LEMMA SinkInit == Init => SinkInv
<1> SUFFICES ASSUME Init PROVE SinkInv
  OBVIOUS
<1>1. \A a \in Aggs : Len(Hist[a]) \in Nat
  BY ProjectionAssumption
<1>2. \A a \in Aggs : Consistent(a)
  BY <1>1 DEF Init, Consistent, ShowsGate, AtLeast
<1> QED BY <1>2, TypeInit DEF Init, SinkInv, RecordInv

(* WaitForProjection is sound for both sinks: a recorded version is visible *)
(* in the sink, or a later one is, unless a late event revived a document   *)
(* whose deletion the sink forgot.                                          *)
THEOREM AppliedIsVisible == Spec => []ReadYourWrites
<1>1. SinkInv => ReadYourWrites
  <2> SUFFICES ASSUME SinkInv, NEW a \in Aggs, applied[a] > 0, ~ Revived(a)
               PROVE  \E v \in applied[a]..Len(Hist[a]) :
                         doc[a] = IF IsDelete(<<a, v>>) THEN 0 ELSE v
    BY Zenon DEF ReadYourWrites
  <2>1. gate[a] \in Nat /\ applied[a] \in Nat /\ Consistent(a) /\ Len(Hist[a]) \in Nat
    BY ProjectionAssumption DEF SinkInv, TypeOK
  <2>2. CASE a \in forgotten
    <3>1. doc[a] = 0 /\ IsDelete(<<a, Len(Hist[a])>>)
      BY <2>1, <2>2 DEF Revived, Consistent, EndsDeleted
    <3>2. Len(Hist[a]) \in applied[a]..Len(Hist[a])
      BY <2>1 DEF Consistent
    <3> QED BY <3>1, <3>2
  <2>3. CASE a \notin forgotten
    <3>1. gate[a] \in applied[a]..Len(Hist[a]) /\ gate[a] # 0
      BY <2>1, <2>3 DEF Consistent, AtLeast, ShowsGate
    <3> QED BY <2>1, <3>1 DEF Consistent, ShowsGate
  <2> QED BY <2>2, <2>3
<1> QED BY <1>1, SinkInit, SinkStep, PTL DEF Spec

(* No order of deliveries, redeliveries and concurrent applies takes a      *)
(* document of either sink back, except one whose deletion was forgotten.   *)
THEOREM NeverBack == Spec => NoRegress
<1> DEFINE Back == \A a \in Aggs : doc'[a] \notin {0, doc[a]} =>
                      doc'[a] > doc[a] /\ (doc'[a] >= applied[a] \/ Revived(a)')
<1>1. SinkInv /\ [Next]_vars => [Back]_vars
  <2> SUFFICES ASSUME SinkInv, Next PROVE Back
    OBVIOUS
  <2>1. CASE UNCHANGED doc
    BY <2>1
  <2>2. CASE ~ UNCHANGED doc
    <3>a. (\A k \in Events : Publish(k) => doc' = doc) /\ (\A a \in Aggs : Expire(a) => doc' = doc)
      BY DEF Publish, Expire, sinkVars
    <3>b. \A c \in Consumers : Run(c) \/ claimStale(c) \/ XReadGroup(c) \/ Skip(c) => doc' = doc
      BY DEF Run, claimStale, XReadGroup, Skip, sinkVars
    <3>c. \A c \in Consumers : SetApplied(c) \/ Ack(c) \/ ApplyFails(c) \/ Crash(c) => doc' = doc
      BY DEF SetApplied, Ack, ApplyFails, Crash, sinkVars
    <3>1. PICK c \in Consumers : ApplyMutations(c)
      BY <2>2, <3>a, <3>b, <3>c DEF Next, Handle
    <3>2. PICK i \in Entries : IsFirst(c, i) /\ Written(stream[i])
      BY <3>1 DEF ApplyMutations, Written
    <3>3. TypeOK /\ stream[i] \in Events /\ forgotten \subseteq forgotten'
      BY <3>2, EntryInStream DEF SinkInv, Written, ForgottenAfter
    <3>4. \A a \in Aggs : doc'[a] \notin {0, doc[a]} => doc'[a] = gate'[a] /\ gate'[a] > gate[a]
      BY <3>2, <3>3, GatedWrite DEF SinkInv, Consistent
    <3>5. TypeOK'
      BY <3>3, TypeStep
    <3>6. \A a \in Aggs : gate[a] \in Nat /\ applied[a] \in Nat /\ gate'[a] \in Nat
      BY <3>3, <3>5 DEF TypeOK
    <3>7. ASSUME NEW a \in Aggs, doc'[a] \notin {0, doc[a]}
          PROVE  doc'[a] > doc[a] /\ (doc'[a] >= applied[a] \/ Revived(a)')
      <4>1. doc'[a] = gate'[a] /\ gate'[a] > gate[a]
        BY <3>4, <3>7
      <4>2. doc[a] \in {0, gate[a]} /\ AtLeast(a, applied[a])
        BY Zenon DEF SinkInv, Consistent, ShowsGate
      <4>3. gate[a] \in Nat /\ applied[a] \in Nat /\ gate'[a] \in Nat
        BY <3>6
      <4>4. doc'[a] > doc[a]
        BY <4>1, <4>2, <4>3
      <4>5. doc'[a] >= applied[a] \/ a \in forgotten
        BY <4>1, <4>2, <4>3 DEF AtLeast
      <4>6. doc'[a] # 0
        BY <3>7
      <4> QED BY <3>3, <4>4, <4>5, <4>6 DEF Revived
    <3> QED BY <3>7
  <2> QED BY <2>1, <2>2
<1> QED BY <1>1, SinkInit, SinkStep, PTL DEF Spec, NoRegress
=============================================================================
