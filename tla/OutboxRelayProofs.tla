------------------------- MODULE OutboxRelayProofs -------------------------
(***************************************************************************)
(* Delivery guarantees of the relay for any number of workers, rows, batch  *)
(* size and faults. StreamInv ties what a drain has sent, and what is       *)
(* marked, to the stream; it holds under every fault. LockInv, the row      *)
(* locks, holds as long as no drain outlives its own database session.      *)
(***************************************************************************)
EXTENDS OutboxRelay, FiniteSetTheorems, TLAPS

StreamInv ==
    /\ \A w \in Workers : \A k \in sent[w] : InStream(k)
    /\ \A k \in published : InStream(k)

LockInv ==
    /\ \A w \in Workers : batch[w] # {} => w \in live
    /\ \A w \in Workers : batch[w] \cap (published \cup erased) = {}
    /\ \A w, v \in Workers : w # v => batch[w] \cap batch[v] = {}

-----------------------------------------------------------------------------
RelayType == /\ leader \in Workers \cup {NoWorker}
             /\ pc \in [Workers -> {"standby", "lead", "drain"}]
             /\ batch \in [Workers -> SUBSET Rows]
             /\ sent \in [Workers -> SUBSET Rows]
             /\ \A w \in Workers : sent[w] \subseteq batch[w]
             /\ live \subseteq Workers

LEMMA EndType ==
    ASSUME TypeOK, NEW w \in Workers, Abdicate(w) \/ Done(w)
    PROVE  RelayType'
  BY Zenon DEF Abdicate, Done, RelayType, TypeOK

LEMMA FaultType == ASSUME TypeOK, NEW f, Fault(f) PROVE faults' \subseteq Faults
  BY OutboxRelayAssumption DEF Fault, TypeOK

LEMMA TypeInductive == TypeOK /\ [Next]_vars => TypeOK'
<1> SUFFICES ASSUME TypeOK, [Next]_vars PROVE TypeOK'
  OBVIOUS
<1> USE OutboxRelayAssumption
<1>1. ASSUME NEW k \in Rows, Append1(k) PROVE TypeOK'
  <2>1. id' \in [Rows -> Nat] /\ UNCHANGED <<published, erased, stream, relayVars>>
    BY <1>1 DEF Append1, TypeOK
  <2>2. faults' \subseteq Faults
    BY <1>1 DEF Append1, Fault, TypeOK
  <2> QED
    BY <2>1, <2>2 DEF TypeOK, relayVars
<1>2. ASSUME NEW a \in Aggs, EraseAggregate(a) PROVE TypeOK'
  BY <1>2 DEF EraseAggregate, TypeOK, relayVars, Committed
<1>3. ASSUME NEW w \in Workers, Campaign(w) PROVE TypeOK'
  BY <1>3 DEF Campaign, TypeOK
<1>4. ASSUME NEW w \in Workers, Heartbeat(w) PROVE TypeOK'
  BY <1>4 DEF Heartbeat, Abdicate, TypeOK
<1>5. ASSUME NEW w \in Workers, Select(w) PROVE TypeOK'
  BY <1>5 DEF Select, FirstRows, Eligible, Committed, TypeOK
<1>6. ASSUME NEW w \in Workers, Publish(w) PROVE TypeOK'
  <2>1. PICK k \in Rows : /\ k \in batch[w]
                          /\ stream' = Append(stream, k)
                          /\ IF w \in live
                             THEN /\ sent' = [sent EXCEPT ![w] = sent[w] \cup {k}]
                                  /\ UNCHANGED <<leader, pc, batch, live>>
                             ELSE Abdicate(w)
    BY <1>6 DEF Publish, IsNext
  <2>2. stream' \in Seq(Rows)
    BY <2>1 DEF TypeOK
  <2>3. RelayType'
    <3>1. CASE w \in live
      <4>1. sent[w] \cup {k} \in SUBSET Rows
        BY DEF TypeOK
      <4>2. sent' \in [Workers -> SUBSET Rows]
        BY <2>1, <3>1, <4>1 DEF TypeOK
      <4>3. \A v \in Workers : sent'[v] \subseteq batch'[v]
        BY <2>1, <3>1 DEF TypeOK
      <4> QED
        BY <2>1, <3>1, <4>2, <4>3 DEF TypeOK, RelayType
    <3>2. CASE w \notin live
      BY <2>1, <3>2, EndType
    <3> QED
      BY <3>1, <3>2
  <2> QED
    BY <1>6, <2>2, <2>3 DEF TypeOK, RelayType, Publish
<1>7. ASSUME NEW w \in Workers, Commit(w) PROVE TypeOK'
  <2>1. RelayType'
    BY <1>7, EndType DEF Commit
  <2>2. faults' \subseteq Faults
    BY <1>7, FaultType DEF Commit, TypeOK
  <2>3. published' \subseteq Rows
    BY <1>7 DEF Commit, TypeOK
  <2> QED
    BY <1>7, <2>1, <2>2, <2>3 DEF Commit, RelayType, TypeOK
<1>8. ASSUME NEW w \in Workers, SessionLost(w) \/ TxLost(w) PROVE TypeOK'
  <2>1. faults' \subseteq Faults
    BY <1>8, FaultType DEF SessionLost, TxLost
  <2> QED
    BY <1>8, <2>1 DEF SessionLost, TxLost, TypeOK
<1>9. ASSUME NEW w \in Workers, PublishFails(w) PROVE TypeOK'
  <2>1. stream' \in Seq(Rows)
    <3>1. PICK k \in Rows : stream' \in {stream, Append(stream, k)}
      BY <1>9 DEF PublishFails
    <3>2. Append(stream, k) \in Seq(Rows)
      BY DEF TypeOK
    <3> QED
      BY Zenon, <3>1, <3>2 DEF TypeOK
  <2>2. RelayType' /\ faults' \subseteq Faults
    BY <1>9, EndType, FaultType DEF PublishFails
  <2> QED
    BY <1>9, <2>1, <2>2 DEF PublishFails, RelayType, TypeOK
<1>10. ASSUME NEW w \in Workers, Crash(w) PROVE TypeOK'
  <2>1. RelayType' /\ faults' \subseteq Faults
    BY <1>10, EndType, FaultType DEF Crash
  <2> QED
    BY <1>10, <2>1 DEF Crash, RelayType, TypeOK
<1>11. CASE UNCHANGED vars
  BY <1>11 DEF vars, relayVars, TypeOK
<1> QED
  BY <1>1, <1>2, <1>3, <1>4, <1>5, <1>6, <1>7, <1>8, <1>9, <1>10, <1>11
     DEF Next, Work, Break

(* Every variable keeps its type.                                           *)
THEOREM TypeCorrect == Spec => []TypeOK
<1>1. Init => TypeOK
  BY OutboxRelayAssumption DEF Init, TypeOK
<1> QED
  BY <1>1, TypeInductive, PTL DEF Spec

-----------------------------------------------------------------------------
(* The stream only grows, so what is in it stays in it.                     *)
LEMMA AppendKeeps ==
    ASSUME stream \in Seq(Rows), NEW k \in Rows, stream' = Append(stream, k)
    PROVE  InStream(k)' /\ \A j \in Rows : InStream(j) => InStream(j)'
<1>1. Len(stream') = Len(stream) + 1 /\ stream'[Len(stream) + 1] = k
      /\ Len(stream) \in Nat
  OBVIOUS
<1>2. \A i \in 1..Len(stream) : stream'[i] = stream[i]
  OBVIOUS
<1> QED
  BY <1>1, <1>2 DEF InStream

LEMMA StreamUnchanged ==
    ASSUME UNCHANGED stream, NEW j \in Rows, InStream(j)
    PROVE  InStream(j)'
  BY DEF InStream

(* What is in the stream stays there, whatever the step.                    *)
LEMMA StreamGrows ==
    ASSUME TypeOK, [Next]_vars, NEW j \in Rows, InStream(j)
    PROVE  InStream(j)'
<1>1. CASE UNCHANGED stream
  BY <1>1, StreamUnchanged
<1>2. ASSUME NEW k \in Rows, stream' = Append(stream, k) PROVE InStream(j)'
  BY <1>2, AppendKeeps DEF TypeOK
<1> QED
  BY <1>1, <1>2 DEF Next, Work, Break, Append1, EraseAggregate, Campaign, Heartbeat, Select,
     Publish, Commit, SessionLost, TxLost, PublishFails, Crash, vars

LEMMA StreamInductive == TypeOK /\ StreamInv /\ [Next]_vars => StreamInv'
<1> SUFFICES ASSUME TypeOK, StreamInv, [Next]_vars PROVE StreamInv'
  OBVIOUS
<1>0. /\ \A w \in Workers : \A k \in sent[w] : k \in Rows /\ InStream(k)'
      /\ \A k \in published : k \in Rows /\ InStream(k)'
  BY StreamGrows DEF StreamInv, TypeOK
<1>1. ASSUME UNCHANGED <<batch, sent, published>> PROVE StreamInv'
  BY <1>0, <1>1 DEF StreamInv
<1>2. ASSUME NEW w \in Workers, Abdicate(w) \/ Done(w),
             published' \in {published, published \cup sent[w]} PROVE StreamInv'
  BY <1>0, <1>2 DEF StreamInv, Abdicate, Done, TypeOK
<1>3. ASSUME NEW w \in Workers, Select(w) PROVE StreamInv'
  BY <1>0, <1>3 DEF StreamInv, Select, TypeOK
<1>4. ASSUME NEW w \in Workers, NEW k \in Rows, IsNext(w, k), stream' = Append(stream, k),
             sent' = [sent EXCEPT ![w] = sent[w] \cup {k}],
             UNCHANGED <<batch, published>>
      PROVE StreamInv'
  <2>1. InStream(k)'
    BY <1>4, AppendKeeps DEF TypeOK
  <2> QED
    BY <1>0, <1>4, <2>1 DEF StreamInv, IsNext, TypeOK
<1>5. ASSUME NEW w \in Workers, Publish(w) PROVE StreamInv'
  BY <1>5, <1>2, <1>4 DEF Publish
<1>6. ASSUME NEW w \in Workers, Commit(w) PROVE StreamInv'
  BY <1>6, <1>2 DEF Commit
<1>7. ASSUME NEW w \in Workers, Heartbeat(w) \/ PublishFails(w) \/ Crash(w) PROVE StreamInv'
  BY <1>7, <1>2 DEF Heartbeat, PublishFails, Crash
<1> QED
  BY <1>1, <1>3, <1>5, <1>6, <1>7 DEF Next, Work, Break, Append1, EraseAggregate, Campaign,
     SessionLost, TxLost, vars, relayVars

(* At-least-once delivery: under every fault, a row is marked published     *)
(* only once its event is in the stream.                                    *)
THEOREM AtLeastOnce == Spec => []PublishedIsInStream
<1>1. Init => StreamInv
  BY DEF Init, StreamInv
<1>2. StreamInv => PublishedIsInStream
  BY DEF StreamInv, PublishedIsInStream
<1> QED
  BY <1>1, <1>2, TypeCorrect, StreamInductive, PTL DEF Spec

-----------------------------------------------------------------------------
(* Row locks: as long as no drain outlives its database session.            *)

LEMMA LockInductive ==
    ASSUME TypeOK, LockInv, Next, "tx" \notin faults'
    PROVE  LockInv'
<1>1. ASSUME UNCHANGED <<batch, live, published, erased>> PROVE LockInv'
  BY <1>1 DEF LockInv
<1>2. ASSUME NEW w \in Workers, Abdicate(w) \/ Done(w), UNCHANGED erased,
             published' \in {published, published \cup batch[w]} PROVE LockInv'
  <2>1. /\ \A v \in Workers : batch'[v] = (IF v = w THEN {} ELSE batch[v])
        /\ live' = live \ {w}
    BY Zenon, <1>2 DEF Abdicate, Done, TypeOK
  <2>2. published' \subseteq published \cup batch[w] /\ erased' = erased
    BY <1>2
  <2> QED
    BY <2>1, <2>2 DEF LockInv
<1>3. ASSUME NEW a \in Aggs, EraseAggregate(a) PROVE LockInv'
  <2>1. \A w \in Workers : batch[w] \subseteq Locked
    BY DEF LockInv, Locked
  <2> QED
    BY <1>3, <2>1 DEF LockInv, EraseAggregate, relayVars
<1>4. ASSUME NEW w \in Workers, Select(w) PROVE LockInv'
  <2>1. \A v \in Workers : batch[v] \subseteq Locked
    BY DEF LockInv, Locked
  <2>2. FirstRows(Eligible) \cap (published \cup erased \cup Locked) = {}
    BY DEF FirstRows, Eligible
  <2>3. \A v \in Workers : batch'[v] = (IF v = w THEN FirstRows(Eligible) ELSE batch[v])
    BY <1>4 DEF Select, TypeOK
  <2> QED
    BY <1>4, <2>1, <2>2, <2>3 DEF LockInv, Select
<1>5. ASSUME NEW w \in Workers, Publish(w) PROVE LockInv'
  BY <1>5, <1>1, <1>2 DEF Publish
<1>6. ASSUME NEW w \in Workers, Commit(w) PROVE LockInv'
  BY <1>6, <1>2 DEF Commit
<1>7. ASSUME NEW w \in Workers, Heartbeat(w) \/ PublishFails(w) \/ Crash(w) PROVE LockInv'
  BY <1>7, <1>2 DEF Heartbeat, PublishFails, Crash
<1>8. ASSUME NEW w \in Workers, TxLost(w) PROVE FALSE
  BY <1>8 DEF TxLost, Fault
<1> QED
  BY <1>8, <1>1, <1>3, <1>4, <1>5, <1>6, <1>7 DEF Next, Work, Break, Append1, Campaign,
     SessionLost, relayVars

(* A fault that has happened stays recorded.                                *)
LEMMA FaultsGrow ==
    ASSUME [Next]_vars
    PROVE  faults \subseteq faults'
  BY DEF Next, Work, Break, Append1, EraseAggregate, Campaign, Heartbeat, Select, Publish,
     Commit, SessionLost, TxLost, PublishFails, Crash, Fault, vars

(* A step that publishes k is one of a drain that holds k's lock.           *)
LEMMA PublishesItsOwn ==
    ASSUME TypeOK, [Next]_vars, NEW k \in Rows, stream' = Append(stream, k)
    PROVE  \E w \in Workers : k \in batch[w]
<1>1. stream' # stream
  <2>1. Len(stream') = Len(stream) + 1 /\ Len(stream) \in Nat
    BY DEF TypeOK
  <2> QED
    BY <2>1
<1>2. PICK w \in Workers : Publish(w) \/ PublishFails(w)
  BY Zenon, <1>1 DEF Next, Work, Break, Append1, EraseAggregate, Campaign, Heartbeat, Select,
     Commit, SessionLost, TxLost, Crash, vars
<1>3. PICK j \in Rows : IsNext(w, j) /\ stream' = Append(stream, j)
  BY <1>1, <1>2 DEF Publish, PublishFails
<1>4. j = k
  <2>1. stream \in Seq(Rows)
    BY DEF TypeOK
  <2>2. \A r \in Rows : Append(stream, r)[Len(stream) + 1] = r
    BY <2>1
  <2>3. Append(stream, k) = Append(stream, j)
    BY <1>3
  <2> QED
    BY <2>2, <2>3
<1> QED
  BY <1>3, <1>4 DEF IsNext

LEMMA LockInvariance == Spec => [](TypeOK /\ ("tx" \in faults \/ LockInv))
<1>1. Init => LockInv
  BY DEF Init, LockInv
<1>2. ASSUME TypeOK, "tx" \in faults \/ LockInv, [Next]_vars
      PROVE  ("tx" \in faults \/ LockInv)'
  <2>1. CASE "tx" \in faults
    BY <1>2, <2>1, FaultsGrow
  <2>2. CASE Next /\ LockInv
    BY <1>2, <2>2, LockInductive
  <2>3. CASE UNCHANGED vars /\ LockInv
    BY <2>3 DEF vars, relayVars, LockInv
  <2> QED
    BY <1>2, <2>1, <2>2, <2>3
<1> QED
  BY <1>1, <1>2, TypeCorrect, PTL DEF Spec

(* An event is never published after its erasure committed, as long as no   *)
(* drain outlives its database session.                                     *)
THEOREM ErasureStopsPublishing == Spec => NothingPublishedAfterErasure
<1>1. ASSUME TypeOK, "tx" \in faults \/ LockInv, [Next]_vars
      PROVE  \A k \in Rows : stream' = Append(stream, k) => k \notin erased \/ "tx" \in faults
  BY <1>1, PublishesItsOwn DEF LockInv
<1> QED
  BY <1>1, LockInvariance, PTL DEF Spec, NothingPublishedAfterErasure

(* A row that is marked is not published again, as long as no drain outlives *)
(* its database session.                                                    *)
THEOREM NoRepublish == Spec => MarkedNotRepublished
<1>1. ASSUME TypeOK, "tx" \in faults \/ LockInv, [Next]_vars
      PROVE  \A k \in published : stream' # Append(stream, k) \/ "tx" \in faults
  BY <1>1, PublishesItsOwn DEF LockInv, TypeOK
<1> QED
  BY <1>1, LockInvariance, PTL DEF Spec, MarkedNotRepublished
-----------------------------------------------------------------------------
(* Order: as long as clocks agree and no leader loses its session, the      *)
(* leader is the only relay, ids follow versions, and the event before one  *)
(* that a drain holds is in the stream or held by the same drain.           *)

Pred(k) == <<k[1], k[2] - 1>>

LeadInv ==
    /\ \A w \in Workers : pc[w] # "standby" => leader = w
    /\ \A w \in live : pc[w] = "drain"
    /\ \A w \in Workers : pc[w] # "drain" => batch[w] = {}

IdInv ==
    /\ \A k \in Committed : k[2] > 1 => Pred(k) \in Committed /\ id[Pred(k)] < id[k]
    /\ \A k \in Committed : k[2] > 1 /\ Pred(k) \in erased => k \in erased

BatchInv ==
    \A w \in Workers : \A k \in batch[w] :
        /\ k \in Committed
        /\ k[2] > 1 => Pred(k) \in batch[w] \/ InStream(Pred(k))

StreamOrder ==
    \A j \in 1..Len(stream) : stream[j][2] > 1 =>
        \E i \in 1..(j - 1) : stream[i] = Pred(stream[j])

LEMMA PredRow == ASSUME NEW k \in Rows, k[2] > 1 PROVE Pred(k) \in Rows
  BY OutboxRelayAssumption DEF Rows, Pred

LEMMA RowsFinite == IsFiniteSet(Rows)
<1>1. IsFiniteSet(1..MaxVersion)
  BY FS_Interval, OutboxRelayAssumption
<1> QED
  BY <1>1, FS_Product, OutboxRelayAssumption DEF Rows

(* The rows a drain selects include every eligible row before one of them.  *)
LEMMA FirstRowsClosed ==
    ASSUME TypeOK, NEW S \in SUBSET Rows, NEW k \in FirstRows(S), NEW j \in S, id[j] < id[k]
    PROVE  j \in FirstRows(S)
<1> DEFINE Below(x) == {i \in S : id[i] < id[x]}
<1>1. k \in S /\ Cardinality(Below(k)) < Batch
  BY DEF FirstRows
<1>2. IsFiniteSet(Below(k)) /\ Below(j) \subseteq Below(k)
  <2>1. Below(k) \subseteq Rows
    OBVIOUS
  <2>2. \A i \in S : id[i] < id[j] => id[i] < id[k]
    BY <1>1 DEF TypeOK
  <2> QED
    BY <2>1, <2>2, RowsFinite, FS_Subset
<1>3. Cardinality(Below(j)) <= Cardinality(Below(k)) /\ Cardinality(Below(j)) \in Nat
      /\ Cardinality(Below(k)) \in Nat
  BY <1>2, FS_Subset, FS_CardinalityType
<1>4. Cardinality(Below(j)) < Batch
  BY <1>1, <1>3, OutboxRelayAssumption
<1> QED
  BY <1>4 DEF FirstRows

LEMMA LeadInductive ==
    ASSUME TypeOK, LeadInv, Next, "session" \notin faults'
    PROVE  LeadInv'
<1>1. ASSUME NEW w \in Workers, Campaign(w) PROVE LeadInv'
  BY <1>1, OutboxRelayAssumption DEF Campaign, LeadInv, TypeOK
<1>2. ASSUME NEW w \in Workers, Abdicate(w) PROVE LeadInv'
  BY <1>2 DEF Abdicate, LeadInv, TypeOK
<1>3. ASSUME NEW w \in Workers, Done(w), pc[w] = "drain" PROVE LeadInv'
  BY <1>3 DEF Done, LeadInv, TypeOK
<1>4. ASSUME NEW w \in Workers, Select(w) PROVE LeadInv'
  BY <1>4 DEF Select, LeadInv, TypeOK
<1>5. ASSUME NEW w \in Workers, SessionLost(w) PROVE FALSE
  BY <1>5 DEF SessionLost, Fault
<1>6. ASSUME UNCHANGED <<leader, pc, batch>>, live' \subseteq live PROVE LeadInv'
  BY <1>6 DEF LeadInv
<1>7. ASSUME NEW w \in Workers, Heartbeat(w) \/ Publish(w) \/ Commit(w) PROVE LeadInv'
  BY <1>2, <1>3, <1>6, <1>7 DEF Heartbeat, Publish, Commit, relayVars
<1>8. ASSUME NEW w \in Workers, TxLost(w) \/ PublishFails(w) \/ Crash(w) PROVE LeadInv'
  BY <1>2, <1>3, <1>6, <1>8 DEF TxLost, PublishFails, Crash
<1>9. ASSUME NEW k \in Rows, Append1(k) PROVE LeadInv'
  BY <1>6, <1>9 DEF Append1, relayVars
<1>10. ASSUME NEW a \in Aggs, EraseAggregate(a) PROVE LeadInv'
  BY <1>6, <1>10 DEF EraseAggregate, relayVars
<1> QED
  BY Zenon, <1>1, <1>4, <1>5, <1>7, <1>8, <1>9, <1>10 DEF Next, Work, Break

LEMMA IdInductive ==
    ASSUME TypeOK, IdInv, Next, "skew" \notin faults'
    PROVE  IdInv'
<1>1. ASSUME NEW k \in Rows, Append1(k) PROVE IdInv'
  <2>1. PICK n \in 1..Cardinality(Rows) :
           /\ id' = [id EXCEPT ![k] = n]
           /\ \A v \in 1..(k[2] - 1) : id[<<k[1], v>>] < n
    BY Zenon, <1>1 DEF Append1, Fault
  <2>2. n \in Nat \ {0} /\ k \notin Committed /\ erased' = erased
    BY <1>1, <2>1 DEF Append1
  <2>3. \A j \in Rows : id'[j] = (IF j = k THEN n ELSE id[j])
    BY <2>1 DEF TypeOK
  <2>4. k[2] > 1 => Pred(k) \in Committed \ erased /\ id[Pred(k)] < n /\ Pred(k) # k
    <3>1. k[2] \in 1..MaxVersion
      BY DEF Rows
    <3>2. ASSUME k[2] > 1 PROVE k[2] - 1 \in 1..(k[2] - 1) /\ k[2] - 1 # k[2]
      BY <3>1, <3>2, OutboxRelayAssumption
    <3> QED
      BY <1>1, <2>1, <3>2 DEF Append1, Pred
  <2>5. ASSUME NEW j \in Committed', j[2] > 1
        PROVE  Pred(j) \in Committed' /\ id'[Pred(j)] < id'[j] /\ (Pred(j) \in erased' => j \in erased')
    <3>1. j \in Rows /\ Pred(j) \in Rows
      BY <2>5, PredRow DEF Committed
    <3>2. CASE j = k
      BY <2>2, <2>3, <2>4, <2>5, <3>1, <3>2 DEF Committed, TypeOK
    <3>3. CASE j # k
      <4>1. j \in Committed
        BY <2>3, <3>1, <3>3, <2>5 DEF Committed
      <4>2. Pred(j) \in Committed /\ id[Pred(j)] < id[j] /\ (Pred(j) \in erased => j \in erased)
        BY <4>1, <2>5 DEF IdInv
      <4>3. Pred(j) # k
        BY <4>2, <2>2
      <4> QED
        BY <2>2, <2>3, <3>1, <3>3, <4>2, <4>3 DEF Committed
    <3> QED
      BY <3>2, <3>3
  <2> QED
    BY <2>5 DEF IdInv
<1>2. ASSUME NEW a \in Aggs, EraseAggregate(a) PROVE IdInv'
  <2>1. /\ id' = id /\ Committed' = Committed
        /\ erased' = erased \cup {k \in Committed : k[1] = a}
    BY <1>2 DEF EraseAggregate, Committed
  <2>2. \A k \in Committed : Pred(k)[1] = k[1]
    BY DEF Pred
  <2> QED
    BY <2>1, <2>2 DEF IdInv
<1>3. ASSUME UNCHANGED <<id, erased>> PROVE IdInv'
  BY <1>3 DEF IdInv, Committed
<1> QED
  BY <1>1, <1>2, <1>3 DEF Next, Work, Break, Campaign, Heartbeat, Select, Publish, Commit,
     SessionLost, TxLost, PublishFails, Crash

LEMMA CommittedGrows ==
    ASSUME TypeOK, [Next]_vars
    PROVE  Committed \subseteq Committed'
<1>1. ASSUME NEW k \in Rows, Append1(k) PROVE Committed \subseteq Committed'
  <2>1. PICK n \in 1..Cardinality(Rows) : id' = [id EXCEPT ![k] = n]
    BY Zenon, <1>1 DEF Append1
  <2> QED
    BY <2>1 DEF Committed, TypeOK
<1>2. ASSUME UNCHANGED id PROVE Committed \subseteq Committed'
  BY <1>2 DEF Committed
<1> QED
  BY <1>1, <1>2 DEF Next, Work, Break, EraseAggregate, Campaign, Heartbeat, Select, Publish,
     Commit, SessionLost, TxLost, PublishFails, Crash, vars

LEMMA BatchInductive ==
    ASSUME TypeOK, StreamInv, LeadInv, IdInv, BatchInv, Next
    PROVE  BatchInv'
<1>1. \A j \in Rows : InStream(j) => InStream(j)'
  BY StreamGrows
<1>2. Committed \subseteq Committed'
  BY CommittedGrows
<1>3. ASSUME NEW w \in Workers, Select(w) PROVE BatchInv'
  <2>1. live = {}
    BY <1>3 DEF Select, LeadInv, TypeOK
  <2>2. Eligible = Committed \ (published \cup erased)
    BY <2>1 DEF Eligible, Locked
  <2>3. \A v \in Workers : batch'[v] = (IF v = w THEN FirstRows(Eligible) ELSE batch[v])
    BY <1>3 DEF Select, TypeOK
  <2>4. ASSUME NEW k \in FirstRows(Eligible)
        PROVE  k \in Committed /\ (k[2] > 1 => Pred(k) \in FirstRows(Eligible) \/ InStream(Pred(k)))
    <3>1. k \in Eligible /\ Eligible \in SUBSET Rows
      BY DEF FirstRows, Eligible, Committed
    <3>2. ASSUME k[2] > 1 PROVE Pred(k) \in FirstRows(Eligible) \/ InStream(Pred(k))
      <4>1. Pred(k) \in Committed /\ id[Pred(k)] < id[k] /\ Pred(k) \notin erased
        BY <2>2, <3>1, <3>2 DEF IdInv
      <4>2. CASE Pred(k) \in published
        BY <4>2 DEF StreamInv
      <4>3. CASE Pred(k) \notin published
        BY <2>2, <3>1, <4>1, <4>3, FirstRowsClosed
      <4> QED
        BY <4>2, <4>3
    <3> QED
      BY <2>2, <3>1, <3>2
  <2>5. UNCHANGED <<id, stream>>
    BY <1>3 DEF Select
  <2> QED
    BY <2>3, <2>4, <2>5 DEF BatchInv, Committed, InStream
<1>4. ASSUME \A w \in Workers : batch'[w] \in {batch[w], {}} PROVE BatchInv'
  BY <1>1, <1>2, <1>4, PredRow DEF BatchInv, TypeOK
<1>5. ASSUME NEW w \in Workers, Abdicate(w) \/ Done(w) PROVE BatchInv'
  BY <1>4, <1>5 DEF Abdicate, Done, TypeOK
<1>6. ASSUME UNCHANGED batch PROVE BatchInv'
  BY Zenon, <1>4, <1>6
<1>7. ASSUME NEW w \in Workers, Campaign(w) \/ Heartbeat(w) \/ Publish(w) \/ Commit(w) PROVE BatchInv'
  BY Zenon, <1>5, <1>6, <1>7 DEF Campaign, Heartbeat, Publish, Commit, relayVars
<1>8. ASSUME NEW w \in Workers, Break(w) PROVE BatchInv'
  BY Zenon, <1>5, <1>6, <1>8 DEF Break, SessionLost, TxLost, PublishFails, Crash
<1>9. ASSUME NEW k \in Rows, Append1(k) PROVE BatchInv'
  BY Zenon, <1>6, <1>9 DEF Append1, relayVars
<1>10. ASSUME NEW a \in Aggs, EraseAggregate(a) PROVE BatchInv'
  BY Zenon, <1>6, <1>10 DEF EraseAggregate, relayVars
<1> QED
  BY Zenon, <1>3, <1>7, <1>8, <1>9, <1>10 DEF Next, Work

LEMMA OrderInductive ==
    ASSUME TypeOK, StreamInv, IdInv, BatchInv, StreamOrder, Next
    PROVE  StreamOrder'
<1>1. ASSUME NEW w \in Workers, NEW k \in Rows, IsNext(w, k), stream' = Append(stream, k)
      PROVE  StreamOrder'
  <2>1. k[2] > 1 => InStream(Pred(k))
    <3> SUFFICES ASSUME k[2] > 1, Pred(k) \in batch[w] PROVE Pred(k) \in sent[w]
      BY <1>1 DEF BatchInv, IsNext, StreamInv
    <3>1. id[Pred(k)] < id[k] /\ id[k] \in Nat /\ id[Pred(k)] \in Nat
      BY <1>1, PredRow DEF IdInv, BatchInv, IsNext, TypeOK
    <3> QED
      BY <1>1, <3>1 DEF IsNext
  <2>2. /\ Len(stream) \in Nat /\ Len(stream') = Len(stream) + 1
        /\ stream'[Len(stream) + 1] = k
        /\ \A i \in 1..Len(stream) : stream'[i] = stream[i]
    BY <1>1 DEF TypeOK
  <2>3. ASSUME NEW j \in 1..Len(stream'), stream'[j][2] > 1
        PROVE  \E i \in 1..(j - 1) : stream'[i] = Pred(stream'[j])
    <3>1. CASE j \in 1..Len(stream)
      <4>1. PICK i \in 1..(j - 1) : stream[i] = Pred(stream[j])
        BY <2>2, <2>3, <3>1 DEF StreamOrder
      <4> QED
        BY <2>2, <3>1, <4>1
    <3>2. CASE j = Len(stream) + 1
      BY <2>1, <2>2, <2>3, <3>2 DEF InStream
    <3> QED
      BY <2>2, <3>1, <3>2
  <2> QED
    BY <2>3 DEF StreamOrder
<1>2. ASSUME UNCHANGED stream PROVE StreamOrder'
  BY <1>2 DEF StreamOrder
<1> QED
  BY Zenon, <1>1, <1>2 DEF Next, Work, Break, Append1, EraseAggregate, Campaign, Heartbeat, Select,
     Publish, Commit, SessionLost, TxLost, PublishFails, Crash

OrderInv ==
    /\ "session" \in faults \/ LeadInv
    /\ faults \cap {"skew", "session"} # {} \/ (LeadInv /\ IdInv /\ BatchInv /\ StreamOrder)

LEMMA OrderInvariance == Spec => [](TypeOK /\ StreamInv /\ OrderInv)
<1>1. Init => StreamInv /\ OrderInv
  BY DEF Init, StreamInv, OrderInv, LeadInv, IdInv, BatchInv, StreamOrder, Committed
<1>2. ASSUME TypeOK, StreamInv, OrderInv, [Next]_vars PROVE OrderInv'
  <2>1. faults \subseteq faults'
    BY <1>2, FaultsGrow
  <2>2. CASE Next
    <3>1. ("session" \in faults \/ LeadInv)'
      BY <1>2, <2>1, <2>2, LeadInductive DEF OrderInv
    <3>2. ASSUME faults' \cap {"skew", "session"} = {} PROVE (LeadInv /\ IdInv /\ BatchInv /\ StreamOrder)'
      <4>1. LeadInv /\ IdInv /\ BatchInv /\ StreamOrder
        BY <1>2, <2>1, <3>2 DEF OrderInv
      <4> QED
        BY <1>2, <2>2, <3>2, <4>1, LeadInductive, IdInductive, BatchInductive, OrderInductive
    <3> QED
      BY <3>1, <3>2 DEF OrderInv
  <2>3. CASE UNCHANGED vars
    BY <1>2, <2>3 DEF vars, relayVars, OrderInv, LeadInv, IdInv, BatchInv, StreamOrder,
       Committed, InStream
  <2> QED
    BY <1>2, <2>2, <2>3
<1> QED
  BY <1>1, <1>2, TypeCorrect, StreamInductive, PTL DEF Spec

(* The relay keeps the order of an aggregate's versions, as long as clocks  *)
(* agree and no leader loses its session, and one relay drains at a time,   *)
(* as long as no leader loses its session; every other fault is allowed.    *)
THEOREM OrderKept == Spec => []RelayKept
<1>1. ASSUME OrderInv PROVE PublishedInOrder
  <2>1. CASE faults \cap {"skew", "session"} # {}
    BY <2>1 DEF PublishedInOrder
  <2>2. CASE StreamOrder
    BY Zenon, <2>2 DEF StreamOrder, PublishedInOrder, Pred
  <2> QED
    BY <1>1, <2>1, <2>2 DEF OrderInv
<1>2. ASSUME OrderInv PROVE OneRelay
  <2>1. CASE "session" \in faults
    BY <2>1 DEF OneRelay
  <2>2. CASE LeadInv
    <3>1. {w \in Workers : pc[w] # "standby"} \subseteq {leader}
      BY <2>2 DEF LeadInv
    <3>2. IsFiniteSet({leader}) /\ Cardinality({leader}) = 1
      BY FS_Singleton
    <3> QED
      BY <3>1, <3>2, FS_Subset DEF OneRelay
  <2> QED
    BY <1>2, <2>1, <2>2 DEF OrderInv
<1>3. TypeOK /\ StreamInv /\ OrderInv => RelayKept
  BY <1>1, <1>2 DEF RelayKept
<1> QED
  BY <1>3, OrderInvariance, PTL
=============================================================================
