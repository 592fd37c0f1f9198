---------------------------- MODULE OutboxRelay ----------------------------
(***************************************************************************)
(* The outbox relay: workers campaign for a session advisory lock (Elector) *)
(* and the leader drains the outbox (Relay). A drain selects the first      *)
(* unpublished rows in id order FOR UPDATE SKIP LOCKED, publishes them one  *)
(* by one to the event stream, marks them in its transaction and commits.   *)
(* The lock lives in a session of its own: when that session dies another   *)
(* worker may lead while the old leader has not yet missed a heartbeat.     *)
(* Commands append rows and erasures exclude them (CommandPlane).           *)
(***************************************************************************)
EXTENDS Integers, Sequences, FiniteSets

CONSTANTS
    Workers,     \* worker replicas
    NoWorker,    \* the advisory lock is free
    Aggs,        \* aggregates
    MaxVersion,  \* versions per aggregate
    Batch,       \* rows per drain (WithRelayBatch)
    Faults,      \* the faults that may happen
    MaxFaults    \* how many of them

FaultKinds == {"session",  \* the elector's session dies
               "tx",       \* the drain's session dies, the worker not noticing
               "publish",  \* Redis fails the publish, before or after adding
               "reply",    \* the drain's COMMIT succeeds, its reply is lost
               "crash",    \* the worker dies
               "skew"}     \* a writer's clock is behind another's

ASSUME OutboxRelayAssumption ==
    /\ NoWorker \notin Workers
    /\ IsFiniteSet(Aggs)
    /\ MaxVersion \in Nat /\ MaxFaults \in Nat
    /\ Batch \in Nat \ {0}
    /\ Faults \subseteq FaultKinds

Rows == Aggs \X (1..MaxVersion)

VARIABLES
    id,         \* id[k]: the row's ULID as a number, 0 while not committed
    published,  \* rows with published_at set
    erased,     \* rows with erased_at set
    stream,     \* the event stream
    leader,     \* holder of the advisory lock
    pc,         \* "standby", "lead" (between drains) or "drain"
    batch,      \* rows selected, and locked, by the worker's transaction
    sent,       \* those of them already published and marked
    live,       \* workers whose drain's transaction still exists in Postgres
    faults      \* the faults that have happened, each at most once

relayVars == <<leader, pc, batch, sent, live>>
vars == <<id, published, erased, stream, relayVars, faults>>

TypeOK ==
    /\ id \in [Rows -> Nat]
    /\ published \subseteq Rows /\ erased \subseteq Rows
    /\ stream \in Seq(Rows)
    /\ leader \in Workers \cup {NoWorker}
    /\ pc \in [Workers -> {"standby", "lead", "drain"}]
    /\ batch \in [Workers -> SUBSET Rows]
    /\ sent \in [Workers -> SUBSET Rows]
    /\ \A w \in Workers : sent[w] \subseteq batch[w]
    /\ live \subseteq Workers
    /\ faults \subseteq Faults

Init ==
    /\ id = [k \in Rows |-> 0]
    /\ published = {} /\ erased = {}
    /\ stream = <<>>
    /\ leader = NoWorker
    /\ pc = [w \in Workers |-> "standby"]
    /\ batch = [w \in Workers |-> {}]
    /\ sent = [w \in Workers |-> {}]
    /\ live = {}
    /\ faults = {}

Fault(f) == /\ f \in Faults \ faults /\ Cardinality(faults) < MaxFaults
            /\ faults' = faults \cup {f}

Committed == {k \in Rows : id[k] # 0}
Locked == UNION {batch[w] : w \in live}
-----------------------------------------------------------------------------
(* The writers of the outbox                                                *)

(* The next version of a commits. Its id was minted under the aggregate's   *)
(* lock, so it is above the earlier versions' unless clocks disagree; it    *)
(* may be below the id of another aggregate's row that committed first.     *)
Append1(k) ==
    /\ k \notin Committed
    /\ \A v \in 1..(k[2] - 1) : <<k[1], v>> \in Committed \ erased
    /\ \E n \in 1..Cardinality(Rows) :
          /\ \A j \in Rows : id[j] # n
          /\ id' = [id EXCEPT ![k] = n]
          /\ \/ /\ \A v \in 1..(k[2] - 1) : id[<<k[1], v>>] < n
                /\ UNCHANGED faults
             \/ /\ \E v \in 1..(k[2] - 1) : id[<<k[1], v>>] > n
                /\ Fault("skew")
    /\ UNCHANGED <<published, erased, stream, relayVars>>

(* Mutant: the erasure does not wait for rows a drain has locked.           *)
EraseWithoutLock(a) ==
    LET rows == {k \in Committed : k[1] = a}
    IN  /\ rows # {} /\ ~ rows \subseteq erased
        /\ erased' = erased \cup rows
        /\ UNCHANGED <<id, published, stream, relayVars, faults>>

(* An erasure updates every row of a, so it waits for a drain that has one. *)
EraseAggregate(a) ==
    LET rows == {k \in Committed : k[1] = a}
    IN  /\ rows # {} /\ ~ rows \subseteq erased
        /\ rows \cap Locked = {}
        /\ erased' = erased \cup rows
        /\ UNCHANGED <<id, published, stream, relayVars, faults>>
-----------------------------------------------------------------------------
(* Elector                                                                  *)

(* pg_try_advisory_lock succeeds: the worker runs the relay.                *)
Campaign(w) ==
    /\ pc[w] = "standby"
    /\ leader = NoWorker
    /\ leader' = w
    /\ pc' = [pc EXCEPT ![w] = "lead"]
    /\ UNCHANGED <<id, published, erased, stream, batch, sent, live, faults>>

(* The dedicated session dies and the lock with it.                         *)
SessionLost(w) ==
    /\ leader = w
    /\ Fault("session")
    /\ leader' = NoWorker
    /\ UNCHANGED <<id, published, erased, stream, pc, batch, sent, live>>

(* lead returns: the transaction is rolled back and the lock released, if   *)
(* it is still this worker's.                                               *)
Abdicate(w) ==
    /\ pc' = [pc EXCEPT ![w] = "standby"]
    /\ leader' = IF leader = w THEN NoWorker ELSE leader
    /\ batch' = [batch EXCEPT ![w] = {}]
    /\ sent' = [sent EXCEPT ![w] = {}]
    /\ live' = live \ {w}

(* The watchdog's query fails on the dead session and cancels lead.         *)
Heartbeat(w) ==
    /\ pc[w] # "standby" /\ leader # w
    /\ Abdicate(w)
    /\ UNCHANGED <<id, published, erased, stream, faults>>
-----------------------------------------------------------------------------
(* Relay                                                                    *)

Eligible == Committed \ (published \cup erased \cup Locked)

(* The first Batch rows of S in id order.                                   *)
FirstRows(S) == {k \in S : Cardinality({j \in S : id[j] < id[k]}) < Batch}

(* Mutant: the drain resumes after the last id published instead of         *)
(* looking for rows without published_at.                                   *)
SelectPastStream(w) ==
    LET tip == {k \in Committed : \E i \in 1..Len(stream) : stream[i] = k}
        later == {k \in Eligible : \A j \in tip : id[j] < id[k]}
    IN  /\ pc[w] = "lead"
        /\ later # {}
        /\ batch' = [batch EXCEPT ![w] = FirstRows(later)]
        /\ sent' = [sent EXCEPT ![w] = {}]
        /\ live' = live \cup {w}
        /\ pc' = [pc EXCEPT ![w] = "drain"]
        /\ UNCHANGED <<id, published, erased, stream, leader, faults>>

(* drainOnce's select.                                                      *)
Select(w) ==
    /\ pc[w] = "lead"
    /\ Eligible # {}
    /\ batch' = [batch EXCEPT ![w] = FirstRows(Eligible)]
    /\ sent' = [sent EXCEPT ![w] = {}]
    /\ live' = live \cup {w}
    /\ pc' = [pc EXCEPT ![w] = "drain"]
    /\ UNCHANGED <<id, published, erased, stream, leader, faults>>

(* Postgres loses the drain's session and frees its row locks.              *)
TxLost(w) ==
    /\ w \in live
    /\ Fault("tx")
    /\ live' = live \ {w}
    /\ UNCHANGED <<id, published, erased, stream, leader, pc, batch, sent>>

(* Mutant: no ORDER BY id.                                                  *)
IsAny(w, k) == k \in batch[w] \ sent[w]

IsNext(w, k) == /\ k \in batch[w] \ sent[w]
                /\ \A j \in batch[w] \ sent[w] : id[k] <= id[j]

(* publishBatch's loop: XADD, then the mark, which fails on a lost session. *)
Publish(w) ==
    /\ pc[w] = "drain"
    /\ \E k \in Rows :
          /\ IsNext(w, k)
          /\ stream' = Append(stream, k)
          /\ IF w \in live
             THEN /\ sent' = [sent EXCEPT ![w] = sent[w] \cup {k}]
                  /\ UNCHANGED <<leader, pc, batch, live>>
             ELSE Abdicate(w)
    /\ UNCHANGED <<id, published, erased, faults>>

(* Redis answers with an error; the pipeline may have added the entry. A    *)
(* row that does not decode ends the batch the same way, with nothing added *)
(* (AppendOutbox writes none that does not).                                *)
PublishFails(w) ==
    /\ pc[w] = "drain"
    /\ Fault("publish")
    /\ \E k \in Rows : IsNext(w, k) /\ stream' \in {stream, Append(stream, k)}
    /\ Abdicate(w)
    /\ UNCHANGED <<id, published, erased>>

Done(w) == /\ pc' = [pc EXCEPT ![w] = "lead"]
           /\ batch' = [batch EXCEPT ![w] = {}]
           /\ sent' = [sent EXCEPT ![w] = {}]
           /\ live' = live \ {w}
           /\ UNCHANGED leader

(* Mutant: the marks are committed row by row, before the publish.          *)
CommitEarly(w) ==
    /\ pc[w] = "drain"
    /\ w \in live
    /\ published' = published \cup batch[w]
    /\ Done(w)
    /\ UNCHANGED <<id, erased, stream, faults>>

(* All rows are published: COMMIT. A lost reply is an error to the relay.   *)
Commit(w) ==
    /\ pc[w] = "drain"
    /\ sent[w] = batch[w]
    /\ \/ /\ w \in live
          /\ published' = published \cup batch[w]
          /\ Done(w)
          /\ UNCHANGED faults
       \/ /\ w \in live
          /\ Fault("reply")
          /\ published' = published \cup batch[w]
          /\ Abdicate(w)
       \/ /\ w \notin live
          /\ Abdicate(w)
          /\ UNCHANGED <<published, faults>>
    /\ UNCHANGED <<id, erased, stream>>

(* The worker dies; Postgres drops both its sessions. One that outlives the *)
(* other is a SessionLost or a TxLost before the crash.                     *)
Crash(w) ==
    /\ pc[w] # "standby"
    /\ Fault("crash")
    /\ Abdicate(w)
    /\ UNCHANGED <<id, published, erased, stream>>
-----------------------------------------------------------------------------
Work(w) == Campaign(w) \/ Heartbeat(w) \/ Select(w) \/ Publish(w) \/ Commit(w)

Break(w) == SessionLost(w) \/ TxLost(w) \/ PublishFails(w) \/ Crash(w)

Next == \/ \E k \in Rows : Append1(k)
        \/ \E a \in Aggs : EraseAggregate(a)
        \/ \E w \in Workers : Work(w) \/ Break(w)

Spec == Init /\ [][Next]_vars
-----------------------------------------------------------------------------
(* Properties                                                               *)

InStream(k) == \E i \in 1..Len(stream) : stream[i] = k

(* At least once: a row is marked published only when its event is in the   *)
(* stream, whatever fails in between (relay.go: "rows are published before  *)
(* being marked").                                                          *)
PublishedIsInStream == \A k \in published : InStream(k)

(* No event is published once its erasure has committed: the row locks of   *)
(* a drain hold the erasure back (retention.go: "Relay row locks join any   *)
(* in-flight local publication"), until a drain outlives its session.       *)
NothingPublishedAfterErasure ==
    [][\A k \in Rows : stream' = Append(stream, k) =>
          k \notin erased \/ "tx" \in faults]_vars

(* The first publications of an aggregate's events are in version order     *)
(* ("a monotonic ULID minted at command time, which the relay relies on for *)
(* ordered publishing", commands-and-events.mdx:149), until writers' clocks *)
(* disagree or two relays drain side by side.                               *)
PublishedInOrder ==
    \A j \in 1..Len(stream) : stream[j][2] > 1 =>
        \/ \E i \in 1..(j - 1) : stream[i] = <<stream[j][1], stream[j][2] - 1>>
        \/ faults \cap {"skew", "session"} # {}

(* A row that is marked is not published again: a drain's locks and the     *)
(* recheck of published_at keep two relays off the same row, until one      *)
(* outlives its session.                                                    *)
MarkedNotRepublished ==
    [][\A k \in published : stream' # Append(stream, k) \/ "tx" \in faults]_vars

(* One relay at a time ("Postgres lock semantics make split-brain           *)
(* impossible", decisions.mdx:28), until a leader loses the session that    *)
(* holds the advisory lock and has not missed a heartbeat yet.              *)
OneRelay ==
    \/ Cardinality({w \in Workers : pc[w] # "standby"}) <= 1
    \/ "session" \in faults

(* The relay (relay.go, leader.go): versions of an aggregate are published  *)
(* in order unless clocks or sessions fail, and one relay drains unless a   *)
(* session is lost.                                                         *)
RelayKept == TypeOK /\ PublishedInOrder /\ OneRelay

(* Every committed event reaches the stream unless it is erased first,      *)
(* through crashes, failed publishes and changes of leader: the relay       *)
(* catches up with the commits again and again.                             *)
EventuallyPublished == []<>(Committed \subseteq published \cup erased)
=============================================================================
