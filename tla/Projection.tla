----------------------------- MODULE Projection -----------------------------
(***************************************************************************)
(* One projection: consumers of one Redis consumer group run Engine.handle  *)
(* on the entries of the event stream. A read gives a consumer a batch of   *)
(* new entries, which stay pending until acknowledged; a consumer that      *)
(* starts first claims stale pending entries of the others. Per entry it    *)
(* writes the sink (graph or search), records the applied version and       *)
(* acknowledges. Entries of one aggregate may be in the hands of several    *)
(* consumers at once, so only the sink's version gate orders them.          *)
(***************************************************************************)
EXTENDS Integers, Sequences

CONSTANTS
    Consumers,   \* replicas of the projection engine
    NoConsumer,  \* the entry is not pending
    Aggs,        \* aggregates
    Hist,        \* Hist[a][v]: type of the event of version v of a
    Poison,      \* events no applier can apply (upcast or payload errors)
    Sinks,       \* the kinds of sink: "graph" or "search"
    Count,       \* entries per read (64 in the code)
    Faults,      \* Faults[s]: the faults that may happen with a sink of kind s
    MaxStream    \* bound on the length of the stream

Verbs == {"created", "updated", "deleted"}

FaultKinds == {"reorder", \* the relay publishes a version before an earlier one
               "apply",   \* the sink or the bookkeeping answers with an error
               "ack",     \* XACK fails
               "crash",   \* the consumer dies or its read fails
               "expire"}  \* gc_deletes passes after a deletion

ASSUME ProjectionAssumption ==
    /\ NoConsumer \notin Consumers
    /\ Hist \in [Aggs -> Seq(Verbs)]
    /\ \A a \in Aggs : \A v \in 1..Len(Hist[a]) :
          Hist[a][v] = "deleted" => v = Len(Hist[a])   \* AggregateLog
    /\ Sinks \subseteq {"graph", "search"}
    /\ Count \in Nat \ {0}
    /\ Faults \in [Sinks -> SUBSET FaultKinds]
    /\ MaxStream \in Nat

Events == UNION {{a} \X (1..Len(Hist[a])) : a \in Aggs}

VARIABLES
    sink,       \* the kind of this projection's sink, which never changes
    stream,     \* the events in the stream
    delivered,  \* the group's last delivered entry
    owner,      \* owner[i]: the consumer entry i is pending for
    pc,         \* "down", "claim", "ready", "applied" or "ack"
    todo,       \* entries of the consumer's batch not yet handled
    doc,        \* version of the document or node in the sink, 0 if none
    gate,       \* version the sink compares a write with
    forgotten,  \* history: aggregates whose deletion the sink has forgotten
    applied,    \* the recorded applied version (fabriq_projection_applied)
    faults      \* the faults that have happened, each at most once

groupVars == <<delivered, owner>>
sinkVars == <<sink, doc, gate, forgotten, applied>>
vars == <<stream, groupVars, pc, todo, sinkVars, faults>>

Entries == 1..MaxStream

TypeOK ==
    /\ sink \in Sinks
    /\ stream \in Seq(Events) /\ Len(stream) <= MaxStream
    /\ delivered \in 0..Len(stream)
    /\ owner \in [Entries -> Consumers \cup {NoConsumer}]
    /\ \A i \in Entries : owner[i] # NoConsumer => i <= delivered
    /\ pc \in [Consumers -> {"down", "claim", "ready", "applied", "ack"}]
    /\ todo \in [Consumers -> SUBSET (1..delivered)]
    /\ \A c \in Consumers : pc[c] \in {"applied", "ack"} => todo[c] # {}
    /\ doc \in [Aggs -> Nat] /\ gate \in [Aggs -> Nat] /\ applied \in [Aggs -> Nat]
    /\ forgotten \subseteq Aggs
    /\ faults \subseteq Faults[sink]

Init ==
    /\ sink \in Sinks
    /\ stream = <<>>
    /\ delivered = 0
    /\ owner = [i \in Entries |-> NoConsumer]
    /\ pc = [c \in Consumers |-> "down"]
    /\ todo = [c \in Consumers |-> {}]
    /\ doc = [a \in Aggs |-> 0]
    /\ gate = [a \in Aggs |-> 0]
    /\ forgotten = {}
    /\ applied = [a \in Aggs |-> 0]
    /\ faults = {}

Fault(f) == f \in Faults[sink] \ faults /\ faults' = faults \cup {f}

InStream(k) == \E i \in 1..Len(stream) : stream[i] = k
Pending == {i \in Entries : owner[i] # NoConsumer}
IsFirst(c, i) == i \in todo[c] /\ \A j \in todo[c] : i <= j
-----------------------------------------------------------------------------
(* The relay adds an event, perhaps again; in version order the first time  *)
(* unless two relays or two clocks interfere (OutboxRelay).                 *)
Publish(k) ==
    /\ Len(stream) < MaxStream
    /\ \/ k[2] = 1
       \/ InStream(<<k[1], k[2] - 1>>)
       \/ "reorder" \in Faults[sink]
    /\ stream' = Append(stream, k)
    /\ UNCHANGED <<groupVars, pc, todo, sinkVars, faults>>
-----------------------------------------------------------------------------
(* Consume                                                                  *)

(* supervise (re)starts the engine; the group exists or is created.         *)
Run(c) ==
    /\ pc[c] = "down"
    /\ pc' = [pc EXCEPT ![c] = "claim"]
    /\ UNCHANGED <<stream, groupVars, todo, sinkVars, faults>>

(* Mutant: a restarted consumer reads new entries only.                     *)
claimNothing(c) ==
    /\ pc[c] = "claim"
    /\ pc' = [pc EXCEPT ![c] = "ready"]
    /\ UNCHANGED <<stream, groupVars, todo, sinkVars, faults>>

(* XAUTOCLAIM takes entries pending for more than a second: all this        *)
(* consumer left behind, as a restart takes longer than that, and some of   *)
(* the others', whether their owner is gone, slow, or done without an ack.  *)
claimStale(c) ==
    /\ pc[c] = "claim"
    /\ \E S \in SUBSET Pending :
          /\ {i \in Pending : owner[i] = c} \subseteq S
          /\ owner' = [i \in Entries |-> IF i \in S THEN c ELSE owner[i]]
          /\ todo' = [todo EXCEPT ![c] = S]
    /\ pc' = [pc EXCEPT ![c] = "ready"]
    /\ UNCHANGED <<stream, delivered, sinkVars, faults>>

(* The first n entries after the last delivered one.                        *)
New(n) == (delivered + 1)..(delivered + n)

(* XREADGROUP gives the next entries to this consumer.                      *)
XReadGroup(c) ==
    /\ pc[c] = "ready" /\ todo[c] = {}
    /\ \E n \in 1..Count :
          /\ delivered + n <= Len(stream)
          /\ todo' = [todo EXCEPT ![c] = New(n)]
          /\ owner' = [i \in Entries |-> IF i \in New(n) THEN c ELSE owner[i]]
          /\ delivered' = delivered + n
    /\ UNCHANGED <<stream, pc, sinkVars, faults>>
-----------------------------------------------------------------------------
(* The sinks                                                                *)

IsDelete(k) == Hist[k[1]][k[2]] = "deleted"

(* Mutant: an ungated write.                                                *)
PassesAlways(g, k) == TRUE

(* version <= incoming; a write that does not pass is dropped and counts as *)
(* a success. NodeDelete is the exception: it carries no version.           *)
Passes(g, k) == g[k[1]] <= k[2] \/ (sink = "graph" /\ IsDelete(k))

DocAfter(d, g, k) ==
    IF Passes(g, k) THEN [d EXCEPT ![k[1]] = IF IsDelete(k) THEN 0 ELSE k[2]] ELSE d

(* The search engine remembers the version of a deleted document, for a     *)
(* while (Expire); a deleted node leaves nothing behind.                    *)
GateAfter(g, k) ==
    IF Passes(g, k)
    THEN [g EXCEPT ![k[1]] = IF sink = "graph" /\ IsDelete(k) THEN 0 ELSE k[2]]
    ELSE g

ForgottenAfter(k) ==
    IF sink = "graph" /\ IsDelete(k) THEN forgotten \cup {k[1]} ELSE forgotten

(* Elasticsearch drops the version of a deleted document after gc_deletes,  *)
(* 60 seconds unless set; ensureIndex and its templates set it nowhere.     *)
Expire(a) ==
    /\ sink = "search"
    /\ doc[a] = 0 /\ gate[a] > 0
    /\ Fault("expire")
    /\ gate' = [gate EXCEPT ![a] = 0]
    /\ forgotten' = forgotten \cup {a}
    /\ UNCHANGED <<sink, stream, groupVars, pc, todo, doc, applied>>
-----------------------------------------------------------------------------
(* Engine.handle and Engine.apply                                           *)

ApplyMutations(c) ==
    /\ pc[c] = "ready"
    /\ \E i \in Entries :
          /\ IsFirst(c, i)
          /\ stream[i] \notin Poison
          /\ doc' = DocAfter(doc, gate, stream[i])
          /\ gate' = GateAfter(gate, stream[i])
          /\ forgotten' = ForgottenAfter(stream[i])
    /\ pc' = [pc EXCEPT ![c] = "applied"]
    /\ UNCHANGED <<sink, stream, groupVars, todo, applied, faults>>

(* An event that cannot apply is acknowledged and nothing else.             *)
Skip(c) ==
    /\ pc[c] = "ready"
    /\ \E i \in Entries : IsFirst(c, i) /\ stream[i] \in Poison
    /\ pc' = [pc EXCEPT ![c] = "ack"]
    /\ UNCHANGED <<stream, groupVars, todo, sinkVars, faults>>

(* GREATEST(version, EXCLUDED.version)                                      *)
Greatest(a, v) == IF applied[a] < v THEN v ELSE applied[a]

SetApplied(c) ==
    /\ pc[c] = "applied"
    /\ \E i \in Entries :
          /\ IsFirst(c, i)
          /\ applied' = [applied EXCEPT ![stream[i][1]] = Greatest(stream[i][1], stream[i][2])]
    /\ pc' = [pc EXCEPT ![c] = "ack"]
    /\ UNCHANGED <<sink, stream, groupVars, todo, doc, gate, forgotten, faults>>

(* The entry is dealt with: on to the next one of the batch.                *)
NextEntry(c) ==
    /\ pc' = [pc EXCEPT ![c] = "ready"]
    /\ \E i \in Entries : IsFirst(c, i) /\ todo' = [todo EXCEPT ![c] = todo[c] \ {i}]

(* XACK, by whoever handled the entry; its error is ignored.                *)
Ack(c) ==
    /\ pc[c] = "ack"
    /\ \/ /\ \E i \in Entries : IsFirst(c, i) /\ owner' = [owner EXCEPT ![i] = NoConsumer]
          /\ UNCHANGED faults
       \/ /\ Fault("ack")
          /\ UNCHANGED owner
    /\ NextEntry(c)
    /\ UNCHANGED <<stream, delivered, sinkVars>>

(* Mutant: the entry is acknowledged although its handler failed.           *)
ApplyFailsAcked(c) ==
    /\ pc[c] \in {"ready", "applied"}
    /\ \E i \in Entries : IsFirst(c, i) /\ owner' = [owner EXCEPT ![i] = NoConsumer]
    /\ Fault("apply")
    /\ NextEntry(c)
    /\ UNCHANGED <<stream, delivered, sinkVars>>

(* The sink fails (at "ready") or SetApplied does (at "applied", or the     *)
(* sink's reply was lost): no ack, the entry stays pending.                 *)
ApplyFails(c) ==
    /\ pc[c] \in {"ready", "applied"}
    /\ todo[c] # {}
    /\ Fault("apply")
    /\ NextEntry(c)
    /\ UNCHANGED <<stream, groupVars, sinkVars>>

Crash(c) ==
    /\ pc[c] # "down"
    /\ Fault("crash")
    /\ pc' = [pc EXCEPT ![c] = "down"]
    /\ todo' = [todo EXCEPT ![c] = {}]
    /\ UNCHANGED <<stream, groupVars, sinkVars>>
-----------------------------------------------------------------------------
Handle(c) == ApplyMutations(c) \/ Skip(c) \/ SetApplied(c) \/ Ack(c)

Next == \/ \E k \in Events : Publish(k)
        \/ \E a \in Aggs : Expire(a)
        \/ \E c \in Consumers :
              \/ Run(c) \/ claimStale(c) \/ XReadGroup(c) \/ Handle(c)
              \/ ApplyFails(c) \/ Crash(c)

Spec == Init /\ [][Next]_vars

(* A replica keeps running: supervise restarts a consumer that ended, its   *)
(* loop reads and handles what there is.                                    *)
FairSpec == Spec /\ \A c \in Consumers :
                       WF_vars(Run(c) \/ claimStale(c) \/ XReadGroup(c) \/ Handle(c))
-----------------------------------------------------------------------------
(* Properties                                                               *)

(* A late event has brought back a document whose deletion the sink forgot: *)
(* the node is gone with its version (NodeDelete), or gc_deletes has passed *)
(* since the DocDeindex. Only an event that stayed pending, or came again,  *)
(* past the deletion can; the mutations carry no trace of the deletion.     *)
Revived(a) == a \in forgotten /\ doc[a] # 0

(* A write never takes a document back behind the version that is there,    *)
(* nor behind what was recorded as applied ("at-least-once delivery and     *)
(* out-of-order retries cannot regress the graph", falkordb/mutate.go:19),  *)
(* except that it may revive a document whose deletion the sink forgot.     *)
NoRegress ==
    [][\A a \in Aggs : doc'[a] \notin {0, doc[a]} =>
          doc'[a] > doc[a] /\ (doc'[a] >= applied[a] \/ Revived(a)')]_vars

(* WaitForProjection: once version v is recorded as applied, the sink shows *)
(* v or a later version, and nothing if that version is the deletion;       *)
(* unless a late event revived a document whose deletion the sink forgot.   *)
ReadYourWrites ==
    \A a \in Aggs : applied[a] > 0 =>
        \/ Revived(a)
        \/ \E v \in applied[a]..Len(Hist[a]) :
              doc[a] = IF IsDelete(<<a, v>>) THEN 0 ELSE v

Dealt(i) == stream[i] \in Poison \/ applied[stream[i][1]] >= stream[i][2]

(* At least once: an entry the group has delivered is pending until its     *)
(* version, or a later one, is recorded as applied; only poison is dropped. *)
NoneLost == \A i \in 1..delivered : owner[i] # NoConsumer \/ Dealt(i)

(* Every published event is applied in the end, through crashes, failed     *)
(* acknowledgements and republications, if no apply fails.                  *)
AppliedUnlessFailed ==
    \A k \in Events \ Poison :
        InStream(k) ~> applied[k[1]] >= k[2] \/ "apply" \in faults

(* Every published event is applied in the end: "stuck entries are          *)
(* reclaimed via XAUTOCLAIM, so a crashed consumer's in-flight work is      *)
(* picked up by another" (projections.mdx:45).                              *)
EventuallyApplied ==
    \A k \in Events \ Poison : InStream(k) ~> applied[k[1]] >= k[2]
=============================================================================
