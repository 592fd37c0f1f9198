-------------------------------- MODULE Hub --------------------------------
(* The subscription hub (core/subscribe): one change channel, its            *)
(* subscribers, the conflation buffer and the pump that tails the channel's  *)
(* Redis stream.  Channels share nothing but the hub's mutex and its closed  *)
(* flag, so one channel stands for all; a critical section of the mutex is   *)
(* one step.  A delta is its position in the stream.                         *)
EXTENDS Naturals, Sequences, FiniteSets, FiniteSetsExt, SequencesExt

CONSTANTS
    MaxSessions,  \* bound on the calls of Subscribe
    HubAggs,      \* aggregates whose events reach the channel
    HubBuffer,    \* capacity of a subscriber's Go channel
    HubSetups     \* [tape, raw, ends]: what the relay publishes on the channel,
                  \* the delivery mode each call of Subscribe asks for, and
                  \* whether the process shuts down and Redis reads may fail

VARIABLES
    setup,      \* the setup of this behaviour
    topic,      \* the channel's Redis stream: a sequence of [agg, ver]
    cs,         \* h.channels[channel]: <<>> when absent, else one record
    hub,        \* "open", "flushed" (Close has flushed) or "closed"
    pumps,      \* every pump started: [pos, upto, fresh, on]
    sess,       \* the sessions
    hubOdd      \* history: what has happened that the promises exclude

hubVars == <<setup, topic, cs, hub, pumps, sess, hubOdd>>

Sessions == 1..MaxSessions
NoSession == [st |-> "new", id |-> 0, raw |-> FALSE, inbox |-> <<>>, got |-> <<>>,
              done |-> FALSE, missed |-> FALSE, by |-> "none", due |-> [a \in HubAggs |-> 0]]

newConflator == [a \in HubAggs |-> 0]

Present == cs # <<>>
Cur == cs[1]
depth(c) == Cardinality({a \in HubAggs : c.pending[a] # 0})
Ver(pos) == IF pos = 0 THEN 0 ELSE topic[pos].ver
Live(c) == DOMAIN c.subs

HubInit ==
    /\ setup \in HubSetups
    /\ topic = <<>>
    /\ cs = <<>>
    /\ hub = "open"
    /\ pumps = <<>>
    /\ sess = [s \in Sessions |-> NoSession]
    /\ hubOdd = {}

(* The relay appends the next event to the channel's stream: per aggregate   *)
(* in version order, except what it publishes a second time.                 *)
XAddChannel ==
    /\ Len(topic) < Len(setup.tape)
    /\ topic' = Append(topic, setup.tape[Len(topic) + 1])
    /\ UNCHANGED <<setup, cs, hub, pumps, sess, hubOdd>>

-----------------------------------------------------------------------------
(* Delivery *)

(* close(sub): the session's channel is closed; `by` records the cause. *)
CloseSub(s, cause) == [s EXCEPT !.st = "closed", !.by = cause]

(* deliverLocked, one delta to one subscriber: a full buffer drops the delta *)
(* on a conflated channel and closes the subscriber on a raw one.            *)
OfferTo(raw, s, pos) ==
    CASE Len(s.inbox) < HubBuffer -> [s EXCEPT !.inbox = Append(@, pos)]
      [] raw  -> CloseSub(s, "overflow")
      [] OTHER -> [s EXCEPT !.missed = TRUE]

(* deliverLocked: the deltas to every subscriber, in order, without blocking.*)
deliverLocked(c, ss, deltas) ==
    LET Step(acc, pos) ==
            [s \in Sessions |->
                IF acc[s].st = "open" /\ \E i \in Live(c) : c.subs[i] = s
                THEN OfferTo(c.raw, acc[s], pos) ELSE acc[s]]
    IN FoldLeft(Step, ss, deltas)

(* The subscribers a raw delivery leaves attached. *)
Attached(c, ss) ==
    [c EXCEPT !.subs = [i \in {j \in Live(c) : ss[c.subs[j]].st = "open"} |-> c.subs[i]]]

(* Mutant: the first version offered is kept. *)
offerFirst(c, pos) ==
    LET a == topic[pos].agg
    IN [c EXCEPT !.pending[a] = IF @ = 0 THEN pos ELSE @, !.armed = TRUE]

(* conflator.offer: the latest version per aggregate; arm on the first.      *)
offer(c, pos) ==
    LET a == topic[pos].agg
        newer == c.pending[a] = 0 \/ Ver(pos) >= Ver(c.pending[a])
    IN [c EXCEPT !.pending[a] = IF newer THEN pos ELSE @,
                 !.armed = IF depth(c) = 0 THEN TRUE ELSE @]

(* conflator.drain: what is buffered, one delta an aggregate, in the order   *)
(* of the stream ids as strings.  That is not the order of the stream when   *)
(* an id has more digits than an earlier one ("1-10" < "1-9"), so any order  *)
(* of the deltas is possible.                                                *)
drain(c) == SetToSeqs({c.pending[a] : a \in HubAggs} \ {0})

(* What a subscriber of the channel is owed once the delta is offered. *)
Owed(c, ss, pos) ==
    [s \in Sessions |->
        IF ss[s].st = "open" /\ \E i \in Live(c) : c.subs[i] = s
        THEN [ss[s] EXCEPT !.due[topic[pos].agg] = Max({@, Ver(pos)})] ELSE ss[s]]

(* Hub.Publish, called by a pump for every entry. *)
Publish(pos) ==
    IF hub = "closed" \/ ~ Present
    THEN UNCHANGED <<cs, sess>>
    ELSE LET owed == Owed(Cur, sess, pos)
         IN IF Cur.raw
            THEN /\ sess' = deliverLocked(Cur, owed, <<pos>>)
                 /\ cs' = <<Attached(Cur, sess')>>
            ELSE /\ sess' = owed
                 /\ cs' = <<offer(Cur, pos)>>

(* Hub.flush: stop the timer, drain to the subscribers, forget an empty      *)
(* channel nobody listens to.                                                *)
flush ==
    IF ~ Present
    THEN UNCHANGED <<cs, sess>>
    ELSE LET drained == [Cur EXCEPT !.armed = FALSE, !.pending = newConflator]
         IN /\ \E deltas \in drain(Cur) : sess' = deliverLocked(Cur, sess, deltas)
            /\ LET left == Attached(drained, sess')
               IN cs' = IF Live(left) = {} THEN <<>> ELSE <<left>>

-----------------------------------------------------------------------------
(* Operations *)

NextId(c) == c.nextSub

(* Hub.subscribe.  The first subscriber creates the channel and starts its   *)
(* pump; a channel that is still there is joined as it is.                   *)
Subscribe(s) ==
    /\ s \in DOMAIN setup.raw
    /\ sess[s].st = "new" /\ (s > 1 => sess[s - 1].st # "new")
    /\ hub # "closed"
    /\ Present => Cur.raw = setup.raw[s]
    /\ LET raw == setup.raw[s]
           fresh == [raw |-> raw, subs |-> <<>>, nextSub |-> 0, pending |-> newConflator,
                     armed |-> FALSE, pump |-> Len(pumps) + 1]
           c == IF Present THEN Cur ELSE fresh
       IN /\ cs' = <<[c EXCEPT !.nextSub = @ + 1,
                               !.subs = [i \in Live(c) \cup {NextId(c)} |->
                                            IF i = NextId(c) THEN s ELSE c.subs[i]]]>>
          /\ sess' = [sess EXCEPT ![s].st = "open", ![s].id = NextId(c), ![s].raw = raw]
    /\ pumps' = IF Present THEN pumps
                ELSE Append(pumps, [pos |-> Len(topic), upto |-> Len(topic),
                                    fresh |-> TRUE, on |-> TRUE])
    /\ UNCHANGED <<setup, topic, hub, hubOdd>>

(* pumpCancel: the pump reads no further batch. *)
StopPump(ps, p) == IF p = 0 THEN ps ELSE [ps EXCEPT ![p].on = FALSE]

PumpEnds(subs) == DOMAIN subs = {}

(* cancel, the function Subscribe returns, also run when its context ends:   *)
(* it looks the channel up by name and the subscriber up by id.              *)
Cancel(s) ==
    /\ sess[s].st # "new" /\ ~ sess[s].done
    /\ LET ss == [sess EXCEPT ![s].done = TRUE]
           id == sess[s].id
       IN IF ~ Present
          THEN /\ sess' = ss
               /\ UNCHANGED <<cs, pumps, hubOdd>>
          ELSE LET hit  == id \in Live(Cur)
                   t    == Cur.subs[id]
                   left == [i \in Live(Cur) \ {id} |-> Cur.subs[i]]
                   last == DOMAIN left = {}
               IN /\ sess' = IF hit THEN [ss EXCEPT ![t] = CloseSub(@, IF t = s THEN "own" ELSE "other")]
                                    ELSE ss
                  /\ pumps' = IF PumpEnds(left) THEN StopPump(pumps, Cur.pump) ELSE pumps
                  /\ cs' = IF last /\ depth(Cur) = 0 THEN <<>>
                           ELSE <<[Cur EXCEPT !.subs = left, !.pump = IF PumpEnds(left) THEN 0 ELSE @]>>
                  /\ hubOdd' = IF last /\ depth(Cur) # 0 THEN hubOdd \cup {"left_pending"} ELSE hubOdd
    /\ UNCHANGED <<setup, topic, hub>>

(* The conflation window ends: the timer armed by the first offer flushes. *)
TimerFires ==
    /\ Present /\ Cur.armed
    /\ flush
    /\ UNCHANGED <<setup, topic, hub, pumps, hubOdd>>

(* Fabriq.Close: flush every channel, then close the hub. *)
Flush ==
    /\ hub = "open" /\ setup.ends
    /\ flush
    /\ hub' = "flushed"
    /\ UNCHANGED <<setup, topic, pumps, hubOdd>>

Close ==
    /\ hub = "flushed"
    /\ hub' = "closed"
    /\ cs' = <<>>
    /\ pumps' = IF Present THEN StopPump(pumps, Cur.pump) ELSE pumps
    /\ sess' = [s \in Sessions |->
                   IF Present /\ \E i \in Live(Cur) : Cur.subs[i] = s
                   THEN CloseSub(sess[s], "hub") ELSE sess[s]]
    /\ UNCHANGED <<setup, topic, hubOdd>>

(* The subscriber takes the next delta from its Go channel. *)
Receive(s) ==
    /\ sess[s].inbox # <<>>
    /\ sess' = [sess EXCEPT ![s].inbox = Tail(@), ![s].got = Append(@, Head(sess[s].inbox))]
    /\ UNCHANGED <<setup, topic, cs, hub, pumps, hubOdd>>

-----------------------------------------------------------------------------
(* The pump: Adapter.Tail from "$" with Publish as its deliver function *)

(* XREAD returns a batch. *)
TailRead(p) ==
    /\ pumps[p].on
    /\ pumps[p].pos = pumps[p].upto /\ pumps[p].upto < Len(topic)
    /\ pumps' = [pumps EXCEPT ![p].upto = Len(topic), ![p].fresh = FALSE]
    /\ UNCHANGED <<setup, topic, cs, hub, sess, hubOdd>>

(* The first XREAD is issued, or times out before any entry came and is      *)
(* issued again: "$" then means the end of the stream at that moment.        *)
TailFromNow(p) ==
    /\ pumps[p].on /\ pumps[p].fresh
    /\ pumps[p].pos < Len(topic)
    /\ pumps' = [pumps EXCEPT ![p].pos = Len(topic), ![p].upto = Len(topic)]
    /\ UNCHANGED <<setup, topic, cs, hub, sess, hubOdd>>

(* One entry of the batch is handed to Publish; a cancelled pump still hands *)
(* over the rest of its batch.                                               *)
TailDeliver(p) ==
    /\ pumps[p].pos < pumps[p].upto
    /\ pumps' = [pumps EXCEPT ![p].pos = @ + 1]
    /\ Publish(pumps[p].pos + 1)
    /\ hubOdd' = IF Present /\ Cur.pump # p THEN hubOdd \cup {"stale_pump"} ELSE hubOdd
    /\ UNCHANGED <<setup, topic, hub>>

(* XREAD fails: Tail returns and the pump ends. *)
TailFails(p) ==
    /\ setup.ends
    /\ pumps[p].on /\ pumps[p].pos = pumps[p].upto
    /\ pumps' = [pumps EXCEPT ![p].on = FALSE, ![p].fresh = FALSE]
    /\ hubOdd' = hubOdd \cup {"tail_failed"}
    /\ UNCHANGED <<setup, topic, cs, hub, sess>>

HubNext ==
    \/ XAddChannel
    \/ \E s \in Sessions : Subscribe(s) \/ Cancel(s) \/ Receive(s)
    \/ TimerFires \/ Flush \/ Close
    \/ \E p \in DOMAIN pumps : TailRead(p) \/ TailFromNow(p) \/ TailDeliver(p) \/ TailFails(p)

(* A started timer fires and a pump that holds a batch hands it over. *)
HubFair == WF_hubVars(TimerFires) /\ WF_hubVars(\E p \in DOMAIN pumps : TailDeliver(p))
HubSpec == HubInit /\ [][HubNext]_hubVars /\ HubFair

-----------------------------------------------------------------------------
(* Properties *)

HubTypeOK ==
    /\ topic \in Seq([agg : HubAggs, ver : Nat \ {0}])
    /\ hub \in {"open", "flushed", "closed"}
    /\ Present => /\ Live(Cur) \subseteq 0..(Cur.nextSub - 1)
                  /\ Cur.pump \in 0..Len(pumps)
                  /\ Cur.armed = (depth(Cur) # 0)
    /\ \A s \in Sessions : Len(sess[s].inbox) <= HubBuffer

(* WithTailer: while a channel has subscribers its pump runs.  The exception *)
(* is a channel whose last subscriber left deltas in the conflation buffer:  *)
(* the next subscriber joins it without a pump (PumpWithSubscribers, below). *)
PumpUnlessLeftPending ==
    Present /\ Live(Cur) # {} /\ hubOdd \cap {"tail_failed", "left_pending"} = {}
        => Cur.pump # 0 /\ pumps[Cur.pump].on

(* WithTailer's comment, as it is written: the pump starts with a channel's  *)
(* first subscriber and stops with its last.                                 *)
PumpWithSubscribers ==
    Present /\ Live(Cur) # {} /\ "tail_failed" \notin hubOdd => Cur.pump # 0

(* deliverLocked on a raw channel: complete and in order or nothing.  What a *)
(* raw subscriber got is a gap-free run of the stream, unless a pump of an   *)
(* earlier life of the channel was still delivering.                         *)
RawComplete ==
    \A s \in Sessions : sess[s].raw /\ "stale_pump" \notin hubOdd =>
        LET f == sess[s].got \o sess[s].inbox
        IN \A i \in 1..(Len(f) - 1) : f[i + 1] = f[i] + 1

(* conflator: conflation loses no newest version.  A subscriber that was     *)
(* never behind has received, for every aggregate, the newest version that   *)
(* was published while it listened (or a newer one), or the buffer holds it.             *)
NewestSurvives ==
    \A s \in Sessions : sess[s].st = "open" /\ ~ sess[s].raw /\ ~ sess[s].missed =>
        LET f == sess[s].got \o sess[s].inbox
        IN \A a \in HubAggs : sess[s].due[a] > 0 =>
               \/ Ver(Cur.pending[a]) >= sess[s].due[a]
               \/ \E i \in DOMAIN f : topic[f[i]].agg = a /\ Ver(f[i]) >= sess[s].due[a]

(* cancel closes the subscriber it was returned for.  Another one's channel  *)
(* is closed only by an id used again: after an overflow has detached the    *)
(* first owner of the id and the channel was built anew.                     *)
CancelClosesItsOwn ==
    \A s \in Sessions : sess[s].by = "other" =>
        \E t \in Sessions \ {s} : sess[t].by = "overflow" /\ sess[t].id = sess[s].id /\ sess[t].done

(* The conflation window: a buffered delta is flushed. *)
BufferDrains ==
    (Present /\ depth(Cur) # 0) ~> (~ Present \/ depth(Cur) = 0)
=============================================================================
