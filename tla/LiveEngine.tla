----------------------------- MODULE LiveEngine -----------------------------
(* The life of live-query subscriptions (core/livequery Engine, Handle and   *)
(* partition): partitions counted by reference, views shared by shape, the   *)
(* attach loop of Subscribe and Reanchor, Close, and the fan-out of deltas.  *)
(* One (tenant, entity), so e.partitions has one key.  p.do runs a function  *)
(* on the partition's goroutine: it is one step, possible while that         *)
(* goroutine runs; once p.done is closed it may fail instead.                *)
EXTENDS Naturals, Sequences, FiniteSets, Functions

CONSTANTS
    MaxHandles,    \* bound on the subscriptions
    EngineBuffer,  \* capacity of a subscription's delta channel
    MaxAttempts,   \* rounds of the attach loop (8 in the code)
    EngineSetups   \* [handles: how many subscriptions, reanchors: how many of them reanchor,
                   \*  deltas: bound on a partition's deltas,
                   \*  shapes: the query shapes they choose from, streamed: ModeStreamed queries,
                   \*  wrong \subseteq {"seed", "feed", "race"}: what happens besides]

VARIABLES
    esetup,    \* the setup of this behaviour
    current,   \* e.partitions[key]: the partition's number, 0 when absent
    parts,     \* every partition ever created
    hs,        \* the subscriptions
    engOdd     \* history: what has gone wrong

engVars == <<esetup, current, parts, hs, engOdd>>

Handles == 1 .. esetup.handles
Shapes == esetup.shapes

(* Views are numbered per partition: comparing pointers compares numbers.    *)
NewPartition == [refs |-> 1, done |-> FALSE, run |-> TRUE, views |-> [k \in Shapes |-> 0],
                 ready |-> {}, woken |-> {}, sent |-> <<>>]

(* Subscribe and then Reanchor run attach (apc); Close has its own counter.  *)
(* "at" is the delta of its view the consumer has reached.                   *)
NewHandle == [task |-> "subscribe", apc |-> "idle", cpc |-> "open", tries |-> 0, part |-> 0,
              shape |-> 0, v |-> 0, on |-> 0, at |-> 0, out |-> <<>>, open |-> TRUE,
              behind |-> FALSE, told |-> FALSE]

P(h) == parts[hs[h].part]

EngInit ==
    /\ esetup \in EngineSetups
    /\ current = 0
    /\ parts = <<>>
    /\ hs = [h \in Handles |-> NewHandle]
    /\ engOdd = {}

(* Subscribe: partitionFor takes a reference on the key's partition. *)
partitionFor(h) ==
    /\ hs[h].apc = "idle"
    /\ \A g \in 1 .. h - 1 : hs[g].apc # "idle"     \* the handles are alike
    /\ IF current # 0
       THEN parts' = [parts EXCEPT ![current].refs = @ + 1] /\ UNCHANGED current
       ELSE parts' = Append(parts, NewPartition) /\ current' = Len(parts) + 1
    /\ \E k \in Shapes :
           hs' = [hs EXCEPT ![h].apc = "find", ![h].part = current', ![h].shape = k]
    /\ UNCHANGED <<esetup, engOdd>>

(* release, on the partition the key names now. *)
release(ps) ==
    LET refs == ps[current].refs - 1
    IN IF current = 0
       THEN parts' = ps /\ UNCHANGED current
       ELSE /\ parts' = [ps EXCEPT ![current].refs = refs, ![current].done = @ \/ refs = 0]
            /\ current' = IF refs = 0 THEN 0 ELSE current

-----------------------------------------------------------------------------
(* Engine.attach *)

Subscribers(p, v) == {h \in Handles : hs[h].part = p /\ hs[h].on = v}

(* attach returns an error: Subscribe gives its reference back, Reanchor     *)
(* leaves the handle without a view.                                         *)
AttachError(h, ps) ==
    IF hs[h].task = "subscribe"
    THEN release(ps) /\ hs' = [hs EXCEPT ![h].apc = "failed"]
    ELSE /\ hs' = [hs EXCEPT ![h].apc = "live"]
         /\ parts' = ps
         /\ UNCHANGED current

(* A round begins: find the shape's view, or register one and create it. *)
AttachFind(h) ==
    /\ hs[h].apc = "find" /\ hs[h].tries < MaxAttempts /\ P(h).run
    /\ LET v == P(h).views[hs[h].shape]
           new == Len(P(h).sent) + 1
       IN IF v # 0
          THEN /\ hs' = [hs EXCEPT ![h].apc = "wait", ![h].v = v, ![h].tries = @ + 1]
               /\ UNCHANGED parts
          ELSE /\ hs' = [hs EXCEPT ![h].apc = "seed", ![h].v = new, ![h].tries = @ + 1]
               /\ parts' = [parts EXCEPT ![hs[h].part].views[hs[h].shape] = new,
                                         ![hs[h].part].sent = Append(@, 0)]
    /\ UNCHANGED <<esetup, current, engOdd>>

(* seedView: the creator's snapshot and then the activation. *)
seedView(h) ==
    /\ hs[h].apc = "seed" /\ P(h).run
    /\ parts' = [parts EXCEPT ![hs[h].part].ready = @ \cup {hs[h].v},
                              ![hs[h].part].woken = @ \cup {hs[h].v}]
    /\ hs' = [hs EXCEPT ![h].apc = "join"]
    /\ UNCHANGED <<esetup, current, engOdd>>

(* The view is dropped unless it is another one by now or has subscribers,   *)
(* and its ready channel is closed.                                          *)
AfterFailedSeed(h) ==
    LET p == hs[h].part
        k == hs[h].shape
        drop == P(h).views[k] = hs[h].v /\ Subscribers(p, hs[h].v) = {}
    IN [parts EXCEPT ![p].views[k] = IF drop THEN 0 ELSE @, ![p].woken = @ \cup {hs[h].v}]

(* The snapshot fails: the view is dropped and whoever waits for it woken,   *)
(* to try again as its creator.                                              *)
SeedFails(h) ==
    /\ "seed" \in esetup.wrong /\ hs[h].apc = "seed" /\ P(h).run
    /\ AttachError(h, AfterFailedSeed(h))
    /\ engOdd' = engOdd \cup {"seed"}
    /\ UNCHANGED esetup

(* Another subscriber creates the view: wait for it. *)
AttachWait(h) ==
    /\ hs[h].apc = "wait" /\ hs[h].v \in P(h).woken
    /\ hs' = [hs EXCEPT ![h].apc = "join"]
    /\ UNCHANGED <<esetup, current, parts, engOdd>>

(* view.snapshot: the rows of a maintained window as they are now; for a     *)
(* streamed view the page its creator read.                                  *)
snapshot(h) == IF esetup.streamed THEN 0 ELSE P(h).sent[hs[h].v]

(* Join the view and take its snapshot, or start over when it was torn down  *)
(* or replaced meanwhile.                                                    *)
AttachJoin(h) ==
    /\ hs[h].apc = "join" /\ P(h).run
    /\ hs' = IF P(h).views[hs[h].shape] # hs[h].v \/ hs[h].v \notin P(h).ready
             THEN [hs EXCEPT ![h].apc = "find"]
             ELSE [hs EXCEPT ![h].apc = "live", ![h].on = hs[h].v,
                             ![h].at = snapshot(h), ![h].behind = FALSE, ![h].told = FALSE]
    /\ UNCHANGED <<esetup, current, parts, engOdd>>

(* The rounds are used up, or the partition is closed. *)
AttachGivesUp(h) ==
    /\ \/ hs[h].apc = "find" /\ hs[h].tries = MaxAttempts
       \/ hs[h].apc \in {"find", "seed", "wait", "join"} /\ P(h).done
    /\ AttachError(h, parts)
    /\ engOdd' = engOdd \cup {"seed"}
    /\ UNCHANGED esetup

-----------------------------------------------------------------------------
(* Engine.detach, Close and Reanchor *)

(* Mutant: the subscriber stays on the view's list. *)
detachKeeps(h, new) == UNCHANGED parts /\ hs' = [hs EXCEPT ![h] = new]

(* Leave the view, which is dropped with its last subscriber. *)
detach(h, new) ==
    LET p == hs[h].part
        v == hs[h].on
        last == v # 0 /\ Subscribers(p, v) = {h}
    IN /\ parts' = [parts EXCEPT ![p].views =
                        [k \in Shapes |-> IF last /\ @[k] = v THEN 0 ELSE @[k]]]
       /\ hs' = [hs EXCEPT ![h] = [new EXCEPT !.on = 0]]

(* Reanchor: note the new shape under the handle's lock ... *)
Reanchor(h, k) ==
    /\ h <= esetup.reanchors
    /\ hs[h].task = "subscribe" /\ hs[h].apc = "live" /\ hs[h].cpc = "open"
    /\ hs' = [hs EXCEPT ![h].task = "reanchor", ![h].shape = k, ![h].apc = "leave", ![h].tries = 0]
    /\ UNCHANGED <<esetup, current, parts, engOdd>>

(* ... then leave the old view, keeping the channel, and attach. *)
ReanchorDetach(h) ==
    /\ hs[h].apc = "leave"
    /\ \/ P(h).run /\ detach(h, [hs[h] EXCEPT !.apc = "find"])
       \/ P(h).done /\ hs' = [hs EXCEPT ![h].apc = "find"] /\ UNCHANGED parts
    /\ UNCHANGED <<esetup, current, engOdd>>

(* Close: callers close a handle after Reanchor returned, except in a race. *)
Close(h) ==
    /\ hs[h].cpc = "open"
    /\ \/ hs[h].apc = "live"
       \/ "race" \in esetup.wrong /\ hs[h].task = "reanchor"
    /\ hs' = [hs EXCEPT ![h].cpc = "detach"]
    /\ engOdd' = IF hs[h].apc = "live" THEN engOdd ELSE engOdd \cup {"race"}
    /\ UNCHANGED <<esetup, current, parts>>

CloseDetach(h) ==
    /\ hs[h].cpc = "detach"
    /\ \/ P(h).run /\ detach(h, [hs[h] EXCEPT !.cpc = "release", !.open = @ /\ hs[h].on = 0])
       \/ P(h).done /\ hs' = [hs EXCEPT ![h].cpc = "release"] /\ UNCHANGED parts
    /\ UNCHANGED <<esetup, current, engOdd>>

(* The consumer reads no more. *)
CloseRelease(h) ==
    /\ hs[h].cpc = "release"
    /\ release(parts)
    /\ hs' = [hs EXCEPT ![h].cpc = "closed", ![h].out = <<>>]
    /\ UNCHANGED <<esetup, engOdd>>

-----------------------------------------------------------------------------
(* The partition's goroutine and the consumers *)

Delta(v, n) == [view |-> v, n |-> n]
Reset(v) == [view |-> v, n |-> 0]

Full(s) == Len(s) >= EngineBuffer

(* view.send to one subscriber: a full channel gets a reset instead if its   *)
(* consumer takes an item in between.                                        *)
sendTo(s, d, takes) ==
    IF ~ Full(s.out) THEN [s EXCEPT !.out = Append(@, d)]
    ELSE IF takes
         THEN [s EXCEPT !.out = Append(Tail(@), Reset(d.view)), !.behind = TRUE, !.told = TRUE,
                        !.at = IF Head(s.out).view = d.view THEN Head(s.out).n ELSE @]
         ELSE [s EXCEPT !.behind = TRUE]

(* A change of the feed becomes a delta of a ready view, sent to every       *)
(* subscriber; "takes" are the consumers that read during the send.          *)
send(p, v, takes) ==
    /\ parts[p].run /\ v \in parts[p].ready
    /\ \E k \in Shapes : parts[p].views[k] = v
    /\ FoldFunctionOnSet(+, 0, parts[p].sent, DOMAIN parts[p].sent) < esetup.deltas
    /\ LET n == parts[p].sent[v] + 1
       IN /\ parts' = [parts EXCEPT ![p].sent[v] = n]
          /\ hs' = [h \in Handles |->
                        IF h \in Subscribers(p, v) THEN sendTo(hs[h], Delta(v, n), h \in takes)
                        ELSE hs[h]]
    /\ UNCHANGED <<esetup, current, engOdd>>

(* The consumer takes a delta.  One that follows a reset, or belongs to a    *)
(* view left behind, does not move "at".                                     *)
Receive(h) ==
    /\ hs[h].out # <<>>
    /\ LET d == Head(hs[h].out)
       IN hs' = [hs EXCEPT ![h].out = Tail(@),
                           ![h].at = IF d.view = hs[h].on /\ d.n = @ + 1 THEN d.n ELSE @]
    /\ UNCHANGED <<esetup, current, parts, engOdd>>

(* partition.run returns when p.done is closed, or when the feed's channel   *)
(* is: then p.done stays open.                                               *)
RunReturns(p) ==
    /\ parts[p].run /\ parts[p].done
    /\ parts' = [parts EXCEPT ![p].run = FALSE]
    /\ UNCHANGED <<esetup, current, hs, engOdd>>

FeedFails(p) ==
    /\ "feed" \in esetup.wrong /\ parts[p].run
    /\ parts' = [parts EXCEPT ![p].run = FALSE]
    /\ engOdd' = engOdd \cup {"feed"}
    /\ UNCHANGED <<esetup, current, hs>>

-----------------------------------------------------------------------------
Call(h) ==
    \/ AttachFind(h) \/ seedView(h) \/ AttachWait(h) \/ AttachJoin(h) \/ AttachGivesUp(h)
    \/ ReanchorDetach(h) \/ CloseDetach(h) \/ CloseRelease(h)

EngNext ==
    \/ \E h \in Handles :
           \/ partitionFor(h) \/ Call(h) \/ SeedFails(h) \/ Close(h) \/ Receive(h)
           \/ \E k \in Shapes : Reanchor(h, k)
    \/ \E p \in DOMAIN parts :
           \/ RunReturns(p) \/ FeedFails(p)
           \/ \E v \in DOMAIN parts[p].sent : \E takes \in SUBSET Subscribers(p, v) :
                  send(p, v, takes)

(* Go schedules every goroutine, and a snapshot query answers. *)
EngFair == \A h \in 1 .. MaxHandles : WF_engVars(h \in Handles /\ Call(h))

EngSpec == EngInit /\ [][EngNext]_engVars /\ EngFair

-----------------------------------------------------------------------------
EngTypeOK ==
    /\ current \in 0 .. Len(parts)
    /\ \A p \in DOMAIN parts :
           /\ parts[p].refs \in Nat
           /\ parts[p].views \in [Shapes -> 0 .. Len(parts[p].sent)]
           /\ parts[p].ready \subseteq DOMAIN parts[p].sent
    /\ \A h \in Handles :
           /\ hs[h].apc \in {"idle", "leave", "find", "seed", "wait", "join", "live", "failed"}
           /\ hs[h].cpc \in {"open", "detach", "release", "closed"}
           /\ Len(hs[h].out) <= EngineBuffer
           /\ hs[h].part \in 0 .. Len(parts)
    /\ engOdd \subseteq {"seed", "feed", "race"}

Holds(h, p) == hs[h].part = p /\ hs[h].apc # "failed" /\ hs[h].cpc # "closed"

(* A partition's reference count is the number of subscriptions that hold    *)
(* it, and a partition that is held is the one the engine hands out: release *)
(* goes by key (engine.go:327), so one release too many would close another  *)
(* subscriber's partition.                                                   *)
RefsHeld ==
    \A p \in DOMAIN parts :
        /\ parts[p].refs = Cardinality({h \in Handles : Holds(h, p)})
        /\ parts[p].done <=> parts[p].refs = 0
        /\ ~ parts[p].done <=> current = p

(* No view is left behind: one that is registered has a subscriber, or its   *)
(* creator is still seeding or joining it, or a waiter is about to           *)
(* (engine.go:132-189, 273).  A leaked view would match every change of the  *)
(* tenant for the life of the partition.                                     *)
ViewsAreUsed ==
    "race" \in engOdd \/
    \A p \in DOMAIN parts : \A k \in Shapes :
        LET v == parts[p].views[k]
        IN v # 0 /\ ~ parts[p].done =>
               \/ Subscribers(p, v) # {}
               \/ \E h \in Handles : Holds(h, p) /\ hs[h].v = v /\ hs[h].apc \in {"seed", "join"}

(* A view never sends to a closed channel, which would panic the partition's *)
(* goroutine, and a closed subscription is on no view; a Close that races a  *)
(* Reanchor of the same handle is the exception (engine.go:88, 105).         *)
ClosedIsDetached ==
    "race" \in engOdd \/
    \A h \in Handles : ~ hs[h].open \/ hs[h].cpc = "closed" => hs[h].on = 0

(* A subscriber that never overflowed misses no delta of its view, a late    *)
(* joiner of a streamed one excepted: its snapshot, what it has taken and what is queued reach the last one sent,   *)
(* in order (engine.go:173-181, dispatcher.go:80).                           *)
FanOutGapless ==
    \A h \in Handles :
        hs[h].on # 0 /\ hs[h].cpc # "closed" /\ ~ hs[h].behind /\ ~ esetup.streamed =>
            LET at == hs[h].at
                ahead == SelectSeq(hs[h].out, LAMBDA d : d.view = hs[h].on /\ d.n > at)
            IN ahead = [i \in 1 .. P(h).sent[hs[h].on] - at |-> Delta(hs[h].on, at + i)]

Busy(h) ==
    /\ h \in Handles
    /\ hs[h].apc \in {"leave", "find", "seed", "wait", "join"} \/ hs[h].cpc \in {"detach", "release"}

(* Subscribe, Reanchor and Close return, whatever else fails, as long as the *)
(* partition's feed is open (engine.go:126, dispatcher.go:274).              *)
CallsReturn == \A h \in 1 .. MaxHandles : Busy(h) ~> (~ Busy(h) \/ "feed" \in engOdd)

(* A consumer that falls behind is told to re-snapshot. *)
LaggardsAreTold == \A h \in Handles : hs[h].on # 0 /\ hs[h].behind => hs[h].told

(* After Reanchor the channel carries the new window only. *)
ReanchoredChannelIsNew ==
    \A h \in Handles : hs[h].on # 0 => \A i \in DOMAIN hs[h].out :
        hs[h].out[i].view = hs[h].on /\ (hs[h].out[i].n > hs[h].at \/ hs[h].behind)
=============================================================================
