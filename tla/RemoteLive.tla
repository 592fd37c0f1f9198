----------------------------- MODULE RemoteLive -----------------------------
(* A live query over the remote protocol (remote/live.go, remote/server.go   *)
(* LiveQuery, remote/grpc): one bidirectional stream carries the query and   *)
(* the Reanchor frames up, and the snapshots, the errors and the deltas      *)
(* down.  On the client a reader separates replies from deltas, a pump feeds *)
(* the caller's channel from an unbounded buffer, and callers of Reanchor    *)
(* wait for a reply; on the server a pump sends deltas while the control     *)
(* loop serves the frames a receiver hands it.                               *)
(*                                                                           *)
(* The engine's handle is LiveEngine's: here it queues numbered deltas,      *)
(* answers a Reanchor, and may end its channel.  A frame is well formed.     *)
EXTENDS Naturals, Sequences, FiniteSets

CONSTANTS
    RemoteSetups    \* [calls, deltas, room, drains, fates]: Reanchor calls made, deltas the engine has, frames in
                    \* flight each way, whether the caller goes on taking deltas, and what may happen, among {"refused", "giveup", "close", "cancel", "end", "fails", "broken"}

VARIABLES
    remset,         \* the setup of this behaviour
    up, down,       \* the stream's frames: [k, n]
    ctx,            \* [caller, stream, broken]: the LiveQuery context, the stream's context derived from it, done or
                    \* not, and whether the connection broke
    engine,         \* the engine's side: [made, queue, ended, closed]
    handler,        \* the server's control loop: [pc, held]
    sending,        \* the server's delta pump: [pc, d]
    pulling,        \* the server's receiver: [pc, f]
    cli,            \* the client's LiveQuery call: where it is
    reader,         \* the client's reader: [pc, f]
    replies,        \* the reanchor channel, of one place: [q, closed]
    buf,            \* deltaBuffer: [items, closed, signal]
    pump,           \* its pump: [pc, d]
    got,            \* the deltas the caller took
    calls,          \* the Reanchor calls: [pc, res]
    hungup          \* the caller closed the handle or cancelled its context

serverVars == <<engine, handler, sending, pulling>>
clientVars == <<cli, reader, replies, buf, pump, got, calls, hungup>>
remoteVars == <<remset, up, down, ctx, serverVars, clientVars>>

Frame(k, n) == [k |-> k, n |-> n]
Nil == Frame("nil", 0)
Calls == 1..remset.calls

RemoteInit ==
    /\ remset \in RemoteSetups
    /\ up = <<>> /\ down = <<>>
    /\ ctx = [caller |-> FALSE, stream |-> FALSE, broken |-> FALSE]
    /\ engine = [made |-> 0, queue |-> <<>>, ended |-> FALSE, closed |-> FALSE]
    /\ handler = [pc |-> "first", held |-> Nil]
    /\ sending = [pc |-> "off", d |-> 0]
    /\ pulling = [pc |-> "off", f |-> Nil]
    /\ cli = "idle"
    /\ reader = [pc |-> "off", f |-> Nil]
    /\ replies = [q |-> <<>>, closed |-> FALSE]
    /\ buf = [items |-> <<>>, closed |-> FALSE, signal |-> FALSE]
    /\ pump = [pc |-> "off", d |-> 0]
    /\ got = <<>>
    /\ calls = [c \in Calls |-> [pc |-> "idle", res |-> Nil]]
    /\ hungup = FALSE

-----------------------------------------------------------------------------
(* The stream.  A send waits for room, and fails once the stream is          *)
(* cancelled, broken or over; a receive gets the frames in order, then the   *)
(* end, and may fail at once when the stream is cancelled or broken.         *)
Over == handler.pc = "done"

SendUp(f) == ~Over /\ Len(up) < remset.room /\ up' = Append(up, f)
SendUpFails == (ctx.stream \/ Over) /\ UNCHANGED up
SendDown(f) == ~Over /\ Len(down) < remset.room /\ down' = Append(down, f)
SendDownFails == (ctx.stream \/ Over) /\ UNCHANGED down

RecvUp == up # <<>> /\ up' = Tail(up)
RecvUpFails == (ctx.stream \/ Over) /\ UNCHANGED up
RecvDown == down # <<>> /\ down' = Tail(down)
RecvDownFails == (ctx.stream \/ (Over /\ down = <<>>)) /\ UNCHANGED down

CloseStream == ctx' = [ctx EXCEPT !.stream = TRUE]

(* A transport error although nobody hung up: both sides' calls may fail, and *)
(* the client's reader takes it for the end of the stream.                   *)
Break ==
    /\ "broken" \in remset.fates /\ cli # "idle" /\ ~ctx.stream
    /\ ctx' = [ctx EXCEPT !.stream = TRUE, !.broken = TRUE]
    /\ UNCHANGED <<remset, up, down, serverVars, clientVars>>

-----------------------------------------------------------------------------
(* The engine's handle.                                                      *)
Produce ==
    /\ sending.pc # "off" /\ ~engine.ended /\ engine.made < remset.deltas
    /\ engine' = [engine EXCEPT !.made = @ + 1, !.queue = Append(@, engine.made + 1)]
    /\ UNCHANGED <<remset, up, down, ctx, handler, sending, pulling, clientVars>>

EndFeed ==
    /\ "end" \in remset.fates
    /\ sending.pc # "off" /\ ~engine.ended
    /\ engine' = [engine EXCEPT !.ended = TRUE]
    /\ UNCHANGED <<remset, up, down, ctx, handler, sending, pulling, clientVars>>

(* Handler.LiveQuery: the query, the snapshot or an error, then the pump,    *)
(* the receiver and the control loop.  Returning closes the subscription.    *)
Returned == [handler EXCEPT !.pc = "done"]
Detached == IF sending.pc = "off" THEN engine ELSE [engine EXCEPT !.closed = TRUE, !.ended = TRUE]

Refusing(why) == why \in remset.fates \/ ctx.stream

HandlerFirst ==
    /\ handler.pc = "first"
    /\ \/ RecvUp /\ handler' = [pc |-> "snapshot", held |-> Frame("snapshot", 0)]
       \/ RecvUp /\ Refusing("refused") /\ handler' = [pc |-> "refuse", held |-> Frame("error", 0)]
       \/ RecvUpFails /\ handler' = Returned
    /\ UNCHANGED <<remset, down, ctx, engine, sending, pulling, clientVars>>

HandlerOpens ==
    /\ handler.pc \in {"refuse", "snapshot"}
    /\ \/ /\ SendDown(handler.held)
          /\ IF handler.pc = "refuse"
             THEN handler' = Returned /\ UNCHANGED <<sending, pulling>>
             ELSE /\ handler' = [handler EXCEPT !.pc = "loop"]
                  /\ sending' = [sending EXCEPT !.pc = "take"]
                  /\ pulling' = [pulling EXCEPT !.pc = "recv"]
       \/ SendDownFails /\ handler' = Returned /\ UNCHANGED <<sending, pulling>>
    /\ engine' = IF handler'.pc = "done" /\ handler.pc = "snapshot"
                 THEN [engine EXCEPT !.closed = TRUE, !.ended = TRUE] ELSE engine
    /\ UNCHANGED <<remset, up, ctx, clientVars>>

(* The server's pump: the context of both goroutines ends with the stream's  *)
(* or with the handler.                                                      *)
Cancelled == ctx.stream \/ Over

SendDelta ==
    /\ \/ /\ sending.pc = "take" /\ engine.queue # <<>>
          /\ sending' = [pc |-> "send", d |-> Head(engine.queue)]
          /\ engine' = [engine EXCEPT !.queue = Tail(@)]
          /\ UNCHANGED down
       \/ /\ sending.pc = "take" /\ (Cancelled \/ (engine.ended /\ engine.queue = <<>>))
          /\ sending' = [sending EXCEPT !.pc = "done"]
          /\ UNCHANGED <<engine, down>>
       \/ /\ sending.pc = "send" /\ SendDown(Frame("delta", sending.d))
          /\ sending' = [sending EXCEPT !.pc = "take"] /\ UNCHANGED engine
       \/ /\ sending.pc = "send" /\ SendDownFails
          /\ sending' = [sending EXCEPT !.pc = "done"] /\ UNCHANGED engine
    /\ UNCHANGED <<remset, up, ctx, handler, pulling, clientVars>>

(* The receiver: it offers what it received until the control loop takes it. *)
PullFrame ==
    /\ \/ /\ pulling.pc = "recv"
          /\ \/ RecvUp /\ pulling' = [pc |-> "offer", f |-> Head(up)]
             \/ RecvUpFails /\ pulling' = [pc |-> "offer", f |-> Frame("broken", 0)]
       \/ /\ pulling.pc = "offer" /\ Cancelled
          /\ pulling' = [pulling EXCEPT !.pc = "done"] /\ UNCHANGED up
    /\ UNCHANGED <<remset, down, ctx, engine, handler, sending, clientVars>>

ControlEnds ==
    /\ handler.pc = "loop"
    /\ \/ sending.pc = "done" /\ UNCHANGED pulling
       \/ /\ pulling.pc = "offer" /\ pulling.f.k = "broken"
          /\ pulling' = [pulling EXCEPT !.pc = "done"]
    /\ handler' = Returned
    /\ engine' = Detached
    /\ UNCHANGED <<remset, up, down, ctx, sending, clientVars>>

(* A Reanchor frame: the engine's handle slides, and the fresh snapshot, or  *)
(* its error, is the reply.                                                  *)
ControlReanchors ==
    /\ handler.pc = "loop" /\ pulling.pc = "offer" /\ pulling.f.k = "reanchor"
    /\ pulling' = [pulling EXCEPT !.pc = "recv"]
    /\ \E k \in {"snapshot", "error"} :
          /\ k = "error" => Refusing("fails")
          /\ handler' = [pc |-> "reply", held |-> Frame(k, pulling.f.n)]
    /\ UNCHANGED <<remset, up, down, ctx, engine, sending, clientVars>>

ControlReplies ==
    /\ handler.pc = "reply"
    /\ \/ SendDown(handler.held) /\ handler' = [handler EXCEPT !.pc = "loop"] /\ UNCHANGED engine
       \/ SendDownFails /\ handler' = Returned /\ engine' = Detached
    /\ UNCHANGED <<remset, up, ctx, sending, pulling, clientVars>>

-----------------------------------------------------------------------------
(* Fabric.LiveQuery: the query goes up; the first frame down decides.        *)
Call ==
    /\ cli = "idle"
    /\ cli' = "query"
    /\ UNCHANGED <<remset, up, down, ctx, serverVars, reader, replies, buf, pump, got, calls, hungup>>

Query ==
    /\ cli = "query"
    /\ \/ SendUp(Frame("query", 0)) /\ cli' = "first" /\ UNCHANGED ctx
       \/ SendUpFails /\ cli' = "failed" /\ CloseStream
    /\ UNCHANGED <<remset, down, serverVars, reader, replies, buf, pump, got, calls, hungup>>

First ==
    /\ cli = "first"
    /\ \/ /\ RecvDown /\ Head(down).k = "snapshot"
          /\ cli' = "live"
          /\ reader' = [reader EXCEPT !.pc = "recv"]
          /\ pump' = [pump EXCEPT !.pc = "check"]
          /\ UNCHANGED ctx
       \/ /\ (RecvDown /\ Head(down).k = "error") \/ RecvDownFails
          /\ cli' = "failed" /\ CloseStream /\ UNCHANGED <<reader, pump>>
    /\ UNCHANGED <<remset, up, serverVars, replies, buf, got, calls, hungup>>

(* The reader: a snapshot or an error is the reply of a Reanchor, a delta    *)
(* goes to the buffer, which is signalled after it.  On the way out it closes *)
(* the reanchor channel, the buffer and the stream.                          *)
ReaderExits ==
    /\ reader' = [reader EXCEPT !.pc = "done"]
    /\ replies' = [replies EXCEPT !.closed = TRUE]
    /\ buf' = [buf EXCEPT !.closed = TRUE, !.signal = TRUE]
    /\ CloseStream

ReaderRecv ==
    /\ reader.pc = "recv"
    /\ \/ /\ RecvDown
          /\ reader' = [pc |-> IF Head(down).k = "delta" THEN "push" ELSE "reply", f |-> Head(down)]
          /\ UNCHANGED <<ctx, replies, buf>>
       \/ RecvDownFails /\ ReaderExits
    /\ UNCHANGED <<remset, up, serverVars, cli, pump, got, calls, hungup>>

Push ==
    /\ \/ /\ reader.pc = "push"
          /\ buf' = [buf EXCEPT !.items = Append(@, reader.f.n)] /\ reader' = [reader EXCEPT !.pc = "signal"]
       \/ /\ reader.pc = "signal"
          /\ buf' = [buf EXCEPT !.signal = TRUE] /\ reader' = [reader EXCEPT !.pc = "recv"]
    /\ UNCHANGED <<remset, up, down, ctx, serverVars, cli, replies, pump, got, calls, hungup>>

ReaderReplies ==
    /\ reader.pc = "reply"
    /\ \/ /\ replies.q = <<>>
          /\ replies' = [replies EXCEPT !.q = <<reader.f>>]
          /\ reader' = [reader EXCEPT !.pc = "recv"]
          /\ UNCHANGED <<ctx, buf>>
       \/ ctx.caller /\ ReaderExits
    /\ UNCHANGED <<remset, up, down, serverVars, cli, pump, got, calls, hungup>>

(* The pump of the buffer: the caller takes the deltas at its own pace.      *)
PumpChecks ==
    /\ pump.pc = "check"
    /\ IF buf.items # <<>>
       THEN /\ pump' = [pc |-> "give", d |-> Head(buf.items)]
            /\ buf' = [buf EXCEPT !.items = Tail(@)]
       ELSE /\ pump' = [pump EXCEPT !.pc = IF buf.closed THEN "done" ELSE "wait"]
            /\ UNCHANGED buf
    /\ UNCHANGED <<remset, up, down, ctx, serverVars, cli, reader, replies, got, calls, hungup>>

PumpWakes ==
    /\ pump.pc = "wait"
    /\ \/ buf.signal /\ buf' = [buf EXCEPT !.signal = FALSE] /\ pump' = [pump EXCEPT !.pc = "check"]
       \/ ctx.caller /\ pump' = [pump EXCEPT !.pc = "done"] /\ UNCHANGED buf
    /\ UNCHANGED <<remset, up, down, ctx, serverVars, cli, reader, replies, got, calls, hungup>>

PumpGivesUp ==
    /\ pump.pc = "give" /\ ctx.caller
    /\ pump' = [pump EXCEPT !.pc = "done"]
    /\ UNCHANGED <<remset, up, down, ctx, serverVars, cli, reader, replies, buf, got, calls, hungup>>

Take ==
    /\ pump.pc = "give"
    /\ got' = Append(got, pump.d)
    /\ pump' = [pump EXCEPT !.pc = "check"]
    /\ UNCHANGED <<remset, up, down, ctx, serverVars, cli, reader, replies, buf, calls, hungup>>

(* Reanchor: one call at a time sends its frame and waits for a reply, the   *)
(* end of the stream, or its own context.                                    *)
(* (Mutant: concurrent calls are not serialised.)                            *)
ReanchorAtOnce(c) ==
    /\ cli = "live" /\ calls[c].pc = "idle"
    /\ calls' = [calls EXCEPT ![c].pc = "locked"]
    /\ UNCHANGED <<remset, up, down, ctx, serverVars, cli, reader, replies, buf, pump, got, hungup>>

Reanchor(c) ==
    /\ cli = "live" /\ calls[c].pc = "idle"
    /\ \A d \in Calls : calls[d].pc \notin {"locked", "wait"}
    /\ calls' = [calls EXCEPT ![c].pc = "locked"]
    /\ UNCHANGED <<remset, up, down, ctx, serverVars, cli, reader, replies, buf, pump, got, hungup>>

ReanchorSends(c) ==
    /\ calls[c].pc = "locked"
    /\ \/ SendUp(Frame("reanchor", c)) /\ calls' = [calls EXCEPT ![c].pc = "wait"]
       \/ SendUpFails /\ calls' = [calls EXCEPT ![c] = [pc |-> "done", res |-> Frame("broken", c)]]
    /\ UNCHANGED <<remset, down, ctx, serverVars, cli, reader, replies, buf, pump, got, hungup>>

ReanchorReturns(c) ==
    /\ calls[c].pc = "wait"
    /\ \/ /\ replies.q # <<>>
          /\ calls' = [calls EXCEPT ![c] = [pc |-> "done", res |-> Head(replies.q)]]
          /\ replies' = [replies EXCEPT !.q = <<>>]
       \/ /\ replies.q = <<>> /\ replies.closed
          /\ calls' = [calls EXCEPT ![c] = [pc |-> "done", res |-> Frame("broken", c)]]
          /\ UNCHANGED replies
    /\ UNCHANGED <<remset, up, down, ctx, serverVars, cli, reader, buf, pump, got, hungup>>

ReanchorGivesUp(c) ==
    /\ "giveup" \in remset.fates
    /\ calls[c].pc = "wait"
    /\ calls' = [calls EXCEPT ![c] = [pc |-> "done", res |-> Frame("gaveup", c)]]
    /\ UNCHANGED <<remset, up, down, ctx, serverVars, cli, reader, replies, buf, pump, got, hungup>>

(* Close of the handle; cancel of the context the query was opened with.     *)
Close ==
    /\ "close" \in remset.fates /\ cli = "live" /\ ~hungup
    /\ CloseStream /\ hungup' = TRUE
    /\ UNCHANGED <<remset, up, down, serverVars, cli, reader, replies, buf, pump, got, calls>>

Cancel ==
    /\ "cancel" \in remset.fates /\ cli # "idle" /\ ~hungup
    /\ ctx' = [ctx EXCEPT !.caller = TRUE, !.stream = TRUE] /\ hungup' = TRUE
    /\ UNCHANGED <<remset, up, down, serverVars, cli, reader, replies, buf, pump, got, calls>>

-----------------------------------------------------------------------------
HandlerStep == HandlerFirst \/ HandlerOpens \/ ControlEnds \/ ControlReanchors \/ ControlReplies
OpenStep == Query \/ First
ReaderStep == ReaderRecv \/ Push \/ ReaderReplies
PumpStep == PumpChecks \/ PumpWakes \/ PumpGivesUp
CallStep(c) == ReanchorSends(c) \/ ReanchorReturns(c)
CallerStep == Call \/ Take \/ Close \/ Cancel \/ \E c \in Calls : Reanchor(c) \/ ReanchorGivesUp(c)

Goroutines ==
    \/ HandlerStep \/ SendDelta \/ PullFrame
    \/ OpenStep \/ ReaderStep \/ PumpStep
    \/ \E c \in Calls : CallStep(c)

RemoteNext == Produce \/ EndFeed \/ Break \/ Goroutines \/ CallerStep

RemoteSpec == RemoteInit /\ [][RemoteNext]_remoteVars

(* Some goroutine runs while one can, and the engine answers a Reanchor; as  *)
(* none of them loops without a frame or a delta, each gets its turn.  The   *)
(* caller need neither call nor close; it goes on taking deltas only if it   *)
(* drains.                                                                   *)
RemoteFairness == WF_remoteVars(Goroutines \/ (remset.drains /\ Take))

-----------------------------------------------------------------------------
RemoteTypeOK ==
    /\ remset \in RemoteSetups
    /\ Len(up) <= remset.room /\ Len(down) <= remset.room
    /\ ctx.caller => ctx.stream
    /\ Len(replies.q) <= 1
    /\ Cardinality({c \in Calls : calls[c].pc \in {"locked", "wait"}}) <= 1

GaveUp == {c \in Calls : calls[c].res.k = "gaveup"}

(* The snapshot, or the error, a Reanchor returns is the reply to its own    *)
(* frame, as long as no call gave up waiting: the reply of one that did      *)
(* stays in the channel and answers the next call (Reanchor: "blocks for the *)
(* fresh snapshot the server returns").                                      *)
ReplyIsOwn == GaveUp = {} => \A c \in Calls : calls[c].pc = "done" => calls[c].res.n = c

(* The caller takes the engine's deltas in order and without a gap, whatever *)
(* replies are between them (deltaBuffer), and when its channel closes       *)
(* although nobody hung up, it has had them all: the end of a subscription   *)
(* overtakes no delta.  Except when the connection broke: the reader returns *)
(* on "io.EOF (clean end) or transport error" alike (live.go:192), and a     *)
(* caller cannot tell that deltas are missing.                               *)
DeltasGapless == \A i \in DOMAIN got : got[i] = i

EndIsLast == (pump.pc = "done" /\ ~hungup /\ ~ctx.broken) => Len(got) = engine.made

(* No subscription of the engine outlives its stream's handler               *)
(* (Handler.LiveQuery: defer sub.Close()).                                   *)
HandleReleased == (Over /\ sending.pc # "off") => engine.closed

-----------------------------------------------------------------------------
(* A Reanchor returns although the caller takes no delta (the reader never   *)
(* blocks on the caller's channel).                                          *)
Waiting(c) == c \in Calls /\ calls[c].pc \in {"locked", "wait"}
ReanchorEnds == \A c \in UNION {1..r.calls : r \in RemoteSetups} : Waiting(c) ~> ~Waiting(c)

(* A query that is hung up, or whose connection broke, ends on both sides:   *)
(* its handler, pump and receiver, and its reader, unless two abandoned      *)
(* replies hold the reader back, which only the query's own context          *)
(* releases.                                                                 *)
HungupEnds ==
    (hungup \/ ctx.broken) ~>
              /\ Over /\ sending.pc \in {"off", "done"} /\ pulling.pc \in {"off", "done"}
              /\ reader.pc \in {"off", "done"} \/ (Cardinality(GaveUp) >= 2 /\ ~ctx.caller)

(* A delta of the engine reaches a caller that drains its channel, as long   *)
(* as the connection lasts.                                                  *)
DeltasArrive ==
    \A i \in UNION {1..r.deltas : r \in RemoteSetups} :
        (remset.drains /\ engine.made >= i) ~> (Len(got) >= i \/ hungup \/ ctx.broken \/ Cardinality(GaveUp) >= 2)
=============================================================================
