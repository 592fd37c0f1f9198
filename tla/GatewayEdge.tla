----------------------------- MODULE GatewayEdge ----------------------------
(* The gateway's end of one client connection (gateway/ws.go, gateway/sse.go): *)
(* over a WebSocket a read pump serves commands while a write pump forwards  *)
(* the subscription's deltas, each write under a watchdog; over SSE one loop *)
(* writes them, with heartbeats, under a write deadline.  The subscription   *)
(* is closed when the connection's handler returns.                          *)
EXTENDS Naturals, Sequences, FiniteSets

CONSTANTS
    EdgeSetups      \* [kind, deltas, beats, timeout, fates]: "ws" or "sse", the deltas and the heartbeats there are,
                    \* whether a write is bounded, and what may happen, among "stall", "gone", "leave", "end",
                    \* "cancel", "reanchor" and "refused"

VARIABLES
    edgeset,        \* the setup of this behaviour
    peer,           \* the client: [stalled, gone, sent]: it reads no more, it disconnected, the commands it has sent
    conn,           \* open or closed, by the gateway
    sub,            \* the subscription: [made, queue, ended, closed]
    serve,          \* the handler: where it is
    rpump,          \* the read pump
    wpump,          \* the write pump: [pc, d]
    writing,        \* the frames whose write has begun and not returned
    wrote,          \* what returned writes came to: frame -> ok or not
    seen,           \* the frames the client received
    pctx,           \* the pumps' context is done
    beats           \* heartbeats so far

edgeVars == <<edgeset, peer, conn, sub, serve, rpump, wpump, writing, wrote, seen, pctx, beats>>

WS == edgeset.kind = "ws"
Frames == 1..edgeset.deltas
Beat == 0           \* a heartbeat

EdgeInit ==
    /\ edgeset \in EdgeSetups
    /\ peer = [stalled |-> FALSE, gone |-> FALSE, sent |-> <<>>]
    /\ conn = "open"
    /\ sub = [made |-> 0, queue |-> <<>>, ended |-> FALSE, closed |-> FALSE]
    /\ serve = "idle" /\ rpump = "off" /\ wpump = [pc |-> "off", d |-> 0]
    /\ writing = {} /\ wrote = <<>> /\ seen = <<>>
    /\ pctx = FALSE /\ beats = 0

-----------------------------------------------------------------------------
(* The client, and the subscription's stream.                                *)
Fate(f) == f \in edgeset.fates

Stall == Fate("stall") /\ ~peer.stalled /\ peer' = [peer EXCEPT !.stalled = TRUE]
Disconnect == Fate("gone") /\ ~peer.gone /\ peer' = [peer EXCEPT !.gone = TRUE]
SendCommand(a) ==
    /\ Fate(a) /\ WS /\ serve \notin {"idle", "first"} /\ ~peer.gone /\ peer.sent = <<>>
    /\ peer' = [peer EXCEPT !.sent = <<a>>]

Connect ==
    /\ serve = "idle"
    /\ serve' = "first"
    /\ UNCHANGED <<edgeset, peer, conn, sub, rpump, wpump, writing, wrote, seen, pctx, beats>>

PeerStep ==
    /\ serve # "idle"
    /\ Stall \/ Disconnect \/ SendCommand("leave") \/ SendCommand("reanchor")
    /\ UNCHANGED <<edgeset, conn, sub, serve, rpump, wpump, writing, wrote, seen, pctx, beats>>

Produce ==
    /\ serve = "serving" /\ ~sub.ended
    /\ \/ sub.made < edgeset.deltas /\ sub' = [sub EXCEPT !.made = @ + 1, !.queue = Append(@, sub.made + 1)]
       \/ Fate("end") /\ sub' = [sub EXCEPT !.ended = TRUE]
    /\ UNCHANGED <<edgeset, peer, conn, serve, rpump, wpump, writing, wrote, seen, pctx, beats>>

(* The connection's, or the request's, context: it ends with the client, and *)
(* with the server.                                                          *)
ContextEnds ==
    /\ peer.gone \/ Fate("cancel")
    /\ ~pctx /\ serve \notin {"idle", "first"}
    /\ pctx' = TRUE
    /\ UNCHANGED <<edgeset, peer, conn, sub, serve, rpump, wpump, writing, wrote, seen, beats>>

-----------------------------------------------------------------------------
(* The first command subscribes, or is refused; then the pumps run, or the   *)
(* loop.                                                                     *)
Subscribe ==
    /\ serve = "first"
    /\ \/ /\ peer.gone \/ Fate("refused")
          /\ serve' = "done" /\ UNCHANGED <<rpump, wpump>>
       \/ /\ ~peer.gone
          /\ serve' = "serving"
          /\ rpump' = IF WS THEN "read" ELSE "off"
          /\ wpump' = [wpump EXCEPT !.pc = "take"]
    /\ UNCHANGED <<edgeset, peer, conn, sub, writing, wrote, seen, pctx, beats>>

(* wsReadPump: an error of the connection ends it, and so does unsubscribe.  *)
ReadCommand ==
    /\ rpump = "read"
    /\ \/ /\ peer.gone \/ conn = "closed"
          /\ rpump' = "done" /\ UNCHANGED peer
       \/ /\ conn = "open" /\ peer.sent # <<>>
          /\ rpump' = IF Head(peer.sent) = "leave" THEN "done" ELSE "read"
          /\ peer' = [peer EXCEPT !.sent = Tail(@)]
    /\ UNCHANGED <<edgeset, conn, sub, serve, wpump, writing, wrote, seen, pctx, beats>>

(* wsWritePump, and ServeSSE's loop: the next delta or the end; over SSE     *)
(* also a heartbeat.                                                         *)
StartWrite(d) ==
    /\ writing' = writing \cup {d}
    /\ wpump' = [pc |-> "write", d |-> d]

TakeDelta ==
    /\ wpump.pc = "take"
    /\ \/ sub.queue # <<>> /\ StartWrite(Head(sub.queue)) /\ sub' = [sub EXCEPT !.queue = Tail(@)]
       \/ /\ pctx \/ (sub.ended /\ sub.queue = <<>>)
          /\ wpump' = [wpump EXCEPT !.pc = "ended"] /\ UNCHANGED <<writing, sub>>
    /\ UNCHANGED <<edgeset, peer, conn, serve, rpump, wrote, seen, pctx, beats>>

Heartbeat ==
    /\ ~WS /\ wpump.pc = "take"
    /\ beats < edgeset.beats /\ beats' = beats + 1
    /\ StartWrite(Beat)
    /\ UNCHANGED <<edgeset, peer, conn, sub, serve, rpump, wrote, seen, pctx>>

(* A write returns when the client reads, or fails when the connection is    *)
(* gone; over SSE it also fails at its deadline.                             *)
WriteReturns(d) ==
    /\ d \in writing
    /\ \/ /\ ~peer.stalled /\ ~peer.gone /\ conn = "open"
          /\ wrote' = Append(wrote, [d |-> d, ok |-> TRUE])
          /\ seen' = IF d = Beat THEN seen ELSE Append(seen, d)
       \/ /\ peer.gone \/ conn = "closed" \/ (~WS /\ edgeset.timeout /\ peer.stalled)
          /\ wrote' = Append(wrote, [d |-> d, ok |-> FALSE])
          /\ UNCHANGED seen
    /\ writing' = writing \ {d}
    /\ UNCHANGED <<edgeset, peer, conn, sub, serve, rpump, wpump, pctx, beats>>

(* wsWrite waits for the write, and under a watchdog for the timer, which    *)
(* closes the connection, or for the context.                                *)
AwaitWrite ==
    /\ wpump.pc = "write"
    /\ \/ \E i \in DOMAIN wrote :
             /\ wrote[i].d = wpump.d
             /\ wpump' = [wpump EXCEPT !.pc = IF wrote[i].ok THEN "take" ELSE "ended"]
             /\ wrote' = <<>> /\ UNCHANGED conn
       \/ /\ WS /\ edgeset.timeout /\ wpump.d \in writing /\ peer.stalled
          /\ conn' = "closed" /\ wpump' = [wpump EXCEPT !.pc = "ended"] /\ UNCHANGED wrote
       \/ /\ WS /\ edgeset.timeout /\ pctx
          /\ wpump' = [wpump EXCEPT !.pc = "ended"] /\ UNCHANGED <<conn, wrote>>
    /\ UNCHANGED <<edgeset, peer, sub, serve, rpump, writing, seen, pctx, beats>>

(* The write pump closes the socket on its way out, which ends the read pump. *)
PumpEnds ==
    /\ wpump.pc = "ended"
    /\ wpump' = [wpump EXCEPT !.pc = "done"]
    /\ conn' = IF WS THEN "closed" ELSE conn
    /\ UNCHANGED <<edgeset, peer, sub, serve, rpump, writing, wrote, seen, pctx, beats>>

(* ServeWS: when the read pump returns, the write pump is cancelled and      *)
(* awaited; the subscription is closed last.                                 *)
ReadEnded ==
    /\ serve = "serving" /\ rpump = "done" /\ WS
    /\ serve' = "waiting" /\ pctx' = TRUE
    /\ UNCHANGED <<edgeset, peer, conn, sub, rpump, wpump, writing, wrote, seen, beats>>

Return ==
    /\ serve = "waiting" \/ (~WS /\ serve = "serving")
    /\ wpump.pc = "done"
    /\ serve' = "done"
    /\ sub' = [sub EXCEPT !.closed = TRUE, !.ended = TRUE]
    /\ UNCHANGED <<edgeset, peer, conn, rpump, wpump, writing, wrote, seen, pctx, beats>>

Pumps ==
    \/ Subscribe \/ ReadCommand \/ TakeDelta \/ AwaitWrite \/ PumpEnds \/ ReadEnded \/ Return
    \/ \E d \in Frames \cup {Beat} : WriteReturns(d)

EdgeNext == Connect \/ PeerStep \/ Produce \/ ContextEnds \/ Heartbeat \/ Pumps

EdgeSpec == EdgeInit /\ [][EdgeNext]_edgeVars

(* A pump runs while one can, and a client that is gone ends the context; a  *)
(* client that sends commands for ever may hold the read pump, heartbeats    *)
(* are bounded.                                                              *)
EdgeFairness == WF_edgeVars(Pumps \/ (peer.gone /\ ContextEnds))

-----------------------------------------------------------------------------
EdgeTypeOK ==
    /\ edgeset \in EdgeSetups
    /\ conn \in {"open", "closed"}
    /\ serve \in {"idle", "first", "serving", "waiting", "done"}
    /\ writing \subseteq Frames \cup {Beat}
    /\ Len(wrote) <= 1

(* A connection is written by one write at a time, an abandoned one included *)
(* (wsWrite leaves its goroutine behind when the timer or the context wins), *)
(* and its client sees the deltas in order and without a gap.                *)
OneWriter == Cardinality(writing) <= 1

FramesGapless == \A i \in DOMAIN seen : seen[i] = i

(* No frame is begun on behalf of a subscription that is closed (ServeWS     *)
(* waits for the write pump before its deferred Close).                      *)
ClosedIsQuiet == sub.closed => wpump.pc = "done"

-----------------------------------------------------------------------------
(* The handler returns, and with it the subscription goes, once the client   *)
(* leaves or unsubscribes, the stream ends or the context does; only a       *)
(* client that stops reading holds it for ever, and only where writes are    *)
(* not bounded (WSOptions.WriteTimeout zero "disables the watchdog").        *)
Held == peer.stalled /\ ~edgeset.timeout /\ ~peer.gone
Over == peer.gone \/ pctx \/ sub.ended \/ rpump = "done"
EdgeReleased == (serve = "serving" /\ Over) ~> (serve = "done" \/ Held)

(* A client that stops reading is dropped at the next delta.                 *)
StalledIsDropped ==
    (serve = "serving" /\ peer.stalled /\ edgeset.timeout /\ sub.queue # <<>>) ~> serve = "done"
=============================================================================
