---------------------------- MODULE MCProjection ----------------------------
(* Two consumers of a stream of one aggregate's events.                     *)
EXTENDS Projection, TLC

CONSTANT a1

(* The aggregate lives and dies, with an update whose payload does not      *)
(* parse.                                                                   *)
Life == (a1 :> <<"created", "updated", "deleted">>)
BadPayload == {<<a1, 2>>}

(* A disordered stream and two faults. Only the expiry depends on the sink; *)
(* the others are shared out, so that each sink meets a pair of its own.    *)
TwoFaults == ("graph" :> {"reorder", "apply", "crash"}) @@ ("search" :> {"reorder", "ack", "expire"})
=============================================================================
