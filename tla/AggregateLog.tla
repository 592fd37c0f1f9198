---------------------------- MODULE AggregateLog ----------------------------
(***************************************************************************)
(* What the command plane promises about one store of aggregates, seen by   *)
(* everything downstream of the outbox: each aggregate has a gap-free       *)
(* history of event types, created, updated ..., deleted; a transaction     *)
(* extends some histories atomically; an erased aggregate is closed.        *)
(* CommandPlane is shown to implement this specification.                   *)
(***************************************************************************)
EXTENDS Integers, Sequences

CONSTANTS
    Aggs,       \* aggregate identities (tenant, entity, id)
    MaxVersion  \* bound on the length of a history

VARIABLES
    hist,       \* hist[a][v]: type of the event that made version v of a
    erased      \* erased[a]: the identity carries a tombstone

vars == <<hist, erased>>

Verbs == {"created", "updated", "deleted"}

IsLifecycle(h) ==
    \A v \in 1..Len(h) : /\ (v = 1) <=> (h[v] = "created")
                         /\ (h[v] = "deleted") => (v = Len(h))

Histories == {h \in UNION {[1..n -> Verbs] : n \in 0..MaxVersion} : IsLifecycle(h)}

Extends(new, old) == /\ Len(old) <= Len(new)
                     /\ \A v \in 1..Len(old) : new[v] = old[v]

Init == /\ hist = [a \in Aggs |-> <<>>]
        /\ erased = [a \in Aggs |-> FALSE]

(* One committed transaction: every history is kept or extended.            *)
Commit == /\ hist' \in [Aggs -> Histories]
          /\ \A a \in Aggs : Extends(hist'[a], hist[a])
          /\ \A a \in Aggs : erased[a] => hist'[a] = hist[a]
          /\ UNCHANGED erased

Erase(a) == /\ ~erased[a]
            /\ erased' = [erased EXCEPT ![a] = TRUE]
            /\ UNCHANGED hist

Next == Commit \/ \E a \in Aggs : Erase(a)

Spec == Init /\ [][Next]_vars
=============================================================================
