------------------------------ MODULE Debounce -------------------------------
(* The sweeper of the distillation worker (forgeext/distillworker.go), for   *)
(* one tenant of one replica: events are coalesced per source row behind a   *)
(* timer that every event re-arms, up to a deadline; when it fires the sweep *)
(* takes the events and distills them under the tenant's gate.  A timer that *)
(* has fired cannot be stopped, so several sweeps may be on their way, and   *)
(* the gate lets them in in any order.  What distilling does is in Distill:  *)
(* here the leaf of a row records the version it was last distilled from.    *)
EXTENDS Integers, FiniteSets

CONSTANTS
    SourceRows,              \* source rows
    DebounceSetups     \* debounce, maxWait as configured; until, versions, again

VARIABLES
    bset,       \* the setup
    clock,
    arrived,       \* row -> latest version that has arrived
    repeats,    \* redeliveries so far
    dirty,      \* row -> version, of the events coalesced
    armed,      \* timer -> when it fires, of the timers that are running
    handle,     \* the timer the sweeper knows of, 0 for none
    deadline,   \* first mark + maxWait, 0 for none
    fired,      \* timers that have fired and wait for the sweeper's lock
    waiting,    \* sweeps that wait for the gate: number -> events
    sweeping,   \* the events of the sweep inside the gate still to distill
    leaf,       \* row -> version of its leaf
    since,      \* when the oldest of the coalesced events arrived
    overtaken   \* an event was marked, or let through the gate, after a later one

None == <<>>
Timers == 1 .. bset.timers
Put(f, k, v) == [x \in DOMAIN f \cup {k} |-> IF x = k THEN v ELSE f[x]]
Drop(f, k) == [x \in DOMAIN f \ {k} |-> f[x]]

(* newDistillSweeper: the defaults and the clamp of the configured waits.    *)
Wait == IF bset.debounce <= 0 THEN 1 ELSE bset.debounce
MaxWait ==
    LET max == IF bset.maxWait <= 0 THEN 10 * Wait ELSE bset.maxWait
    IN  IF max < Wait THEN Wait ELSE max

nextFireDelay(now, until) ==
    LET d == IF until - now < Wait THEN until - now ELSE Wait
    IN  IF d < 0 THEN 0 ELSE d

DebounceInit ==
    /\ bset \in DebounceSetups
    /\ clock = 1
    /\ arrived = [r \in SourceRows |-> 0] /\ leaf = [r \in SourceRows |-> 0]
    /\ repeats = 0
    /\ dirty = None /\ armed = None /\ waiting = None /\ sweeping = None
    /\ handle = 0 /\ deadline = 0 /\ fired = 0 /\ since = 0
    /\ overtaken = FALSE

Coalesced(r, v) == Put(dirty, r, v)

(* The known timer is stopped if it still runs, and a new one is armed.      *)
MarkAndSchedule(r, v) ==
    LET until == IF deadline = 0 THEN clock + MaxWait ELSE deadline
        stopped == Drop(armed, handle)
        t == CHOOSE i \in Timers : i \notin DOMAIN stopped
    IN  /\ Timers \ DOMAIN stopped # {}
        /\ dirty' = Coalesced(r, v)
        /\ deadline' = until
        /\ armed' = Put(stopped, t, clock + nextFireDelay(clock, until))
        /\ handle' = t
        /\ since' = IF DOMAIN dirty = {} THEN clock ELSE since
        /\ UNCHANGED <<bset, clock, fired, waiting, sweeping, leaf>>
Arrives(r) ==
    /\ arrived[r] < bset.versions
    /\ arrived' = [arrived EXCEPT ![r] = @ + 1]
    /\ MarkAndSchedule(r, arrived[r] + 1)
    /\ UNCHANGED <<repeats, overtaken>>
(* An event is delivered again, perhaps after later ones of the row.         *)
Redelivered(r) ==
    /\ repeats < bset.again /\ repeats' = repeats + 1
    /\ \E v \in 1 .. arrived[r] :
          /\ MarkAndSchedule(r, v)
          /\ overtaken' = (overtaken \/ v < arrived[r])
    /\ UNCHANGED arrived

TimerFires(t) ==
    /\ t \in DOMAIN armed /\ armed[t] <= clock
    /\ armed' = Drop(armed, t)
    /\ fired' = fired + 1
    /\ UNCHANGED <<bset, clock, arrived, repeats, dirty, handle, deadline, waiting, sweeping, leaf,
                   since, overtaken>>

(* sweep, up to the gate: it takes all the events there are, those that came *)
(* after its timer fired included, and forgets a timer it does not stop.     *)
TakeDirty ==
    /\ fired > 0 /\ fired' = fired - 1
    /\ dirty' = None /\ handle' = 0 /\ deadline' = 0 /\ since' = 0
    /\ IF DOMAIN dirty = {}
         THEN UNCHANGED waiting
         ELSE LET n == Cardinality(DOMAIN waiting) + 1
              IN  waiting' = Put(waiting, n, dirty)
    /\ UNCHANGED <<bset, clock, arrived, repeats, armed, sweeping, leaf, overtaken>>

(* tenantGate.Do: one sweep at a time, whichever of those that wait.         *)
EnterGate ==
    /\ DOMAIN sweeping = {}
    /\ \E n \in DOMAIN waiting :
          /\ sweeping' = waiting[n]
          /\ waiting' = [i \in 1 .. Cardinality(DOMAIN waiting) - 1 |->
                           IF i < n THEN waiting[i] ELSE waiting[i + 1]]
          /\ overtaken' = (overtaken \/ n > 1)
    /\ UNCHANGED <<bset, clock, arrived, repeats, dirty, armed, handle, deadline, fired, leaf, since>>
DistillRow(r) ==
    /\ r \in DOMAIN sweeping
    /\ leaf' = [leaf EXCEPT ![r] = sweeping[r]]
    /\ sweeping' = Drop(sweeping, r)
    /\ UNCHANGED <<bset, clock, arrived, repeats, dirty, armed, handle, deadline, fired, waiting,
                   since, overtaken>>

Tick ==
    /\ clock < bset.until /\ clock' = clock + 1
    /\ UNCHANGED <<bset, arrived, repeats, dirty, armed, handle, deadline, fired, waiting, sweeping,
                   leaf, since, overtaken>>

DebounceNext ==
    \/ \E r \in SourceRows : Arrives(r) \/ Redelivered(r) \/ DistillRow(r)
    \/ \E t \in Timers : TimerFires(t)
    \/ TakeDirty \/ EnterGate \/ Tick

-----------------------------------------------------------------------------
(* The timers, the sweeps and the leaves are of the setup's sizes.           *)
DebounceTypeOK ==
    /\ DOMAIN armed \subseteq Timers /\ handle \in Timers \cup {0} /\ fired \in Nat
    /\ DOMAIN dirty \subseteq SourceRows /\ DOMAIN sweeping \subseteq SourceRows
    /\ \A r \in SourceRows : leaf[r] \in 0 .. arrived[r]

(* However the events keep coming, those that have been coalesced will be    *)
(* taken within the maximal wait of the first of them: a timer has fired, is *)
(* due, or runs and no later event can postpone it past that                 *)
(* (distillworker.go:124-147; sweep forgets a timer without stopping it).    *)
SweptWithinMaxWait ==
    DOMAIN dirty # {} =>
      \/ fired > 0
      \/ \E t \in DOMAIN armed : armed[t] <= clock \/ armed[t] <= since + MaxWait

(* When no event was marked after a later one of its row and no sweep passed *)
(* an earlier one at the gate, the leaves are of the latest versions once    *)
(* all is swept: nothing taken out of the dirty set is lost, and a burst     *)
(* comes to its last event (distillworker.go:124-128, 152-158).              *)
BurstComesToItsLast ==
    DOMAIN dirty = {} /\ DOMAIN waiting = {} /\ DOMAIN sweeping = {} /\ ~overtaken =>
      leaf = arrived
=============================================================================
