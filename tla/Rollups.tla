------------------------------- MODULE Rollups ------------------------------
(* The rollup of a metric: customer events are tracked straight into the     *)
(* tenant's event table, an elected maintainer aggregates the buckets whose  *)
(* grace has passed into the metric's rollup table and moves a watermark,    *)
(* and a query stitches the rolled buckets below the watermark with the      *)
(* events above it (adapters/postgres/insights*.go, leader.go,               *)
(* forgeext/rollup.go).                                                      *)
(*                                                                           *)
(* A measure is a function of the set of events a row aggregates, so a row   *)
(* is that set.  One metric of one tenant; scopes and dimensions split rows  *)
(* and are left out.  Times are ticks of one clock.                          *)
EXTENDS Integers, FiniteSets

CONSTANTS
    Replicas,        \* the workers that campaign for the maintainer's lock
    RollupSetups     \* [bucket, grace, reroll, until, events, queries, losses]: the RollupSpec, and the bounds on time, on
                     \* events, on the watermarks queries hold and on lost sessions

VARIABLES
    rset,      \* the setup of this behaviour, its bounds counting down
    now,       \* the clock
    events,    \* the event table: [n, at, delay], delay saying how long after its time it was tracked
    roll,      \* the rollup table: bucket start -> the events its row aggregates ({}: no row)
    mark,      \* the watermark, or Unset: no pass has ended yet
    lock,      \* who holds the advisory lock, or "none"
    pass,      \* per replica, the maintainer: [pc, asof, from, to, rows, stale]
    held,      \* the watermark a query has read and is about to use, or Unset
    overlaid,  \* a pass wrote rows it had aggregated before another pass wrote: only after a lost session
    cut        \* buckets a pass wrote again from inside: only when the re-roll window is no multiple of the bucket

rollVars == <<rset, now, events, roll, mark, lock, pass, held, overlaid, cut>>

Unset == -1
FarPast == -1
NotLeading == [pc |-> "idle", asof |-> 0, from |-> 0, to |-> 0, rows |-> {}, stale |-> FALSE]

-----------------------------------------------------------------------------
floorToGrain(t, g) == t - (t % g)

ceilToGrain(t, g) ==
    IF t % g = 0 THEN t ELSE floorToGrain(t, g) + g

Bucket(t) == floorToGrain(t, rset.bucket)
Buckets(s) == {b \in 0..s.until : b % s.bucket = 0}

TrackedIn(from, to) == {e \in events : from <= e.at /\ e.at < to}

RollInit ==
    /\ rset \in RollupSetups
    /\ now = rset.grace
    /\ events = {}
    /\ roll = [b \in Buckets(rset) |-> {}]
    /\ mark = Unset
    /\ lock = "none"
    /\ pass = [r \in Replicas |-> NotLeading]
    /\ held = Unset
    /\ overlaid = FALSE
    /\ cut = {}

RollTick ==
    /\ now < rset.until
    /\ now' = now + 1
    /\ UNCHANGED <<rset, events, roll, mark, lock, pass, held, overlaid, cut>>

-----------------------------------------------------------------------------
(* Tracking an event: its time is the caller's, now or earlier.  Of its      *)
(* delay it is enough to keep whether it is within the grace, or within the  *)
(* re-roll window after that.                                                *)
Delay(d) ==
    CASE d <= rset.grace -> "grace"
      [] d > rset.grace /\ d <= rset.grace + rset.reroll - rset.bucket -> "window"
      [] OTHER -> "beyond"

Track(at) ==
    /\ Cardinality(events) < rset.events
    /\ events' = events \cup {[n |-> Cardinality(events) + 1, at |-> at, delay |-> Delay(now - at)]}
    /\ UNCHANGED <<rset, now, roll, mark, lock, pass, held, overlaid, cut>>

(* The election: a session that holds the lock leads.  When the session is   *)
(* lost the lock is free at once, while its holder goes on until its         *)
(* watchdog, or the end of the process, stops it.                            *)
Campaign(r) ==
    /\ pass[r].pc = "idle"
    /\ lock = "none"
    /\ lock' = r
    /\ pass' = [pass EXCEPT ![r].pc = "lead"]
    /\ UNCHANGED <<rset, now, events, roll, mark, held, overlaid, cut>>

SessionLost(r) ==
    /\ lock = r
    /\ rset.losses > 0
    /\ rset' = [rset EXCEPT !.losses = @ - 1]
    /\ lock' = "none"
    /\ UNCHANGED <<now, events, roll, mark, pass, held, overlaid, cut>>

Abdicate(r) ==
    /\ pass[r].pc # "idle"
    /\ pass' = [pass EXCEPT ![r] = NotLeading]
    /\ lock' = IF lock = r THEN "none" ELSE lock
    /\ UNCHANGED <<rset, now, events, roll, mark, held, overlaid, cut>>

-----------------------------------------------------------------------------
(* A pass takes the time once, before it gets to the metric.                 *)
RollupPass(r) ==
    /\ pass[r].pc = "lead"
    /\ pass' = [pass EXCEPT ![r] = [NotLeading EXCEPT !.pc = "pass", !.asof = now]]
    /\ UNCHANGED <<rset, now, events, roll, mark, lock, held, overlaid, cut>>

(* Mutant: the re-roll window is forgotten.                                  *)
MaintainNoReroll(r) ==
    /\ pass[r].pc = "pass"
    /\ LET to == Bucket(pass[r].asof - rset.grace)
           from == IF mark = Unset THEN FarPast ELSE mark
       IN pass' = [pass EXCEPT ![r] = IF to > from THEN [NotLeading EXCEPT !.pc = "range", !.from = from, !.to = to]
                                                   ELSE [NotLeading EXCEPT !.pc = "lead"]]
    /\ UNCHANGED <<rset, now, events, roll, mark, lock, held, overlaid, cut>>

(* The range of the pass: from the watermark less the re-roll window to the  *)
(* newest boundary whose grace has passed; nothing to do when it is empty.   *)
MaintainRollup(r) ==
    /\ pass[r].pc = "pass"
    /\ LET to == Bucket(pass[r].asof - rset.grace)
           from == IF mark = Unset THEN FarPast ELSE mark - rset.reroll
       IN pass' = [pass EXCEPT ![r] = IF to > from THEN [NotLeading EXCEPT !.pc = "range", !.from = from, !.to = to]
                                                   ELSE [NotLeading EXCEPT !.pc = "lead"]]
    /\ UNCHANGED <<rset, now, events, roll, mark, lock, held, overlaid, cut>>

(* RollupRange is one statement: it aggregates what its snapshot sees, and   *)
(* then writes, over whatever was committed since.                           *)
Aggregate(r) ==
    /\ pass[r].pc = "range"
    /\ pass' = [pass EXCEPT ![r] = [NotLeading EXCEPT !.pc = "write", !.from = pass[r].from, !.to = pass[r].to,
                                            !.rows = TrackedIn(pass[r].from, pass[r].to)]]
    /\ UNCHANGED <<rset, now, events, roll, mark, lock, held, overlaid, cut>>

RowOf(rows, b) == {e \in rows : Bucket(e.at) = b}

RollupRange(r) ==
    /\ pass[r].pc = "write"
    /\ roll' = [b \in DOMAIN roll |-> IF RowOf(pass[r].rows, b) = {} THEN roll[b] ELSE RowOf(pass[r].rows, b)]
    /\ pass' = [s \in Replicas |-> IF s = r THEN [NotLeading EXCEPT !.pc = "mark", !.to = pass[r].to]
                                   ELSE [pass[s] EXCEPT !.stale = (pass[s].pc = "write")]]
    /\ overlaid' = (overlaid \/ pass[r].stale)
    /\ cut' = cut \cup {b \in DOMAIN roll : b < pass[r].from /\ RowOf(pass[r].rows, b) # {}}
    /\ UNCHANGED <<rset, now, events, mark, lock, held>>

AdvanceRollupWatermark(r) ==
    /\ pass[r].pc = "mark"
    /\ mark' = IF pass[r].to > mark THEN pass[r].to ELSE mark
    /\ pass' = [pass EXCEPT ![r] = [NotLeading EXCEPT !.pc = "lead"]]
    /\ UNCHANGED <<rset, now, events, roll, lock, held, overlaid, cut>>

(* An error anywhere ends the pass; the next tick starts another one.        *)
PassFails(r) ==
    /\ pass[r].pc \notin {"idle", "lead"}
    /\ pass' = [pass EXCEPT ![r] = [NotLeading EXCEPT !.pc = "lead"]]
    /\ UNCHANGED <<rset, now, events, roll, mark, lock, held, overlaid, cut>>

-----------------------------------------------------------------------------
(* A query reads the watermark in one transaction and runs the stitched      *)
(* statement in another.                                                     *)
ReadRollupWatermark ==
    /\ held = Unset
    /\ mark # Unset
    /\ rset.queries > 0
    /\ rset' = [rset EXCEPT !.queries = @ - 1]
    /\ held' = mark
    /\ UNCHANGED <<now, events, roll, mark, lock, pass, overlaid, cut>>

QueryReturns ==
    /\ held # Unset
    /\ held' = Unset
    /\ UNCHANGED <<rset, now, events, roll, mark, lock, pass, overlaid, cut>>

(* The two parts of the statement over [from, to), either bound of which may *)
(* be unset, with the watermark w that was read.                             *)
SealedLo(from) ==
    IF from = Unset THEN FarPast ELSE ceilToGrain(from, rset.bucket)

SealedHi(to, w) ==
    IF to = Unset \/ floorToGrain(to, rset.bucket) >= w THEN w ELSE floorToGrain(to, rset.bucket)

Sealed(from, to, w) ==
    UNION {roll[b] : b \in {c \in DOMAIN roll : SealedLo(from) <= c /\ c < SealedHi(to, w)}}

LiveTail(from, to, w) ==
    {e \in events : /\ from # Unset => e.at >= from
                    /\ to # Unset => e.at < to
                    /\ e.at < SealedLo(from) \/ e.at >= SealedHi(to, w)}

(* The fully live result over the same range.                                *)
Asked(from, to) ==
    {e \in events : (from # Unset => e.at >= from) /\ (to # Unset => e.at < to)}

(* The bounds of a query, and the watermarks it may have: read now, or before *)
(* the last passes.                                                          *)
Bounds == 0..rset.until \cup {Unset}
Read == {mark, held} \ {Unset}

-----------------------------------------------------------------------------
RollNext ==
    \/ RollTick
    \/ \E at \in 0..now : Track(at)
    \/ \E r \in Replicas :
          \/ Campaign(r) \/ SessionLost(r) \/ Abdicate(r)
          \/ RollupPass(r) \/ MaintainRollup(r) \/ Aggregate(r) \/ RollupRange(r) \/ AdvanceRollupWatermark(r)
          \/ PassFails(r)
    \/ ReadRollupWatermark
    \/ QueryReturns

RollSpec == RollInit /\ [][RollNext]_rollVars

-----------------------------------------------------------------------------
RollTypeOK ==
    /\ \E s \in RollupSetups : /\ rset.queries \in 0..s.queries
                              /\ rset.losses \in 0..s.losses
                              /\ [rset EXCEPT !.queries = s.queries, !.losses = s.losses] = s
    /\ now \in 0..rset.until
    /\ events \subseteq [n : 1..rset.events, at : 0..rset.until, delay : {"grace", "window", "beyond"}]
    /\ roll \in [Buckets(rset) -> SUBSET events]
    /\ mark \in Buckets(rset) \cup {Unset}
    /\ lock \in Replicas \cup {"none"}
    /\ \A r \in Replicas :
          /\ pass[r].pc \in {"idle", "lead", "pass", "range", "write", "mark"}
          /\ pass[r].rows \subseteq events
    /\ held \in Buckets(rset) \cup {Unset}
    /\ overlaid \in BOOLEAN
    /\ cut \subseteq Buckets(rset)

(* The rolled buckets and the live tail tile the range a query asks for:     *)
(* whatever its bounds, and however far the watermark has moved since it was *)
(* read, no event is counted in both parts and none from outside the range   *)
(* (buildStitchedRollupSQL's sealedLo and sealedHiExcl).                     *)
TilesTheRange ==
    \A w \in Read, from, to \in Bounds :
        /\ Sealed(from, to, w) \cap LiveTail(from, to, w) = {}
        /\ Sealed(from, to, w) \cup LiveTail(from, to, w) \subseteq Asked(from, to)

(* A stitched query counts every event that was tracked within the grace of  *)
(* its time, as the fully live query does, even while passes run, fail or    *)
(* overlap: a bucket is below the watermark only after a pass that saw all   *)
(* such events of it wrote its row (MaintainRollup, AdvanceRollupWatermark). *)
(* Except a bucket inside which a re-roll started: the pass wrote its row    *)
(* from the rest of its events alone (insights_rollup_maintain.go:407; only  *)
(* Bucket is validated, registry.go:390), against "exactly" of               *)
(* analytics.mdx:436.                                                        *)
OnTimeExact ==
    \A w \in Read, from, to \in Bounds : \A e \in Asked(from, to) :
        e.delay = "grace" /\ Bucket(e.at) \notin cut => e \in Sealed(from, to, w) \cup LiveTail(from, to, w)

(* An event that was too late for the pass that rolled its bucket, but by no *)
(* more than the re-roll window, is not stranded: while it is missing its    *)
(* bucket is still in the window of the next pass, unless a pass of a leader *)
(* that had lost its session wrote over a newer row, or one wrote the bucket *)
(* from inside (the re-roll of MaintainRollup).                              *)
LateNotStranded ==
    \A e \in events :
        /\ ~overlaid /\ Bucket(e.at) \notin cut
        /\ mark # Unset
        /\ Bucket(e.at) < mark
        /\ e \notin roll[Bucket(e.at)]
        /\ e.delay # "beyond"
        => Bucket(e.at) >= mark - rset.reroll
=============================================================================
