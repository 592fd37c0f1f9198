----------------------------- MODULE ShardPool ------------------------------
(* The dynamic pool of tenant databases (adapters/shard/provider.go and      *)
(* autoscaler.go): lazy dial with one dialer per shard, reference counts,    *)
(* eviction of idle shards at a cap that the autoscaler moves, the dial      *)
(* breaker and CloseAll.  A step is one critical section of the manager's    *)
(* mutex.  The clock is abstract: last uses are ordered, a breaker's window  *)
(* ends at some time, a wait times out at some time.                         *)
EXTENDS Integers, Sequences, FiniteSets, FiniteSetsExt, SequencesExt

CONSTANTS
    PoolShards,     \* shard ids
    Clients,        \* concurrent operations, numbered
    PoolSetups      \* [ops, faults, ticks, closes, auto]

VARIABLES
    psetup,     \* what may still happen
    entries,    \* shard: its pool entry
    lru,        \* ready shards, least recently used first
    pcap,       \* the effective MaxActive
    ctr,        \* window counters of the autoscaler
    auto,       \* the autoscaler's hysteresis
    conns,      \* open adapter stacks: [s, n]
    cl,         \* client: an operation
    poolOdd     \* history: "closed", and the greatest cap so far

poolVars == <<psetup, entries, lru, pcap, ctr, auto, conns, cl, poolOdd>>

(* st: "none" (not in the map), "dialing", "ready", or "down" after a failed *)
(* dial, with the breaker open or not.  n tells the incarnations apart.      *)
NoEntry == [st |-> "none", refs |-> 0, open |-> FALSE, n |-> 0]
Idle == [pc |-> "idle", s |-> "", n |-> 0, waited |-> FALSE]
Zero == [acquires |-> 0, misses |-> 0, evictions |-> 0, waits |-> 0, timeouts |-> 0]

PoolInit ==
    /\ psetup \in PoolSetups
    /\ entries = [s \in PoolShards |-> NoEntry]
    /\ lru = <<>>
    /\ pcap = psetup.auto.min
    /\ ctr = Zero
    /\ auto = [pressure |-> 0, slack |-> 0, cooldown |-> 0]
    /\ conns = {}
    /\ cl = [c \in Clients |-> Idle]
    /\ poolOdd = [closed |-> FALSE, most |-> pcap]

Count(field, k) == IF psetup.ticks > 0 THEN [ctr EXCEPT ![field] = @ + k] ELSE ctr
Used(s) == Append(SelectSeq(lru, LAMBDA x : x # s), s)

-----------------------------------------------------------------------------
(* Acquire *)

(* An operation of the least idle client: clients are interchangeable. *)
Begin(c, s) ==
    /\ cl[c].pc = "idle" /\ psetup.ops > 0
    /\ \A d \in Clients : d < c => cl[d].pc # "idle"
    /\ psetup' = [psetup EXCEPT !.ops = @ - 1]
    /\ cl' = [cl EXCEPT ![c] = [Idle EXCEPT !.pc = "try", !.s = s]]
    /\ UNCHANGED <<entries, lru, pcap, ctr, auto, conns, poolOdd>>

(* tryAcquire: an open shard takes one more reference. *)
AcquireReady(c) ==
    /\ cl[c].pc = "try" /\ entries[cl[c].s].st = "ready"
    /\ entries' = [entries EXCEPT ![cl[c].s].refs = @ + 1]
    /\ lru' = Used(cl[c].s)
    /\ ctr' = Count("acquires", 1)
    /\ cl' = [cl EXCEPT ![c].pc = "held", ![c].n = entries[cl[c].s].n]
    /\ UNCHANGED <<psetup, pcap, auto, conns, poolOdd>>

(* tryAcquire: someone dials; wait for the end of that dial. *)
AcquireDialing(c) ==
    /\ cl[c].pc = "try" /\ entries[cl[c].s].st = "dialing"
    /\ cl' = [cl EXCEPT ![c].pc = "await", ![c].n = entries[cl[c].s].n]
    /\ UNCHANGED <<psetup, entries, lru, pcap, ctr, auto, conns, poolOdd>>

(* tryAcquire: the breaker is open. *)
AcquireRefused(c) ==
    /\ cl[c].pc = "try" /\ entries[cl[c].s].st = "down" /\ entries[cl[c].s].open
    /\ cl' = [cl EXCEPT ![c] = Idle]
    /\ UNCHANGED <<psetup, entries, lru, pcap, ctr, auto, conns, poolOdd>>

liveCount == Cardinality({s \in PoolShards : entries[s].st \in {"ready", "dialing"}})
(* Mutant: the victim is the least recently used shard, held or not. *)
EvictableAny == lru

Evictable == SelectSeq(lru, LAMBDA s : entries[s].refs = 0)

(* The evictions that bring the pool below the cap. *)
Excess == IF liveCount >= pcap THEN liveCount - pcap + 1 ELSE 0

Evicted(k) == Range(SubSeq(Evictable, 1, IF k < Len(Evictable) THEN k ELSE Len(Evictable)))

(* The stacks of evicted shards are closed. *)
Remaining(out) == {x \in conns : ~ (x.s \in out /\ x.n = entries[x.s].n)}

(* tryAcquire: evict idle shards until there is room, then dial outside the  *)
(* lock.  Without room the call waits, and what was evicted stays evicted.   *)
AcquireDial(c) ==
    /\ cl[c].pc = "try" /\ entries[cl[c].s].st \in {"none", "down"} /\ ~ entries[cl[c].s].open
    /\ LET out == Evicted(Excess)
           room == Cardinality(out) = Excess
           s == cl[c].s
           n == 1 + Max({0} \cup {x.n : x \in {y \in conns : y.s = s}} \cup {cl[d].n : d \in Clients})
       IN /\ entries' = [e \in PoolShards |->
                IF e \in out THEN NoEntry
                ELSE IF e = s /\ room THEN [entries[s] EXCEPT !.st = "dialing", !.n = n]
                ELSE entries[e]]
          /\ lru' = SelectSeq(lru, LAMBDA x : x \notin out)
          /\ conns' = Remaining(out)
          /\ ctr' = LET e == Count("evictions", Cardinality(out))
                    IN IF room \/ cl[c].waited \/ psetup.ticks = 0 THEN e ELSE [e EXCEPT !.waits = @ + 1]
          /\ cl' = [cl EXCEPT ![c] = IF room THEN [@ EXCEPT !.pc = "dial", !.n = n]
                                             ELSE [@ EXCEPT !.pc = "wait", !.waited = TRUE]]
    /\ UNCHANGED <<psetup, pcap, auto, poolOdd>>

(* The dial succeeded.  The entry may meanwhile be out of the map. *)
DialOk(c) ==
    /\ cl[c].pc = "dial"
    /\ conns' = conns \cup {[s |-> cl[c].s, n |-> cl[c].n]}
    /\ IF entries[cl[c].s].n = cl[c].n
       THEN /\ entries' = [entries EXCEPT ![cl[c].s] = [st |-> "ready", refs |-> 1, open |-> FALSE, n |-> cl[c].n]]
            /\ lru' = Used(cl[c].s)
       ELSE UNCHANGED <<entries, lru>>
    /\ ctr' = IF psetup.ticks > 0 THEN [ctr EXCEPT !.acquires = @ + 1, !.misses = @ + 1] ELSE ctr
    /\ cl' = [x \in Clients |-> IF x = c THEN [cl[c] EXCEPT !.pc = "held"] ELSE cl[x]]
    /\ UNCHANGED <<psetup, pcap, auto, poolOdd>>

(* Mutant: the breaker stays closed after a failed dial and its channel open.*)
DialFailsQuietly(c) ==
    /\ cl[c].pc = "dial" /\ psetup.faults > 0
    /\ psetup' = [psetup EXCEPT !.faults = @ - 1]
    /\ cl' = [cl EXCEPT ![c] = Idle]
    /\ UNCHANGED <<entries, lru, pcap, ctr, auto, conns, poolOdd>>

(* The dial failed: the breaker opens. *)
DialFails(c) ==
    /\ cl[c].pc = "dial" /\ psetup.faults > 0
    /\ psetup' = [psetup EXCEPT !.faults = @ - 1]
    /\ entries' = IF entries[cl[c].s].n = cl[c].n
                  THEN [entries EXCEPT ![cl[c].s].st = "down", ![cl[c].s].open = TRUE] ELSE entries
    /\ cl' = [cl EXCEPT ![c] = Idle]
    /\ UNCHANGED <<lru, pcap, ctr, auto, conns, poolOdd>>

BreakerCloses(s) ==
    /\ entries[s].open
    /\ entries' = [entries EXCEPT ![s].open = FALSE]
    /\ UNCHANGED <<psetup, lru, pcap, ctr, auto, conns, cl, poolOdd>>

(* The awaited dial is over: its channel is closed.  Acquire then waits its  *)
(* turn like a call without room.                                            *)
AwaitEnds(c) ==
    /\ cl[c].pc = "await"
    /\ ~ \E d \in Clients : cl[d].pc = "dial" /\ cl[d].s = cl[c].s /\ cl[d].n = cl[c].n
    /\ entries[cl[c].s].st # "dialing" \/ entries[cl[c].s].n # cl[c].n
    /\ cl' = [cl EXCEPT ![c].pc = "wait", ![c].n = 0, ![c].waited = TRUE]
    /\ ctr' = IF cl[c].waited THEN ctr ELSE Count("waits", 1)
    /\ UNCHANGED <<psetup, entries, lru, pcap, auto, conns, poolOdd>>

(* freed, or 50 ms: look again. *)
Retry(c) ==
    /\ cl[c].pc = "wait"
    /\ cl' = [cl EXCEPT ![c].pc = "try"]
    /\ UNCHANGED <<psetup, entries, lru, pcap, ctr, auto, conns, poolOdd>>

(* AcquireTimeout passed while there was no room. *)
TimesOut(c) ==
    /\ cl[c].pc = "wait"
    /\ cl' = [cl EXCEPT ![c] = Idle]
    /\ ctr' = Count("timeouts", 1)
    /\ UNCHANGED <<psetup, entries, lru, pcap, auto, conns, poolOdd>>

(* The caller's context ended while it waited. *)
ContextEnds(c) ==
    /\ cl[c].pc \in {"wait", "await"}
    /\ cl' = [cl EXCEPT ![c] = Idle]
    /\ UNCHANGED <<psetup, entries, lru, pcap, ctr, auto, conns, poolOdd>>

(* releaseFunc: the reference is given back to the entry now in the map. *)
Release(c) ==
    /\ cl[c].pc = "held"
    /\ LET s == cl[c].s
       IN IF entries[s].refs > 0
          THEN entries' = [entries EXCEPT ![s].refs = @ - 1] /\ lru' = Used(s)
          ELSE UNCHANGED <<entries, lru>>
    /\ cl' = [cl EXCEPT ![c] = Idle]
    /\ UNCHANGED <<psetup, pcap, ctr, auto, conns, poolOdd>>

-----------------------------------------------------------------------------
(* The autoscaler *)

MinOf(a, b) == IF a < b THEN a ELSE b
MaxOf(a, b) == IF a > b THEN a ELSE b

effectiveCeiling(cfg) ==
    MaxOf(cfg.min, IF cfg.conns > 0 THEN MinOf(cfg.max, cfg.conns \div cfg.perShard) ELSE cfg.max)

(* decide: the next cap and hysteresis from one window's signals.  Ratios    *)
(* are in percent; heap is "ok", "soft" or "critical" against its limit.     *)
decide(cfg, a, s) ==
    LET ceiling == effectiveCeiling(cfg)
        lo == MinOf(MaxOf(cfg.min, s.held), ceiling)
        rested == [pressure |-> 0, slack |-> 0, cooldown |-> cfg.cooldown]
        pressed == \/ 100 * s.misses > cfg.missHigh * s.acquires
                   \/ 100 * s.evictions > cfg.evictHigh * s.acquires /\ s.acquires > 0
                   \/ s.waits > 0 \/ s.timeouts > 0
        slackened == 100 * s.open < cfg.fillLow * s.cap
                     /\ (s.open = 0 \/ 100 * s.held < cfg.utilLow * s.open)
        p == MinOf(a.pressure + 1, cfg.confirm)
        k == MinOf(a.slack + 1, cfg.confirm)
        grown == MaxOf(lo, MinOf(ceiling, MaxOf(s.cap + 1, (s.cap * cfg.growPct + 99) \div 100)))
        shrunk == MaxOf(lo, s.cap - cfg.step)
    IN IF s.heap = "critical" /\ s.cap > lo THEN [cap |-> shrunk, auto |-> rested]
       ELSE IF a.cooldown > 0
       THEN [cap |-> s.cap, auto |-> [pressure |-> 0, slack |-> 0, cooldown |-> a.cooldown - 1]]
       ELSE IF pressed
       THEN IF p >= cfg.confirm /\ s.cap < ceiling /\ s.heap = "ok"
            THEN [cap |-> grown, auto |-> rested]
            ELSE [cap |-> s.cap, auto |-> [a EXCEPT !.pressure = p, !.slack = 0]]
       ELSE IF slackened
       THEN IF k >= cfg.confirm /\ s.cap > lo
            THEN [cap |-> shrunk, auto |-> rested]
            ELSE [cap |-> s.cap, auto |-> [a EXCEPT !.pressure = 0, !.slack = k]]
       ELSE [cap |-> s.cap, auto |-> [a EXCEPT !.pressure = 0, !.slack = 0]]

Ready == {s \in PoolShards : entries[s].st = "ready"}

(* reconsider: sample and reset the window, then store the decided cap. *)
reconsider(heap) ==
    /\ psetup.ticks > 0 /\ ~ poolOdd.closed
    /\ psetup' = [psetup EXCEPT !.ticks = @ - 1]
    /\ LET d == decide(psetup.auto, auto,
                       [acquires |-> ctr.acquires, misses |-> ctr.misses, evictions |-> ctr.evictions,
                        waits |-> ctr.waits, timeouts |-> ctr.timeouts, cap |-> pcap, heap |-> heap,
                        open |-> Cardinality(Ready), held |-> Cardinality({s \in Ready : entries[s].refs > 0})])
       IN /\ pcap' = d.cap /\ auto' = d.auto
          /\ poolOdd' = [poolOdd EXCEPT !.most = MaxOf(@, d.cap)]
    /\ ctr' = Zero
    /\ UNCHANGED <<entries, lru, conns, cl>>

(* CloseAll: the map is emptied, then every ready shard of it is closed. *)
CloseAll ==
    /\ psetup.closes > 0
    /\ psetup' = [psetup EXCEPT !.closes = @ - 1]
    /\ conns' = {x \in conns : ~ (entries[x.s].st = "ready" /\ entries[x.s].n = x.n)}
    /\ entries' = [s \in PoolShards |-> NoEntry]
    /\ lru' = <<>>
    /\ poolOdd' = [poolOdd EXCEPT !.closed = TRUE]
    /\ UNCHANGED <<pcap, ctr, auto, cl>>

AcquireStep(c) ==
    AcquireReady(c) \/ AcquireDialing(c) \/ AcquireRefused(c) \/ AcquireDial(c)

PoolNext ==
    \/ \E c \in Clients :
          \/ \E s \in PoolShards : Begin(c, s)
          \/ AcquireStep(c) \/ DialOk(c) \/ DialFails(c) \/ AwaitEnds(c) \/ Retry(c) \/ TimesOut(c) \/ ContextEnds(c)
          \/ Release(c)
    \/ \E s \in PoolShards : BreakerCloses(s)
    \/ \E heap \in {"ok", "soft", "critical"} : reconsider(heap)
    \/ CloseAll

(* A call's steps are its goroutine's, a dial ends, a call without room has  *)
(* a deadline and an operation releases what it holds.  No context need end. *)
PoolFair ==
    \A c \in Clients :
        /\ WF_poolVars(AcquireStep(c)) /\ WF_poolVars(DialOk(c) \/ DialFails(c))
        /\ WF_poolVars(AwaitEnds(c)) /\ WF_poolVars(Release(c)) /\ SF_poolVars(TimesOut(c))

-----------------------------------------------------------------------------
(* Every variable has its type. *)
PoolTypeOK ==
    /\ \A s \in PoolShards : /\ entries[s].st \in {"none", "dialing", "ready", "down"}
                             /\ entries[s].refs \in 0..Cardinality(Clients)
                             /\ entries[s].st = "ready" <=> s \in Range(lru)
    /\ pcap \in psetup.auto.min..psetup.auto.max
    /\ auto.pressure \in 0..psetup.auto.confirm /\ auto.slack \in 0..psetup.auto.confirm
    /\ \A c \in Clients : cl[c].pc \in {"idle", "try", "await", "dial", "wait", "held"}

(* A shard is not closed under an operation that holds it, before CloseAll   *)
(* (provider.go evictIdleLocked, releaseFunc).                               *)
HeldIsOpen ==
    \A c \in Clients : cl[c].pc = "held" /\ ~ poolOdd.closed => [s |-> cl[c].s, n |-> cl[c].n] \in conns

(* References are the operations that hold the shard: none is lost when a    *)
(* shard is evicted, dialed again or released (provider.go tryAcquire,       *)
(* releaseFunc).                                                             *)
RefsAreHolders ==
    ~ poolOdd.closed => \A s \in PoolShards :
        entries[s].refs = Cardinality({c \in Clients : cl[c].pc = "held" /\ cl[c].s = s})

(* Every open stack is in the map, so it can be evicted or closed, before    *)
(* CloseAll (provider.go tryAcquire, evictIdleLocked).                       *)
NoLeak ==
    ~ poolOdd.closed => conns = {[s |-> s, n |-> entries[s].n] : s \in Ready}

(* Open and dialing shards never exceed the greatest cap there has been, and *)
(* the cap stays within its floor and the connection budget (provider.go     *)
(* tryAcquire; autoscaler.go decide).                                        *)
WithinCap ==
    /\ liveCount <= poolOdd.most
    /\ poolOdd.most <= IF psetup.auto.conns > 0
                       THEN MaxOf(psetup.auto.min, psetup.auto.conns \div psetup.auto.perShard)
                       ELSE psetup.auto.max

(* Every Acquire returns: with the shard, an error or a timeout (provider.go *)
(* Acquire).                                                                 *)
AcquireReturns == \A c \in Clients : cl[c].pc \in {"try", "await", "wait", "dial"} ~> cl[c].pc \in {"held", "idle"}

(* CloseAll tears down every open shard: when all calls are over, nothing is *)
(* open (provider.go CloseAll).                                              *)
ShutdownClosesAll ==
    poolOdd.closed /\ psetup.ops = 0 /\ (\A c \in Clients : cl[c].pc = "idle") => conns = {}
=============================================================================
