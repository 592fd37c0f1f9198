------------------------------ MODULE Directory -----------------------------
(* Routing a tenant by the catalog (adapters/shard/catalogdir.go and         *)
(* core/catalog/failover.go): lookups that read the primary, or a lagging    *)
(* replica while the primary is unreachable, and share a cache with a TTL.   *)
(* One tenant: the cache has an independent entry for each.                  *)
EXTENDS Naturals, Sequences

CONSTANTS
    Lookups,       \* concurrent calls of Shard
    Replicas,      \* number of replicas, walked in order
    TTL,           \* life of a cache entry
    MaxWait,       \* a lookup returns within this time (its context's deadline)
    MaxLag,        \* a replica applies a change within this time
    MaxNow,        \* bound on the clock
    MaxChanges,    \* bound on changes of the tenant's row
    MaxOutages     \* bound on reachability changes

ASSUME DirAssumption == {Replicas, TTL, MaxWait, MaxLag, MaxNow} \subseteq Nat

VARIABLES
    clock,      \* now
    hist,       \* the row's values: [row, since]
    applied,    \* replica: how much of hist it has applied
    reach,      \* the reachable catalogs: 0 is the primary
    flips,      \* reachability changes so far
    cache,      \* the tenant's cache entry
    calls       \* lookup: a call of Shard

dirVars == <<clock, hist, applied, reach, flips, cache, calls>>

(* A row is missing, not active, active below the binary's version floor, or *)
(* active and current.                                                       *)
Rows == {"missing", "inactive", "old", "current"}
Becomes == [missing |-> {"inactive"}, inactive |-> {"old", "current"},
            old |-> {"inactive", "current"}, current |-> {"inactive"}]

Nothing == [row |-> "", degraded |-> FALSE]
Expired == [ans |-> Nothing, exp |-> 0]

DirInit ==
    /\ clock = 0
    /\ \E r \in Rows : hist = <<[row |-> r, since |-> 0]>>
    /\ applied = [i \in 1..Replicas |-> 1]
    /\ reach \in {0..Replicas, 1..Replicas} /\ flips = 0
    /\ cache = Expired
    /\ calls = [l \in Lookups |-> [pc |-> "idle", ans |-> Nothing, since |-> 0]]

-----------------------------------------------------------------------------
(* Failover.Get: the primary's answer is definitive; otherwise the first     *)
(* reachable replica's, marked as such; otherwise an error.                  *)
Get ==
    IF 0 \in reach THEN [row |-> hist[Len(hist)].row, from |-> 0]
    ELSE IF reach = {} THEN [row |-> "error", from |-> 0]
    ELSE LET r == CHOOSE i \in reach : \A j \in reach : i <= j
         IN [row |-> hist[applied[r]].row, from |-> r]

(* Mutant: a refusal from a replica is like the primary's. *)
resolveTrusting(e) == [row |-> e.row, degraded |-> FALSE]

(* resolve: only a current row is a route; a refusal that rests on a         *)
(* replica's row is degraded.                                                *)
resolve(e) == [row |-> e.row, degraded |-> e.from # 0 /\ e.row # "current"]

(* An error is no answer of the catalog. *)
Cacheable(a) == a.row # "error" /\ ~ a.degraded

Fresh == clock < cache.exp

(* Shard: a fresh entry is the answer. *)
ShardHit(l) ==
    /\ calls[l].pc = "idle" /\ Fresh
    /\ UNCHANGED dirVars

(* Shard: a miss; the catalog is read outside the lock. *)
ShardResolve(l) ==
    /\ calls[l].pc = "idle" /\ ~ Fresh
    /\ calls' = [calls EXCEPT ![l] = [pc |-> "store", ans |-> resolve(Get), since |-> clock]]
    /\ UNCHANGED <<clock, hist, applied, reach, flips, cache>>

(* Shard: cache what may be cached, and answer. *)
ShardStore(l) ==
    /\ calls[l].pc = "store"
    /\ cache' = IF Cacheable(calls[l].ans) THEN [ans |-> calls[l].ans, exp |-> clock + TTL] ELSE cache
    /\ calls' = [calls EXCEPT ![l] = [pc |-> "idle", ans |-> Nothing, since |-> 0]]
    /\ UNCHANGED <<clock, hist, applied, reach, flips>>

-----------------------------------------------------------------------------
(* The tenant is provisioned, suspended, resumed or migrated. *)
Change ==
    /\ Len(hist) <= MaxChanges
    /\ \E r \in Becomes[hist[Len(hist)].row] : hist' = Append(hist, [row |-> r, since |-> clock])
    /\ UNCHANGED <<clock, applied, reach, flips, cache, calls>>

Replicate(i) ==
    /\ applied[i] < Len(hist)
    /\ applied' = [applied EXCEPT ![i] = @ + 1]
    /\ UNCHANGED <<clock, hist, reach, flips, cache, calls>>

Outage(i) ==
    /\ flips < MaxOutages /\ flips' = flips + 1
    /\ reach' = IF i \in reach THEN reach \ {i} ELSE reach \cup {i}
    /\ UNCHANGED <<clock, hist, applied, cache, calls>>

(* Time passes no lookup's deadline and no replica's lag.  An expired entry  *)
(* is as good as none.                                                       *)
TimePasses ==
    /\ clock < MaxNow
    /\ \A l \in Lookups : calls[l].pc = "store" => clock - calls[l].since < MaxWait
    /\ \A i \in 1..Replicas : applied[i] < Len(hist) => clock - hist[applied[i] + 1].since < MaxLag
    /\ clock' = clock + 1
    /\ cache' = IF clock' < cache.exp THEN cache ELSE Expired
    /\ UNCHANGED <<hist, applied, reach, flips, calls>>

DirNext ==
    \/ \E l \in Lookups : ShardHit(l) \/ ShardResolve(l) \/ ShardStore(l)
    \/ Change \/ TimePasses
    \/ \E i \in 1..Replicas : Replicate(i)
    \/ \E i \in 0..Replicas : Outage(i)

DirSpec == DirInit /\ [][DirNext]_dirVars

-----------------------------------------------------------------------------
(* Every variable has its type. *)
DirTypeOK ==
    /\ clock \in 0..MaxNow /\ reach \subseteq 0..Replicas
    /\ \A i \in 1..Replicas : applied[i] \in 1..Len(hist)
    /\ cache.ans.row \in Rows \cup {""} /\ ~ cache.ans.degraded
    /\ \A l \in Lookups : calls[l].ans.row \in Rows \cup {"", "error"}

(* Was the row in force at some time from t on? *)
InForce(h, r, t) ==
    \E i \in DOMAIN h : h[i].row = r /\ (i = Len(h) \/ h[i + 1].since >= t)

Back(d) == IF clock > d THEN clock - d ELSE 0

(* A replica's row, which only a route or a degraded refusal rests on, is    *)
(* older by its lag.                                                         *)
Lag(a) == IF a.degraded \/ a.row = "current" THEN MaxLag ELSE 0

(* An answer given now, from the cache or by a lookup that has read the      *)
(* catalog, was true of the primary no longer ago than the TTL and the time  *)
(* one lookup takes.  A route may be older by a replica's lag, a refusal     *)
(* only when it is not cached: no lagging replica keeps a live tenant off    *)
(* for a TTL (catalogdir.go Shard, resolve; failover.go Get).                *)
AnswersAreFresh ==
    /\ DirTypeOK
    /\ Fresh => InForce(hist, cache.ans.row, Back(TTL - 1 + MaxWait + Lag(cache.ans)))
    /\ \A l \in Lookups : calls[l].ans.row \in Rows =>
          InForce(hist, calls[l].ans.row, Back(MaxWait + Lag(calls[l].ans)))
=============================================================================
