-------------------------------- MODULE Cache -------------------------------
(* The read cache (adapters/cache, cachequery, core/query/repo_cache.go,     *)
(* cache_invalidation.go): a shared tier in Redis, a tier in each node, read *)
(* through by row and by query, and invalidated after each commit by the     *)
(* writer and, on other nodes, by the event stream.  One row of one entity   *)
(* and one query over it; a value is the version it was loaded at.  Entries  *)
(* of an earlier generation are never read again, so only the current        *)
(* generation's entry of each keyspace is kept; 0 is no entry.               *)
EXTENDS Naturals, FiniteSets

CONSTANTS
    Nodes,         \* processes, each with its own first tier
    Readers,       \* concurrent reads
    Writers,       \* concurrent writes
    CacheSetups    \* [keyspaces, at, from, reads, writes, faults, expiries]

ASSUME CacheAssumption == 0 \notin Nodes

VARIABLES
    kset,       \* what may still happen
    dbv,        \* committed version of the row
    gen2,       \* the entity's generation in Redis
    l2,         \* keyspace: its entry in Redis
    gen1,       \* node: the entity's generation there
    l1,         \* node: keyspace: its entry there
    tailed,     \* node: events it has read from the stream
    hook,       \* writer: its post-commit hook
    rd,         \* reader: its read
    inv,        \* history: tier: keyspace: newest version it was invalidated for
    raced       \* history: cells that hold a value stored after its invalidation

cacheVars == <<kset, dbv, gen2, l2, gen1, l1, tailed, hook, rd, inv, raced>>

Keyspaces == {"row", "query"}
L2 == 0                               \* the shared tier; a node names its own
Tiers == {L2} \cup Nodes
Unset == [k \in Keyspaces |-> 0]
NoRead == [pc |-> "idle", n |-> 0, k |-> "row", lg |-> 0, fk |-> 0, v |-> 0, odd |-> FALSE, floor |-> 0, seen |-> 0]
NoHook == [pc |-> "idle", n |-> 0, v |-> 0]
Least(S) == CHOOSE x \in S : \A y \in S : x <= y
Most(S) == CHOOSE x \in S : \A y \in S : x >= y

CacheInit ==
    /\ kset \in CacheSetups
    /\ dbv = 1 /\ gen2 = 0 /\ l2 = Unset
    /\ gen1 = [n \in Nodes |-> 0] /\ l1 = [n \in Nodes |-> Unset]
    /\ tailed = [n \in Nodes |-> 1]
    /\ hook = [i \in Writers |-> NoHook] /\ rd = [c \in Readers |-> NoRead]
    /\ inv = [t \in Tiers |-> Unset] /\ raced = {}

Fault == kset.faults > 0 /\ kset' = [kset EXCEPT !.faults = @ - 1]

-----------------------------------------------------------------------------
(* Writes: a command commits, then its hook bumps the entity's generation    *)
(* and evicts the row, in Redis and then on its own node.                    *)

Commit(i, n) ==
    /\ hook[i].pc = "idle" /\ kset.writes > 0 /\ n \in kset.at
    /\ kset' = [kset EXCEPT !.writes = @ - 1]
    /\ dbv' = dbv + 1
    /\ hook' = [hook EXCEPT ![i] = [pc |-> "entity2", n |-> n, v |-> dbv + 1]]
    /\ UNCHANGED <<gen2, l2, gen1, l1, tailed, rd, inv, raced>>

(* A cell is emptied for version v. *)
Emptied(t, ks, v) ==
    /\ inv' = [inv EXCEPT ![t] = [k \in Keyspaces |-> IF k \in ks THEN Most({@[k], v}) ELSE @[k]]]
    /\ raced' = raced \ {<<t, k>> : k \in ks}

(* Adapter.InvalidateEntity *)
HookEntityL2(i) ==
    /\ hook[i].pc = "entity2"
    /\ gen2' = gen2 + 1 /\ l2' = [l2 EXCEPT !["query"] = 0]
    /\ Emptied(L2, {"query"}, hook[i].v)
    /\ hook' = [hook EXCEPT ![i].pc = "entity1"]
    /\ UNCHANGED <<kset, dbv, gen1, l1, tailed, rd>>

(* L1Cache.InvalidateEntity *)
HookEntityL1(i) ==
    /\ hook[i].pc = "entity1"
    /\ gen1' = [gen1 EXCEPT ![hook[i].n] = @ + 1] /\ l1' = [l1 EXCEPT ![hook[i].n]["query"] = 0]
    /\ Emptied(hook[i].n, {"query"}, hook[i].v)
    /\ hook' = [hook EXCEPT ![i].pc = "row2"]
    /\ UNCHANGED <<kset, dbv, gen2, l2, tailed, rd>>

(* Adapter.Invalidate *)
HookRowL2(i) ==
    /\ hook[i].pc = "row2"
    /\ l2' = [l2 EXCEPT !["row"] = 0]
    /\ Emptied(L2, {"row"}, hook[i].v)
    /\ hook' = [hook EXCEPT ![i].pc = "row1"]
    /\ UNCHANGED <<kset, dbv, gen2, gen1, l1, tailed, rd>>

(* L1Cache.Invalidate *)
HookRowL1(i) ==
    /\ hook[i].pc = "row1"
    /\ l1' = [l1 EXCEPT ![hook[i].n]["row"] = 0]
    /\ Emptied(hook[i].n, {"row"}, hook[i].v)
    /\ hook' = [hook EXCEPT ![i] = NoHook]
    /\ UNCHANGED <<kset, dbv, gen2, l2, gen1, tailed, rd>>

(* Redis fails: the error is dropped, and the node's own tier is left too. *)
HookFails(i) ==
    /\ hook[i].pc \in {"entity2", "row2"} /\ Fault
    /\ hook' = [hook EXCEPT ![i] = IF @.pc = "entity2" THEN [@ EXCEPT !.pc = "row2"] ELSE NoHook]
    /\ UNCHANGED <<dbv, gen2, l2, gen1, l1, tailed, rd, inv, raced>>

(* RunL1EvictTailer, EvictLocal: the next event reaches a node. *)
EvictLocal(n) ==
    /\ tailed[n] < dbv
    /\ tailed' = [tailed EXCEPT ![n] = @ + 1]
    /\ gen1' = [gen1 EXCEPT ![n] = @ + 1] /\ l1' = [l1 EXCEPT ![n] = Unset]
    /\ Emptied(n, Keyspaces, tailed[n] + 1)
    /\ UNCHANGED <<kset, dbv, gen2, l2, hook, rd>>

(* An entry's TTL passes, or it is the least recently used of a full tier. *)
Expires(t, k) ==
    /\ kset.expiries > 0 /\ kset' = [kset EXCEPT !.expiries = @ - 1]
    /\ IF t = L2 THEN l2[k] # 0 /\ l2' = [l2 EXCEPT ![k] = 0] /\ UNCHANGED l1
                 ELSE l1[t][k] # 0 /\ l1' = [l1 EXCEPT ![t][k] = 0] /\ UNCHANGED l2
    /\ raced' = raced \ {<<t, k>>}
    /\ UNCHANGED <<dbv, gen2, gen1, tailed, hook, rd, inv>>

-----------------------------------------------------------------------------
(* Reads: CachedRelational.Get for the row, Repo.List with GetOrLoad for the *)
(* query.                                                                    *)

(* floor: the newest version both tiers were invalidated for at this time. *)
Begin(c, n, k) ==
    /\ rd[c].pc \in {"idle", "done"} /\ kset.reads > 0 /\ k \in kset.keyspaces /\ n \in kset.from
    /\ kset' = [kset EXCEPT !.reads = @ - 1]
    /\ rd' = [rd EXCEPT ![c] = [NoRead EXCEPT !.pc = "l1", !.n = n, !.k = k,
                                !.floor = Least({inv[L2][k], inv[n][k]})]]
    /\ UNCHANGED <<dbv, gen2, l2, gen1, l1, tailed, hook, inv, raced>>

(* The node's own tier, under the key of its generation at this time.  seen: *)
(* the newest version it was invalidated for.                                *)
LookL1(c) ==
    /\ rd[c].pc = "l1"
    /\ rd' = [rd EXCEPT ![c] = LET r == [rd[c] EXCEPT !.lg = gen1[rd[c].n], !.seen = inv[rd[c].n][rd[c].k]]
                               IN IF l1[r.n][r.k] = 0 THEN [r EXCEPT !.pc = "l2"]
                                  ELSE [r EXCEPT !.pc = "done", !.v = l1[r.n][r.k], !.odd = <<r.n, r.k>> \in raced]]
    /\ UNCHANGED <<kset, dbv, gen2, l2, gen1, l1, tailed, hook, inv, raced>>

(* The stream had told the node of a write whose hook had not come to Redis, *)
(* and Redis, or a flight of that time, still gave the value before it.      *)
Early(r, v) == v \in r.floor..(r.seen - 1)

FromL2(r) == [r EXCEPT !.v = l2[r.k], !.odd = <<L2, r.k>> \in raced \/ Early(r, l2[r.k])]

LookL2(c) ==
    /\ rd[c].pc = "l2"
    /\ rd' = [rd EXCEPT ![c] = IF l2[@.k] # 0 THEN [FromL2(@) EXCEPT !.pc = "fill"]
                               ELSE [@ EXCEPT !.pc = IF rd[c].k = "query" THEN "resolve" ELSE "load"]]
    /\ UNCHANGED <<kset, dbv, gen2, l2, gen1, l1, tailed, hook, inv, raced>>

(* The flight's key holds the generation of this time. *)
Resolve(c) ==
    /\ rd[c].pc = "resolve"
    /\ rd' = [rd EXCEPT ![c].pc = "do", ![c].fk = gen2]
    /\ UNCHANGED <<kset, dbv, gen2, l2, gen1, l1, tailed, hook, inv, raced>>

(* The calls in one flight with c, on its node. *)
Leads(d, c) ==
    rd[d].pc \in {"recheck", "load", "set"} /\ rd[d].k = "query" /\ rd[d].n = rd[c].n /\ rd[d].fk = rd[c].fk
Follows(d, c) == rd[d].pc = "wait" /\ rd[d].n = rd[c].n /\ rd[d].fk = rd[c].fk

(* flightGroup.do: wait for the call in flight, or lead. *)
Do(c) ==
    /\ rd[c].pc = "do"
    /\ rd' = [rd EXCEPT ![c].pc = IF \E d \in Readers : Leads(d, c) THEN "wait" ELSE "recheck"]
    /\ UNCHANGED <<kset, dbv, gen2, l2, gen1, l1, tailed, hook, inv, raced>>

(* The leader's outcome is everyone's. *)
FlightEnds(c, r) ==
    rd' = [d \in Readers |-> IF d = c THEN r
                             ELSE IF Follows(d, c) THEN [rd[d] EXCEPT !.pc = r.pc, !.v = r.v, !.odd = r.odd \/ Early(rd[d], r.v)]
                             ELSE rd[d]]

Recheck(c) ==
    /\ rd[c].pc = "recheck"
    /\ IF l2["query"] # 0 THEN FlightEnds(c, [FromL2(rd[c]) EXCEPT !.pc = "fill"])
                          ELSE rd' = [rd EXCEPT ![c].pc = "load"]
    /\ UNCHANGED <<kset, dbv, gen2, l2, gen1, l1, tailed, hook, inv, raced>>

Load(c) ==
    /\ rd[c].pc = "load"
    /\ rd' = [rd EXCEPT ![c].pc = "set", ![c].v = dbv]
    /\ UNCHANGED <<kset, dbv, gen2, l2, gen1, l1, tailed, hook, inv, raced>>

(* Adapter.Set: under the generation of this time, not the load's. *)
SetL2(c) ==
    /\ rd[c].pc = "set"
    /\ LET r == [rd[c] EXCEPT !.pc = "fill"]
       IN /\ l2' = [l2 EXCEPT ![r.k] = r.v]
          /\ raced' = IF r.v < inv[L2][r.k] THEN raced \cup {<<L2, r.k>>} ELSE raced \ {<<L2, r.k>>}
          /\ IF r.k = "query" THEN FlightEnds(c, r) ELSE rd' = [rd EXCEPT ![c] = r]
    /\ UNCHANGED <<kset, dbv, gen2, gen1, l1, tailed, hook, inv>>

(* Redis fails: a row is read and returned without the cache, a query's call *)
(* returns the error, its flight too.                                        *)
RedisFails(c) ==
    /\ rd[c].pc \in {"l2", "resolve", "recheck", "set"} /\ Fault
    /\ IF rd[c].k = "row" THEN rd' = [rd EXCEPT ![c].pc = IF @ = "set" THEN "done" ELSE "load"]
       ELSE IF rd[c].pc \in {"recheck", "set"} THEN FlightEnds(c, NoRead)
       ELSE rd' = [rd EXCEPT ![c] = NoRead]
    /\ UNCHANGED <<dbv, gen2, l2, gen1, l1, tailed, hook, inv, raced>>

(* The database fails, or the leader's context ends: its flight's error too. *)
LoadFails(c) ==
    /\ rd[c].pc = "load" /\ Fault
    /\ IF rd[c].k = "query" THEN FlightEnds(c, NoRead) ELSE rd' = [rd EXCEPT ![c] = NoRead]
    /\ UNCHANGED <<dbv, gen2, l2, gen1, l1, tailed, hook, inv, raced>>

(* Mutant: the key of the node's own tier is made when the entry is put. *)
PutKeyLate(r) == TRUE

(* A query's entry is put under the key made when the tier was looked up,    *)
(* which a bump since then has orphaned; a row's key has no generation.      *)
PutKey(r) == r.k = "row" \/ r.lg = gen1[r.n]

Fill(c) ==
    /\ rd[c].pc = "fill"
    /\ LET r == rd[c]
       IN IF PutKey(r)
          THEN /\ l1' = [l1 EXCEPT ![r.n][r.k] = r.v]
               /\ raced' = IF r.odd \/ (r.k = "row" /\ r.v < inv[r.n]["row"])
                           THEN raced \cup {<<r.n, r.k>>} ELSE raced \ {<<r.n, r.k>>}
          ELSE UNCHANGED <<l1, raced>>
    /\ rd' = [rd EXCEPT ![c].pc = "done"]
    /\ UNCHANGED <<kset, dbv, gen2, l2, gen1, tailed, hook, inv>>

CacheNext ==
    \/ \E i \in Writers : \/ \E n \in Nodes : Commit(i, n)
                          \/ HookEntityL2(i) \/ HookEntityL1(i) \/ HookRowL2(i) \/ HookRowL1(i) \/ HookFails(i)
    \/ \E n \in Nodes : EvictLocal(n)
    \/ \E t \in Tiers, k \in Keyspaces : Expires(t, k)
    \/ \E c \in Readers : \/ \E n \in Nodes, k \in Keyspaces : Begin(c, n, k)
                          \/ LookL1(c) \/ LookL2(c) \/ Resolve(c) \/ Do(c) \/ Recheck(c) \/ Load(c)
                          \/ SetL2(c) \/ RedisFails(c) \/ LoadFails(c) \/ Fill(c)

CacheSpec == CacheInit /\ [][CacheNext]_cacheVars

-----------------------------------------------------------------------------
(* Every variable has its type. *)
CacheTypeOK ==
    /\ \A k \in Keyspaces : l2[k] \in 0..dbv /\ \A n \in Nodes : l1[n][k] \in 0..dbv
    /\ \A t \in Tiers, k \in Keyspaces : inv[t][k] \in 0..dbv
    /\ \A n \in Nodes : tailed[n] \in 1..dbv
    /\ \A c \in Readers :
          /\ rd[c].pc \in {"idle", "l1", "l2", "resolve", "do", "wait", "recheck", "load", "set", "fill", "done"}
          /\ rd[c].pc = "wait" => \E d \in Readers : Leads(d, c)

(* A read that begins once a write's invalidation is done, in Redis and on   *)
(* its node, returns that write or a later one, whatever flight it joins and *)
(* whatever entry it finds, unless the entry was stored by a read that       *)
(* loaded before the write and stored after the hook, or taken from Redis    *)
(* between the event and the hook (ops.go GetOrLoad, do; l1.go GetOrLoad,    *)
(* EvictLocal; cache_invalidation.go AfterCommit).                           *)
FreshUnlessRaced == \A c \in Readers : rd[c].pc = "done" /\ ~ rd[c].odd => rd[c].v >= rd[c].floor

(* A cached read sees the writes invalidated before it (ops.go, l1.go).      *)
ReadsSeeWrites == CacheTypeOK /\ FreshUnlessRaced

(* As FreshUnlessRaced, for every read (cache_invalidation.go AfterCommit).    *)
NoStaleRead == \A c \in Readers : rd[c].pc = "done" => rd[c].v >= rd[c].floor
=============================================================================
