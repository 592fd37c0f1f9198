----------------------------- MODULE CacheProofs ----------------------------
(* The read cache for any number of nodes, readers and writers.  A reader    *)
(* goes by what it saw at several times: the invalidations when it began and *)
(* when it looked in its own tier, the generations of its two keys.  What    *)
(* keeps its value fresh is that a tier's invalidations of the query and the *)
(* tier's generation change together, so that an equal generation means that *)
(* nothing was invalidated in between.                                       *)
EXTENDS Cache, TLAPS

ReadPcs == {"idle", "l1", "l2", "resolve", "do", "wait", "recheck", "load", "set", "fill", "done"}
ReadRecord == [pc : ReadPcs, n : Nodes \cup {0}, k : Keyspaces, lg : Nat, fk : Nat, v : Nat,
               odd : BOOLEAN, floor : Nat, seen : Nat]
HookRecord == [pc : {"idle", "entity2", "entity1", "row2", "row1"}, n : Nodes \cup {0}, v : Nat]
Cells == [Keyspaces -> Nat]

CellsType ==
    /\ dbv \in Nat /\ gen2 \in Nat /\ l2 \in Cells
    /\ gen1 \in [Nodes -> Nat] /\ l1 \in [Nodes -> Cells] /\ tailed \in [Nodes -> Nat]
    /\ inv \in [Tiers -> Cells]
    /\ \A k \in Keyspaces : l2[k] <= dbv /\ \A n \in Nodes : l1[n][k] <= dbv
    /\ \A t \in Tiers, k \in Keyspaces : inv[t][k] <= dbv
    /\ \A n \in Nodes : tailed[n] >= 1 /\ tailed[n] <= dbv

HooksType ==
    /\ hook \in [Writers -> HookRecord]
    /\ \A i \in Writers : hook[i].pc # "idle" => hook[i].n \in Nodes /\ hook[i].v <= dbv

(* A cell that was not filled late is not older than its invalidation.       *)
L2Inv == \A k \in Keyspaces : l2[k] # 0 /\ <<L2, k>> \notin raced => l2[k] >= inv[L2][k]
L1Inv == \A n \in Nodes, k \in Keyspaces : l1[n][k] # 0 /\ <<n, k>> \notin raced => l1[n][k] >= inv[n][k]

(* What a reader at each of its steps knows of the tiers.                    *)
ReaderSeen(r) ==
    /\ r.pc # "idle" => /\ r.n \in Nodes
                        /\ r.floor <= inv[L2][r.k] /\ r.floor <= inv[r.n][r.k]
    /\ r.pc \in {"resolve", "do", "wait", "recheck"} => r.k = "query"
    /\ r.pc \notin {"idle", "l1"} =>
          /\ r.seen <= inv[r.n][r.k] /\ r.lg <= gen1[r.n]
          /\ r.k = "query" /\ r.lg = gen1[r.n] => r.seen = inv[r.n]["query"]
    /\ r.fk <= gen2

(* And what the value it holds is good for.                                  *)
ReaderHolds(r) ==
    /\ r.pc \notin {"fill", "done", "idle"} => ~r.odd
    /\ r.pc = "set" => /\ r.v >= r.floor /\ r.v >= r.seen
                       /\ r.k = "query" /\ r.fk = gen2 => r.v >= inv[L2]["query"]
    /\ r.pc = "fill" /\ ~r.odd => r.v >= r.floor /\ r.v >= r.seen
    /\ r.pc = "done" /\ ~r.odd => r.v >= r.floor
    /\ r.v <= dbv

ReaderInv(r) == ReaderSeen(r) /\ ReaderHolds(r)

ReadersInv == rd \in [Readers -> ReadRecord] /\ \A c \in Readers : ReaderInv(rd[c])

(* A leader's value will do for whoever is in its flight, or may join it;    *)
(* nobody waits without a leader.                                            *)
FlightInv ==
    \A c, d \in Readers :
        /\ rd[c].pc = "set" /\ rd[c].k = "query" /\ rd[d].pc \in {"do", "wait"} /\ rd[c].fk = rd[d].fk
               => rd[c].v >= rd[d].floor
WaitInv == \A c \in Readers : rd[c].pc = "wait" => \E d \in Readers : Leads(d, c)

CacheInv == CellsType /\ HooksType /\ L2Inv /\ L1Inv /\ ReadersInv /\ FlightInv /\ WaitInv

-----------------------------------------------------------------------------
LEMMA MostOfTwo ==
    ASSUME NEW a \in Nat, NEW b \in Nat
    PROVE  Most({a, b}) \in {a, b} /\ Most({a, b}) >= a /\ Most({a, b}) >= b
<1>1. \E x \in {a, b} : \A y \in {a, b} : x >= y
  <2>1. CASE a >= b
    BY <2>1
  <2>2. CASE b >= a
    BY <2>2
  <2> QED
    BY <2>1, <2>2
<1>2. Most({a, b}) \in {a, b} /\ \A y \in {a, b} : Most({a, b}) >= y
  BY Zenon, <1>1 DEF Most
<1> QED
  BY Zenon, <1>2

LEMMA LeastOfTwo ==
    ASSUME NEW a \in Nat, NEW b \in Nat
    PROVE  Least({a, b}) \in {a, b} /\ Least({a, b}) <= a /\ Least({a, b}) <= b
<1>1. \E x \in {a, b} : \A y \in {a, b} : x <= y
  <2>1. CASE a <= b
    BY <2>1
  <2>2. CASE b <= a
    BY <2>2
  <2> QED
    BY <2>1, <2>2
<1>2. Least({a, b}) \in {a, b} /\ \A y \in {a, b} : Least({a, b}) <= y
  BY Zenon, <1>1 DEF Least
<1> QED
  BY Zenon, <1>2

(* An invalidation only moves forward, and only in the cells it empties.     *)
LEMMA EmptiedMoves ==
    ASSUME CellsType, NEW t \in Tiers, NEW ks \in SUBSET Keyspaces, NEW v \in Nat, v <= dbv, Emptied(t, ks, v)
    PROVE  /\ inv' \in [Tiers -> Cells]
           /\ \A u \in Tiers, k \in Keyspaces : inv'[u][k] >= inv[u][k] /\ inv'[u][k] <= dbv
           /\ \A u \in Tiers, k \in Keyspaces : ~(u = t /\ k \in ks) => inv'[u][k] = inv[u][k]
           /\ raced' = raced \ {<<t, k>> : k \in ks}
<1> DEFINE m == [k \in Keyspaces |-> IF k \in ks THEN Most({inv[t][k], v}) ELSE inv[t][k]]
<1>1. inv' = [inv EXCEPT ![t] = m] /\ raced' = raced \ {<<t, k>> : k \in ks}
  BY Zenon DEF Emptied
<1>2. \A k \in Keyspaces : inv[t][k] \in Nat /\ inv[t][k] <= dbv
  BY Zenon DEF CellsType, Cells
<1>3. ASSUME NEW k \in Keyspaces
      PROVE  /\ m[k] \in Nat /\ m[k] >= inv[t][k] /\ m[k] <= dbv
             /\ k \notin ks => m[k] = inv[t][k]
  BY <1>2, MostOfTwo
<1>4. m \in Cells
  BY Zenon, <1>3 DEF Cells
<1> HIDE DEF m
<1>5. inv' \in [Tiers -> Cells]
  BY Zenon, <1>1, <1>4 DEF CellsType
<1>6. \A u \in Tiers : inv'[u] = IF u = t THEN m ELSE inv[u]
  BY Zenon, <1>1 DEF CellsType
<1>7. \A u \in Tiers, k \in Keyspaces : inv[u][k] \in Nat /\ inv[u][k] <= dbv
  BY Zenon DEF CellsType, Cells
<1> QED
  BY <1>1, <1>3, <1>5, <1>6, <1>7

(* A step that touches no reader leaves each with what it knows, when the    *)
(* tiers only move forward and an invalidation of the query moves the        *)
(* generation.                                                               *)
LEMMA TiersMove ==
    ASSUME CellsType, CellsType', ReadersInv, UNCHANGED rd, dbv' >= dbv, gen2' >= gen2,
           \A n \in Nodes : gen1'[n] >= gen1[n],
           \A t \in Tiers, k \in Keyspaces : inv'[t][k] >= inv[t][k],
           gen2' = gen2 => inv'[L2]["query"] = inv[L2]["query"],
           \A n \in Nodes : gen1'[n] = gen1[n] => inv'[n]["query"] = inv[n]["query"]
    PROVE  ReadersInv'
<1> SUFFICES ASSUME NEW c \in Readers PROVE ReaderInv(rd[c])'
  BY Zenon DEF ReadersInv
<1> DEFINE r == rd[c]
<1>1. /\ r \in ReadRecord /\ ReaderInv(r) /\ rd'[c] = r
  BY Zenon DEF ReadersInv
<1> HIDE DEF r
<1>2. /\ r.k \in Keyspaces /\ r.lg \in Nat /\ r.fk \in Nat /\ r.v \in Nat /\ r.floor \in Nat /\ r.seen \in Nat
      /\ L2 \in Tiers /\ "query" \in Keyspaces /\ \A n \in Nodes : n \in Tiers
  BY Zenon, <1>1 DEF ReadRecord, Tiers, Keyspaces
<1>3. /\ dbv \in Nat /\ dbv' \in Nat /\ gen2 \in Nat /\ gen2' \in Nat
      /\ \A n \in Nodes : gen1[n] \in Nat /\ gen1'[n] \in Nat
      /\ \A t \in Tiers, k \in Keyspaces : inv[t][k] \in Nat /\ inv'[t][k] \in Nat
  BY Zenon DEF CellsType, Cells
<1>4. /\ r.pc # "idle" => /\ r.n \in Nodes
                          /\ r.floor <= inv'[L2][r.k] /\ r.floor <= inv'[r.n][r.k]
  BY <1>1, <1>2, <1>3 DEF ReaderInv, ReaderSeen, ReaderHolds
<1>5. r.pc \notin {"idle", "l1"} =>
          /\ r.seen <= inv'[r.n][r.k] /\ r.lg <= gen1'[r.n]
          /\ r.k = "query" /\ r.lg = gen1'[r.n] => r.seen = inv'[r.n]["query"]
  BY <1>1, <1>2, <1>3 DEF ReaderInv, ReaderSeen, ReaderHolds
<1>6. r.pc = "set" => (r.k = "query" /\ r.fk = gen2' => r.v >= inv'[L2]["query"])
  BY <1>1, <1>2, <1>3 DEF ReaderInv, ReaderSeen, ReaderHolds
<1>7. r.fk <= gen2' /\ r.v <= dbv'
  BY <1>1, <1>2, <1>3 DEF ReaderInv, ReaderSeen, ReaderHolds
<1> QED
  BY Zenon, <1>1, <1>4, <1>5, <1>6, <1>7 DEF ReaderInv, ReaderSeen, ReaderHolds

-----------------------------------------------------------------------------
(* The writers and the tailers: each empties cells together with their       *)
(* invalidation.                                                             *)
LEMMA Domains ==
    /\ L2 \in Tiers /\ L2 \notin Nodes /\ \A n \in Nodes : n \in Tiers /\ n # L2
    /\ \A t \in Tiers : t = L2 \/ t \in Nodes
    /\ Keyspaces = {"row", "query"}
  BY Zenon, CacheAssumption DEF Tiers, L2, Keyspaces

LEMMA FlightsKept == ASSUME FlightInv, WaitInv, UNCHANGED rd PROVE FlightInv' /\ WaitInv'
  BY Zenon DEF FlightInv, WaitInv, Leads

(* Cells emptied in Redis.                                                   *)
LEMMA L2Emptied ==
    ASSUME CacheInv, NEW i \in Writers, NEW ks \in SUBSET Keyspaces, Emptied(L2, ks, hook[i].v),
           hook[i].pc # "idle", l2' \in Cells,
           \A k \in Keyspaces : l2'[k] = IF k \in ks THEN 0 ELSE l2[k],
           gen2' \in Nat, gen2' >= gen2, "query" \in ks => gen2' > gen2,
           UNCHANGED <<dbv, gen1, l1, tailed, rd>>, HooksType'
    PROVE  CacheInv'
<1>a. hook[i].v \in Nat /\ hook[i].v <= dbv
  BY Zenon DEF CacheInv, HooksType, HookRecord
<1>b. /\ inv' \in [Tiers -> Cells]
      /\ \A u \in Tiers, k \in Keyspaces : inv'[u][k] >= inv[u][k] /\ inv'[u][k] <= dbv
      /\ \A u \in Tiers, k \in Keyspaces : ~(u = L2 /\ k \in ks) => inv'[u][k] = inv[u][k]
      /\ raced' = raced \ {<<L2, k>> : k \in ks}
  BY Zenon, <1>a, EmptiedMoves, Domains DEF CacheInv
<1>c. dbv \in Nat /\ gen2 \in Nat /\ \A n \in Nodes : gen1[n] \in Nat
  BY Zenon DEF CacheInv, CellsType
<1>1. CellsType'
  BY <1>b, <1>c DEF CacheInv, CellsType
<1>2. L2Inv'
  BY <1>b, Domains DEF CacheInv, L2Inv
<1>3. L1Inv'
  BY ZenonT(60), <1>b, Domains DEF CacheInv, L1Inv
<1>4. ReadersInv'
  <2>1. "query" \in Keyspaces
    BY Zenon, Domains
  <2>2. gen2' = gen2 => inv'[L2]["query"] = inv[L2]["query"]
    BY <2>1, <1>b, <1>c, Domains
  <2>3. \A n \in Nodes : gen1'[n] >= gen1[n] /\ inv'[n]["query"] = inv[n]["query"]
    BY <2>1, <1>b, <1>c, Domains
  <2> QED
    BY <1>1, <1>b, <1>c, <2>2, <2>3, TiersMove DEF CacheInv
<1>5. FlightInv' /\ WaitInv'
  BY Zenon, FlightsKept DEF CacheInv
<1> QED
  BY Zenon, <1>1, <1>2, <1>3, <1>4, <1>5 DEF CacheInv

(* Cells ks emptied on node m.                                               *)
NodeEmptied(m, ks, v) ==
    /\ Emptied(m, ks, v)
    /\ l1' \in [Nodes -> Cells]
    /\ \A n \in Nodes, k \in Keyspaces : l1'[n][k] = IF n = m /\ k \in ks THEN 0 ELSE l1[n][k]
    /\ gen1' \in [Nodes -> Nat] /\ (\A n \in Nodes : gen1'[n] >= gen1[n])
    /\ "query" \in ks => gen1'[m] > gen1[m]
    /\ tailed' \in [Nodes -> Nat] /\ (\A n \in Nodes : tailed'[n] >= 1 /\ tailed'[n] <= dbv)
    /\ UNCHANGED <<dbv, gen2, l2, rd>>

LEMMA L1Emptied ==
    ASSUME CacheInv, NEW m \in Nodes, NEW ks \in SUBSET Keyspaces, NEW v \in Nat, v <= dbv, NodeEmptied(m, ks, v),
           HooksType'
    PROVE  CacheInv'
<1>a. /\ Emptied(m, ks, v)
      /\ l1' \in [Nodes -> Cells]
      /\ \A n \in Nodes, k \in Keyspaces : l1'[n][k] = IF n = m /\ k \in ks THEN 0 ELSE l1[n][k]
      /\ gen1' \in [Nodes -> Nat] /\ \A n \in Nodes : gen1'[n] >= gen1[n]
      /\ "query" \in ks => gen1'[m] > gen1[m]
      /\ tailed' \in [Nodes -> Nat] /\ \A n \in Nodes : tailed'[n] >= 1 /\ tailed'[n] <= dbv
      /\ UNCHANGED <<dbv, gen2, l2, rd>>
  BY Zenon DEF NodeEmptied
<1>b. /\ inv' \in [Tiers -> Cells]
      /\ \A u \in Tiers, k \in Keyspaces : inv'[u][k] >= inv[u][k] /\ inv'[u][k] <= dbv
      /\ \A u \in Tiers, k \in Keyspaces : ~(u = m /\ k \in ks) => inv'[u][k] = inv[u][k]
      /\ raced' = raced \ {<<m, k>> : k \in ks}
  BY Zenon, <1>a, EmptiedMoves, Domains DEF CacheInv
<1>c. dbv \in Nat /\ gen2 \in Nat /\ \A n \in Nodes : gen1[n] \in Nat
  BY Zenon DEF CacheInv, CellsType
<1>1. CellsType'
  BY <1>a, <1>b, <1>c DEF CacheInv, CellsType
<1>2. L2Inv'
  BY <1>a, <1>b, Domains DEF CacheInv, L2Inv
<1>3. L1Inv'
  <2> SUFFICES ASSUME NEW n \in Nodes, NEW k \in Keyspaces, l1'[n][k] # 0, <<n, k>> \notin raced'
               PROVE  l1'[n][k] >= inv'[n][k]
    BY Zenon, <1>a DEF L1Inv
  <2>1. ~(n = m /\ k \in ks) /\ l1'[n][k] = l1[n][k]
    BY Zenon, <1>a
  <2>2. <<n, k>> \notin raced /\ inv'[n][k] = inv[n][k]
    BY <2>1, <1>b, Domains
  <2> QED
    BY Zenon, <2>1, <2>2 DEF CacheInv, L1Inv
<1>4. ReadersInv'
  <2>1. "query" \in Keyspaces
    BY Zenon, Domains
  <2>2. inv'[L2]["query"] = inv[L2]["query"]
    BY Zenon, <2>1, <1>b, Domains
  <2>3. \A n \in Nodes : gen1'[n] = gen1[n] => inv'[n]["query"] = inv[n]["query"]
    BY <2>1, <1>a, <1>b, <1>c, Domains
  <2> QED
    BY <1>1, <1>a, <1>b, <1>c, <2>2, <2>3, TiersMove DEF CacheInv
<1>5. FlightInv' /\ WaitInv'
  BY Zenon, <1>a, FlightsKept DEF CacheInv
<1> QED
  BY Zenon, <1>1, <1>2, <1>3, <1>4, <1>5 DEF CacheInv

LEMMA WritesKeep ==
    ASSUME CacheInv,
           \/ \E i \in Writers : \/ \E n \in Nodes : Commit(i, n)
                                 \/ HookEntityL2(i) \/ HookEntityL1(i) \/ HookRowL2(i) \/ HookRowL1(i) \/ HookFails(i)
           \/ \E n \in Nodes : EvictLocal(n)
           \/ \E t \in Tiers, k \in Keyspaces : Expires(t, k)
    PROVE  CacheInv'
<1>a. /\ dbv \in Nat /\ gen2 \in Nat /\ l2 \in Cells /\ gen1 \in [Nodes -> Nat] /\ l1 \in [Nodes -> Cells]
      /\ tailed \in [Nodes -> Nat] /\ \A n \in Nodes : tailed[n] >= 1 /\ tailed[n] <= dbv
      /\ \A k \in Keyspaces : l2[k] \in Nat /\ \A n \in Nodes : gen1[n] \in Nat /\ l1[n][k] \in Nat
      /\ \A t \in Tiers, k \in Keyspaces : inv[t][k] \in Nat
  BY Zenon DEF CacheInv, CellsType, Cells
<1>b. /\ hook \in [Writers -> HookRecord]
      /\ \A i \in Writers : hook[i].v \in Nat /\ (hook[i].pc # "idle" => hook[i].n \in Nodes /\ hook[i].v <= dbv)
  BY Zenon DEF CacheInv, HooksType, HookRecord
<1>c. "query" \in Keyspaces /\ "row" \in Keyspaces /\ {"query"} \in SUBSET Keyspaces /\ {"row"} \in SUBSET Keyspaces
  BY Zenon, Domains
<1>1. ASSUME NEW i \in Writers, NEW n \in Nodes, Commit(i, n) PROVE CacheInv'
  <2> DEFINE h == [pc |-> "entity2", n |-> n, v |-> dbv + 1]
  <2>1. /\ dbv' = dbv + 1 /\ hook' = [hook EXCEPT ![i] = h]
        /\ UNCHANGED <<gen2, l2, gen1, l1, tailed, rd, inv, raced>>
    BY Zenon, <1>1 DEF Commit
  <2>2. h \in HookRecord /\ h.n \in Nodes /\ h.v = dbv + 1
    BY <1>a DEF HookRecord
  <2> HIDE DEF h
  <2>3. HooksType'
    BY <2>1, <2>2, <1>a, <1>b DEF HooksType
  <2>4. CellsType'
    BY <2>1, <1>a DEF CacheInv, CellsType
  <2>5. L1Inv' /\ L2Inv' /\ FlightInv' /\ WaitInv'
    BY Zenon, <2>1, FlightsKept DEF CacheInv, L1Inv, L2Inv
  <2>6. ReadersInv'
    BY <2>1, <2>4, <1>a, TiersMove DEF CacheInv
  <2> QED
    BY Zenon, <2>3, <2>4, <2>5, <2>6 DEF CacheInv
<1>2. ASSUME NEW i \in Writers, HookEntityL2(i) PROVE CacheInv'
  <2>1. /\ hook[i].pc = "entity2" /\ gen2' = gen2 + 1 /\ l2' = [l2 EXCEPT !["query"] = 0]
        /\ Emptied(L2, {"query"}, hook[i].v) /\ hook' = [hook EXCEPT ![i].pc = "entity1"]
        /\ UNCHANGED <<dbv, gen1, l1, tailed, rd>>
    BY Zenon, <1>2 DEF HookEntityL2
  <2>2. HooksType'
    BY Zenon, <2>1, <1>b DEF HooksType, HookRecord
  <2>3. l2' \in Cells /\ \A k \in Keyspaces : l2'[k] = IF k \in {"query"} THEN 0 ELSE l2[k]
    BY Zenon, <2>1, <1>a DEF Cells
  <2>4. gen2' \in Nat /\ gen2' >= gen2 /\ ("query" \in {"query"} => gen2' > gen2)
    BY <2>1, <1>a
  <2>5. hook[i].pc # "idle"
    BY Zenon, <2>1
  <2> QED
    BY Zenon, <2>1, <2>2, <2>3, <2>4, <2>5, <1>c, L2Emptied
<1>3. ASSUME NEW i \in Writers, HookEntityL1(i) PROVE CacheInv'
  <2> DEFINE m == hook[i].n
  <2>1. /\ hook[i].pc = "entity1" /\ gen1' = [gen1 EXCEPT ![m] = @ + 1] /\ l1' = [l1 EXCEPT ![m]["query"] = 0]
        /\ Emptied(m, {"query"}, hook[i].v) /\ hook' = [hook EXCEPT ![i].pc = "row2"]
        /\ UNCHANGED <<dbv, gen2, l2, tailed, rd>>
    BY Zenon, <1>3 DEF HookEntityL1
  <2>2. HooksType'
    BY Zenon, <2>1, <1>b DEF HooksType, HookRecord
  <2>3. m \in Nodes /\ hook[i].v \in Nat /\ hook[i].v <= dbv
    BY Zenon, <2>1, <1>b
  <2> HIDE DEF m
  <2>4. /\ l1' \in [Nodes -> Cells]
        /\ \A n \in Nodes, k \in Keyspaces : l1'[n][k] = IF n = m /\ k \in {"query"} THEN 0 ELSE l1[n][k]
    BY Zenon, <2>1, <2>3, <1>a, <1>c DEF Cells
  <2>5. /\ gen1' \in [Nodes -> Nat] /\ \A n \in Nodes : gen1'[n] >= gen1[n]
        /\ "query" \in {"query"} => gen1'[m] > gen1[m]
        /\ tailed' \in [Nodes -> Nat] /\ \A n \in Nodes : tailed'[n] >= 1 /\ tailed'[n] <= dbv
    BY <2>1, <2>3, <1>a
  <2>6. Emptied(m, {"query"}, hook[i].v) /\ UNCHANGED <<dbv, gen2, l2, rd>>
    BY Zenon, <2>1
  <2>7. NodeEmptied(m, {"query"}, hook[i].v)
    BY Zenon, <2>4, <2>5, <2>6 DEF NodeEmptied
  <2> QED
    BY Zenon, <2>2, <2>3, <2>7, <1>c, L1Emptied
<1>4. ASSUME NEW i \in Writers, HookRowL2(i) PROVE CacheInv'
  <2>1. /\ hook[i].pc = "row2" /\ l2' = [l2 EXCEPT !["row"] = 0]
        /\ Emptied(L2, {"row"}, hook[i].v) /\ hook' = [hook EXCEPT ![i].pc = "row1"]
        /\ UNCHANGED <<dbv, gen2, gen1, l1, tailed, rd>>
    BY Zenon, <1>4 DEF HookRowL2
  <2>2. HooksType'
    BY Zenon, <2>1, <1>b DEF HooksType, HookRecord
  <2>3. l2' \in Cells /\ \A k \in Keyspaces : l2'[k] = IF k \in {"row"} THEN 0 ELSE l2[k]
    BY Zenon, <2>1, <1>a DEF Cells
  <2>4. gen2' \in Nat /\ gen2' >= gen2 /\ ("query" \in {"row"} => gen2' > gen2)
    BY <2>1, <1>a
  <2>5. hook[i].pc # "idle"
    BY Zenon, <2>1
  <2> QED
    BY Zenon, <2>1, <2>2, <2>3, <2>4, <2>5, <1>c, L2Emptied
<1>5. ASSUME NEW i \in Writers, HookRowL1(i) PROVE CacheInv'
  <2> DEFINE m == hook[i].n
  <2>1. /\ hook[i].pc = "row1" /\ l1' = [l1 EXCEPT ![m]["row"] = 0]
        /\ Emptied(m, {"row"}, hook[i].v) /\ hook' = [hook EXCEPT ![i] = NoHook]
        /\ UNCHANGED <<dbv, gen2, l2, gen1, tailed, rd>>
    BY Zenon, <1>5 DEF HookRowL1
  <2>2. NoHook \in HookRecord /\ NoHook.pc = "idle"
    BY Zenon DEF NoHook, HookRecord
  <2>3. HooksType'
    BY Zenon, <2>1, <2>2, <1>b DEF HooksType
  <2>4. m \in Nodes /\ hook[i].v \in Nat /\ hook[i].v <= dbv
    BY Zenon, <2>1, <1>b
  <2> HIDE DEF m
  <2>5. /\ l1' \in [Nodes -> Cells]
        /\ \A n \in Nodes, k \in Keyspaces : l1'[n][k] = IF n = m /\ k \in {"row"} THEN 0 ELSE l1[n][k]
    BY Zenon, <2>1, <2>4, <1>a, <1>c DEF Cells
  <2>6. /\ gen1' \in [Nodes -> Nat] /\ \A n \in Nodes : gen1'[n] >= gen1[n]
        /\ "query" \in {"row"} => gen1'[m] > gen1[m]
        /\ tailed' \in [Nodes -> Nat] /\ \A n \in Nodes : tailed'[n] >= 1 /\ tailed'[n] <= dbv
    BY <2>1, <2>4, <1>a
  <2>7. Emptied(m, {"row"}, hook[i].v) /\ UNCHANGED <<dbv, gen2, l2, rd>>
    BY Zenon, <2>1
  <2>8. NodeEmptied(m, {"row"}, hook[i].v)
    BY Zenon, <2>5, <2>6, <2>7 DEF NodeEmptied
  <2> QED
    BY Zenon, <2>3, <2>4, <2>8, <1>c, L1Emptied
<1>6. ASSUME NEW i \in Writers, HookFails(i) PROVE CacheInv'
  <2>1. /\ hook[i].pc \in {"entity2", "row2"}
        /\ hook' = [hook EXCEPT ![i] = IF @.pc = "entity2" THEN [@ EXCEPT !.pc = "row2"] ELSE NoHook]
        /\ UNCHANGED <<dbv, gen2, l2, gen1, l1, tailed, rd, inv, raced>>
    BY Zenon, <1>6 DEF HookFails
  <2>2. NoHook \in HookRecord /\ NoHook.pc = "idle"
    BY DEF NoHook, HookRecord
  <2>3. [hook[i] EXCEPT !.pc = "row2"] \in HookRecord
    BY Zenon, <1>b DEF HookRecord
  <2>4. [hook[i] EXCEPT !.pc = "row2"].n = hook[i].n /\ [hook[i] EXCEPT !.pc = "row2"].v = hook[i].v
    BY Zenon, <1>b DEF HookRecord
  <2>5. HooksType'
    BY Zenon, <2>1, <2>2, <2>3, <2>4, <1>b DEF HooksType
  <2>6. CellsType' /\ L1Inv' /\ L2Inv' /\ FlightInv' /\ WaitInv'
    BY Zenon, <2>1, FlightsKept DEF CacheInv, CellsType, L1Inv, L2Inv
  <2>7. ReadersInv'
    BY <2>1, <2>6, <1>a, TiersMove DEF CacheInv
  <2> QED
    BY Zenon, <2>5, <2>6, <2>7 DEF CacheInv
<1>7. ASSUME NEW m \in Nodes, EvictLocal(m) PROVE CacheInv'
  <2>1. /\ tailed[m] < dbv /\ tailed' = [tailed EXCEPT ![m] = @ + 1]
        /\ gen1' = [gen1 EXCEPT ![m] = @ + 1] /\ l1' = [l1 EXCEPT ![m] = Unset]
        /\ Emptied(m, Keyspaces, tailed[m] + 1) /\ UNCHANGED <<dbv, gen2, l2, hook, rd>>
    BY Zenon, <1>7 DEF EvictLocal
  <2>2. HooksType'
    BY Zenon, <2>1 DEF CacheInv, HooksType
  <2>3. /\ l1' \in [Nodes -> Cells]
        /\ \A n \in Nodes, k \in Keyspaces : l1'[n][k] = IF n = m /\ k \in Keyspaces THEN 0 ELSE l1[n][k]
    BY Zenon, <2>1, <1>a DEF Cells, Unset
  <2>4. gen1' \in [Nodes -> Nat] /\ gen1'[m] > gen1[m] /\ \A n \in Nodes : gen1'[n] >= gen1[n]
    BY <2>1, <1>a
  <2>5. /\ tailed' \in [Nodes -> Nat] /\ \A n \in Nodes : tailed'[n] >= 1 /\ tailed'[n] <= dbv
        /\ tailed[m] + 1 \in Nat /\ tailed[m] + 1 <= dbv
    BY <2>1, <1>a
  <2>6. Keyspaces \in SUBSET Keyspaces
    BY Zenon
  <2>7. NodeEmptied(m, Keyspaces, tailed[m] + 1)
    BY Zenon, <2>1, <2>3, <2>4, <2>5 DEF NodeEmptied
  <2> QED
    BY Zenon, <2>2, <2>5, <2>6, <2>7, L1Emptied
<1>8. ASSUME NEW t \in Tiers, NEW k \in Keyspaces, Expires(t, k) PROVE CacheInv'
  <2>1. /\ IF t = L2 THEN l2' = [l2 EXCEPT ![k] = 0] /\ UNCHANGED l1
                     ELSE l1' = [l1 EXCEPT ![t][k] = 0] /\ UNCHANGED l2
        /\ raced' = raced \ {<<t, k>>} /\ UNCHANGED <<dbv, gen2, gen1, tailed, hook, rd, inv>>
    BY Zenon, <1>8 DEF Expires
  <2>2. /\ l2' \in Cells /\ l1' \in [Nodes -> Cells]
        /\ \A j \in Keyspaces : l2'[j] = IF t = L2 /\ j = k THEN 0 ELSE l2[j]
        /\ \A n \in Nodes, j \in Keyspaces : l1'[n][j] = IF n = t /\ j = k THEN 0 ELSE l1[n][j]
    <3>1. CASE t = L2
      BY <2>1, <3>1, <1>a, Domains DEF Cells
    <3>2. CASE t \in Nodes
      BY <2>1, <3>2, <1>a, Domains DEF Cells
    <3> QED
      BY Zenon, <3>1, <3>2, Domains
  <2>3. CellsType' /\ HooksType'
    BY <2>1, <2>2, <1>a DEF CacheInv, CellsType, HooksType
  <2>4. L2Inv'
    BY Zenon, <2>1, <2>2 DEF CacheInv, L2Inv
  <2>5. L1Inv'
    BY Zenon, <2>1, <2>2 DEF CacheInv, L1Inv
  <2>6. ReadersInv'
    BY <2>1, <2>3, <1>a, TiersMove DEF CacheInv
  <2>7. FlightInv' /\ WaitInv'
    BY Zenon, <2>1, FlightsKept DEF CacheInv
  <2> QED
    BY Zenon, <2>3, <2>4, <2>5, <2>6, <2>7 DEF CacheInv
<1> QED
  BY Zenon, <1>1, <1>2, <1>3, <1>4, <1>5, <1>6, <1>7, <1>8

-----------------------------------------------------------------------------
(* One reader moves, and the flights stay in order.                          *)
InFlight(r) == r.pc \in {"recheck", "load", "set"} /\ r.k = "query"

LEMMA ReaderMoves ==
    ASSUME CacheInv, NEW c \in Readers, NEW r \in ReadRecord, ReaderInv(r),
           rd' = [rd EXCEPT ![c] = r], UNCHANGED <<dbv, gen2, gen1, inv>>,
           r.pc = "set" /\ r.k = "query" =>
               \A d \in Readers : rd[d].pc \in {"do", "wait"} /\ rd[d].fk = r.fk => r.v >= rd[d].floor,
           r.pc \in {"do", "wait"} =>
               \A d \in Readers : rd[d].pc = "set" /\ rd[d].k = "query" /\ rd[d].fk = r.fk => rd[d].v >= r.floor,
           r.pc = "wait" => \E d \in Readers : d # c /\ InFlight(rd[d]) /\ rd[d].n = r.n /\ rd[d].fk = r.fk,
           InFlight(rd[c]) => InFlight(r) /\ r.n = rd[c].n /\ r.fk = rd[c].fk
    PROVE  ReadersInv' /\ FlightInv' /\ WaitInv'
<1>1. rd \in [Readers -> ReadRecord] /\ \A d \in Readers : ReaderInv(rd[d])
  BY Zenon DEF CacheInv, ReadersInv
<1>2. rd' \in [Readers -> ReadRecord] /\ \A d \in Readers : rd'[d] = IF d = c THEN r ELSE rd[d]
  BY Zenon, <1>1
<1>3. ReadersInv'
  <2>1. \A d \in Readers : ReaderInv(rd'[d])
    BY Zenon, <1>1, <1>2
  <2>2. \A d \in Readers : ReaderInv(rd[d])'
    <3>1. \A d \in Readers : ReaderSeen(rd[d])'
      BY <2>1 DEF ReaderInv, ReaderSeen
    <3>2. \A d \in Readers : ReaderHolds(rd[d])'
      BY Zenon, <2>1 DEF ReaderInv, ReaderHolds
    <3> QED
      BY Zenon, <3>1, <3>2 DEF ReaderInv
  <2> QED
    BY Zenon, <1>2, <2>2 DEF ReadersInv
<1>4. FlightInv'
  BY Zenon, <1>2 DEF CacheInv, FlightInv
<1>5. WaitInv'
  <2> SUFFICES ASSUME NEW d \in Readers, rd'[d].pc = "wait"
               PROVE  \E b \in Readers : InFlight(rd'[b]) /\ rd'[b].n = rd'[d].n /\ rd'[b].fk = rd'[d].fk
    BY Zenon DEF WaitInv, Leads, InFlight
  <2>1. CASE d = c
    BY Zenon, <2>1, <1>2
  <2>2. CASE d # c
    <3>1. PICK b \in Readers : InFlight(rd[b]) /\ rd[b].n = rd[d].n /\ rd[b].fk = rd[d].fk
      BY Zenon, <2>2, <1>2 DEF CacheInv, WaitInv, Leads, InFlight
    <3>2. InFlight(rd'[b]) /\ rd'[b].n = rd[b].n /\ rd'[b].fk = rd[b].fk
      BY Zenon, <3>1, <1>2
    <3> QED
      BY Zenon, <3>1, <3>2, <2>2, <1>2
  <2> QED
    BY Zenon, <2>1, <2>2
<1> QED
  BY Zenon, <1>3, <1>4, <1>5

(* A flight ends: its leader has r and its followers the leader's value, or  *)
(* nothing.                                                                  *)
LEMMA FlightOver ==
    ASSUME CacheInv, NEW c \in Readers, NEW r \in ReadRecord, ReaderInv(r),
           FlightEnds(c, r), UNCHANGED <<dbv, gen2, gen1, inv>>,
           r.pc \in {"fill", "idle"}, InFlight(rd[c]),
           r.pc = "fill" /\ ~r.odd => \A d \in Readers : Follows(d, c) => r.v >= rd[d].floor
    PROVE  ReadersInv' /\ FlightInv' /\ WaitInv'
<1> DEFINE f(d) == [rd[d] EXCEPT !.pc = r.pc, !.v = r.v, !.odd = r.odd \/ Early(rd[d], r.v)]
<1>1. rd \in [Readers -> ReadRecord] /\ \A d \in Readers : ReaderInv(rd[d])
  BY Zenon DEF CacheInv, ReadersInv
<1>2. rd' = [d \in Readers |-> IF d = c THEN r ELSE IF Follows(d, c) THEN f(d) ELSE rd[d]]
  BY Zenon DEF FlightEnds
<1>3. r.pc \in ReadPcs /\ r.v \in Nat /\ r.odd \in BOOLEAN /\ r.v <= dbv
  BY Zenon DEF ReadRecord, ReaderInv, ReaderSeen, ReaderHolds
<1>4. ASSUME NEW d \in Readers
      PROVE  /\ f(d) \in ReadRecord /\ f(d).pc = r.pc /\ f(d).v = r.v
             /\ f(d).odd = (r.odd \/ Early(rd[d], r.v))
             /\ f(d).n = rd[d].n /\ f(d).k = rd[d].k /\ f(d).lg = rd[d].lg /\ f(d).fk = rd[d].fk
             /\ f(d).floor = rd[d].floor /\ f(d).seen = rd[d].seen
  <2>1. rd[d] \in ReadRecord
    BY Zenon, <1>1
  <2>2. (r.odd \/ Early(rd[d], r.v)) \in BOOLEAN
    BY Zenon, <1>3 DEF Early
  <2> HIDE DEF Early
  <2> QED
    BY Zenon, <2>1, <2>2, <1>3 DEF ReadRecord
<1> HIDE DEF f
<1>5. ASSUME NEW d \in Readers, Follows(d, c) PROVE ReaderInv(f(d))
  <2>1. rd[d].pc = "wait" /\ rd[d] \in ReadRecord /\ ReaderInv(rd[d])
    BY Zenon, <1>1, <1>5 DEF Follows
  <2>2. rd[d].floor \in Nat /\ rd[d].seen \in Nat
    BY Zenon, <2>1 DEF ReadRecord
  <2>3. r.pc = "fill" /\ ~f(d).odd => r.v >= rd[d].floor /\ r.v >= rd[d].seen
    <3>1. SUFFICES ASSUME r.pc = "fill", ~f(d).odd PROVE r.v >= rd[d].floor /\ r.v >= rd[d].seen
      BY Zenon
    <3>2. ~r.odd /\ ~Early(rd[d], r.v)
      BY Zenon, <3>1, <1>4
    <3>3. r.v >= rd[d].floor
      BY Zenon, <3>1, <3>2, <1>5
    <3> QED
      BY <3>2, <3>3, <2>2, <1>3 DEF Early
  <2> QED
    BY Zenon, <2>1, <2>3, <1>3, <1>4 DEF ReaderInv, ReaderSeen, ReaderHolds
<1>6. rd' \in [Readers -> ReadRecord]
  BY Zenon, <1>1, <1>2, <1>4
<1>7. \A d \in Readers : rd'[d] = IF d = c THEN r ELSE IF Follows(d, c) THEN f(d) ELSE rd[d]
  BY Zenon, <1>2
<1>8. ReadersInv'
  <2>1. \A d \in Readers : ReaderInv(rd'[d])
    BY Zenon, <1>1, <1>5, <1>7
  <2>2. \A d \in Readers : ReaderInv(rd[d])'
    <3>1. \A d \in Readers : ReaderSeen(rd[d])'
      BY Zenon, <2>1 DEF ReaderInv, ReaderSeen
    <3>2. \A d \in Readers : ReaderHolds(rd[d])'
      BY Zenon, <2>1 DEF ReaderInv, ReaderHolds
    <3> QED
      BY Zenon, <3>1, <3>2 DEF ReaderInv
  <2> QED
    BY Zenon, <1>6, <2>2 DEF ReadersInv
<1>9. \A d \in Readers : rd'[d].pc \in {"do", "wait", "set", "recheck", "load"} =>
          d # c /\ ~Follows(d, c) /\ rd'[d] = rd[d]
  BY Zenon, <1>4, <1>7
<1>10. FlightInv'
  BY Zenon, <1>9 DEF CacheInv, FlightInv
<1>11. WaitInv'
  <2> SUFFICES ASSUME NEW d \in Readers, rd'[d].pc = "wait"
               PROVE  \E b \in Readers : InFlight(rd'[b]) /\ rd'[b].n = rd'[d].n /\ rd'[b].fk = rd'[d].fk
    BY Zenon DEF WaitInv, Leads, InFlight
  <2>1. rd'[d] = rd[d] /\ ~Follows(d, c)
    BY Zenon, <1>9
  <2>2. PICK b \in Readers : InFlight(rd[b]) /\ rd[b].n = rd[d].n /\ rd[b].fk = rd[d].fk
    BY <2>1 DEF CacheInv, WaitInv, Leads, InFlight
  <2>3. b # c
    BY Zenon, <2>1, <2>2 DEF Follows
  <2>4. ~Follows(b, c)
    BY Zenon, <2>2 DEF Follows, InFlight
  <2>5. rd'[b] = rd[b]
    BY Zenon, <2>3, <2>4, <1>7
  <2> QED
    BY Zenon, <2>1, <2>2, <2>5
<1> QED
  BY Zenon, <1>8, <1>10, <1>11

-----------------------------------------------------------------------------
(* The steps of a read.                                                      *)
tierVars == <<dbv, gen2, l2, gen1, l1, tailed, hook, inv, raced>>

LEMMA TiersStill ==
    ASSUME CacheInv, UNCHANGED tierVars, ReadersInv', FlightInv', WaitInv'
    PROVE  CacheInv'
  BY Zenon DEF tierVars, CacheInv, CellsType, HooksType, L1Inv, L2Inv

LEMMA ReaderFacts ==
    ASSUME CacheInv, NEW c \in Readers
    PROVE  /\ rd[c] \in ReadRecord /\ ReaderInv(rd[c])
           /\ rd[c].pc \in ReadPcs /\ rd[c].k \in Keyspaces /\ rd[c].odd \in BOOLEAN
           /\ rd[c].lg \in Nat /\ rd[c].fk \in Nat /\ rd[c].v \in Nat /\ rd[c].floor \in Nat /\ rd[c].seen \in Nat
           /\ dbv \in Nat /\ gen2 \in Nat
           /\ \A n \in Nodes : gen1[n] \in Nat
           /\ \A k \in Keyspaces : l2[k] \in Nat /\ l2[k] <= dbv
           /\ \A n \in Nodes, k \in Keyspaces : l1[n][k] \in Nat /\ l1[n][k] <= dbv
           /\ \A t \in Tiers, k \in Keyspaces : inv[t][k] \in Nat /\ inv[t][k] <= dbv
<1>1. rd[c] \in ReadRecord /\ ReaderInv(rd[c])
  BY Zenon DEF CacheInv, ReadersInv
<1>2. /\ rd[c].pc \in ReadPcs /\ rd[c].k \in Keyspaces /\ rd[c].odd \in BOOLEAN
      /\ rd[c].lg \in Nat /\ rd[c].fk \in Nat /\ rd[c].v \in Nat /\ rd[c].floor \in Nat /\ rd[c].seen \in Nat
  BY Zenon, <1>1 DEF ReadRecord
<1>3. /\ dbv \in Nat /\ gen2 \in Nat
      /\ \A n \in Nodes : gen1[n] \in Nat
      /\ \A k \in Keyspaces : l2[k] \in Nat /\ l2[k] <= dbv
      /\ \A n \in Nodes, k \in Keyspaces : l1[n][k] \in Nat /\ l1[n][k] <= dbv
      /\ \A t \in Tiers, k \in Keyspaces : inv[t][k] \in Nat /\ inv[t][k] <= dbv
  BY Zenon DEF CacheInv, CellsType, Cells
<1> QED
  BY Zenon, <1>1, <1>2, <1>3

LEMMA BeginKeeps ==
    ASSUME CacheInv, NEW c \in Readers, NEW n \in Nodes, NEW k \in Keyspaces, Begin(c, n, k)
    PROVE  CacheInv'
<1> DEFINE fl == Least({inv[L2][k], inv[n][k]})
           r == [NoRead EXCEPT !.pc = "l1", !.n = n, !.k = k, !.floor = fl]
<1>1. rd[c].pc \in {"idle", "done"} /\ rd' = [rd EXCEPT ![c] = r] /\ UNCHANGED tierVars
  BY Zenon DEF Begin, tierVars
<1>2. inv[L2][k] \in Nat /\ inv[n][k] \in Nat /\ dbv \in Nat /\ gen2 \in Nat
  BY Zenon, ReaderFacts, Domains
<1>3. fl \in Nat /\ fl <= inv[L2][k] /\ fl <= inv[n][k]
  BY Zenon, <1>2, LeastOfTwo
<1> HIDE DEF fl
<1>4. NoRead \in ReadRecord /\ NoRead.fk = 0 /\ NoRead.v = 0 /\ ~NoRead.odd
  BY Zenon DEF NoRead, ReadRecord, ReadPcs, Keyspaces
<1>5. /\ r \in ReadRecord /\ r.pc = "l1" /\ r.n = n /\ r.k = k /\ r.floor = fl
      /\ r.fk = NoRead.fk /\ r.v = NoRead.v /\ r.odd = NoRead.odd
  BY Zenon, <1>3, <1>4 DEF ReadRecord, ReadPcs
<1> HIDE DEF r
<1>6. ReaderInv(r)
  <2>1. ReaderSeen(r)
    BY <1>2, <1>3, <1>4, <1>5 DEF ReaderInv, ReaderSeen
  <2>2. ReaderHolds(r)
    BY <1>2, <1>3, <1>4, <1>5 DEF ReaderInv, ReaderHolds
  <2> QED
    BY Zenon, <2>1, <2>2 DEF ReaderInv
<1>7. ReadersInv' /\ FlightInv' /\ WaitInv'
  <2>1. r.pc = "l1" /\ ~InFlight(rd[c]) /\ UNCHANGED <<dbv, gen2, gen1, inv>>
    BY Zenon, <1>1, <1>5 DEF InFlight, tierVars
  <2> QED
    BY Zenon, <1>1, <1>5, <1>6, <2>1, ReaderMoves
<1> QED
  BY Zenon, <1>1, <1>7, TiersStill

LEMMA LookL1Keeps == ASSUME CacheInv, NEW c \in Readers, LookL1(c) PROVE CacheInv'
<1> DEFINE n == rd[c].n
           k == rd[c].k
           x == [rd[c] EXCEPT !.lg = gen1[n], !.seen = inv[n][k]]
           r == IF l1[x.n][x.k] = 0 THEN [x EXCEPT !.pc = "l2"]
                ELSE [x EXCEPT !.pc = "done", !.v = l1[x.n][x.k], !.odd = <<x.n, x.k>> \in raced]
<1>1. rd[c].pc = "l1" /\ rd' = [rd EXCEPT ![c] = r] /\ UNCHANGED tierVars
  BY Zenon DEF LookL1, tierVars
<1>2. /\ rd[c] \in ReadRecord /\ ReaderInv(rd[c]) /\ n \in Nodes /\ k \in Keyspaces
      /\ n \in Tiers /\ gen1[n] \in Nat /\ inv[n][k] \in Nat /\ l1[n][k] \in Nat /\ l1[n][k] <= dbv
      /\ rd[c].v \in Nat /\ rd[c].floor \in Nat /\ rd[c].fk \in Nat /\ gen2 \in Nat /\ dbv \in Nat
  BY Zenon, <1>1, ReaderFacts, Domains DEF ReaderInv, ReaderSeen, ReaderHolds
<1>3. /\ x \in ReadRecord /\ x.pc = "l1" /\ x.n = n /\ x.k = k /\ x.lg = gen1[n] /\ x.seen = inv[n][k]
      /\ x.fk = rd[c].fk /\ x.v = rd[c].v /\ x.odd = rd[c].odd /\ x.floor = rd[c].floor
  BY Zenon, <1>1, <1>2 DEF ReadRecord
<1> HIDE DEF x
<1>4. CASE l1[n][k] = 0
  <2>1. r = [x EXCEPT !.pc = "l2"]
    BY Zenon, <1>3, <1>4
  <2> HIDE DEF r
  <2>2. /\ r \in ReadRecord /\ r.pc = "l2" /\ r.n = n /\ r.k = k /\ r.lg = gen1[n] /\ r.seen = inv[n][k]
        /\ r.fk = rd[c].fk /\ r.v = rd[c].v /\ r.odd = rd[c].odd /\ r.floor = rd[c].floor
    BY Zenon, <2>1, <1>3 DEF ReadRecord, ReadPcs
  <2>3. ReaderInv(r)
    <3>1. ReaderSeen(r)
      BY <2>2, <1>1, <1>2 DEF ReaderInv, ReaderSeen
    <3>2. ReaderHolds(r)
      BY Zenon, <2>2, <1>1, <1>2 DEF ReaderInv, ReaderHolds
    <3> QED
      BY Zenon, <3>1, <3>2 DEF ReaderInv
  <2>4. r.pc = "l2" /\ ~InFlight(rd[c]) /\ UNCHANGED <<dbv, gen2, gen1, inv>>
    BY Zenon, <2>2, <1>1 DEF InFlight, tierVars
  <2> QED
    BY Zenon, <1>1, <2>2, <2>3, <2>4, ReaderMoves, TiersStill
<1>5. CASE l1[n][k] # 0
  <2> DEFINE o == <<n, k>> \in raced
  <2>1. r = [x EXCEPT !.pc = "done", !.v = l1[n][k], !.odd = o]
    BY Zenon, <1>3, <1>5
  <2>0. o \in BOOLEAN
    OBVIOUS
  <2> HIDE DEF r, o
  <2>2. /\ r \in ReadRecord /\ r.pc = "done" /\ r.n = n /\ r.k = k /\ r.lg = gen1[n] /\ r.seen = inv[n][k]
        /\ r.fk = rd[c].fk /\ r.v = l1[n][k] /\ r.odd = o /\ r.floor = rd[c].floor
    BY Zenon, <2>0, <2>1, <1>2, <1>3 DEF ReadRecord, ReadPcs
  <2>3. ~r.odd => r.v >= inv[n][k]
    BY Zenon, <2>2, <1>2, <1>5 DEF CacheInv, L1Inv, o
  <2>4. ReaderInv(r)
    <3>1. ReaderSeen(r)
      BY <2>2, <2>3, <1>1, <1>2 DEF ReaderInv, ReaderSeen
    <3>2. rd[c].floor <= inv[n][k]
      BY Zenon, <1>1, <1>2 DEF ReaderInv, ReaderSeen
    <3>3. ~r.odd => r.v >= r.floor
      BY <2>2, <2>3, <3>2, <1>2
    <3>4. ReaderHolds(r)
      BY Zenon, <2>2, <3>3, <1>2 DEF ReaderHolds
    <3> QED
      BY Zenon, <3>1, <3>4 DEF ReaderInv
  <2>5. r.pc = "done" /\ ~InFlight(rd[c]) /\ UNCHANGED <<dbv, gen2, gen1, inv>>
    BY Zenon, <2>2, <1>1 DEF InFlight, tierVars
  <2> QED
    BY Zenon, <1>1, <2>2, <2>4, <2>5, ReaderMoves, TiersStill
<1> QED
  BY Zenon, <1>4, <1>5

(* A value found in Redis.                                                   *)
LEMMA FoundInL2 ==
    ASSUME CacheInv, NEW c \in Readers, rd[c].pc \in {"l2", "recheck"}, l2[rd[c].k] # 0
    PROVE  LET r == [FromL2(rd[c]) EXCEPT !.pc = "fill"]
           IN  /\ r \in ReadRecord /\ ReaderInv(r) /\ r.pc = "fill" /\ r.v = l2[rd[c].k]
               /\ ~r.odd => r.v >= inv[L2][rd[c].k]
<1> DEFINE k == rd[c].k
           x == FromL2(rd[c])
           r == [x EXCEPT !.pc = "fill"]
<1>1. /\ rd[c] \in ReadRecord /\ ReaderInv(rd[c]) /\ k \in Keyspaces
      /\ l2[k] \in Nat /\ l2[k] <= dbv /\ inv[L2][k] \in Nat
      /\ rd[c].floor \in Nat /\ rd[c].seen \in Nat
  BY Zenon, ReaderFacts, Domains
<1>2. (<<L2, k>> \in raced \/ Early(rd[c], l2[k])) \in BOOLEAN
  BY Zenon DEF Early
<1>3. /\ x \in ReadRecord /\ x.pc = rd[c].pc /\ x.n = rd[c].n /\ x.k = k /\ x.lg = rd[c].lg /\ x.fk = rd[c].fk
      /\ x.v = l2[k] /\ x.odd = (<<L2, k>> \in raced \/ Early(rd[c], l2[k]))
      /\ x.floor = rd[c].floor /\ x.seen = rd[c].seen
  BY Zenon, <1>1, <1>2 DEF FromL2, ReadRecord
<1> HIDE DEF x
<1>4. /\ r \in ReadRecord /\ r.pc = "fill" /\ r.n = rd[c].n /\ r.k = k /\ r.lg = rd[c].lg /\ r.fk = rd[c].fk
      /\ r.v = l2[k] /\ r.odd = (<<L2, k>> \in raced \/ Early(rd[c], l2[k]))
      /\ r.floor = rd[c].floor /\ r.seen = rd[c].seen
  BY Zenon, <1>3 DEF ReadRecord, ReadPcs
<1> HIDE DEF r
<1>5. ~r.odd => r.v >= inv[L2][k]
  BY Zenon, <1>1, <1>4 DEF CacheInv, L2Inv
<1>6. ~r.odd => r.v >= r.floor /\ r.v >= r.seen
  <2>1. rd[c].floor <= inv[L2][k]
    BY Zenon, <1>1 DEF ReaderInv, ReaderSeen, ReaderHolds
  <2>2. ~r.odd => ~(l2[k] \in rd[c].floor..(rd[c].seen - 1))
    BY Zenon, <1>4 DEF Early
  <2>3. ~r.odd => l2[k] >= rd[c].floor
    BY <2>1, <1>1, <1>4, <1>5
  <2> QED
    BY <2>2, <2>3, <1>1, <1>4
<1>7. ReaderInv(r)
  <2>1. ReaderSeen(r)
    BY Zenon, <1>1, <1>4, <1>6 DEF ReaderInv, ReaderSeen
  <2>2. ReaderHolds(r)
    BY Zenon, <1>1, <1>4, <1>6 DEF ReaderInv, ReaderHolds
  <2> QED
    BY Zenon, <2>1, <2>2 DEF ReaderInv
<1> QED
  BY Zenon, <1>4, <1>5, <1>7 DEF r, x

(* A read that only moves on, with the values it has.                        *)
LEMMA Advanced ==
    ASSUME CacheInv, NEW c \in Readers, NEW pc \in ReadPcs
    PROVE  LET r == [rd[c] EXCEPT !.pc = pc]
           IN  /\ r \in ReadRecord /\ r.pc = pc /\ r.n = rd[c].n /\ r.k = rd[c].k /\ r.lg = rd[c].lg
               /\ r.fk = rd[c].fk /\ r.v = rd[c].v /\ r.odd = rd[c].odd
               /\ r.floor = rd[c].floor /\ r.seen = rd[c].seen
<1>1. rd[c] \in ReadRecord
  BY Zenon, ReaderFacts
<1> QED
  BY Zenon, <1>1 DEF ReadRecord

LEMMA LookL2Keeps == ASSUME CacheInv, NEW c \in Readers, LookL2(c) PROVE CacheInv'
<1>1. rd[c].pc = "l2" /\ UNCHANGED tierVars /\ UNCHANGED <<dbv, gen2, gen1, inv>> /\ ~InFlight(rd[c])
  BY Zenon DEF LookL2, tierVars, InFlight
<1>2. CASE l2[rd[c].k] # 0
  <2> DEFINE r == [FromL2(rd[c]) EXCEPT !.pc = "fill"]
  <2>1. rd' = [rd EXCEPT ![c] = r]
    BY Zenon, <1>2 DEF LookL2
  <2>2. r \in ReadRecord /\ ReaderInv(r) /\ r.pc = "fill"
    BY Zenon, <1>1, <1>2, FoundInL2
  <2> HIDE DEF r
  <2> QED
    BY Zenon, <1>1, <2>1, <2>2, ReaderMoves, TiersStill
<1>3. CASE l2[rd[c].k] = 0
  <2> DEFINE pc == IF rd[c].k = "query" THEN "resolve" ELSE "load"
             r == [rd[c] EXCEPT !.pc = pc]
  <2>1. rd' = [rd EXCEPT ![c] = r]
    BY Zenon, <1>3 DEF LookL2
  <2>2. pc \in ReadPcs /\ pc \in {"resolve", "load"} /\ (pc = "resolve" => rd[c].k = "query")
    BY Zenon DEF ReadPcs
  <2> HIDE DEF pc
  <2>3. /\ r \in ReadRecord /\ r.pc = pc /\ r.n = rd[c].n /\ r.k = rd[c].k /\ r.lg = rd[c].lg
        /\ r.fk = rd[c].fk /\ r.v = rd[c].v /\ r.odd = rd[c].odd
        /\ r.floor = rd[c].floor /\ r.seen = rd[c].seen
    BY Zenon, <2>2, Advanced
  <2> HIDE DEF r
  <2>4. ReaderInv(r)
    <3>1. ReaderSeen(r)
      BY Zenon, <1>1, <2>2, <2>3, ReaderFacts DEF ReaderInv, ReaderSeen
    <3>2. ReaderHolds(r)
      BY Zenon, <1>1, <2>2, <2>3, ReaderFacts DEF ReaderInv, ReaderHolds
    <3> QED
      BY <3>1, <3>2 DEF ReaderInv
  <2> QED
    BY Zenon, <1>1, <2>1, <2>2, <2>3, <2>4, ReaderMoves, TiersStill
<1>4. l2[rd[c].k] = 0 \/ l2[rd[c].k] # 0
  BY Zenon
<1> QED
  BY Zenon, <1>2, <1>3, <1>4

LEMMA ResolveKeeps == ASSUME CacheInv, NEW c \in Readers, Resolve(c) PROVE CacheInv'
<1> DEFINE r == [rd[c] EXCEPT !.pc = "do", !.fk = gen2]
<1>1. rd[c].pc = "resolve" /\ UNCHANGED tierVars /\ UNCHANGED <<dbv, gen2, gen1, inv>> /\ ~InFlight(rd[c])
  BY Zenon DEF Resolve, tierVars, InFlight
<1>2. rd[c] \in ReadRecord /\ ReaderInv(rd[c]) /\ gen2 \in Nat /\ rd[c].k = "query"
  BY Zenon, <1>1, ReaderFacts DEF ReaderInv, ReaderSeen, ReaderHolds
<1>3. rd' = [rd EXCEPT ![c] = r]
  BY Zenon, <1>2 DEF Resolve, CacheInv, ReadersInv, ReadRecord
<1>4. /\ r \in ReadRecord /\ r.pc = "do" /\ r.n = rd[c].n /\ r.k = rd[c].k /\ r.lg = rd[c].lg
      /\ r.fk = gen2 /\ r.v = rd[c].v /\ r.odd = rd[c].odd
      /\ r.floor = rd[c].floor /\ r.seen = rd[c].seen
  BY Zenon, <1>2 DEF ReadRecord, ReadPcs
<1> HIDE DEF r
<1>5. ReaderInv(r)
  <2>1. ReaderSeen(r)
    BY <1>1, <1>2, <1>4 DEF ReaderInv, ReaderSeen
  <2>2. ReaderHolds(r)
    BY Zenon, <1>1, <1>2, <1>4 DEF ReaderInv, ReaderHolds
  <2> QED
    BY <2>1, <2>2 DEF ReaderInv
<1>6. \A d \in Readers : rd[d].pc = "set" /\ rd[d].k = "query" /\ rd[d].fk = r.fk => rd[d].v >= r.floor
  <2> SUFFICES ASSUME NEW d \in Readers, rd[d].pc = "set", rd[d].k = "query", rd[d].fk = gen2
               PROVE  rd[d].v >= rd[c].floor
    BY Zenon, <1>4
  <2>1. rd[d].v \in Nat /\ rd[d].v >= inv[L2]["query"]
    BY Zenon, ReaderFacts DEF ReaderInv, ReaderSeen, ReaderHolds
  <2>2. rd[c].floor \in Nat /\ rd[c].floor <= inv[L2]["query"] /\ inv[L2]["query"] \in Nat
    BY Zenon, <1>1, <1>2, ReaderFacts, Domains DEF ReaderInv, ReaderSeen, ReaderHolds
  <2> QED
    BY <2>1, <2>2
<1> QED
  BY Zenon, <1>1, <1>3, <1>4, <1>5, <1>6, ReaderMoves, TiersStill

LEMMA DoKeeps == ASSUME CacheInv, NEW c \in Readers, Do(c) PROVE CacheInv'
<1> DEFINE pc == IF \E d \in Readers : Leads(d, c) THEN "wait" ELSE "recheck"
           r == [rd[c] EXCEPT !.pc = pc]
<1>1. rd[c].pc = "do" /\ UNCHANGED tierVars /\ UNCHANGED <<dbv, gen2, gen1, inv>> /\ ~InFlight(rd[c])
  BY Zenon DEF Do, tierVars, InFlight
<1>2. rd[c] \in ReadRecord /\ ReaderInv(rd[c]) /\ rd[c].k = "query"
  BY Zenon, <1>1, ReaderFacts DEF ReaderInv, ReaderSeen, ReaderHolds
<1>3. rd' = [rd EXCEPT ![c] = r]
  BY Zenon, <1>2 DEF Do, CacheInv, ReadersInv, ReadRecord
<1>4. pc \in ReadPcs /\ pc \in {"wait", "recheck"} /\ (pc = "wait" => \E d \in Readers : Leads(d, c))
  BY Zenon DEF ReadPcs
<1> HIDE DEF pc
<1>5. /\ r \in ReadRecord /\ r.pc = pc /\ r.n = rd[c].n /\ r.k = rd[c].k /\ r.lg = rd[c].lg
      /\ r.fk = rd[c].fk /\ r.v = rd[c].v /\ r.odd = rd[c].odd
      /\ r.floor = rd[c].floor /\ r.seen = rd[c].seen
  BY Zenon, <1>4, Advanced
<1> HIDE DEF r
<1>6. ReaderInv(r)
  <2>1. ReaderSeen(r)
    BY Zenon, <1>1, <1>2, <1>4, <1>5 DEF ReaderInv, ReaderSeen
  <2>2. ReaderHolds(r)
    BY Zenon, <1>1, <1>2, <1>4, <1>5 DEF ReaderInv, ReaderHolds
  <2> QED
    BY <2>1, <2>2 DEF ReaderInv
<1>7. \A d \in Readers : rd[d].pc = "set" /\ rd[d].k = "query" /\ rd[d].fk = r.fk => rd[d].v >= r.floor
  BY Zenon, <1>1, <1>5 DEF CacheInv, FlightInv
<1>8. r.pc = "wait" => \E d \in Readers : d # c /\ InFlight(rd[d]) /\ rd[d].n = r.n /\ rd[d].fk = r.fk
  BY Zenon, <1>1, <1>4, <1>5 DEF Leads, InFlight
<1>9. r.pc # "set"
  BY Zenon, <1>4, <1>5
<1> QED
  BY Zenon, <1>1, <1>3, <1>5, <1>6, <1>7, <1>8, <1>9, ReaderMoves, TiersStill

LEMMA RecheckKeeps == ASSUME CacheInv, NEW c \in Readers, Recheck(c) PROVE CacheInv'
<1>1. rd[c].pc = "recheck" /\ UNCHANGED tierVars /\ UNCHANGED <<dbv, gen2, gen1, inv>>
  BY Zenon DEF Recheck, tierVars
<1>2. rd[c] \in ReadRecord /\ ReaderInv(rd[c]) /\ rd[c].k = "query"
  BY Zenon, <1>1, ReaderFacts DEF ReaderInv, ReaderSeen, ReaderHolds
<1>3. InFlight(rd[c])
  BY Zenon, <1>1, <1>2 DEF InFlight
<1>4. CASE l2["query"] # 0
  <2> DEFINE r == [FromL2(rd[c]) EXCEPT !.pc = "fill"]
  <2>1. FlightEnds(c, r)
    BY Zenon, <1>4 DEF Recheck
  <2>2. r \in ReadRecord /\ ReaderInv(r) /\ r.pc = "fill" /\ r.v = l2["query"] /\ (~r.odd => r.v >= inv[L2]["query"])
    BY Zenon, <1>1, <1>2, <1>4, FoundInL2
  <2> HIDE DEF r
  <2>3. ASSUME ~r.odd, NEW d \in Readers, Follows(d, c) PROVE r.v >= rd[d].floor
    <3>1. rd[d].pc = "wait"
      BY Zenon, <2>3 DEF Follows
    <3>2. rd[d].floor \in Nat /\ rd[d].floor <= inv[L2]["query"]
      BY Zenon, <3>1, ReaderFacts DEF ReaderInv, ReaderSeen, ReaderHolds
    <3>3. l2["query"] \in Nat /\ inv[L2]["query"] \in Nat
      BY Zenon, ReaderFacts, Domains
    <3> QED
      BY <2>2, <2>3, <3>2, <3>3
  <2> QED
    BY Zenon, <1>1, <1>3, <2>1, <2>2, <2>3, FlightOver, TiersStill
<1>5. CASE l2["query"] = 0
  <2> DEFINE r == [rd[c] EXCEPT !.pc = "load"]
  <2>1. rd' = [rd EXCEPT ![c] = r]
    BY Zenon, <1>2, <1>5 DEF Recheck, CacheInv, ReadersInv, ReadRecord
  <2>2. /\ r \in ReadRecord /\ r.pc = "load" /\ r.n = rd[c].n /\ r.k = rd[c].k /\ r.lg = rd[c].lg
        /\ r.fk = rd[c].fk /\ r.v = rd[c].v /\ r.odd = rd[c].odd
        /\ r.floor = rd[c].floor /\ r.seen = rd[c].seen
    BY Zenon, Advanced DEF ReadPcs
  <2> HIDE DEF r
  <2>3. ReaderInv(r)
    <3>1. ReaderSeen(r)
      BY Zenon, <1>1, <1>2, <2>2 DEF ReaderInv, ReaderSeen
    <3>2. ReaderHolds(r)
      BY Zenon, <1>1, <1>2, <2>2 DEF ReaderInv, ReaderHolds
    <3> QED
      BY <3>1, <3>2 DEF ReaderInv
  <2>4. InFlight(r)
    BY Zenon, <1>2, <2>2 DEF InFlight
  <2> QED
    BY Zenon, <1>1, <2>1, <2>2, <2>3, <2>4, ReaderMoves, TiersStill
<1>6. l2["query"] = 0 \/ l2["query"] # 0
  BY Zenon
<1> QED
  BY Zenon, <1>4, <1>5, <1>6

LEMMA LoadKeeps == ASSUME CacheInv, NEW c \in Readers, Load(c) PROVE CacheInv'
<1> DEFINE r == [rd[c] EXCEPT !.pc = "set", !.v = dbv]
<1>1. rd[c].pc = "load" /\ UNCHANGED tierVars /\ UNCHANGED <<dbv, gen2, gen1, inv>>
  BY Zenon DEF Load, tierVars
<1>2. rd[c] \in ReadRecord /\ ReaderInv(rd[c]) /\ dbv \in Nat
  BY Zenon, ReaderFacts
<1>3. rd' = [rd EXCEPT ![c] = r]
  BY Zenon, <1>2 DEF Load, CacheInv, ReadersInv, ReadRecord
<1>4. /\ r \in ReadRecord /\ r.pc = "set" /\ r.n = rd[c].n /\ r.k = rd[c].k /\ r.lg = rd[c].lg
      /\ r.fk = rd[c].fk /\ r.v = dbv /\ r.odd = rd[c].odd
      /\ r.floor = rd[c].floor /\ r.seen = rd[c].seen
  BY Zenon, <1>2 DEF ReadRecord, ReadPcs
<1> HIDE DEF r
<1>5. \A d \in Readers : rd[d].pc # "idle" => rd[d].floor <= dbv
  <2> SUFFICES ASSUME NEW d \in Readers, rd[d].pc # "idle" PROVE rd[d].floor <= dbv
    BY Zenon
  <2>1. rd[d].k \in Keyspaces /\ rd[d].floor \in Nat /\ rd[d].floor <= inv[L2][rd[d].k]
    BY Zenon, ReaderFacts DEF ReaderInv, ReaderSeen, ReaderHolds
  <2>2. inv[L2][rd[d].k] \in Nat /\ inv[L2][rd[d].k] <= dbv
    BY Zenon, <2>1, ReaderFacts, Domains
  <2> QED
    BY <1>2, <2>1, <2>2
<1>6. rd[c].seen <= dbv
  <2>1. rd[c].k \in Keyspaces /\ rd[c].seen \in Nat /\ rd[c].n \in Nodes /\ rd[c].seen <= inv[rd[c].n][rd[c].k]
    BY Zenon, <1>1, ReaderFacts DEF ReaderInv, ReaderSeen, ReaderHolds
  <2>2. inv[rd[c].n][rd[c].k] \in Nat /\ inv[rd[c].n][rd[c].k] <= dbv
    BY Zenon, <2>1, ReaderFacts, Domains
  <2> QED
    BY <1>2, <2>1, <2>2
<1>7. ReaderInv(r)
  <2>1. inv[L2]["query"] <= dbv /\ inv[L2]["query"] \in Nat
    BY Zenon, ReaderFacts, Domains
  <2>2. ReaderSeen(r)
    BY Zenon, <1>1, <1>2, <1>4 DEF ReaderInv, ReaderSeen
  <2>3. ~rd[c].odd /\ rd[c].floor \in Nat /\ rd[c].seen \in Nat
    BY Zenon, <1>1, <1>2, ReaderFacts DEF ReaderInv, ReaderHolds
  <2>4. r.v >= r.floor /\ r.v >= r.seen /\ r.v >= inv[L2]["query"] /\ r.v <= dbv
    BY <1>1, <1>2, <1>4, <1>5, <1>6, <2>1, <2>3
  <2>5. ReaderHolds(r)
    BY Zenon, <1>4, <2>3, <2>4 DEF ReaderHolds
  <2> QED
    BY Zenon, <2>2, <2>5 DEF ReaderInv
<1>8. \A d \in Readers : rd[d].pc \in {"do", "wait"} /\ rd[d].fk = r.fk => r.v >= rd[d].floor
  BY Zenon, <1>2, <1>4, <1>5, ReaderFacts
<1>9. InFlight(rd[c]) => InFlight(r) /\ r.n = rd[c].n /\ r.fk = rd[c].fk
  BY Zenon, <1>4 DEF InFlight
<1> QED
  BY Zenon, <1>1, <1>3, <1>4, <1>7, <1>8, <1>9, ReaderMoves, TiersStill

LEMMA NoReadFits ==
    ASSUME CacheInv
    PROVE  NoRead \in ReadRecord /\ ReaderInv(NoRead) /\ NoRead.pc = "idle"
<1>1. dbv \in Nat /\ gen2 \in Nat
  BY Zenon DEF CacheInv, CellsType
<1>2. /\ NoRead \in ReadRecord /\ NoRead.pc = "idle" /\ NoRead.fk = 0 /\ NoRead.v = 0
  BY Zenon DEF NoRead, ReadRecord, ReadPcs, Keyspaces
<1> QED
  BY <1>1, <1>2 DEF ReaderInv, ReaderSeen, ReaderHolds

LEMMA LoadFailsKeeps == ASSUME CacheInv, NEW c \in Readers, LoadFails(c) PROVE CacheInv'
<1>1. rd[c].pc = "load" /\ UNCHANGED tierVars /\ UNCHANGED <<dbv, gen2, gen1, inv>>
  BY Zenon DEF LoadFails, tierVars
<1>2. NoRead \in ReadRecord /\ ReaderInv(NoRead) /\ NoRead.pc = "idle"
  BY Zenon, NoReadFits
<1>3. CASE rd[c].k = "query"
  <2>1. FlightEnds(c, NoRead) /\ InFlight(rd[c])
    BY Zenon, <1>1, <1>3 DEF LoadFails, InFlight
  <2> QED
    BY Zenon, <1>1, <1>2, <2>1, FlightOver, TiersStill
<1>4. CASE rd[c].k # "query"
  <2>1. rd' = [rd EXCEPT ![c] = NoRead] /\ ~InFlight(rd[c])
    BY Zenon, <1>4 DEF LoadFails, InFlight
  <2> QED
    BY Zenon, <1>1, <1>2, <2>1, ReaderMoves, TiersStill
<1> QED
  BY Zenon, <1>3, <1>4

LEMMA RedisFailsKeeps == ASSUME CacheInv, NEW c \in Readers, RedisFails(c) PROVE CacheInv'
<1>1. rd[c].pc \in {"l2", "resolve", "recheck", "set"} /\ UNCHANGED tierVars /\ UNCHANGED <<dbv, gen2, gen1, inv>>
  BY Zenon DEF RedisFails, tierVars
<1>2. NoRead \in ReadRecord /\ ReaderInv(NoRead) /\ NoRead.pc = "idle"
  BY NoReadFits
<1>3. rd[c] \in ReadRecord /\ ReaderInv(rd[c]) /\ rd[c].k \in Keyspaces
  BY Zenon, ReaderFacts
<1>4. CASE rd[c].k = "row"
  <2> DEFINE pc == IF rd[c].pc = "set" THEN "done" ELSE "load"
             r == [rd[c] EXCEPT !.pc = pc]
  <2>1. rd' = [rd EXCEPT ![c] = r]
    BY Zenon, <1>3, <1>4 DEF RedisFails, CacheInv, ReadersInv, ReadRecord
  <2>2. pc \in ReadPcs /\ pc \in {"done", "load"} /\ (pc = "done" <=> rd[c].pc = "set")
    BY Zenon DEF ReadPcs
  <2> HIDE DEF pc
  <2>3. /\ r \in ReadRecord /\ r.pc = pc /\ r.n = rd[c].n /\ r.k = rd[c].k /\ r.lg = rd[c].lg
        /\ r.fk = rd[c].fk /\ r.v = rd[c].v /\ r.odd = rd[c].odd
        /\ r.floor = rd[c].floor /\ r.seen = rd[c].seen
    BY Zenon, <2>2, Advanced
  <2> HIDE DEF r
  <2>4. ReaderInv(r)
    <3>1. ReaderSeen(r)
      BY Zenon, <1>1, <1>3, <1>4, <2>2, <2>3 DEF ReaderInv, ReaderSeen
    <3>2. ReaderHolds(r)
      BY Zenon, <1>1, <1>3, <1>4, <2>2, <2>3 DEF ReaderInv, ReaderHolds
    <3> QED
      BY <3>1, <3>2 DEF ReaderInv
  <2>5. ~InFlight(rd[c]) /\ r.pc \notin {"set", "do", "wait"}
    BY Zenon, <1>4, <2>2, <2>3 DEF InFlight
  <2> QED
    BY Zenon, <1>1, <2>1, <2>3, <2>4, <2>5, ReaderMoves, TiersStill
<1>5. CASE rd[c].k = "query" /\ rd[c].pc \in {"recheck", "set"}
  <2>1. FlightEnds(c, NoRead) /\ InFlight(rd[c])
    BY Zenon, <1>5 DEF RedisFails, InFlight
  <2> QED
    BY Zenon, <1>1, <1>2, <2>1, FlightOver, TiersStill
<1>6. CASE rd[c].k = "query" /\ rd[c].pc \notin {"recheck", "set"}
  <2>1. rd' = [rd EXCEPT ![c] = NoRead] /\ ~InFlight(rd[c])
    BY Zenon, <1>1, <1>6 DEF RedisFails, InFlight
  <2> QED
    BY Zenon, <1>1, <1>2, <2>1, ReaderMoves, TiersStill
<1> QED
  BY Zenon, <1>3, <1>4, <1>5, <1>6 DEF Keyspaces

(* Redis takes what a reader loaded, which an invalidation may have overtaken. *)
LEMMA SetL2Keeps == ASSUME CacheInv, NEW c \in Readers, SetL2(c) PROVE CacheInv'
<1> DEFINE r == [rd[c] EXCEPT !.pc = "fill"]
           k == rd[c].k
<1>1. /\ rd[c].pc = "set" /\ UNCHANGED <<dbv, gen2, gen1, inv>> /\ UNCHANGED <<l1, tailed, hook>>
      /\ l2' = [l2 EXCEPT ![r.k] = r.v]
      /\ raced' = IF r.v < inv[L2][r.k] THEN raced \cup {<<L2, r.k>>} ELSE raced \ {<<L2, r.k>>}
      /\ IF r.k = "query" THEN FlightEnds(c, r) ELSE rd' = [rd EXCEPT ![c] = r]
  BY Zenon DEF SetL2
<1>2. rd[c] \in ReadRecord /\ ReaderInv(rd[c]) /\ k \in Keyspaces /\ rd[c].v \in Nat /\ rd[c].v <= dbv
  BY Zenon, ReaderFacts DEF ReaderInv, ReaderSeen, ReaderHolds
<1>3. /\ r \in ReadRecord /\ r.pc = "fill" /\ r.n = rd[c].n /\ r.k = rd[c].k /\ r.lg = rd[c].lg
      /\ r.fk = rd[c].fk /\ r.v = rd[c].v /\ r.odd = rd[c].odd
      /\ r.floor = rd[c].floor /\ r.seen = rd[c].seen
  BY Zenon, Advanced DEF ReadPcs
<1> HIDE DEF r
<1>4. ReaderInv(r)
  <2>1. ReaderSeen(r)
    BY Zenon, <1>1, <1>2, <1>3 DEF ReaderInv, ReaderSeen
  <2>2. ReaderHolds(r)
    BY Zenon, <1>1, <1>2, <1>3 DEF ReaderInv, ReaderHolds
  <2> QED
    BY <2>1, <2>2 DEF ReaderInv
<1>5. ReadersInv' /\ FlightInv' /\ WaitInv'
  <2>1. CASE k = "query"
    <3>1. FlightEnds(c, r) /\ InFlight(rd[c])
      BY Zenon, <1>1, <1>3, <2>1 DEF InFlight
    <3>2. ASSUME NEW d \in Readers, Follows(d, c) PROVE r.v >= rd[d].floor
      BY Zenon, <1>1, <1>3, <2>1, <3>2 DEF CacheInv, FlightInv, Follows
    <3> QED
      BY Zenon, <1>1, <1>3, <1>4, <3>1, <3>2, FlightOver
  <2>2. CASE k # "query"
    <3>1. rd' = [rd EXCEPT ![c] = r] /\ ~InFlight(rd[c])
      BY Zenon, <1>1, <1>3, <2>2 DEF InFlight
    <3> QED
      BY Zenon, <1>1, <1>3, <1>4, <3>1, ReaderMoves
  <2> QED
    BY Zenon, <2>1, <2>2
<1>6. CellsType /\ HooksType /\ L1Inv /\ L2Inv
  BY Zenon DEF CacheInv
<1>7. CellsType' /\ HooksType'
  <2>1. l2' \in Cells /\ \A j \in Keyspaces : l2'[j] <= dbv
    BY Zenon, <1>1, <1>2, <1>3, <1>6 DEF CellsType, Cells
  <2> QED
    BY Zenon, <1>1, <1>6, <2>1 DEF CellsType, HooksType
<1>8. L1Inv'
  <2>1. \A n \in Nodes, j \in Keyspaces : <<n, j>> \in raced => <<n, j>> \in raced'
    BY Zenon, <1>1, CacheAssumption DEF L2
  <2> QED
    BY Zenon, <1>1, <1>6, <2>1 DEF L1Inv
<1>9. L2Inv'
  <2> SUFFICES ASSUME NEW j \in Keyspaces, l2'[j] # 0, <<L2, j>> \notin raced' PROVE l2'[j] >= inv[L2][j]
    BY Zenon, <1>1 DEF L2Inv
  <2>1. CASE j = k
    <3>1. l2'[j] = rd[c].v
      BY Zenon, <1>1, <1>3, <1>6, <2>1 DEF CellsType, Cells
    <3>2. inv[L2][j] \in Nat
      BY Zenon, ReaderFacts, Domains
    <3>3. ~(rd[c].v < inv[L2][j])
      BY Zenon, <1>1, <1>3, <2>1
    <3> QED
      BY <1>2, <3>1, <3>2, <3>3
  <2>2. CASE j # k
    <3>1. l2'[j] = l2[j] /\ <<L2, j>> \notin raced
      BY Zenon, <1>1, <1>3, <1>6, <2>2 DEF CellsType, Cells
    <3> QED
      BY Zenon, <1>6, <3>1 DEF L2Inv
  <2> QED
    BY Zenon, <2>1, <2>2
<1> QED
  BY Zenon, <1>5, <1>7, <1>8, <1>9 DEF CacheInv

(* A node's tier takes what its reader got: the query's entry only if the    *)
(* node's generation, and so its invalidation, is the one the reader saw.    *)
LEMMA FillKeeps == ASSUME CacheInv, NEW c \in Readers, Fill(c) PROVE CacheInv'
<1> DEFINE r == [rd[c] EXCEPT !.pc = "done"]
           n == rd[c].n
           k == rd[c].k
           late == rd[c].odd \/ (k = "row" /\ rd[c].v < inv[n]["row"])
<1>1. /\ rd[c].pc = "fill" /\ UNCHANGED <<dbv, gen2, gen1, inv>> /\ UNCHANGED <<l2, tailed, hook>>
      /\ IF PutKey(rd[c])
         THEN /\ l1' = [l1 EXCEPT ![n][k] = rd[c].v]
              /\ raced' = IF late THEN raced \cup {<<n, k>>} ELSE raced \ {<<n, k>>}
         ELSE UNCHANGED <<l1, raced>>
  BY Zenon DEF Fill
<1>2. /\ rd[c] \in ReadRecord /\ ReaderInv(rd[c]) /\ k \in Keyspaces /\ n \in Nodes
      /\ rd[c].v \in Nat /\ rd[c].v <= dbv
  BY Zenon, <1>1, ReaderFacts DEF ReaderInv, ReaderSeen, ReaderHolds
<1>3. rd' = [rd EXCEPT ![c] = r]
  BY Zenon, <1>2 DEF Fill, CacheInv, ReadersInv, ReadRecord
<1>4. /\ r \in ReadRecord /\ r.pc = "done" /\ r.n = n /\ r.k = k /\ r.lg = rd[c].lg
      /\ r.fk = rd[c].fk /\ r.v = rd[c].v /\ r.odd = rd[c].odd
      /\ r.floor = rd[c].floor /\ r.seen = rd[c].seen
  BY Zenon, Advanced DEF ReadPcs
<1> HIDE DEF r
<1>5. ReadersInv' /\ FlightInv' /\ WaitInv'
  <2>1. ReaderInv(r)
    <3>1. ReaderSeen(r)
      BY Zenon, <1>1, <1>2, <1>4 DEF ReaderInv, ReaderSeen
    <3>2. ReaderHolds(r)
      BY Zenon, <1>1, <1>2, <1>4 DEF ReaderInv, ReaderHolds
    <3> QED
      BY <3>1, <3>2 DEF ReaderInv
  <2>2. ~InFlight(rd[c])
    BY Zenon, <1>1 DEF InFlight
  <2> QED
    BY Zenon, <1>1, <1>3, <1>4, <2>1, <2>2, ReaderMoves
<1>6. CellsType /\ HooksType /\ L1Inv /\ L2Inv
  BY DEF CacheInv
<1>7. CASE ~PutKey(rd[c])
  BY Zenon, <1>1, <1>5, <1>6, <1>7 DEF CacheInv, CellsType, HooksType, L1Inv, L2Inv
<1>8. CASE PutKey(rd[c])
  <2>1. /\ l1' = [l1 EXCEPT ![n][k] = rd[c].v]
        /\ raced' = IF late THEN raced \cup {<<n, k>>} ELSE raced \ {<<n, k>>}
    BY Zenon, <1>1, <1>8
  <2>2. ~late => rd[c].v >= inv[n][k]
    <3>1. inv[n][k] \in Nat /\ inv[n]["row"] \in Nat /\ rd[c].seen \in Nat
      BY Zenon, <1>2, ReaderFacts, Domains
    <3>2. CASE k = "row"
      BY <1>2, <3>1, <3>2
    <3>3. CASE k = "query"
      <4>1. rd[c].seen = inv[n]["query"]
        BY Zenon, <1>1, <1>2, <1>8, <3>3 DEF PutKey, ReaderInv, ReaderSeen, ReaderHolds
      <4>2. ~late => rd[c].v >= rd[c].seen
        BY Zenon, <1>1, <1>2 DEF ReaderInv, ReaderSeen, ReaderHolds
      <4> QED
        BY Zenon, <3>3, <4>1, <4>2
    <3> QED
      BY Zenon, <1>2, <3>2, <3>3 DEF Keyspaces
  <2> HIDE DEF late
  <2>3. /\ l1' \in [Nodes -> Cells]
        /\ \A m \in Nodes, j \in Keyspaces : l1'[m][j] = IF m = n /\ j = k THEN rd[c].v ELSE l1[m][j]
    BY Zenon, <1>2, <1>6, <2>1 DEF CellsType, Cells
  <2>4. CellsType' /\ HooksType'
    BY ZenonT(60), <1>1, <1>2, <1>6, <2>3 DEF CellsType, HooksType
  <2>5. L2Inv'
    <3>1. \A j \in Keyspaces : <<L2, j>> \in raced => <<L2, j>> \in raced'
      BY Zenon, <1>2, <2>1, CacheAssumption DEF L2
    <3> QED
      BY Zenon, <1>1, <1>6, <3>1 DEF L2Inv
  <2>6. L1Inv'
    <3> SUFFICES ASSUME NEW m \in Nodes, NEW j \in Keyspaces, l1'[m][j] # 0, <<m, j>> \notin raced'
                 PROVE  l1'[m][j] >= inv[m][j]
      BY Zenon, <1>1 DEF L1Inv
    <3>1. CASE m = n /\ j = k
      BY <2>1, <2>2, <2>3, <3>1
    <3>2. CASE ~(m = n /\ j = k)
      <4>1. <<m, j>> \notin raced /\ l1'[m][j] = l1[m][j]
        BY <2>1, <2>3, <3>2
      <4> QED
        BY Zenon, <1>6, <4>1 DEF L1Inv
    <3> QED
      BY Zenon, <3>1, <3>2
  <2> QED
    BY Zenon, <1>5, <2>4, <2>5, <2>6 DEF CacheInv
<1> QED
  BY Zenon, <1>7, <1>8

LEMMA CacheStarts == CacheInit => CacheInv
<1> SUFFICES ASSUME CacheInit PROVE CacheInv
  BY Zenon
<1>1. CellsType /\ L1Inv /\ L2Inv
  BY DEF CacheInit, CellsType, Cells, Unset, L1Inv, L2Inv
<1>2. HooksType
  BY Zenon DEF CacheInit, HooksType, HookRecord, NoHook
<1>3. /\ NoRead \in ReadRecord /\ NoRead.pc = "idle" /\ NoRead.fk = 0 /\ NoRead.v = 0
  BY Zenon DEF NoRead, ReadRecord, ReadPcs, Keyspaces
<1>4. rd \in [Readers -> ReadRecord] /\ \A c \in Readers : rd[c] = NoRead
  BY Zenon, <1>3 DEF CacheInit
<1>5. ReaderInv(NoRead)
  <2>1. ReaderSeen(NoRead)
    BY <1>1, <1>3 DEF ReaderInv, ReaderSeen, CellsType
  <2>2. ReaderHolds(NoRead)
    BY <1>1, <1>3 DEF ReaderInv, ReaderHolds, CellsType
  <2> QED
    BY Zenon, <2>1, <2>2 DEF ReaderInv
<1>6. ReadersInv /\ FlightInv /\ WaitInv
  BY Zenon, <1>3, <1>4, <1>5 DEF ReadersInv, FlightInv, WaitInv
<1> QED
  BY Zenon, <1>1, <1>2, <1>6 DEF CacheInv

LEMMA CacheInvSuffices == CacheInv => ReadsSeeWrites
<1> SUFFICES ASSUME CacheInv PROVE CacheTypeOK /\ FreshUnlessRaced
  BY Zenon DEF ReadsSeeWrites
<1>1. CellsType /\ WaitInv
  BY Zenon DEF CacheInv
<1>2. \A c \in Readers : rd[c].pc \in ReadPcs
  BY Zenon, ReaderFacts
<1>3. CacheTypeOK
  BY <1>1, <1>2 DEF CellsType, Cells, WaitInv, CacheTypeOK, ReadPcs
<1>4. FreshUnlessRaced
  BY Zenon, ReaderFacts DEF FreshUnlessRaced, ReaderInv, ReaderSeen, ReaderHolds
<1> QED
  BY Zenon, <1>3, <1>4

(* A read that begins once a write's invalidation is done, in Redis and on   *)
(* its node, returns that write or a later one, unless it came by an entry   *)
(* that was stored late (ops.go GetOrLoad, do; l1.go GetOrLoad, EvictLocal;  *)
(* cache_invalidation.go AfterCommit).                                       *)
THEOREM ReadsAlwaysSeeWrites == CacheSpec => []ReadsSeeWrites
<1>1. CacheInit => CacheInv
  BY Zenon, CacheStarts
<1>2. CacheInv /\ [CacheNext]_cacheVars => CacheInv'
  <2> SUFFICES ASSUME CacheInv, [CacheNext]_cacheVars PROVE CacheInv'
    BY Zenon
  <2>1. CASE \E i \in Writers : \/ \E n \in Nodes : Commit(i, n)
                                \/ HookEntityL2(i) \/ HookEntityL1(i) \/ HookRowL2(i) \/ HookRowL1(i) \/ HookFails(i)
    BY Zenon, <2>1, WritesKeep
  <2>2. CASE \E n \in Nodes : EvictLocal(n)
    BY Zenon, <2>2, WritesKeep
  <2>3. CASE \E t \in Tiers, k \in Keyspaces : Expires(t, k)
    BY Zenon, <2>3, WritesKeep
  <2>4. ASSUME NEW c \in Readers,
               \/ \E n \in Nodes, k \in Keyspaces : Begin(c, n, k)
               \/ LookL1(c) \/ LookL2(c) \/ Resolve(c) \/ Do(c) \/ Recheck(c) \/ Load(c)
               \/ SetL2(c) \/ RedisFails(c) \/ LoadFails(c) \/ Fill(c)
        PROVE  CacheInv'
    BY Zenon, <2>4, BeginKeeps, LookL1Keeps, LookL2Keeps, ResolveKeeps, DoKeeps, RecheckKeeps, LoadKeeps,
       SetL2Keeps, RedisFailsKeeps, LoadFailsKeeps, FillKeeps
  <2>5. CASE UNCHANGED cacheVars
    BY ZenonT(60), <2>5 DEF cacheVars, CacheInv, CellsType, HooksType, L1Inv, L2Inv, ReadersInv, ReaderInv, ReaderSeen, ReaderHolds, FlightInv,
                WaitInv, Leads
  <2> QED
    BY Zenon, <2>1, <2>2, <2>3, <2>4, <2>5 DEF CacheNext
<1>3. CacheInv => ReadsSeeWrites
  BY Zenon, CacheInvSuffices
<1> QED
  BY <1>1, <1>2, <1>3, PTL DEF CacheSpec
=============================================================================
