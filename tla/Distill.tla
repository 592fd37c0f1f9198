------------------------------- MODULE Distill -------------------------------
(* The Merkle tree of summaries of a tenant (core/agent/distill.go and       *)
(* rollup.go).  A replica distills the events its sweeper has coalesced, one *)
(* leaf (L0) at a time, and then rolls the tree up: a node per scope, a node *)
(* per cluster of similar leaves, the tenant root.  A node is read and       *)
(* written through the store one call at a time, rows are written whole, and *)
(* the gate that keeps two sweeps of a tenant apart is of one replica.       *)
(*                                                                           *)
(* A text is a number, 0 a blank one; its embedding is dset.sem[text], bits  *)
(* of which the first dset.bits name the cluster.  A content hash is what it *)
(* is computed from: the text of a leaf, the bag of the children's hashes of *)
(* an inner node.  Tokens, the recipe version and the summaries themselves   *)
(* are left out; the summary store never loses a text.                       *)
EXTENDS Integers, Sequences, FiniteSets, Bags, SequencesExt

CONSTANTS
    Replicas,          \* processes that distill
    DistillSetups      \* see DistillInit

VARIABLES
    dset,      \* the setup
    src,       \* source -> the row: live, text, scope, version
    marks,     \* replica -> source -> the latest event it has coalesced
    tree,      \* digest node id -> row, of the nodes that exist
    vectors,   \* digest node id -> stored embedding
    spent,     \* ids once deleted: the outbox refuses their version 1
    work,      \* replica -> its sweep or backfill
    used,      \* what has happened of what the setup bounds
    last,      \* how the last pass ended: "none", "clean", "failed"
    base,      \* what the last clean pass rolled up
    seen,      \* source -> the latest version distilled, and whether its scope was passed over
    calm,      \* no error, crash, block, overlap or overtaking so far
    healed,    \* the last pass to end was a clean backfill, alone
    rework     \* a node was summarized again in an unchanged tree

-----------------------------------------------------------------------------
(* Node ids.  An intermediate node is its parent's id with a longer prefix.  *)
NodeId(kind, key, prefix, sub) == [kind |-> kind, key |-> key, prefix |-> prefix, sub |-> sub]
L0ID(s) == NodeId("entity", s, <<>>, <<>>)
ScopeID(x) == NodeId("scope", x, <<>>, <<>>)
ClusterID(p) == NodeId("cluster", "", p, <<>>)
TenantRootID == NodeId("tenant", "", <<>>, <<>>)
intermediateID(id, p) == [id EXCEPT !.sub = p]
isIntermediateID(id) == id.sub # <<>>
Level(id) ==
    IF id.kind = "entity" THEN 0
    ELSE IF id.kind = "tenant" /\ ~isIntermediateID(id) THEN 2 ELSE 1
listNodes(level) == {id \in DOMAIN tree : Level(id) = level}

L0ContentHash(text) == [text |-> text, kids |-> EmptyBag]

(* The hashes of the children, in any order, and nothing of their ids.       *)
RollupContentHash(rows, ids) ==
    [text |-> 0, kids |-> BagOfAll(LAMBDA id : rows[id].hash, SetToBag(ids))]

ClusterPrefix(sem, n) == SubSeq(sem, 1, n)
Hamming(p, q) == Cardinality({i \in DOMAIN p : p[i] # q[i]})

(* The clusters of a set of leaves and their members: a bucket clears the    *)
(* noise floor by its own leaves, and takes in those of near buckets.        *)
Clusters(rows, l0s) ==
    LET bucket(id) == ClusterPrefix(rows[id].sem, dset.bits)
        above == {p \in {bucket(id) : id \in l0s} :
                    Cardinality({id \in l0s : bucket(id) = p}) >= dset.floor}
    IN  [p \in above |-> {id \in l0s : Hamming(bucket(id), p) <= dset.radius}]

(* The leaves that name a scope as a parent.                                 *)
ScopesOf(rows, l0s) == {p \in UNION {rows[id].parents : id \in l0s} : p.kind = "scope"}
Linked(rows, l0s, p) == {id \in l0s : p \in rows[id].parents}

Rows(ids) == [id \in ids |-> tree[id]]
Merged(f, g) == [id \in DOMAIN f \cup DOMAIN g |-> IF id \in DOMAIN g THEN g[id] ELSE f[id]]
Without(f, ids) == [id \in DOMAIN f \ ids |-> f[id]]

-----------------------------------------------------------------------------
(* Work in progress is a list of store calls still to make.                  *)
Call(op, id) == [op |-> op, id |-> id]
PutCall(id, row) == [op |-> "put", id |-> id, row |-> row]
VectorCall(id, sem) == [op |-> "vector", id |-> id, sem |-> sem]
LinkCall(op, id, other) == [op |-> op, id |-> id, other |-> other]
GroupCall(op, id, members, n, parents) ==
    [op |-> op, id |-> id, members |-> members, n |-> n, parents |-> parents]
Each(F(_), S) == LET s == SetToSeq(S) IN [i \in DOMAIN s |-> F(s[i])]

Idle == [phase |-> "idle", envs |-> <<>>, calls |-> <<>>, idx |-> <<>>, built |-> {},
         offset |-> 0, full |-> FALSE, still |-> TRUE, clean |-> TRUE, alone |-> TRUE]
AllIdle == \A w \in Replicas : work[w].phase = "idle"
Head1(w) == Head(work[w].calls)
Doing(w, op) == work[w].calls # <<>> /\ Head1(w).op = op
Then(w, calls) == [work EXCEPT ![w].calls = calls \o Tail(@)]

Bounded(field) == used[field] < dset[field]
Used(field) == used' = [used EXCEPT ![field] = @ + 1]

(* persistSummaryVec: the row, then the vector, then the parents' lists.     *)
persistSummaryVec(id, row) ==
    <<PutCall(id, row), VectorCall(id, row.sem)>>
        \o Each(LAMBDA p : LinkCall("link", p, id), row.parents)

-----------------------------------------------------------------------------
DistillInit ==
    /\ dset \in DistillSetups
    /\ src = [s \in Range(dset.rows) |-> [live |-> FALSE, text |-> 0, scope |-> "", ver |-> 0]]
    /\ marks = [w \in Replicas |-> <<>>]
    /\ tree = <<>> /\ vectors = <<>> /\ spent = {}
    /\ work = [w \in Replicas |-> Idle]
    /\ used = [writes |-> 0, errors |-> 0, crashes |-> 0, blocks |-> 0, backfills |-> 0]
    /\ last = "none" /\ base = <<>>
    /\ seen = [s \in Range(dset.rows) |-> [ver |-> 0, moved |-> FALSE]]
    /\ calm = TRUE /\ healed = FALSE /\ rework = FALSE

(* A source row is created, updated or deleted, and a replica's sweeper      *)
(* coalesces the event: the latest to arrive replaces the one it holds.  A   *)
(* deleted row does not come back (the outbox keeps its version 1).          *)
MarkAndSchedule(s, row) ==
    /\ Bounded("writes") /\ Used("writes")
    /\ src' = [src EXCEPT ![s] = row]
    /\ \E w \in dset.replicas :
          marks' = [marks EXCEPT ![w] = Merged(@, [r \in {s} |-> row])]
    /\ work' = [w \in Replicas |-> [work[w] EXCEPT !.still = work[w].phase = "idle"]]
    /\ healed' = FALSE
    /\ UNCHANGED <<dset, tree, vectors, spent, last, base, seen, calm, rework>>
SaveSource(s) ==
    /\ src[s].ver = 0 \/ src[s].live
    /\ \E text \in dset.texts, scope \in dset.scopes :
          /\ <<text, scope>> # <<src[s].text, src[s].scope>>
          /\ MarkAndSchedule(s, [live |-> TRUE, text |-> text, scope |-> scope,
                                 ver |-> src[s].ver + 1])
DeleteSource(s) ==
    /\ src[s].live
    /\ MarkAndSchedule(s, [src[s] EXCEPT !.live = FALSE, !.ver = @ + 1])

(* A sweep or a backfill that starts beside another is not alone, nor is the *)
(* other any more.                                                           *)
Begin(w, job) ==
    /\ work' = [v \in Replicas |->
                  IF v = w THEN [job EXCEPT !.alone = AllIdle]
                  ELSE [work[v] EXCEPT !.alone = @ /\ work[v].phase = "idle"]]
    /\ calm' = (calm /\ AllIdle)
    /\ healed' = FALSE

(* The debounce timer fires: the sweep takes the coalesced events.           *)
sweep(w) ==
    /\ work[w].phase = "idle" /\ DOMAIN marks[w] # {}
    /\ marks' = [marks EXCEPT ![w] = <<>>]
    /\ Begin(w, [Idle EXCEPT !.phase = "events", !.envs = marks[w]])
    /\ UNCHANGED <<dset, src, tree, vectors, spent, used, last, base, seen, rework>>

(* The calls that bring the leaf of a row up to date: none for a blank text, *)
(* an unchanged one or one the guard blocks.  A node of the same text lends  *)
(* its summary, which no guard sees again, and on the event path (fetch) the *)
(* vector stored for it, whatever text that vector is of.                    *)
ScopeParents(scope) == IF scope = "" THEN {} ELSE {ScopeID(scope)}
Leaf(s, row, sem) ==
    persistSummaryVec(L0ID(s), [hash |-> L0ContentHash(row.text), sem |-> sem, children |-> {},
                                parents |-> ScopeParents(row.scope)])
Unchanged(s, text) == L0ID(s) \in DOMAIN tree /\ tree[L0ID(s)].hash = L0ContentHash(text)
prepareL0(s, row, fetch) ==
    LET donors == {id \in DOMAIN tree : tree[id].hash = L0ContentHash(row.text)}
        lent(d) == IF fetch /\ d \in DOMAIN vectors THEN vectors[d] ELSE dset.sem[row.text]
    IN  IF row.text = 0 \/ Unchanged(s, row.text) THEN {<<>>}
        ELSE IF donors # {} THEN {Leaf(s, row, lent(d)) : d \in donors}
        ELSE IF row.text \in dset.blocked THEN {<<>>}
        ELSE {Leaf(s, row, dset.sem[row.text])}

(* The leaf is taken off its parents' lists, then deleted.                   *)
deleteNode(id) == <<Call("delete", id), Call("unvector", id)>>
DeleteL0(s) ==
    IF L0ID(s) \notin DOMAIN tree THEN <<>>
    ELSE Each(LAMBDA p : LinkCall("unlink", p, L0ID(s)), tree[L0ID(s)].parents)
           \o deleteNode(L0ID(s))

(* The next event of the sweep.  No version is compared: an event that a     *)
(* later one has overtaken on another replica is distilled all the same.     *)
DistillEvent(w) ==
    /\ work[w].phase = "events" /\ work[w].calls = <<>>
    /\ \E s \in DOMAIN work[w].envs :
          LET env == work[w].envs[s] IN
          /\ \E calls \in IF env.live THEN prepareL0(s, env, TRUE) ELSE {DeleteL0(s)} :
                work' = [work EXCEPT ![w].calls = calls, ![w].envs = Without(@, {s})]
          /\ seen' = [seen EXCEPT ![s] =
                        [ver |-> IF env.ver > @.ver THEN env.ver ELSE @.ver,
                         moved |-> Unchanged(s, env.text)
                                     /\ ScopesOf(tree, {L0ID(s)}) # ScopeParents(env.scope)]]
          /\ calm' = (calm /\ env.ver >= seen[s].ver)
    /\ UNCHANGED <<dset, src, marks, tree, vectors, spent, used, last, base, healed, rework>>

(* Distill, the backfill: a page of the source rows at a time, all of a page *)
(* prepared before any of it is written, until a page is short.              *)
Distill(w) ==
    /\ work[w].phase = "idle" /\ Bounded("backfills") /\ Used("backfills")
    /\ Begin(w, [Idle EXCEPT !.phase = "pages", !.full = TRUE])
    /\ UNCHANGED <<dset, src, marks, tree, vectors, spent, last, base, seen, rework>>
Page(w) ==
    LET live == SelectSeq(dset.rows, LAMBDA s : src[s].live)
        from == work[w].offset
        page == SubSeq(live, from + 1, IF from + dset.batch < Len(live) THEN from + dset.batch
                                       ELSE Len(live))
    IN  /\ work[w].phase = "pages" /\ work[w].calls = <<>>
        /\ \E prepared \in [DOMAIN page -> UNION {prepareL0(s, src[s], FALSE) : s \in Range(page)}] :
              /\ \A i \in DOMAIN page : prepared[i] \in prepareL0(page[i], src[page[i]], FALSE)
              /\ work' = [work EXCEPT ![w].calls = FlattenSeq(prepared),
                                      ![w].offset = @ + dset.batch,
                                      ![w].phase = IF Len(page) < dset.batch THEN "events" ELSE @]
        /\ UNCHANGED <<dset, src, marks, tree, vectors, spent, used, last, base, seen, calm,
                       healed, rework>>

-----------------------------------------------------------------------------
(* The store calls.                                                          *)

(* What becomes of a sweep one of whose calls fails: the event is given up   *)
(* and the next one taken; a rollup or a backfill is given up whole.         *)
Ended(w, outcome) ==
    /\ work' = [work EXCEPT ![w] = Idle]
    /\ last' = outcome
GiveUp(w) ==
    IF work[w].phase = "events" /\ ~work[w].full
      THEN /\ work' = [work EXCEPT ![w].calls = <<>>]
           /\ UNCHANGED last
      ELSE Ended(w, "failed")

(* upsertNode: the whole row, as it was read or built.  An id that has been  *)
(* deleted is refused: its version 1 is already in the outbox.               *)
Refused(id) == id \notin DOMAIN tree /\ id \in spent
upsertNode(w) ==
    /\ Doing(w, "put")
    /\ IF Refused(Head1(w).id)
         THEN GiveUp(w) /\ UNCHANGED tree
         ELSE /\ tree' = Merged(tree, [id \in {Head1(w).id} |-> Head1(w).row])
              /\ work' = Then(w, <<>>) /\ UNCHANGED last
    /\ UNCHANGED <<dset, src, marks, vectors, spent, used, base, seen, calm, healed, rework>>

treeOnly == <<dset, src, marks, used, last, base, seen, calm, healed, rework>>
UpsertVector(w) ==
    /\ Doing(w, "vector")
    /\ vectors' = Merged(vectors, [id \in {Head1(w).id} |-> Head1(w).sem])
    /\ work' = Then(w, <<>>)
    /\ UNCHANGED <<treeOnly, tree, spent>>
DeleteRow(w) ==
    /\ Doing(w, "delete")
    /\ tree' = Without(tree, {Head1(w).id})
    /\ spent' = spent \cup ({Head1(w).id} \cap DOMAIN tree)
    /\ work' = Then(w, <<>>)
    /\ UNCHANGED <<treeOnly, vectors>>
DeleteVector(w) ==
    /\ Doing(w, "unvector")
    /\ vectors' = Without(vectors, {Head1(w).id})
    /\ work' = Then(w, <<>>)
    /\ UNCHANGED <<treeOnly, tree, spent>>

(* Read a row, and write it back if the list in it changes.                  *)
Rewrite(w, op, change(_), more) ==
    /\ Doing(w, op)
    /\ LET id == Head1(w).id IN
       work' = Then(w, IF id \in DOMAIN tree /\ change(tree[id]) # tree[id]
                         THEN <<PutCall(id, change(tree[id]))>> \o more
                         ELSE <<>>)
    /\ UNCHANGED <<treeOnly, tree, vectors, spent>>
linkChild(w) ==
    Rewrite(w, "link", LAMBDA row : [row EXCEPT !.children = @ \cup {Head1(w).other}], <<>>)
UnlinkChild(w) ==
    Rewrite(w, "unlink", LAMBDA row : [row EXCEPT !.children = @ \ {Head1(w).other}], <<>>)
ensureParent(w) ==
    Rewrite(w, "ensure", LAMBDA row : [row EXCEPT !.parents = @ \cup {Head1(w).other}],
            <<LinkCall("link", Head1(w).other, Head1(w).id)>>)
removeParent(w) ==
    Rewrite(w, "remove", LAMBDA row : [row EXCEPT !.parents = @ \ {Head1(w).other}], <<>>)

-----------------------------------------------------------------------------
(* Rollup: list the leaves, cluster them, link the members of each cluster,  *)
(* roll up every scope and every cluster, clean up, roll up the root.  Scopes*)
(* and clusters are visited in any order (they are keys of a map).           *)
View(rows, l0s) ==
    [id \in l0s |-> <<rows[id].hash, rows[id].sem, {p \in rows[id].parents : p.kind = "scope"}>>]
Rollup(w) ==
    LET l0s == listNodes(0)
        idx == Rows(l0s)
        clusters == Clusters(idx, l0s)
        roll(id, members) == GroupCall("group", id, members, dset.bits, {TenantRootID})
        ensure(p) == Each(LAMBDA m : LinkCall("ensure", m, ClusterID(p)), clusters[p])
    IN  /\ work[w].phase = "events" /\ DOMAIN work[w].envs = {} /\ work[w].calls = <<>>
        /\ \E ss \in SetToSeqs(ScopesOf(idx, l0s)), cs \in SetToSeqs(DOMAIN clusters) :
              work' = [work EXCEPT ![w].phase = "rollup", ![w].idx = idx,
                         ![w].calls = FlattenSeq(Each(ensure, DOMAIN clusters))
                           \o [i \in DOMAIN ss |-> roll(ss[i], Linked(idx, l0s, ss[i]))]
                           \o [i \in DOMAIN cs |-> roll(ClusterID(cs[i]), clusters[cs[i]])]
                           \o <<Call("cleanup", TenantRootID)>>]
        /\ UNCHANGED <<treeOnly, tree, vectors, spent>>

groupFits(refs) == Cardinality(refs) <= dset.fanIn
Parts(rows, refs, n) == {ClusterPrefix(rows[id].sem, n) : id \in refs}

(* rollupGroup: a group that overflows is split by a longer prefix, and      *)
(* rolled up over the intermediate nodes, each of which is read back.        *)
rollupGroup(w) ==
    LET c == Head1(w)
        idx == work[w].idx
        refs == c.members \cap DOMAIN idx
        n == IF c.n + dset.subBits < dset.width THEN c.n + dset.subBits ELSE dset.width
        part(p) == {id \in refs : ClusterPrefix(idx[id].sem, n) = p}
        subs == {intermediateID(c.id, p) : p \in Parts(idx, refs, n)}
        whole == refs = {} \/ c.n >= dset.width \/ groupFits(refs) \/ Cardinality(subs) <= 1
        sub(id) == <<GroupCall("group", id, part(id.sub), n, {c.id}), Call("see", id)>>
    IN  /\ Doing(w, "group")
        /\ IF whole
             THEN work' = Then(w, <<[c EXCEPT !.op = "roll", !.members = refs]>>)
             ELSE work' = [Then(w, FlattenSeq(Each(sub, subs))
                                     \o <<[c EXCEPT !.op = "roll", !.members = subs]>>)
                             EXCEPT ![w].built = @ \cup subs]
        /\ UNCHANGED <<treeOnly, tree, vectors, spent>>
SeeNode(w) ==
    /\ Doing(w, "see")
    /\ LET id == Head1(w).id IN
       work' = [Then(w, <<>>) EXCEPT
                  ![w].idx = IF id \in DOMAIN tree THEN Merged(@, Rows({id})) ELSE @]
    /\ UNCHANGED <<treeOnly, tree, vectors, spent>>

(* rollupNode: nothing for a node whose children's hashes are as they were;  *)
(* else a new summary, which the guard may block, with any embedding.        *)
ShortCircuit(id, hash) == id \in DOMAIN tree /\ tree[id].hash = hash
rollupNode(w) ==
    LET c == Head1(w)
        idx == work[w].idx
        refs == c.members \cap DOMAIN idx
        hash == RollupContentHash(idx, refs)
        l0s == {id \in DOMAIN idx : Level(id) = 0}
        same == last = "clean" /\ work[w].alone /\ work[w].clean /\ base = View(idx, l0s)
    IN  /\ Doing(w, "roll")
        /\ \/ /\ ShortCircuit(c.id, hash)
              /\ work' = Then(w, <<>>)
              /\ UNCHANGED <<used, rework, calm>>
           \/ /\ ~ShortCircuit(c.id, hash)
              /\ \E sem \in dset.sems :
                    work' = Then(w, persistSummaryVec(c.id,
                              [hash |-> hash, sem |-> sem, children |-> refs, parents |-> c.parents]))
              /\ rework' = (rework \/ (same /\ ~(c.id.kind = "tenant" /\ isIntermediateID(c.id))))
              /\ UNCHANGED <<used, calm>>
           \/ /\ ~ShortCircuit(c.id, hash)
              /\ Bounded("blocks") /\ Used("blocks")
              /\ work' = [Then(w, <<>>) EXCEPT ![w].clean = FALSE]
              /\ calm' = FALSE
              /\ UNCHANGED rework
        /\ UNCHANGED <<dset, src, marks, tree, vectors, spent, last, base, seen, healed>>

(* cleanupL1, then the root: inner nodes that were not rolled up go, their   *)
(* members forget them, and the root is rolled up over those that stay.  The *)
(* root's own intermediate nodes are not built yet, so they go each time.    *)
(* Mutant: a cluster below the noise floor is kept while a leaf links to it. *)
OrphanUnlinked(w, id) ==
    LET idx == work[w].idx
        l0s == {n \in DOMAIN idx : Level(n) = 0}
    IN  CASE isIntermediateID(id) -> id \notin work[w].built
          [] id.kind = "scope" -> id \notin ScopesOf(idx, l0s)
          [] OTHER -> Linked(idx, l0s, id) = {}
Orphan(w, id) ==
    LET idx == work[w].idx
        l0s == {n \in DOMAIN idx : Level(n) = 0}
    IN  CASE isIntermediateID(id) -> id \notin work[w].built
          [] id.kind = "scope" -> id \notin ScopesOf(idx, l0s)
          [] OTHER -> id.prefix \notin DOMAIN Clusters(idx, l0s)
cleanupL1(w) ==
    LET idx == work[w].idx
        l0s == {id \in DOMAIN idx : Level(id) = 0}
        gone == {id \in listNodes(1) : Orphan(w, id)}
        stay == listNodes(1) \ gone
        collapse(id) ==
            (IF id.kind = "cluster" /\ ~isIntermediateID(id)
               THEN Each(LAMBDA m : LinkCall("remove", m, id), Linked(idx, l0s, id)) ELSE <<>>)
              \o deleteNode(id)
    IN  /\ Doing(w, "cleanup")
        /\ work' = [Then(w, FlattenSeq(Each(collapse, gone))
                              \o IF l0s = {} THEN deleteNode(TenantRootID)
                                 ELSE <<GroupCall("group", TenantRootID, stay, dset.bits, {})>>)
                      EXCEPT ![w].idx = Merged(@, Rows(stay))]
        /\ UNCHANGED <<treeOnly, tree, vectors, spent>>

(* The pass is over.                                                         *)
RollupDone(w) ==
    /\ work[w].phase = "rollup" /\ work[w].calls = <<>>
    /\ LET good == work[w].clean /\ work[w].alone
           idx == work[w].idx IN
       /\ Ended(w, IF good THEN "clean" ELSE "failed")
       /\ base' = IF good THEN View(idx, {id \in DOMAIN idx : Level(id) = 0}) ELSE base
       /\ healed' = (good /\ work[w].full /\ work[w].still)
    /\ UNCHANGED <<dset, src, marks, tree, vectors, spent, used, seen, calm, rework>>

(* Any call may fail; a replica that stops loses its events and its work.    *)
CallFails(w) ==
    /\ work[w].calls # <<>> /\ Bounded("errors") /\ Used("errors")
    /\ GiveUp(w)
    /\ calm' = FALSE
    /\ UNCHANGED <<dset, src, marks, tree, vectors, spent, base, seen, healed, rework>>
Crash(w) ==
    /\ work[w].phase # "idle" \/ DOMAIN marks[w] # {}
    /\ Bounded("crashes") /\ Used("crashes")
    /\ Ended(w, "failed")
    /\ marks' = [marks EXCEPT ![w] = <<>>]
    /\ calm' = FALSE
    /\ UNCHANGED <<dset, src, tree, vectors, spent, base, seen, healed, rework>>

DistillNext ==
    \/ \E s \in Range(dset.rows) : SaveSource(s) \/ DeleteSource(s)
    \/ \E w \in dset.replicas :
         \/ sweep(w) \/ DistillEvent(w) \/ Distill(w) \/ Page(w)
         \/ upsertNode(w) \/ UpsertVector(w) \/ DeleteRow(w) \/ DeleteVector(w)
         \/ linkChild(w) \/ UnlinkChild(w) \/ ensureParent(w) \/ removeParent(w)
         \/ Rollup(w) \/ rollupGroup(w) \/ SeeNode(w) \/ rollupNode(w) \/ cleanupL1(w)
         \/ RollupDone(w) \/ CallFails(w) \/ Crash(w)

-----------------------------------------------------------------------------
(* Every node of the tree, its vector and every mark is of the setup.        *)
DistillTypeOK ==
    /\ \A id \in DOMAIN tree :
          /\ tree[id].parents \cup tree[id].children \subseteq
               {TenantRootID} \cup {L0ID(s) : s \in DOMAIN src}
                 \cup {n \in DOMAIN tree \cup spent \cup tree[id].parents : Level(n) = 1}
          /\ Len(tree[id].sem) = dset.width
    /\ \A w \in Replicas : DOMAIN marks[w] \subseteq DOMAIN src
    /\ last \in {"none", "clean", "failed"}

(* The rows a group should come to: its node, and the intermediate nodes     *)
(* when it overflows, each with its hash.                                    *)
RECURSIVE Shape(_, _, _, _)
Shape(rows, id, refs, n) ==
    LET m == IF n + dset.subBits < dset.width THEN n + dset.subBits ELSE dset.width
        parts == Parts(rows, refs, m)
        sub == [p \in parts |-> Shape(rows, intermediateID(id, p),
                                      {r \in refs : ClusterPrefix(rows[r].sem, m) = p}, m)]
        top(p) == sub[p][intermediateID(id, p)]
    IN  IF Cardinality(refs) <= dset.fanIn \/ n >= dset.width \/ Cardinality(parts) <= 1
          THEN [i \in {id} |-> RollupContentHash(rows, refs)]
          ELSE Merged(FoldFunction(Merged, <<>>, sub),
                      [i \in {id} |-> [text |-> 0, kids |-> BagOfAll(top, SetToBag(parts))]])
InnerShape ==
    LET l0s == listNodes(0)
        clusters == Clusters(tree, l0s)
        scopes == [x \in ScopesOf(tree, l0s) |-> Shape(tree, x, Linked(tree, l0s, x), dset.bits)]
        clustered == [p \in DOMAIN clusters |-> Shape(tree, ClusterID(p), clusters[p], dset.bits)]
    IN  Merged(FoldFunction(Merged, <<>>, scopes), FoldFunction(Merged, <<>>, clustered))

(* After a pass that met no error, whatever failed or crashed before it, the *)
(* tree above the leaves is the one the leaves give: a node for each scope   *)
(* and each cluster above the noise floor and no other, every hash that of   *)
(* its children, and the root over all of them (rollup.go:30-178).           *)
TreeMatchesLeaves ==
    LET inner == {id \in listNodes(1) : id.kind # "tenant"}
        root == IF listNodes(0) = {} THEN <<>> ELSE Shape(tree, TenantRootID, inner, dset.bits)
    IN  /\ [id \in inner |-> tree[id].hash] = InnerShape
        /\ [id \in DOMAIN tree \ (inner \cup listNodes(0)) |-> tree[id].hash] = root
RollupExact == AllIdle /\ last = "clean" => TreeMatchesLeaves

(* In a calm history, once every event has been swept, each leaf is of its   *)
(* row: the text, the embedding in the row and in the vector store, and the  *)
(* scope, unless the scope alone had changed (distill.go:236-244 compares    *)
(* the text only); a deleted row has neither leaf nor vector.                *)
Swept == AllIdle /\ \A w \in Replicas : DOMAIN marks[w] = {}
SweptIsCurrent ==
    Swept /\ last = "clean" /\ calm =>
      \A s \in DOMAIN src :
        LET id == L0ID(s) IN
        /\ ~src[s].live => id \notin DOMAIN tree /\ id \notin DOMAIN vectors
        /\ src[s].live /\ src[s].text \notin dset.blocked \cup {0} =>
             /\ id \in DOMAIN tree /\ tree[id].hash = L0ContentHash(src[s].text)
             /\ tree[id].sem = dset.sem[src[s].text] /\ vectors[id] = tree[id].sem
             /\ ~seen[s].moved => ScopesOf(tree, {id}) = ScopeParents(src[s].scope)

(* In a calm history, no member of a scope or of a cluster is missing below  *)
(* its node: linkChild and the short-circuit keep the lists of children at   *)
(* least as wide as the groups (rollup.go:403-427, distill.go:448-467).      *)
Below(id) ==
    tree[id].children \cup UNION {tree[c].children : c \in tree[id].children \cap listNodes(1)}
ChildrenCoverMembers ==
    AllIdle /\ last = "clean" /\ calm =>
      \A id \in listNodes(1) :
        ~isIntermediateID(id) => Linked(tree, listNodes(0), id) \subseteq Below(id)

(* A backfill that ends without an error, alone and over rows that stay as   *)
(* they are, leaves every row with a leaf of its text, whatever was lost     *)
(* before it (distillworker.go:28-30).                                       *)
BackfillHeals ==
    healed => \A s \in DOMAIN src :
                src[s].live /\ src[s].text \notin dset.blocked \cup {0} =>
                  L0ID(s) \in DOMAIN tree /\ tree[L0ID(s)].hash = L0ContentHash(src[s].text)

(* A pass over leaves that are as the last clean pass found them summarizes  *)
(* nothing, the intermediate nodes of the root apart (rollup.go:298-307).    *)
NoRework == ~rework

(* A bucket above the noise floor has its node once the events are swept,    *)
(* when nothing has failed (distillation.mdx: "above it the worker issues a  *)
(* rollup summarisation on the next debounce tick").                         *)
PromotedAboveFloor ==
    Swept /\ last # "none" /\ calm =>
      \A p \in DOMAIN Clusters(tree, listNodes(0)) : ClusterID(p) \in DOMAIN tree
=============================================================================
