-------------------------------- MODULE Blobs -------------------------------
(* Blobs (blob_writepath.go, adapters/trove): bytes stored under their hash, *)
(* a ledger with a row for each hash, the catalog rows that refer to it, and *)
(* the reconciler that corrects reference counts and collects what nothing   *)
(* refers to.  The ledger row and the bytes of a hash are old once they are  *)
(* past the grace window; a put and a pass together take less than that, so  *)
(* nothing grows old while either runs.                                      *)
EXTENDS Naturals, FiniteSets

CONSTANTS
    Hashes,        \* contents
    Putters,       \* concurrent PutBlob calls
    BlobSetups     \* [pinned, rewrites, sources, puts, deletes, passes, faults]

BlobSetup == [pinned : BOOLEAN, rewrites : BOOLEAN, sources : SUBSET {"object", "summary"}, puts : Nat, deletes : Nat,
              passes : Nat, faults : Nat]

ASSUME BlobsAssumption == BlobSetups \subseteq BlobSetup

VARIABLES
    bset,       \* what may still happen
    ledger,     \* hash: its fabriq_blob_cas row
    bytes,      \* hash: its object in the tenant's bucket
    refs,       \* source: hash: rows that refer to it
    put,        \* putter: its call
    pass,       \* the reconciler's pass
    since,      \* history: what happened to a hash since the pass read it
    blame       \* history: hashes a put found while the pass collected them

blobVars == <<bset, ledger, bytes, refs, put, pass, since, blame>>

Sources == {"object", "summary"}      \* fabriq_blob_objects, fabriq_digest_nodes
NoRow == [there |-> FALSE, count |-> 0, old |-> FALSE]
NoBytes == [there |-> FALSE, old |-> FALSE]
NoPut == [pc |-> "idle", h |-> 0, src |-> "object", found |-> FALSE]
NoPass == [pc |-> "idle", truth |-> <<>>, rows |-> <<>>, todo |-> {}, h |-> 0, broken |-> {}]

Referred(h) == refs["object"][h] + refs["summary"][h]

BlobsInit ==
    /\ bset \in BlobSetups
    /\ ledger = [h \in Hashes |-> NoRow] /\ bytes = [h \in Hashes |-> NoBytes]
    /\ refs = [s \in Sources |-> [h \in Hashes |-> 0]]
    /\ put = [p \in Putters |-> NoPut] /\ pass = NoPass
    /\ since = [found |-> {}, wrote |-> {}, any |-> FALSE] /\ blame = {}

BlobFault == bset.faults > 0 /\ bset' = [bset EXCEPT !.faults = @ - 1]
Touched == [since EXCEPT !.any = TRUE]

-----------------------------------------------------------------------------
(* PutBlob: the content store writes the bytes and then the row, and the     *)
(* catalog row comes last.  For a hash in the ledger it counts a reference,  *)
(* and may (rewrites) or may not write the bytes again.                      *)

StoreFinds(p, h, src) ==
    /\ put[p].pc = "idle" /\ bset.puts > 0 /\ src \in bset.sources /\ ledger[h].there /\ ~ bset.rewrites
    /\ bset' = [bset EXCEPT !.puts = @ - 1]
    /\ ledger' = [ledger EXCEPT ![h].count = @ + 1]
    /\ put' = [put EXCEPT ![p] = [pc |-> "create", h |-> h, src |-> src, found |-> TRUE]]
    /\ since' = Touched
    /\ blame' = IF pass.pc = "row" /\ pass.h = h THEN blame \cup {h} ELSE blame
    /\ UNCHANGED <<bytes, refs, pass>>

StoreBytes(p, h, src) ==
    /\ put[p].pc = "idle" /\ bset.puts > 0 /\ src \in bset.sources /\ (ledger[h].there => bset.rewrites)
    /\ bset' = [bset EXCEPT !.puts = @ - 1]
    /\ bytes' = [bytes EXCEPT ![h] = [there |-> TRUE, old |-> FALSE]]
    /\ put' = [put EXCEPT ![p] = [pc |-> "row", h |-> h, src |-> src, found |-> ledger[h].there]]
    /\ since' = [Touched EXCEPT !.wrote = @ \cup {h}]
    /\ blame' = IF pass.pc = "row" /\ pass.h = h THEN blame \cup {h} ELSE blame
    /\ UNCHANGED <<ledger, refs, pass>>

(* CASIndex.Put: a row, or one reference more in the row another put made. *)
IndexPut(p) ==
    /\ put[p].pc = "row"
    /\ ledger' = IF ledger[put[p].h].there THEN [ledger EXCEPT ![put[p].h].count = @ + 1]
                 ELSE [ledger EXCEPT ![put[p].h] = [there |-> TRUE, count |-> 1, old |-> FALSE]]
    /\ put' = [put EXCEPT ![p].pc = "create"]
    /\ since' = Touched
    /\ blame' = IF bytes[put[p].h].there /\ ~ ledger[put[p].h].there THEN blame \ {put[p].h} ELSE blame
    /\ UNCHANGED <<bset, bytes, refs, pass>>

(* The command that creates the row that refers to the hash. *)
CreateObject(p) ==
    /\ put[p].pc = "create"
    /\ refs' = [refs EXCEPT ![put[p].src][put[p].h] = @ + 1]
    /\ since' = [Touched EXCEPT !.found = IF put[p].found THEN @ \cup {put[p].h} ELSE @]
    /\ put' = [put EXCEPT ![p] = NoPut]
    /\ UNCHANGED <<bset, ledger, bytes, pass, blame>>

(* An error or a crash between the steps of a put. *)
PutFails(p) ==
    /\ put[p].pc # "idle" /\ BlobFault
    /\ put' = [put EXCEPT ![p] = NoPut]
    /\ UNCHANGED <<ledger, bytes, refs, pass, since, blame>>

(* DeleteBlob, or a digest node that goes: the row only. *)
DeleteObject(s, h) ==
    /\ refs[s][h] > 0 /\ bset.deletes > 0
    /\ bset' = [bset EXCEPT !.deletes = @ - 1]
    /\ refs' = [refs EXCEPT ![s][h] = @ - 1]
    /\ since' = Touched
    /\ UNCHANGED <<ledger, bytes, put, pass, blame>>

(* The grace window passes for what there is of a hash. *)
Ages(h) ==
    /\ pass.pc = "idle" /\ \A p \in Putters : put[p].h # h
    /\ ledger[h].there \/ bytes[h].there
    /\ ledger' = [ledger EXCEPT ![h].old = ledger[h].there]
    /\ bytes' = [bytes EXCEPT ![h].old = bytes[h].there]
    /\ ledger' # ledger \/ bytes' # bytes
    /\ UNCHANGED <<bset, refs, put, pass, since, blame>>

-----------------------------------------------------------------------------
(* Reconcile, with repair. *)

(* Mutant: one source's count overwrites the other's. *)
CountsOfLast(h) == IF refs["summary"][h] > 0 THEN refs["summary"][h] ELSE 0

(* truthCounts: both sources' counts, added. *)
TruthCounts(h) == Referred(h)

ReadTruth ==
    /\ pass.pc = "idle" /\ bset.passes > 0
    /\ bset' = [bset EXCEPT !.passes = @ - 1]
    /\ pass' = [NoPass EXCEPT !.pc = "ledger", !.truth = [h \in Hashes |-> TruthCounts(h)]]
    /\ since' = [found |-> {}, wrote |-> {}, any |-> FALSE]
    /\ UNCHANGED <<ledger, bytes, refs, put, blame>>

LedgerRows ==
    /\ pass.pc = "ledger"
    /\ pass' = [pass EXCEPT !.pc = "walk", !.rows = ledger, !.todo = {h \in Hashes : ledger[h].there}]
    /\ UNCHANGED <<bset, ledger, bytes, refs, put, since, blame>>

(* Unreferenced, unpinned and past the grace window. *)
Collects(h) == pass.truth[h] = 0 /\ ~ bset.pinned /\ pass.rows[h].old

(* One row: its count corrected, and a referenced hash without bytes noted. *)
WalkRow(h) ==
    /\ pass.pc = "walk" /\ h \in pass.todo /\ ~ Collects(h)
    /\ ledger' = IF pass.rows[h].count # pass.truth[h] /\ pass.truth[h] > 0 /\ ledger[h].there
                 THEN [ledger EXCEPT ![h].count = pass.truth[h]] ELSE ledger
    /\ pass' = [pass EXCEPT !.todo = @ \ {h},
                            !.broken = IF pass.truth[h] > 0 /\ ~ bytes[h].there THEN @ \cup {h} ELSE @]
    /\ UNCHANGED <<bset, bytes, refs, put, since, blame>>

(* A put that found the row, and is under way or has come since. *)
FoundMeanwhile(h) == h \in since.found \/ \E p \in Putters : put[p].h = h /\ put[p].found

DeleteByte(h) ==
    /\ pass.pc = "walk" /\ h \in pass.todo /\ Collects(h)
    /\ bytes' = [bytes EXCEPT ![h] = NoBytes]
    /\ blame' = IF FoundMeanwhile(h) THEN blame \cup {h} ELSE blame
    /\ pass' = [pass EXCEPT !.pc = "row", !.h = h]
    /\ UNCHANGED <<bset, ledger, refs, put, since>>

DeleteRow ==
    /\ pass.pc = "row"
    /\ ledger' = [ledger EXCEPT ![pass.h] = NoRow]
    /\ pass' = [pass EXCEPT !.pc = "walk", !.todo = @ \ {pass.h}]
    /\ UNCHANGED <<bset, bytes, refs, put, since, blame>>

(* orphanKeys: old bytes without a row in the ledger as it was read; a       *)
(* referenced hash without a row is broken too.                              *)
ListOrphans ==
    /\ pass.pc = "walk" /\ pass.todo = {}
    /\ LET rowless == {h \in Hashes : ~ pass.rows[h].there}
       IN pass' = [pass EXCEPT !.pc = "orphans", !.todo = {h \in rowless : bytes[h].there /\ bytes[h].old},
                               !.broken = @ \cup {h \in rowless : pass.truth[h] > 0}]
    /\ UNCHANGED <<bset, ledger, bytes, refs, put, since, blame>>

DeleteOrphan(h) ==
    /\ pass.pc = "orphans" /\ h \in pass.todo
    /\ bytes' = [bytes EXCEPT ![h] = NoBytes]
    /\ blame' = IF h \in since.wrote THEN blame \cup {h} ELSE blame
    /\ pass' = [pass EXCEPT !.todo = @ \ {h}]
    /\ UNCHANGED <<bset, ledger, refs, put, since>>

PassEnds ==
    /\ pass.pc = "orphans" /\ pass.todo = {}
    /\ pass' = [pass EXCEPT !.pc = "end"]
    /\ UNCHANGED <<bset, ledger, bytes, refs, put, since, blame>>

Report ==
    /\ pass.pc = "end"
    /\ pass' = NoPass
    /\ UNCHANGED <<bset, ledger, bytes, refs, put, since, blame>>

(* An error or a crash: the rest is left to the next pass.  Between the bytes *)
(* and the row it leaves a row without bytes, for a put to find.              *)
PassFails ==
    /\ pass.pc \notin {"idle", "end"} /\ BlobFault
    /\ blame' = IF pass.pc = "row" THEN blame \cup {pass.h} ELSE blame
    /\ pass' = NoPass
    /\ UNCHANGED <<ledger, bytes, refs, put, since>>

BlobsNext ==
    \/ \E p \in Putters : \/ \E h \in Hashes, s \in Sources : StoreFinds(p, h, s) \/ StoreBytes(p, h, s)
                          \/ IndexPut(p) \/ CreateObject(p) \/ PutFails(p)
    \/ \E h \in Hashes : \/ \E s \in Sources : DeleteObject(s, h)
                         \/ Ages(h) \/ WalkRow(h) \/ DeleteByte(h) \/ DeleteOrphan(h)
    \/ ReadTruth \/ LedgerRows \/ DeleteRow \/ ListOrphans \/ PassEnds \/ Report \/ PassFails

BlobsSpec == BlobsInit /\ [][BlobsNext]_blobVars

-----------------------------------------------------------------------------
(* Every variable has its type. *)
BlobsTypeOK ==
    /\ \A h \in Hashes : ledger[h].count \in Nat /\ (ledger[h].old => ledger[h].there) /\ (bytes[h].old => bytes[h].there)
    /\ \A p \in Putters : put[p].pc \in {"idle", "row", "create"}
    /\ pass.pc \in {"idle", "ledger", "walk", "row", "orphans", "end"} /\ pass.todo \subseteq Hashes

(* The bytes of every hash a row refers to are in the bucket, whatever puts, *)
(* deletes and passes overlap: a new entry is young, and an old one has its  *)
(* reference counted.  The exceptions are a put that finds an old,           *)
(* unreferenced entry while a pass collects it, bytes written again after    *)
(* the pass listed them, and an entry left half collected by a failure       *)
(* (reconcile.go Reconcile, truthCounts; blob_writepath.go PutBlob).         *)
ReferredHasBytes == \A h \in Hashes : Referred(h) > 0 /\ h \notin blame => bytes[h].there

(* A pass during which nothing else happens leaves every count right,        *)
(* nothing to collect and no old bytes without a row, and reports exactly    *)
(* the hashes that are referred to and not there, whatever puts, deletes and *)
(* failures came before it (reconcile.go Reconcile, orphanKeys).             *)
QuietPassSettles ==
    pass.pc = "end" /\ ~ since.any
        => /\ \A h \in Hashes :
                 /\ Referred(h) > 0 /\ ledger[h].there => ledger[h].count = Referred(h)
                 /\ Referred(h) = 0 /\ ~ bset.pinned => ~ ledger[h].old
                 /\ bytes[h].old => ledger[h].there
           /\ pass.broken = {h \in Hashes : Referred(h) > 0 /\ ~ (ledger[h].there /\ bytes[h].there)}

(* The blob plane (reconcile.go, blob_writepath.go): a referenced hash has   *)
(* its bytes, and an undisturbed pass leaves nothing to do.                  *)
BytesKept == BlobsTypeOK /\ ReferredHasBytes /\ QuietPassSettles
=============================================================================
