------------------------------ MODULE MCStorage -----------------------------
(* Instances of the read cache, the file tree, the blobs and the life of a    *)
(* process with its stores for TLC.  A behaviour is about one of them, its   *)
(* focus; the others stay as they begin.                                     *)
EXTENDS Cache, Blobs, Sequences

CONSTANTS
    Ids, Names, Calls, FileSetups,           \* Files
    LifeSetups                               \* Lifecycle

VARIABLES
    focus,
    tree, blobs, call, relinked,
    yset, phase, at, opened, stores, closing, tailer, run, cancelled, done, shut, trouble

-----------------------------------------------------------------------------
(* Reads on the writer's node and on another, of the query and of the row; a *)
(* Redis that fails, and entries that expire.                                *)
Caching(ks, from, reads, writes, faults, expiries) ==
    [keyspaces |-> ks, at |-> {1}, from |-> from, reads |-> reads, writes |-> writes, faults |-> faults,
     expiries |-> expiries]
Cachings ==
    { Caching({"query"}, {1}, 3, 1, 0, 0),
      Caching({"query"}, {2}, 3, 1, 0, 0),
      Caching({"row"}, {2}, 3, 1, 0, 0),
      Caching({"row"}, {1}, 2, 1, 1, 0),
      Caching({"query"}, {2}, 2, 1, 1, 1) }

(* Every pair of calls on two folders and a file; three calls with two moves *)
(* on folders that can be moved under each other.                            *)
Node(type, parent, name, b) ==
    [type |-> type, parent |-> parent, name |-> name, blob |-> b, trashed |-> FALSE, locked |-> FALSE]
Folder(parent, name) == Node("folder", parent, name, 0)
Free == Node("none", 0, "", 0)
Shelf == <<Folder(0, "a"), Folder(0, "b"), Node("file", 1, "a", 1), Free>>
Stack == <<Folder(0, "a"), Folder(1, "a"), Folder(0, "b"), Free>>
Operations ==
    {"folder", "file", "mount", "rename", "move", "trash", "restore", "delete", "lock", "unlock", "remount", "replace"}
Filings ==
    [tree : {Shelf}, calls : {<<a, b, "none">> : a, b \in Operations}]
    \cup [tree : {Stack}, calls : {<<"move", "move", a>> : a \in {"move", "rename", "delete", "trash"}}]

(* Puts of the same and of different content, by a store that writes known   *)
(* content again and by one that does not, deletes, and passes that fail;    *)
(* hashes with references of both kinds; pinned ones.                        *)
Keeping(pinned, rewrites, sources, puts, deletes, passes, faults) ==
    [pinned |-> pinned, rewrites |-> rewrites, sources |-> sources, puts |-> puts, deletes |-> deletes,
     passes |-> passes, faults |-> faults]
Keepings ==
    {Keeping(FALSE, rewrites, {"object"}, 2, 1, 2, 2) : rewrites \in BOOLEAN}
    \cup { Keeping(FALSE, FALSE, {"object", "summary"}, 2, 2, 1, 0), Keeping(TRUE, FALSE, {"object"}, 1, 1, 2, 0) }

(* Both assemblies with every store, so that every step can fail; worker     *)
(* planes with few runners, so that they can be in any state together; a     *)
(* borrowed database; a process that only serves.                            *)
Living(catalog, borrowed, on, faults, exits) ==
    [catalog |-> catalog, borrowed |-> borrowed, on |-> on, faults |-> faults, exits |-> exits]
Every == {"shard2", "key", "redis", "l1", "graph", "search", "analytics", "blob", "replica"}
Livings ==
    { Living(FALSE, FALSE, Every, 2, 0), Living(TRUE, FALSE, Every, 2, 0),
      Living(FALSE, TRUE, {"redis", "worker", "search", "metrics", "reconcile"}, 0, 2),
      Living(TRUE, FALSE, {"redis", "worker", "analytics", "metrics"}, 0, 2),
      Living(FALSE, FALSE, {"redis", "worker", "embed", "distill", "rollups", "insights"}, 0, 1),
      Living(FALSE, TRUE, {"worker"}, 0, 0) }

-----------------------------------------------------------------------------
F == INSTANCE Files
P == INSTANCE Lifecycle

fileVars == <<tree, blobs, call, relinked>>
lifeVars == <<yset, phase, at, opened, stores, closing, tailer, run, cancelled, done, shut, trouble>>
vars == <<focus, cacheVars, fileVars, blobVars, lifeVars>>

Some(X) == CHOOSE x \in X : TRUE

Init ==
    /\ focus \in {"cache", "files", "blobs", "life"}
    /\ CacheInit /\ (focus # "cache" => kset = Some(CacheSetups))
    /\ F!FilesInit /\ (focus # "files" => \A c \in Calls : call[c].op = Some(FileSetups).calls[c])
    /\ BlobsInit /\ (focus # "blobs" => bset = Some(BlobSetups))
    /\ P!LifeInit /\ (focus # "life" => yset = Some(LifeSetups))

CacheStep == focus = "cache" /\ CacheNext /\ UNCHANGED <<focus, fileVars, blobVars, lifeVars>>
FilesStep == focus = "files" /\ F!FilesNext /\ UNCHANGED <<focus, cacheVars, blobVars, lifeVars>>
BlobsStep == focus = "blobs" /\ BlobsNext /\ UNCHANGED <<focus, cacheVars, fileVars, lifeVars>>
LifeStep == focus = "life" /\ P!LifeNext /\ UNCHANGED <<focus, cacheVars, fileVars, blobVars>>

Next == CacheStep \/ FilesStep \/ BlobsStep \/ LifeStep

Spec == Init /\ [][Next]_vars

-----------------------------------------------------------------------------
(* The properties, stated and explained one by one in the components' modules. *)

(* The file tree (fs_node_move_guard.go, fs_node.go, fs_node_delete.go): no node is under    *)
(* itself, live siblings have different names, and a file's blob_object is there.            *)
TreeKept == F!FilesTypeOK /\ F!NoCycle /\ F!SiblingsUnique /\ F!FilesHaveBlobs

(* A process and its stores (open.go, catalogmode.go, worker.go): a failed Open and a Stop   *)
(* release every handle, and a drained worker is quiet.                                      *)
StoresReleased == P!LifeTypeOK /\ P!EverythingReleased /\ P!TailerStoppedFirst /\ P!DrainedIsQuiet
=============================================================================
