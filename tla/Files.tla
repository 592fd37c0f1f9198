-------------------------------- MODULE Files -------------------------------
(* The file tree (fs_node*.go): every call reads the rows it needs, checks   *)
(* them, and issues one command, or one batch, that replaces the whole row.  *)
(* A call here is its reads, taken as one snapshot, and its command; what    *)
(* other calls commit in between is what it does not see.  A move checks     *)
(* once more inside its command, under a lock that serialises moves.         *)
EXTENDS Naturals, FiniteSets

CONSTANTS
    Ids,           \* node ids
    Names,         \* node names
    Calls,         \* concurrent calls
    FileSetups     \* [tree : id -> row, calls : call -> the operation it makes]

VARIABLES
    tree,       \* id: its row
    blobs,      \* blob_object rows
    call,       \* call: how far it is, and the rows it will write
    relinked    \* history: a whole-row write gave a node an earlier parent back

fileVars == <<tree, blobs, call, relinked>>

Root == 0
NoBlob == 0
Gone == [type |-> "none", parent |-> Root, name |-> "", blob |-> NoBlob, trashed |-> FALSE, locked |-> FALSE]

Exists(t, n) == n \in Ids /\ t[n].type # "none"

(* n and the nodes above it, the root at the end of an unbroken chain. *)
Above(t, n) ==
    LET up[k \in 0..Cardinality(Ids)] ==
            IF k = 0 THEN {n} ELSE up[k - 1] \cup {t[m].parent : m \in {i \in up[k - 1] : Exists(t, i)}}
    IN up[Cardinality(Ids)]

(* chainToRoot and nodePathOf succeed. *)
Rooted(t, n) == Root \in Above(t, n)

(* subtree: n and the nodes under it, trashed ones too. *)
Subtree(t, n) == {m \in Ids : Exists(t, m) /\ n \in Above(t, m)}

(* siblingExists *)
SiblingExists(t, parent, name) ==
    \E m \in Ids : Exists(t, m) /\ ~ t[m].trashed /\ t[m].parent = parent /\ t[m].name = name

(* The unique index on the live rows' parent and name. *)
SiblingIndex(t) ==
    \A m, n \in Ids :
        Exists(t, m) /\ Exists(t, n) /\ ~ t[m].trashed /\ ~ t[n].trashed
            /\ t[m].parent = t[n].parent /\ t[m].name = t[n].name => m = n

FilesInit ==
    \E s \in FileSetups :
        /\ tree = s.tree
        /\ blobs = {s.tree[n].blob : n \in Ids} \ {NoBlob}
        /\ call = [c \in Calls |-> [op |-> s.calls[c], pc |-> "start", id |-> 0, to |-> Root,
                                    rows |-> <<>>, drop |-> {}]]
        /\ relinked = FALSE

-----------------------------------------------------------------------------
(* The reads of each call. *)

(* The call will write rows, a function of ids, under id and to. *)
Reads(c, pc, id, to, rows) ==
    /\ call' = [call EXCEPT ![c].pc = pc, ![c].id = id, ![c].to = to, ![c].rows = rows]
    /\ UNCHANGED <<tree, blobs, relinked>>

Starts(c, op) == call[c].pc = "start" /\ call[c].op = op

(* parentContext: a folder, trashed or not, with a path. *)
ParentContext(parent) == parent = Root \/ (Exists(tree, parent) /\ tree[parent].type = "folder" /\ Rooted(tree, parent))

(* CreateFolder, CreateFile, CreateMount. *)
ReadCreate(c, type, id, parent, name) ==
    /\ Starts(c, type) /\ ~ Exists(tree, id) /\ \A d \in Calls : call[d].id # id
    /\ ParentContext(parent) /\ ~ SiblingExists(tree, parent, name)
    /\ Reads(c, IF type = "file" THEN "put" ELSE "create", id, parent,
             [n \in {id} |-> [Gone EXCEPT !.type = type, !.parent = parent, !.name = name]])

ReadRename(c, id, name) ==
    /\ Starts(c, "rename") /\ Exists(tree, id) /\ ~ tree[id].locked
    /\ ~ SiblingExists(tree, tree[id].parent, name) /\ Rooted(tree, id)
    /\ Reads(c, "update", id, Root, [n \in {id} |-> [tree[id] EXCEPT !.name = name]])

ReadMove(c, id, to) ==
    /\ Starts(c, "move") /\ Exists(tree, id) /\ ~ tree[id].locked
    /\ ParentContext(to) /\ id \notin Above(tree, to)
    /\ ~ SiblingExists(tree, to, tree[id].name)
    /\ Reads(c, "update", id, to, [n \in {id} |-> [tree[id] EXCEPT !.parent = to]])

(* TrashNode and RestoreNode: setDeleted over the subtree. *)
ReadSetDeleted(c, deleted, id) ==
    /\ Starts(c, IF deleted THEN "trash" ELSE "restore") /\ Exists(tree, id)
    /\ Reads(c, "update", id, Root, [n \in Subtree(tree, id) |-> [tree[n] EXCEPT !.trashed = deleted]])

ReadDelete(c, id) ==
    /\ Starts(c, "delete") /\ Exists(tree, id)
    /\ Reads(c, "delete", id, Root, [n \in Subtree(tree, id) |-> tree[n]])

(* LockNode and UnlockNode: patchNode. *)
ReadPatch(c, locked, id) ==
    /\ Starts(c, IF locked THEN "lock" ELSE "unlock") /\ Exists(tree, id)
    /\ Reads(c, "update", id, Root, [n \in {id} |-> [tree[id] EXCEPT !.locked = locked]])

(* UpdateMount replaces the row with another mount_config. *)
ReadUpdateMount(c, id) ==
    /\ Starts(c, "remount") /\ Exists(tree, id) /\ tree[id].type = "mount" /\ Rooted(tree, id)
    /\ Reads(c, "update", id, Root, [n \in {id} |-> tree[id]])

ReadReplace(c, id) ==
    /\ Starts(c, "replace") /\ Exists(tree, id) /\ tree[id].type = "file" /\ ~ tree[id].locked
    /\ Reads(c, "put", id, Root, [n \in {id} |-> tree[id]])

-----------------------------------------------------------------------------
(* PutBlob: a blob_object of the call's own, whatever becomes of the call. *)
PutFileBlob(c) ==
    /\ call[c].pc = "put"
    /\ LET b == 100 + c
       IN /\ blobs' = blobs \cup {b}
          /\ call' = [call EXCEPT ![c].pc = IF call[c].op = "file" THEN "create" ELSE "update",
                                  ![c].rows[call[c].id].blob = b]
    /\ UNCHANGED <<tree, relinked>>

Written(rows) == [n \in Ids |-> IF n \in DOMAIN rows THEN rows[n] ELSE tree[n]]

(* A command fails and nothing is written. *)
Fails(c) == call' = [call EXCEPT ![c].pc = "done"] /\ UNCHANGED <<tree, relinked, blobs>>

CommitCreate(c) ==
    /\ call[c].pc = "create"
    /\ IF ~ SiblingIndex(Written(call[c].rows)) THEN Fails(c)
       ELSE /\ tree' = Written(call[c].rows)
            /\ call' = [call EXCEPT ![c].pc = "done"]
            /\ UNCHANGED <<blobs, relinked>>

(* Mutant: the walk before the command is the only one. *)
UnguardedMove(t, id, to) == TRUE

(* fsMoveCycleGuardHook, for a move that is not to the root: from the new    *)
(* parent up, in the table with the row written, the moved node is not met   *)
(* and the walk ends.                                                        *)
MoveGuard(t, id, to) ==
    to # Root => id \notin Above(t, to) /\ \E m \in Above(t, to) : ~ Exists(t, m)

(* The blob_objects after an update: ReplaceFile leaves the previous one. *)
AfterUpdate(c) == blobs

CommitUpdate(c) ==
    /\ call[c].pc = "update"
    /\ LET rows == call[c].rows
           t == Written(rows)
           moves == call[c].op = "move"
       IN IF \/ \E n \in DOMAIN rows : ~ Exists(tree, n)
             \/ ~ SiblingIndex(t)
             \/ moves /\ ~ MoveGuard(t, call[c].id, call[c].to)
          THEN Fails(c)
          ELSE /\ tree' = t
               /\ blobs' = AfterUpdate(c)
               /\ relinked' = (relinked \/ (~ moves /\ \E n \in DOMAIN rows : rows[n].parent # tree[n].parent))
               /\ call' = [call EXCEPT ![c].pc = "done"]

(* PermanentDeleteNode: one batch for the nodes read, then their blobs. *)
CommitDelete(c) ==
    /\ call[c].pc = "delete"
    /\ LET ids == DOMAIN call[c].rows
       IN IF \E n \in ids : ~ Exists(tree, n) THEN Fails(c)
          ELSE /\ tree' = [n \in Ids |-> IF n \in ids THEN Gone ELSE tree[n]]
               /\ call' = [call EXCEPT ![c].pc = "drop", ![c].drop = {call[c].rows[n].blob : n \in ids} \ {NoBlob}]
               /\ UNCHANGED <<blobs, relinked>>

(* DeleteBlob of one, or an error, or a crash, that leaves the rest. *)
DropBlob(c) ==
    /\ call[c].pc = "drop"
    /\ \/ \E b \in call[c].drop : blobs' = blobs \ {b} /\ call' = [call EXCEPT ![c].drop = @ \ {b}]
       \/ call' = [call EXCEPT ![c].pc = "done", ![c].drop = {}] /\ UNCHANGED blobs
    /\ UNCHANGED <<tree, relinked>>

FilesNext ==
    \E c \in Calls :
        \/ \E id \in Ids, parent \in {Root} \cup Ids, name \in Names, type \in {"folder", "file", "mount"} :
               ReadCreate(c, type, id, parent, name)
        \/ \E id \in Ids, name \in Names : ReadRename(c, id, name)
        \/ \E id \in Ids, to \in {Root} \cup Ids : ReadMove(c, id, to)
        \/ \E id \in Ids, b \in BOOLEAN : ReadSetDeleted(c, b, id) \/ ReadPatch(c, b, id)
        \/ \E id \in Ids : ReadDelete(c, id) \/ ReadUpdateMount(c, id) \/ ReadReplace(c, id)
        \/ PutFileBlob(c) \/ CommitCreate(c) \/ CommitUpdate(c) \/ CommitDelete(c) \/ DropBlob(c)

-----------------------------------------------------------------------------
(* Every variable has its type. *)
FilesTypeOK ==
    /\ \A n \in Ids : tree[n].type \in {"none", "folder", "file", "mount"} /\ tree[n].parent \in {Root} \cup Ids
    /\ blobs \subseteq 1..200
    /\ \A c \in Calls : call[c].pc \in {"start", "put", "create", "update", "delete", "drop", "done"}

(* No node is under itself, whatever moves race: each validated its walk     *)
(* before the others' commits, and only the walk inside the command sees     *)
(* them.  A call that is no move writes back the parent it read, and is the  *)
(* one exception (fs_node_move_guard.go fsMoveCycleGuardHook,                *)
(* fs_node_move.go MoveNode, fs_node_delete.go patchNode).                   *)
NoCycle == relinked \/ \A n \in Ids : Exists(tree, n) => n \notin Above(tree, tree[n].parent)

(* No two live nodes have one parent and one name, though each call checked  *)
(* that before the other's commit, and a restore gives names back that were  *)
(* taken meanwhile (fs_node.go siblingExists, migrations/0016_fs_node.go).   *)
SiblingsUnique ==
    \A n \in Ids :
        Exists(tree, n) /\ ~ tree[n].trashed
            => ~ SiblingExists([tree EXCEPT ![n] = Gone], tree[n].parent, tree[n].name)

(* Every file's blob_object is there, also when a call that read the file    *)
(* before its content was replaced writes the earlier blob_id back, or a     *)
(* delete of the subtree it was read in drops the blobs it read              *)
(* (fs_node_delete.go ReplaceFile, patchNode, PermanentDeleteNode).          *)
FilesHaveBlobs == \A n \in Ids : Exists(tree, n) /\ tree[n].type = "file" => tree[n].blob \in blobs
=============================================================================
