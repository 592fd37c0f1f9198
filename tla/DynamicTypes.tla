---------------------------- MODULE DynamicTypes ----------------------------
(* Dynamic entity types: the lifecycle calls of the facade (fabriq_dynamic.go)*)
(* and the sync of every process's registry with the persisted descriptors    *)
(* (fabriq_dynamic_persist.go, adapters/postgres/dynamic_store.go, ddl.go).   *)
(*                                                                            *)
(* One type, with persistence on.  Its spec is the set of its domain columns, *)
(* which is what the stored encoding and the physical table can differ in.  A *)
(* process runs one call at a time (dynMu); between two statements of a call  *)
(* the other processes take steps.  What may be missing (a row, a table, a    *)
(* registration) is a set of at most one element.                             *)
EXTENDS Naturals

CONSTANTS
    Procs,      \* the processes that open fabriq on one database
    Columns,    \* names of domain columns
    DynSetups   \* how a behaviour starts, and its bounds
        \* [row: the row at the start, code: the processes that register the type in code,
        \*  calls: lifecycle calls of each process, faults: statements that fail, crashes: restarts]

VARIABLES
    dsetup,
    drow,       \* the row of fabriq_dynamic_entity, [cols, rev]
    table,      \* the physical table, its domain columns
    reg,        \* [Procs -> the spec in the process's registry]
    loaded,     \* [Procs -> the revision in dynLoaded, 0 for no entry]
    guarded,    \* [Procs -> is the table in the tenant backstop]
    coded,      \* [Procs -> is the registration the application's own]
    job,        \* [Procs -> the call in progress]
    made,       \* [Procs -> calls made], and faults and crashes so far
    clean,      \* [Procs -> has a sync loaded the row as it stands]        (history)
    astray,     \* a stale spec changed a column or was restored, or a save was lost (history)
    crossed     \* a destructive change and another were under way together  (history)

dynVars == <<dsetup, drow, table, reg, loaded, guarded, coded, job, made, clean, astray, crossed>>

Specs == SUBSET Columns
AtMostOne(S) == \A x, y \in S : x = y

(* A type is registered in code where it is not persisted yet. *)
ASSUME DynAssumption ==
    \A s \in DynSetups :
        /\ s.row \in SUBSET [cols : Specs, rev : Nat \ {0}] /\ AtMostOne(s.row)
        /\ s.code # {} => s.row = {} /\ Columns # {}

CodeSpec == {CHOOSE c \in Columns : TRUE}
Idle == [op |-> "idle", at |-> "idle", spec |-> {}, row |-> {}, prev |-> {}]
Opening == [Idle EXCEPT !.op = "open", !.at = "load"]
Owned(p) == loaded[p] # 0

At(p, step) == job[p].at = step
Goto(p, step) == job' = [job EXCEPT ![p].at = step]
Returns(p) == job' = [job EXCEPT ![p] = Idle]
Set(f, p, v) == f' = [f EXCEPT ![p] = v]

DynInit ==
    /\ dsetup \in DynSetups
    /\ drow = dsetup.row
    /\ table = {r.cols : r \in dsetup.row} \cup (IF dsetup.code = {} THEN {} ELSE {CodeSpec})
    /\ coded = [p \in Procs |-> p \in dsetup.code]
    /\ reg = [p \in Procs |-> IF coded[p] THEN {CodeSpec} ELSE {}]
    /\ guarded = coded
    /\ loaded = [p \in Procs |-> 0]
    /\ job = [p \in Procs |-> Opening]
    /\ made = [calls |-> [p \in Procs |-> 0], faults |-> 0, crashes |-> 0]
    /\ clean = [p \in Procs |-> FALSE]
    /\ astray = FALSE
    /\ crossed = FALSE

Fails ==
    /\ made.faults < dsetup.faults
    /\ made' = [made EXCEPT !.faults = @ + 1]
Works == UNCHANGED made
Called(p) ==
    /\ job[p] = Idle
    /\ made.calls[p] < dsetup.calls[p]
    /\ made' = [made EXCEPT !.calls[p] = @ + 1]

-----------------------------------------------------------------------------
(* What the statements do to the database.                                    *)

(* CREATE TABLE and ADD COLUMN, both IF NOT EXISTS, in one transaction. *)
Ensured(s) == {s \cup UNION table}

(* A row is written only when its spec differs; a new row starts at 1. *)
Saved(s) == {[cols |-> s, rev |-> IF drow = {} THEN 1 ELSE 1 + (CHOOSE r \in drow : TRUE).rev]}
Holds(s) == \E r \in drow : r.cols = s
SetRow(r) == drow' = r /\ clean' = [p \in Procs |-> FALSE]

-----------------------------------------------------------------------------
(* SyncPersistedDynamic, from the worker's timer, Open and DefineDynamic.     *)

SyncTick(p) ==
    /\ job[p] = Idle
    /\ Set(job, p, [Idle EXCEPT !.op = "sync", !.at = "load"])
    /\ UNCHANGED <<drow, table, reg, loaded, guarded, coded, made, clean, astray>>

(* The sync is over: DefineDynamic goes on, the others return. *)
Synced(p) ==
    /\ IF job[p].op = "define"
       THEN Set(job, p, [job[p] EXCEPT !.at = "decide", !.row = drow])
       ELSE Returns(p)
    /\ Set(clean, p, TRUE)

(* Mutant: a descriptor counts as changed only when its revision moved. *)
RevisionMoved(r, p) == r.rev # loaded[p]

(* A drop and a redefinition between two passes restart the revision at 1. *)
RowMoved(r, p) == r.rev # loaded[p] \/ reg[p] # {r.cols}

(* The rows are read: the type is removed, left alone, registered or replaced. *)
LoadGone(p) ==
    /\ At(p, "load") /\ drow = {} /\ Works
    /\ IF Owned(p)
       THEN Set(reg, p, {}) /\ Set(guarded, p, FALSE) /\ Set(loaded, p, 0)
       ELSE UNCHANGED <<reg, guarded, loaded>>
    /\ Synced(p)
    /\ UNCHANGED <<drow, table, coded, astray>>

LoadKnown(p) ==
    /\ At(p, "load") /\ reg[p] # {} /\ Works
    /\ \E r \in drow : ~ Owned(p) \/ ~ RowMoved(r, p)
    /\ Synced(p)
    /\ UNCHANGED <<drow, table, reg, loaded, guarded, coded, astray>>

LoadRow(p) ==
    /\ At(p, "load") /\ Works
    /\ \E r \in drow :
        /\ reg[p] = {} \/ (Owned(p) /\ RowMoved(r, p))
        /\ Set(reg, p, {r.cols})
        /\ Set(job, p, [job[p] EXCEPT !.at = "ensureRow", !.row = {r}, !.prev = reg[p]])
    /\ UNCHANGED <<drow, table, loaded, guarded, coded, clean, astray>>

(* The table is ensured, guarded, and the revision remembered. *)
EnsureRow(p) ==
    /\ At(p, "ensureRow") /\ Works
    /\ \E r \in job[p].row : table' = Ensured(r.cols) /\ Set(loaded, p, r.rev)
    /\ Set(guarded, p, TRUE)
    /\ job' = [job EXCEPT ![p] = IF job[p].op = "define" THEN [@ EXCEPT !.at = "decide"] ELSE Idle]
    /\ Set(clean, p, job[p].row = drow)
    /\ UNCHANGED <<drow, reg, coded, astray>>

(* The row is skipped until the next pass, and blocks a define. *)
EnsureRowFails(p) ==
    /\ At(p, "ensureRow") /\ Fails
    /\ Set(reg, p, job[p].prev)
    /\ Set(loaded, p, IF job[p].prev = {} THEN 0 ELSE loaded[p])
    /\ Returns(p)
    /\ UNCHANGED <<drow, table, guarded, coded, clean, astray>>

(* Open fails with its sync and is tried again. *)
LoadFails(p) ==
    /\ At(p, "load") /\ Fails
    /\ Set(job, p, IF job[p].op = "open" THEN Opening ELSE Idle)
    /\ UNCHANGED <<drow, table, reg, loaded, guarded, coded, clean, astray>>

-----------------------------------------------------------------------------
(* DefineDynamic and AlterDynamic.                                            *)

(* The field row notes, for the property, the row the call found. *)
Define(p, s) ==
    /\ Called(p)
    /\ Set(job, p, [Idle EXCEPT !.op = "define", !.spec = s, !.row = drow,
                                !.at = IF reg[p] = {} THEN "load" ELSE "decide"])
    /\ Set(clean, p, FALSE)
    /\ UNCHANGED <<drow, table, reg, loaded, guarded, coded, astray>>

(* alterDynamic swaps the spec in before the table is ensured. *)
AlterInto(p, s) ==
    /\ reg[p] # {}
    /\ Set(reg, p, {s})
    /\ Set(job, p, [Idle EXCEPT !.op = "alter", !.at = "ensure", !.spec = s, !.prev = reg[p]])

(* An equal spec is a success, a registered type this process owns may only   *)
(* grow, any other is registered twice; a new name is registered.             *)
Decide(p) ==
    LET s == job[p].spec
        grows == Owned(p) /\ \E cur \in reg[p] : cur \subseteq s /\ cur # s
    IN
    /\ At(p, "decide") /\ Works
    /\ \/ reg[p] # {} /\ ~ grows /\ Returns(p) /\ UNCHANGED reg
       \/ grows /\ AlterInto(p, s)
       \/ reg[p] = {} /\ Set(reg, p, {s}) /\ Goto(p, "ensure")
    /\ Set(clean, p, FALSE)
    /\ UNCHANGED <<drow, table, loaded, guarded, coded, astray>>

Alter(p, s) ==
    /\ Called(p)
    /\ AlterInto(p, s)
    /\ Set(clean, p, FALSE)
    /\ UNCHANGED <<drow, table, loaded, guarded, coded, astray>>

(* Only a type this process persisted or loaded owns its row. *)
Persists(p) == job[p].op = "define" \/ Owned(p)

Ensure(p) ==
    /\ At(p, "ensure") /\ Works
    /\ table' = Ensured(job[p].spec)
    /\ IF Persists(p) THEN Goto(p, "save") ELSE Returns(p)
    /\ UNCHANGED <<drow, reg, loaded, guarded, coded, clean, astray>>

EnsureFails(p) ==
    /\ At(p, "ensure") /\ Fails
    /\ Set(reg, p, job[p].prev)
    /\ Returns(p)
    /\ UNCHANGED <<drow, table, loaded, guarded, coded, clean, astray>>

-----------------------------------------------------------------------------
(* SaveDynamicSpec: an upsert, and a second query when nothing changed.       *)

SaveDone(p, rev) ==
    /\ Set(loaded, p, rev)
    /\ Set(guarded, p, guarded[p] \/ job[p].op = "define")
    /\ Returns(p)

(* Only a define takes its registration back. *)
SaveError(p) ==
    /\ Set(reg, p, IF job[p].op = "define" THEN {} ELSE reg[p])
    /\ Returns(p)

Save(p) ==
    LET s == job[p].spec IN
    /\ At(p, "save") /\ ~ Holds(s) /\ Works
    /\ SetRow(Saved(s))
    /\ \E r \in Saved(s) : SaveDone(p, r.rev)
    /\ UNCHANGED <<table, reg, coded, astray>>

SaveUnchanged(p) ==
    /\ At(p, "save") /\ Holds(job[p].spec) /\ Works
    /\ Goto(p, "reread")
    /\ UNCHANGED <<drow, table, reg, loaded, guarded, coded, clean, astray>>

Reread(p) ==
    /\ At(p, "reread") /\ Works
    /\ \/ \E r \in drow : SaveDone(p, r.rev) /\ UNCHANGED reg
       \/ drow = {} /\ SaveError(p) /\ UNCHANGED <<loaded, guarded>>
    /\ UNCHANGED <<drow, table, coded, clean, astray>>

(* The upsert fails, or its answer is lost after it committed. *)
SaveFails(p) ==
    LET s == job[p].spec IN
    /\ At(p, "save") /\ Fails
    /\ \/ ~ Holds(s) /\ SetRow(Saved(s)) /\ UNCHANGED astray
       \/ UNCHANGED <<drow, clean>> /\ astray' = (astray \/ (job[p].op = "column"))
    /\ SaveError(p)
    /\ UNCHANGED <<table, loaded, guarded, coded>>

-----------------------------------------------------------------------------
(* DropDynamic: the row first, then the table.                                *)

(* As in Define, the field row notes the row the call found. *)
Drop(p) ==
    /\ Called(p) /\ reg[p] # {}
    /\ \E s \in reg[p] : Set(job, p, [Idle EXCEPT !.op = "drop", !.spec = s, !.row = drow,
                                                  !.at = IF Owned(p) THEN "delete" ELSE "dropTable"])
    /\ Set(clean, p, FALSE)
    /\ UNCHANGED <<drow, table, reg, loaded, guarded, coded, astray>>

DeleteRow(p) ==
    /\ At(p, "delete") /\ Works
    /\ SetRow({})
    /\ Goto(p, "dropTable")
    /\ UNCHANGED <<table, reg, loaded, guarded, coded, astray>>

DeleteRowFails(p) ==
    /\ At(p, "delete") /\ Fails
    /\ SetRow({}) \/ UNCHANGED <<drow, clean>>
    /\ Returns(p)
    /\ UNCHANGED <<table, reg, loaded, guarded, coded, astray>>

DropTable(p) ==
    /\ At(p, "dropTable") /\ Works
    /\ table' = {}
    /\ Set(guarded, p, FALSE) /\ Set(loaded, p, 0) /\ Set(reg, p, {}) /\ Set(coded, p, FALSE)
    /\ Returns(p)
    /\ UNCHANGED <<drow, clean, astray>>

(* The spec is saved again; a failure of that is ignored. *)
DropTableFails(p) ==
    /\ At(p, "dropTable") /\ Fails
    /\ IF Owned(p) THEN Goto(p, "save") ELSE Returns(p)
    /\ astray' = (astray \/ (Owned(p) /\ job[p].row # {[cols |-> job[p].spec, rev |-> loaded[p]]}))
    /\ UNCHANGED <<drow, table, reg, loaded, guarded, coded, clean>>

-----------------------------------------------------------------------------
(* RenameDynamicField and DropDynamicField: the DDL, then replaceAndPersist.  *)

Stale(p) == {[cols |-> s, rev |-> loaded[p]] : s \in reg[p]} # drow

ReplaceAndPersist(p, next) ==
    /\ Set(reg, p, {next})
    /\ job' = [job EXCEPT ![p] = IF Owned(p) THEN [Idle EXCEPT !.op = "column", !.at = "save", !.spec = next]
                                             ELSE Idle]

(* Postgres refuses a missing column or a taken name; the registry refuses a  *)
(* spec that would name a column twice, after the DDL ran.                    *)
RenameField(p, old, new) ==
    /\ Called(p)
    /\ \E cols \in table, s \in reg[p] :
        /\ old \in cols /\ new \notin cols
        /\ table' = {(cols \ {old}) \cup {new}}
        /\ IF {old, new} \subseteq s THEN UNCHANGED <<reg, job>>
           ELSE ReplaceAndPersist(p, IF old \in s THEN (s \ {old}) \cup {new} ELSE s)
        /\ astray' = (astray \/ Stale(p) \/ {old, new} \subseteq s)
    /\ Set(clean, p, FALSE)
    /\ UNCHANGED <<drow, loaded, guarded, coded>>

DropField(p, col) ==
    /\ Called(p)
    /\ \E cols \in table, s \in reg[p] :
        /\ table' = {cols \ {col}}
        /\ ReplaceAndPersist(p, s \ {col})
    /\ astray' = (astray \/ Stale(p))
    /\ Set(clean, p, FALSE)
    /\ UNCHANGED <<drow, loaded, guarded, coded>>

-----------------------------------------------------------------------------
(* The process dies, loses its registry, and opens again. *)
Restart(p) ==
    /\ made.crashes < dsetup.crashes
    /\ made' = [made EXCEPT !.crashes = @ + 1]
    /\ Set(job, p, Opening)
    /\ Set(coded, p, p \in dsetup.code)
    /\ Set(reg, p, IF p \in dsetup.code THEN {CodeSpec} ELSE {})
    /\ Set(guarded, p, p \in dsetup.code)
    /\ Set(loaded, p, 0)
    /\ Set(clean, p, FALSE)
    /\ astray' = (astray \/ (job[p].op = "column"))
    /\ UNCHANGED <<drow, table>>

ProcStep(p) ==
    \/ SyncTick(p) \/ LoadGone(p) \/ LoadKnown(p) \/ LoadRow(p) \/ EnsureRow(p)
    \/ EnsureRowFails(p) \/ LoadFails(p)
    \/ \E s \in Specs : Define(p, s) \/ Alter(p, s)
    \/ Decide(p) \/ Ensure(p) \/ EnsureFails(p)
    \/ Save(p) \/ SaveUnchanged(p) \/ Reread(p) \/ SaveFails(p)
    \/ Drop(p) \/ DeleteRow(p) \/ DeleteRowFails(p) \/ DropTable(p) \/ DropTableFails(p)
    \/ \E c, d \in Columns : RenameField(p, c, d)
    \/ \E c \in Columns : DropField(p, c)
    \/ Restart(p)

Crossing ==
    \E p, q \in Procs :
        /\ p # q
        /\ job[p].op \in {"drop", "column"}
        /\ job[q].op \in {"define", "alter", "drop", "column"}

DynNext ==
    /\ \E p \in Procs : ProcStep(p)
    /\ crossed' = (crossed \/ Crossing')
    /\ UNCHANGED dsetup

DynSpec == DynInit /\ [][DynNext]_dynVars

-----------------------------------------------------------------------------
(* Every variable has its type; a remembered revision belongs to a registered *)
(* type.                                                                      *)
DynTypeOK ==
    /\ drow \in SUBSET [cols : Specs, rev : Nat \ {0}] /\ AtMostOne(drow)
    /\ table \in SUBSET Specs /\ AtMostOne(table)
    /\ \A p \in Procs :
        /\ reg[p] \in SUBSET Specs /\ AtMostOne(reg[p])
        /\ loaded[p] \in Nat
        /\ Owned(p) => reg[p] # {}
        /\ guarded[p] \in BOOLEAN /\ coded[p] \in BOOLEAN /\ clean[p] \in BOOLEAN
        /\ job[p].op \in {"idle", "open", "sync", "define", "alter", "drop", "column"}
    /\ astray \in BOOLEAN /\ crossed \in BOOLEAN

(* Instances converge (fabriq_dynamic_persist.go SyncPersistedDynamic): when  *)
(* a process has synced since the row last changed, and called nothing since, *)
(* its registry holds the row's spec at the row's revision, or no such type.  *)
(* A type it registered in code is left alone.                                *)
SyncedAgree ==
    \A p \in Procs : job[p] = Idle /\ clean[p] /\ ~ coded[p] =>
        {[cols |-> s, rev |-> loaded[p]] : s \in reg[p]} = drow

(* A row never promises a column that the table lacks, so that it cannot      *)
(* bring a type back without its data (fabriq_dynamic.go dropDynamic): not    *)
(* after a crash between two statements, a failed or an ambiguous save, or a  *)
(* sync in another process.  Two changes at once, one of them destructive,    *)
(* may break it, and so may a change of a column from a stale spec or with a  *)
(* lost save, or a stale spec that a failed drop saves again; the type is not *)
(* registered in code.                                                        *)
RowHasTable ==
    dsetup.code = {} /\ ~ astray /\ ~ crossed /\ ~ (\E p \in Procs : job[p].op = "column") =>
        \A r \in drow : \E cols \in table : r.cols \subseteq cols

(* A type registered in code never writes or deletes a row, which may be      *)
(* another instance's (fabriq_dynamic.go alterDynamic, dropDynamic,           *)
(* replaceAndPersist).                                                        *)
CodeTypesWriteNoRow ==
    [][\A p \in Procs : coded[p] /\ job'[p] # job[p] => drow' = drow]_dynVars

(* Between calls the tenant backstop guards the table exactly while the type  *)
(* is registered, whatever failed (AddGuardedTable, RemoveGuardedTable).      *)
GuardFollowsRegistry ==
    \A p \in Procs : job[p] = Idle => guarded[p] = (reg[p] # {})

(* Dynamic types (fabriq_dynamic.go, fabriq_dynamic_persist.go), in one: a    *)
(* synced registry agrees with the descriptor rows, a row's columns are in    *)
(* its table, and the backstop guards the tables of the registered types.     *)
TypesAgree == DynTypeOK /\ SyncedAgree /\ RowHasTable /\ GuardFollowsRegistry

(* A define overwrites no row that was there when it looked (fabriq_dynamic.go*)
(* defineDynamicSynced). It looks before it makes the table and saves: a row  *)
(* another instance saved in between is overwritten (Save, and :74 and :108), *)
(* against "leaving the other instance's row alone" (:60).                    *)
DefineRespectsRow ==
    [][\A p \in Procs : job[p].op = "define" /\ job'[p] # job[p] /\ drow' # drow /\ drow # {} =>
        drow # job[p].row]_dynVars
=============================================================================
