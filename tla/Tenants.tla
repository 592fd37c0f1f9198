------------------------------- MODULE Tenants ------------------------------
(* The tenant control plane (core/provision, core/catalog, adapters/postgres *)
(* catalog.go and provision.go): the catalog row with its compare-and-swap   *)
(* token, provisioning calls that race, crash and are run again, Suspend and *)
(* Resume, and the fleet migration roller.  Schema-per-tenant provisioning   *)
(* (schema.go) takes the same steps with a schema in place of a database.    *)
EXTENDS Naturals, Sequences, FiniteSets, FiniteSetsExt

CONSTANTS
    Clusters,        \* Postgres clusters
    Callers,         \* concurrent Provision calls
    Operators,       \* concurrent Suspend and Resume calls
    TenantSetups     \* [rows, place, calls, faults, converge, orders, upgrades, rolls, batch, budget, target]

VARIABLES
    tsetup,     \* what may still happen
    row,        \* tenant: its catalog row, or NoRow
    db,         \* tenant: cluster: version of its database there, NoDb without one
    head,       \* migration head of the binaries started from now on
    prov,       \* caller: a Provision call
    oper,       \* operator: a Suspend or Resume call
    roll,       \* the fleet roller
    tenOdd      \* history: tenants suspended before their first activation

tenVars == <<tsetup, row, db, head, prov, oper, roll, tenOdd>>

Tenants == DOMAIN row
NoDb == 0
Unversioned == 1     \* an empty database; migration heads are greater
NoRow == [cluster |-> "", state |-> "", ver |-> 0, tok |-> 0]
Provisioned == [cluster : Clusters, state : {"active"}, ver : Nat \ {NoDb, Unversioned}, tok : Nat \ {0}]

SetupOf(rows) ==
    [rows : {rows}, place : [Callers -> Clusters], calls : [Callers -> Nat], faults : Nat,
     converge : BOOLEAN, orders : Nat, upgrades : Nat, rolls : Nat,
     batch : Nat \ {0}, budget : Nat \ {0}, target : BOOLEAN]

(* Calls are bound to end with an active tenant when nobody suspends it and  *)
(* nothing fails, or when one caller tries more often than things fail.      *)
BoundToConverge(s) ==
    /\ s.orders = 0
    /\ \/ s.faults = 0
       \/ /\ \A t, u \in DOMAIN s.rows : t = u
          /\ \E p \in Callers : s.calls[p] > s.faults /\ \A q \in Callers \ {p} : s.calls[q] = 0

ASSUME TenantsAssumption ==
    /\ "" \notin Clusters
    /\ \A s \in TenantSetups :
          /\ s \in SetupOf(s.rows) /\ \A t \in DOMAIN s.rows : s.rows[t] \in Provisioned \cup {NoRow}
          /\ s.converge => BoundToConverge(s)
IdleCall == [pc |-> "idle", t |-> 0, entry |-> NoRow, bin |-> 0]
IdleOrder == [pc |-> "idle", t |-> 0, to |-> "", entry |-> NoRow]
IdleRoll == [pc |-> "idle", bin |-> 0, list |-> {}, flying |-> {}, failed |-> 0, done |-> {}]

(* A row of the setup is a provisioned tenant's, or missing. *)
TenInit ==
    /\ tsetup \in TenantSetups
    /\ row = [t \in DOMAIN tsetup.rows |-> tsetup.rows[t]]
    /\ db = [t \in DOMAIN tsetup.rows |-> [c \in Clusters |->
                IF tsetup.rows[t].cluster = c THEN tsetup.rows[t].ver ELSE NoDb]]
    /\ head = 2
    /\ prov = [p \in Callers |-> IdleCall]
    /\ oper = [o \in Operators |-> IdleOrder]
    /\ roll = IdleRoll
    /\ tenOdd = {}

-----------------------------------------------------------------------------
(* Mutant: an update is not conditional on the token. *)
PutOkBlind(t, e) == e.tok # 0 \/ row[t] = NoRow

(* CatalogStore.Put: create when the token is zero, else update where the    *)
(* stored token is the entry's.                                              *)
PutOk(t, e) == row[t].tok = e.tok
Stamped(e) == [e EXCEPT !.tok = @ + 1]
Put(t, e) == row' = IF PutOk(t, e) THEN [row EXCEPT ![t] = Stamped(e)] ELSE row

Fault == tsetup.faults > 0 /\ tsetup' = [tsetup EXCEPT !.faults = @ - 1]

-----------------------------------------------------------------------------
(* Provision *)

(* Mutant: a failed tenant is left alone. *)
ResumableNotFailed(state) == state \notin {"active", "suspended", "failed"}

(* A state from which Provision goes on. *)
Resumable(state) == state \notin {"active", "suspended"}

(* Provision reads the row: it returns at once for an active, a suspended or *)
(* an otherwise placed tenant.                                               *)
ProvisionGet(p, t) ==
    /\ prov[p].pc = "idle" /\ tsetup.calls[p] > 0
    /\ tsetup' = [tsetup EXCEPT !.calls[p] = IF row[t].state = "active" THEN 0 ELSE @ - 1]
    /\ prov' = [prov EXCEPT ![p] =
          IF row[t] = NoRow
          THEN [pc |-> "insert", t |-> t, entry |-> [NoRow EXCEPT !.cluster = tsetup.place[p], !.state = "pending"], bin |-> head]
          ELSE IF row[t].cluster = tsetup.place[p] /\ Resumable(row[t].state)
          THEN [pc |-> "begin", t |-> t, entry |-> row[t], bin |-> head]
          ELSE IdleCall]
    /\ UNCHANGED <<row, db, head, oper, roll, tenOdd>>

ProvisionInsert(p) ==
    /\ prov[p].pc = "insert"
    /\ Put(prov[p].t, prov[p].entry)
    /\ prov' = [prov EXCEPT ![p] = IF PutOk(@.t, @.entry)
                                   THEN [@ EXCEPT !.pc = "begin", !.entry = Stamped(prov[p].entry)] ELSE IdleCall]
    /\ UNCHANGED <<tsetup, db, head, oper, roll, tenOdd>>

(* transition: advance the row to a state, or return the lost race. *)
transition(p, from, to, state) ==
    /\ prov[p].pc = from
    /\ LET e == [prov[p].entry EXCEPT !.state = state]
       IN /\ Put(prov[p].t, e)
          /\ prov' = [prov EXCEPT ![p] = IF PutOk(@.t, e) /\ to # "idle"
                                         THEN [@ EXCEPT !.pc = to, !.entry = Stamped(e)] ELSE IdleCall]

ToCreating(p) ==
    /\ transition(p, "begin", "create", "creating")
    /\ UNCHANGED <<tsetup, db, head, oper, roll, tenOdd>>

(* CREATE DATABASE, or success when it exists. *)
CreateDatabase(p) ==
    /\ prov[p].pc = "create"
    /\ db' = [db EXCEPT ![prov[p].t][prov[p].entry.cluster] = IF @ = NoDb THEN Unversioned ELSE @]
    /\ prov' = [prov EXCEPT ![p].pc = "created"]
    /\ UNCHANGED <<tsetup, row, head, oper, roll, tenOdd>>

ToMigrating(p) ==
    /\ transition(p, "created", "migrate", "migrating")
    /\ UNCHANGED <<tsetup, db, head, oper, roll, tenOdd>>

(* The chain brings the database to the binary's head, never below what it   *)
(* already is, and the binary's head is what the call records.               *)
MigratedTo(t, c, bin) == db' = [db EXCEPT ![t][c] = Max({@, bin})]

Migrate(p) ==
    /\ prov[p].pc = "migrate"
    /\ MigratedTo(prov[p].t, prov[p].entry.cluster, prov[p].bin)
    /\ prov' = [prov EXCEPT ![p].pc = "migrated", ![p].entry.ver = prov[p].bin]
    /\ UNCHANGED <<tsetup, row, head, oper, roll, tenOdd>>

(* The last transition.  A call that succeeded is not made again. *)
ToActive(p) ==
    /\ transition(p, "migrated", "idle", "active")
    /\ tsetup' = [tsetup EXCEPT !.calls[p] =
                     IF PutOk(prov[p].t, prov[p].entry) THEN 0 ELSE @]
    /\ UNCHANGED <<db, head, oper, roll, tenOdd>>

(* A physical step fails: the row is marked, if the token is still ours. *)
failEntry(p) ==
    /\ prov[p].pc \in {"create", "migrate"} /\ Fault
    /\ Put(prov[p].t, [prov[p].entry EXCEPT !.state = "failed"])
    /\ prov' = [prov EXCEPT ![p] = IdleCall]
    /\ UNCHANGED <<db, head, oper, roll, tenOdd>>

(* The process dies, or a catalog call fails, between two steps. *)
Crash(p) ==
    /\ prov[p].pc # "idle" /\ Fault
    /\ prov' = [prov EXCEPT ![p] = IdleCall]
    /\ UNCHANGED <<row, db, head, oper, roll, tenOdd>>

-----------------------------------------------------------------------------
(* Suspend and Resume: read the row, then put it. *)

Suspend(o, t) ==
    /\ oper[o].pc = "idle" /\ tsetup.orders > 0 /\ row[t] # NoRow
    /\ oper' = [oper EXCEPT ![o] = [pc |-> "put", t |-> t, to |-> "suspended", entry |-> row[t]]]
    /\ tsetup' = [tsetup EXCEPT !.orders = @ - 1]
    /\ UNCHANGED <<row, db, head, prov, roll, tenOdd>>

Resume(o, t) ==
    /\ oper[o].pc = "idle" /\ tsetup.orders > 0 /\ row[t].state = "suspended"
    /\ oper' = [oper EXCEPT ![o] = [pc |-> "put", t |-> t, to |-> "active", entry |-> row[t]]]
    /\ tsetup' = [tsetup EXCEPT !.orders = @ - 1]
    /\ UNCHANGED <<row, db, head, prov, roll, tenOdd>>

OrderPut(o) ==
    /\ oper[o].pc = "put"
    /\ LET t == oper[o].t
           e == [oper[o].entry EXCEPT !.state = oper[o].to]
       IN /\ Put(t, e)
          /\ tenOdd' = tenOdd \cup {u \in {t} : PutOk(t, e) /\ e.state = "suspended" /\ e.ver = 0}
    /\ oper' = [oper EXCEPT ![o] = IdleOrder]
    /\ UNCHANGED <<tsetup, db, head, prov, roll>>

-----------------------------------------------------------------------------
(* MigrateAll *)

(* A release: binaries started from now on carry a longer chain. *)
Upgrade ==
    /\ tsetup.upgrades > 0
    /\ tsetup' = [tsetup EXCEPT !.upgrades = @ - 1] /\ head' = head + 1
    /\ UNCHANGED <<row, db, prov, oper, roll, tenOdd>>

(* List the catalog.  Only active tenants that are not recorded at the       *)
(* target version are rolled.                                                *)
RollList ==
    /\ roll.pc = "idle" /\ tsetup.rolls > 0
    /\ LET due == {t \in Tenants : row[t].state = "active" /\ ~ (tsetup.target /\ row[t].ver = head)}
       IN roll' = [IdleRoll EXCEPT !.pc = "next", !.bin = head,
                                   !.list = {[t |-> t, entry |-> row[t]] : t \in due}]
    /\ tsetup' = [tsetup EXCEPT !.rolls = @ - 1]
    /\ UNCHANGED <<row, db, head, prov, oper, tenOdd>>

(* The budget is looked at before the roller waits for a slot. *)
RollNext ==
    /\ roll.pc = "next" /\ roll.list # {}
    /\ roll' = IF roll.failed >= tsetup.budget THEN [roll EXCEPT !.list = {}] ELSE [roll EXCEPT !.pc = "slot"]
    /\ UNCHANGED <<tsetup, row, db, head, prov, oper, tenOdd>>

(* Tenants are rolled in the order of the catalog. *)
RollLaunch ==
    /\ roll.pc = "slot" /\ Cardinality(roll.flying) < tsetup.batch
    /\ \E x \in roll.list :
          /\ \A y \in roll.list : x.t <= y.t
          /\ roll' = [roll EXCEPT !.pc = "next", !.list = @ \ {x},
                                  !.flying = @ \cup {[t |-> x.t, entry |-> x.entry, ran |-> FALSE]}]
    /\ UNCHANGED <<tsetup, row, db, head, prov, oper, tenOdd>>

(* One tenant's migration; a database that does not exist does not dial. *)
RollMigrate(f) ==
    /\ f \in roll.flying /\ ~ f.ran /\ db[f.t][f.entry.cluster] # NoDb
    /\ MigratedTo(f.t, f.entry.cluster, roll.bin)
    /\ roll' = [roll EXCEPT !.flying = (@ \ {f}) \cup {[f EXCEPT !.ran = TRUE, !.entry.ver = roll.bin]}]
    /\ UNCHANGED <<tsetup, row, head, prov, oper, tenOdd>>

RollFails(f) ==
    /\ f \in roll.flying /\ ~ f.ran
    /\ \/ Fault
       \/ db[f.t][f.entry.cluster] = NoDb /\ UNCHANGED tsetup
    /\ roll' = [roll EXCEPT !.flying = @ \ {f}, !.failed = @ + 1]
    /\ UNCHANGED <<row, db, head, prov, oper, tenOdd>>

(* Report the tenant as migrated and put the version; a lost race is ignored.*)
RollRecord(f) ==
    /\ f \in roll.flying /\ f.ran
    /\ Put(f.t, f.entry)
    /\ roll' = [roll EXCEPT !.flying = @ \ {f}, !.done = @ \cup {f.t}]
    /\ UNCHANGED <<tsetup, db, head, prov, oper, tenOdd>>

RollEnds ==
    /\ roll.pc = "next" /\ roll.list = {} /\ roll.flying = {}
    /\ roll' = [roll EXCEPT !.pc = "idle"]
    /\ UNCHANGED <<tsetup, row, db, head, prov, oper, tenOdd>>

TenNext ==
    \/ \E p \in Callers : \/ \E t \in Tenants : ProvisionGet(p, t)
                          \/ ProvisionInsert(p) \/ ToCreating(p) \/ CreateDatabase(p)
                          \/ ToMigrating(p) \/ Migrate(p) \/ ToActive(p) \/ failEntry(p) \/ Crash(p)
    \/ \E o \in Operators : OrderPut(o) \/ \E t \in Tenants : Suspend(o, t) \/ Resume(o, t)
    \/ Upgrade \/ RollList \/ RollNext \/ RollLaunch \/ RollEnds
    \/ \E f \in roll.flying : RollMigrate(f) \/ RollFails(f) \/ RollRecord(f)

TenSpec == TenInit /\ [][TenNext]_tenVars

-----------------------------------------------------------------------------
(* Every variable has its type. *)
TenTypeOK ==
    /\ \A t \in Tenants :
          /\ row[t].state \in {"", "pending", "creating", "migrating", "active", "suspended", "failed"}
          /\ row[t] = NoRow <=> row[t].tok = 0
          /\ \A c \in Clusters : db[t][c] \in Nat
    /\ \A p \in Callers : prov[p].pc \in {"idle", "insert", "begin", "create", "created", "migrate", "migrated"}
    /\ roll.pc \in {"idle", "next", "slot"} /\ Cardinality(roll.flying) <= tsetup.batch
    /\ tenOdd \subseteq Tenants

(* A routable tenant has a migrated database, and the recorded version is    *)
(* never ahead of the one applied (provision.go Provision, fleetMigrate),    *)
(* unless the tenant was suspended before it was first active.               *)
ActiveIsMigrated ==
    \A t \in Tenants : row[t] # NoRow =>
        /\ row[t].ver <= db[t][row[t].cluster]
        /\ row[t].state = "active" /\ t \notin tenOdd => row[t].ver > Unversioned

(* As ActiveIsMigrated, for every tenant (catalog.go StateActive). *)
RoutableIsMigrated ==
    \A t \in Tenants : row[t].state = "active" => row[t].ver > Unversioned

(* Racing calls for two clusters create one database, on the cluster the     *)
(* row names (provision.go Provision, catalog.go Put).                       *)
PlacedOnce ==
    \A t \in Tenants, c \in Clusters : db[t][c] # NoDb => row[t].cluster = c

(* Only Resume ends a suspension: no call that read the row before it was    *)
(* suspended, provisioning or rolling, makes the tenant routable again       *)
(* (provision.go transitionEntry, catalog.go Put).                           *)
SuspensionHolds ==
    [][\A t \in Tenants : row[t].state = "suspended" /\ row'[t].state # "suspended" =>
          \E o \in Operators : oper[o].pc = "put" /\ oper[o].t = t /\ oper[o].to = "active"]_tenVars

(* When every Provision call is over the tenants they were for are active:   *)
(* of racing calls one always finishes, and a call that runs after crashes   *)
(* resumes what they left (provision.go Provision).                          *)
CallsConverge ==
    (/\ \A p \in Callers : prov[p].pc = "idle" /\ tsetup.calls[p] = 0
     /\ tsetup.converge)
    => \A t \in Tenants : row[t] # NoRow => row[t].state = "active"

(* The roll stops at its failure budget: only the calls in flight and the    *)
(* one waiting for a slot can add to it (provision.go fleetMigrate).         *)
RollBudget == roll.failed <= tsetup.budget + tsetup.batch

(* Provisioning (provision.go, catalog.go Put), in one: a routable tenant    *)
(* has a migrated database, racing calls create one database, calls that     *)
(* race or crash end with an active tenant, and a roll stops at its budget.  *)
TenantsPlaced == TenTypeOK /\ ActiveIsMigrated /\ PlacedOnce /\ CallsConverge /\ RollBudget

(* A tenant the roll reports as migrated is recorded at that version or at a *)
(* fresher one when the roll is over (provision.go fleetMigrate).            *)
RollRecorded ==
    roll.pc = "idle" => \A t \in roll.done : row[t].ver >= roll.bin
=============================================================================
