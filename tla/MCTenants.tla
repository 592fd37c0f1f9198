------------------------------ MODULE MCTenants -----------------------------
(* Instances of the components of catalog mode, and of dynamic types, for    *)
(* TLC.  A behaviour is about one of them, its focus; the others stay.       *)
EXTENDS Tenants, Directory, Sweep, DynamicTypes

CONSTANTS
    Focuses,                            \* subset of {"tenants", "directory", "pool", "sweep", "dynamic"}
    PoolShards, Clients, PoolSetups     \* ShardPool

VARIABLES
    focus,
    psetup, entries, lru, pcap, ctr, auto, conns, cl, poolOdd

-----------------------------------------------------------------------------
(* Provisioning calls that race for one cluster or for two, that crash and   *)
(* are run again, and that race Suspend and Resume; rolls over four tenants  *)
(* that fail, and over two in batches with Suspend and Resume.               *)
RowAt(v) == [cluster |-> "c", state |-> "active", ver |-> v, tok |-> 1]
Onboarding(place, times, faults, orders) ==
    [rows |-> <<NoRow>>, place |-> place, calls |-> times, faults |-> faults, converge |-> orders = 0,
     orders |-> orders, upgrades |-> 0, rolls |-> 0, batch |-> 1, budget |-> 1, target |-> FALSE]
Rolling(rows, faults, orders, rolls, batch, target) ==
    [rows |-> rows, place |-> <<"c", "c">>, calls |-> <<0, 0>>, faults |-> faults, converge |-> FALSE,
     orders |-> orders, upgrades |-> 1, rolls |-> rolls, batch |-> batch, budget |-> 1, target |-> target]
Onboardings ==
    { Onboarding(<<"c", "c">>, <<2, 2>>, 0, 0),
      Onboarding(<<"c", "d">>, <<2, 1>>, 0, 0),
      Onboarding(<<"c", "c">>, <<3, 0>>, 2, 0),
      Onboarding(<<"c", "c">>, <<2, 1>>, 0, 2),
      Rolling(<<RowAt(2), RowAt(2), RowAt(2), RowAt(3)>>, 3, 0, 1, 1, TRUE),
      Rolling(<<RowAt(2), RowAt(2)>>, 0, 2, 2, 2, FALSE) }

(* A pool of two shards; of one, with a failing dial, that may be closed     *)
(* under its users; one the autoscaler moves between one and two.            *)
Auto(min, max, budget) ==
    [min |-> min, max |-> max, conns |-> budget, perShard |-> 4, missHigh |-> 20, evictHigh |-> 10, fillLow |-> 75,
     utilLow |-> 50, growPct |-> 150, step |-> 1, confirm |-> 1, cooldown |-> 1]
Pool(ops, faults, ticks, closes, a) ==
    [ops |-> ops, faults |-> faults, ticks |-> ticks, closes |-> closes, auto |-> a]
Pools ==
    { Pool(3, 0, 0, 0, Auto(2, 2, 0)),
      Pool(3, 1, 0, 1, Auto(1, 1, 0)),
      Pool(2, 0, 4, 0, Auto(1, 3, 8)) }

(* Writes and wakes with a failing sweep; a catalog that changes and fails.  *)
Sweeping(writes, wakes, changes, faults, outages) ==
    [running |-> TRUE, writes |-> writes, wakes |-> wakes, changes |-> changes, faults |-> faults, outages |-> outages]
NoEngine == [Sweeping(0, 0, 0, 0, 0) EXCEPT !.running = FALSE]
Sweepings == { NoEngine, Sweeping(2, 2, 0, 1, 0), Sweeping(1, 1, 1, 0, 1) }

(* A persisted type that two processes change while one of them restarts; a  *)
(* new one, with a failing statement; one that a process registers in code.  *)
Evolving(rows, code, times, faults, crashes) ==
    [row |-> rows, code |-> code, calls |-> times, faults |-> faults, crashes |-> crashes]
Evolvings ==
    { Evolving({[cols |-> {"a"}, rev |-> 1]}, {}, <<2, 1>>, 0, 1),
      Evolving({}, {}, <<1, 1>>, 1, 0),
      Evolving({}, {1}, <<2, 1>>, 0, 0) }

-----------------------------------------------------------------------------
P == INSTANCE ShardPool

poolVars == <<psetup, entries, lru, pcap, ctr, auto, conns, cl, poolOdd>>
vars == <<focus, tenVars, dirVars, poolVars, sweepVars, dynVars>>

Some(X) == CHOOSE x \in X : TRUE

Init ==
    /\ focus \in Focuses
    /\ TenInit /\ (focus # "tenants" => tsetup = Some(TenantSetups))
    /\ DirInit /\ (focus # "directory" => hist[1].row = "current" /\ 0 \in reach)
    /\ P!PoolInit /\ (focus # "pool" => psetup = Some(PoolSetups))
    /\ SweepInit /\ (focus # "sweep" => ~ ssetup.running)
    /\ DynInit /\ (focus # "dynamic" => dsetup = Some(DynSetups))

TenantsStep == focus = "tenants" /\ TenNext /\ UNCHANGED <<focus, dirVars, poolVars, sweepVars, dynVars>>
DirectoryStep == focus = "directory" /\ DirNext /\ UNCHANGED <<focus, tenVars, poolVars, sweepVars, dynVars>>
PoolStep == focus = "pool" /\ P!PoolNext /\ UNCHANGED <<focus, tenVars, dirVars, sweepVars, dynVars>>
SweepStep == focus = "sweep" /\ SweepNext /\ UNCHANGED <<focus, tenVars, dirVars, poolVars, dynVars>>
DynamicStep == focus = "dynamic" /\ DynNext /\ UNCHANGED <<focus, tenVars, dirVars, poolVars, sweepVars>>

Next == TenantsStep \/ DirectoryStep \/ PoolStep \/ SweepStep \/ DynamicStep

Spec == Init /\ [][Next]_vars

-----------------------------------------------------------------------------
(* The other properties are the components' own: TenantsPlaced, AnswersAreFresh, WokenIsSwept *)
(* and TypesAgree.                                                                           *)

(* The pool (provider.go, autoscaler.go): a held shard is open, a shard's references are its *)
(* holders, an open stack is in the map, and the pool stays within its cap and budget.       *)
PoolAccounted == P!PoolTypeOK /\ P!HeldIsOpen /\ P!RefsAreHolders /\ P!NoLeak /\ P!WithinCap

(* What no step does: end a suspension but by Resume (provision.go, catalog.go Put), write   *)
(* the row of a type registered in code, or replace by a define a row that was there when    *)
(* the define looked (fabriq_dynamic.go:74); one that another instance saved after that look *)
(* it does replace (:108).                                                                   *)
OthersRespected == SuspensionHolds /\ CodeTypesWriteNoRow /\ DefineRespectsRow
=============================================================================
