-------------------------------- MODULE Sweep -------------------------------
(* The catalog-mode worker engine (core/sweep/sweep.go, adapters/postgres    *)
(* maintain.go): passes over the tenant catalog that sweep every due tenant, *)
(* idle backoff, wake nudges from the write path, and the decay of the       *)
(* bookkeeping.  Waits are counted in units of the base backoff; a pass      *)
(* reads the clock once, so no wait ends during a pass.                      *)
EXTENDS Naturals, Sequences, FiniteSets

CONSTANTS
    SweepTenants,    \* 1 .. n, in catalog order
    Workers,         \* bound on concurrent sweeps
    BackoffCap,      \* ceiling of the idle backoff
    SweepSetups      \* [running, writes, wakes, changes, faults, outages]

ASSUME SweepAssumption ==
    /\ Cardinality(SweepTenants) \in Nat /\ SweepTenants = 1..Cardinality(SweepTenants)
    /\ BackoffCap \in Nat \ {0}

VARIABLES
    ssetup,     \* what may still happen
    eligible,   \* tenants active in the catalog at the binary's version
    backlog,    \* tenants with work: outbox rows, quiet documents
    state,      \* tenant: the engine's bookkeeping
    pass,       \* the pass under way
    owed        \* history: tenant -> "" or how its last wake stands

sweepVars == <<ssetup, eligible, backlog, state, pass, owed>>

Forgotten == [known |-> FALSE, due |-> 0, backoff |-> 0, inFlight |-> FALSE, seen |-> FALSE]
NoPass == [pc |-> "wait", at |-> 0, res |-> [t \in SweepTenants |-> ""]]

SweepInit ==
    /\ ssetup \in SweepSetups
    /\ eligible = SweepTenants /\ backlog = {}
    /\ state = [t \in SweepTenants |-> Forgotten]
    /\ pass = NoPass
    /\ owed = [t \in SweepTenants |-> ""]

-----------------------------------------------------------------------------
(* The facade's write path: commit, then publish a nudge that may be lost. *)
Write(t) ==
    /\ ssetup.writes > 0 /\ t \in eligible /\ t \notin backlog
    /\ ssetup' = [ssetup EXCEPT !.writes = @ - 1]
    /\ backlog' = backlog \cup {t}
    /\ UNCHANGED <<eligible, state, pass, owed>>

(* Mutant: the backoff is forgotten, the time of the next sweep is not. *)
WakeLater(t) ==
    /\ ssetup.wakes > 0 /\ t \in backlog
    /\ ssetup' = [ssetup EXCEPT !.wakes = @ - 1]
    /\ state' = [state EXCEPT ![t] = [state[t] EXCEPT !.known = TRUE, !.backoff = 0]]
    /\ owed' = [owed EXCEPT ![t] = IF state[t].inFlight THEN "raced" ELSE "due"]
    /\ UNCHANGED <<eligible, backlog, pass>>

(* Wake: due at once, backoff reset, the loop nudged. *)
Wake(t) ==
    /\ ssetup.wakes > 0 /\ t \in backlog
    /\ ssetup' = [ssetup EXCEPT !.wakes = @ - 1]
    /\ state' = [state EXCEPT ![t] = [state[t] EXCEPT !.known = TRUE, !.backoff = 0, !.due = 0]]
    /\ owed' = [owed EXCEPT ![t] = IF state[t].inFlight THEN "raced" ELSE "due"]
    /\ UNCHANGED <<eligible, backlog, pass>>

(* The catalog changes: a tenant is suspended, resumed or migrated. *)
CatalogChange(t) ==
    /\ ssetup.changes > 0
    /\ ssetup' = [ssetup EXCEPT !.changes = @ - 1]
    /\ eligible' = IF t \in eligible THEN eligible \ {t} ELSE eligible \cup {t}
    /\ UNCHANGED <<backlog, state, pass, owed>>

-----------------------------------------------------------------------------
(* Run and Pass *)

(* A nudge or the scan interval starts a pass where the engine runs; a nudge *)
(* only shortens the wait.  All tenants are marked as unseen.                *)
PassStarts ==
    /\ pass.pc = "wait" /\ ssetup.running
    /\ pass' = [NoPass EXCEPT !.pc = "scan", !.at = 1]
    /\ state' = [t \in SweepTenants |-> [state[t] EXCEPT !.seen = FALSE]]
    /\ owed' = [t \in SweepTenants |-> IF owed[t] = "due" THEN "now" ELSE owed[t]]
    /\ UNCHANGED <<ssetup, eligible, backlog>>

Queued == {t \in SweepTenants : pass.res[t] = "queued"}
Flying == {t \in SweepTenants : pass.res[t] \notin {"", "queued"}}

(* The next catalog entry: an eligible tenant is tracked, and marked for a   *)
(* sweep when it is due.                                                     *)
Scan ==
    /\ pass.pc = "scan" /\ pass.at \in SweepTenants /\ Queued = {}
    /\ LET t == pass.at
           sweep == t \in eligible /\ ~ state[t].inFlight /\ state[t].due = 0
       IN /\ state' = IF t \notin eligible THEN state
                      ELSE [state EXCEPT ![t] = [state[t] EXCEPT !.known = TRUE, !.seen = TRUE, !.inFlight = @ \/ sweep]]
          /\ pass' = [pass EXCEPT !.at = @ + 1, !.res[t] = IF sweep THEN "queued" ELSE ""]
          /\ owed' = IF sweep THEN [owed EXCEPT ![t] = ""] ELSE owed
    /\ UNCHANGED <<ssetup, eligible, backlog>>

(* The scan waits for a worker slot. *)
Launch(t) ==
    /\ pass.res[t] = "queued" /\ Cardinality(Flying) < Workers
    /\ pass' = [pass EXCEPT !.res[t] = "flying"]
    /\ UNCHANGED <<ssetup, eligible, backlog, state, owed>>

(* List fails: the scan ends with what it has seen. *)
ScanFails ==
    /\ pass.pc = "scan" /\ pass.at \in SweepTenants /\ Queued = {} /\ ssetup.outages > 0
    /\ ssetup' = [ssetup EXCEPT !.outages = @ - 1]
    /\ pass' = [pass EXCEPT !.at = Cardinality(SweepTenants) + 1]
    /\ UNCHANGED <<eligible, backlog, state, owed>>

(* Maintenance.Sweep does what work there is.  A sweep may fail, or find the *)
(* tenant's locks taken by another replica and do nothing.                   *)
Sweeps(t) ==
    /\ pass.res[t] = "flying"
    /\ \/ /\ pass' = [pass EXCEPT !.res[t] = IF t \in backlog THEN "busy" ELSE "idle"]
          /\ backlog' = backlog \ {t} /\ UNCHANGED ssetup
       \/ /\ ssetup.faults > 0 /\ ssetup' = [ssetup EXCEPT !.faults = @ - 1]
          /\ pass' = [pass EXCEPT !.res[t] = "idle"] /\ UNCHANGED backlog
    /\ UNCHANGED <<eligible, state, owed>>

(* backoffLocked: doubled up to the ceiling; the wait is jittered between    *)
(* half of it and all of it.                                                 *)
NextBackoff(b) == IF b = 0 THEN 1 ELSE IF 2 * b > BackoffCap THEN BackoffCap ELSE 2 * b
backoffLocked(st) ==
    LET b == NextBackoff(st.backoff)
    IN {[st EXCEPT !.inFlight = FALSE, !.backoff = b, !.due = d] : d \in {x \in 1..b : 2 * x >= b}}

(* A sweep ends: a busy tenant is due again, an idle or failed one backs off.*)
Finish(t) ==
    /\ pass.res[t] \in {"busy", "idle"}
    /\ \E st \in IF pass.res[t] = "busy"
                 THEN {[state[t] EXCEPT !.inFlight = FALSE, !.backoff = 0, !.due = 0]}
                 ELSE backoffLocked(state[t]) : state' = [state EXCEPT ![t] = st]
    /\ pass' = [pass EXCEPT !.res[t] = ""]
    /\ UNCHANGED <<ssetup, eligible, backlog, owed>>

(* The sweeps are over: state of tenants the scan did not see is dropped. *)
Decay ==
    /\ pass.pc = "scan" /\ pass.at \notin SweepTenants /\ Queued = {} /\ Flying = {}
    /\ state' = [t \in SweepTenants |->
                    IF ~ state[t].seen /\ ~ state[t].inFlight THEN Forgotten ELSE state[t]]
    /\ pass' = NoPass
    /\ owed' = [t \in SweepTenants |-> IF owed[t] = "now" /\ ~ state[t].seen THEN "" ELSE owed[t]]
    /\ UNCHANGED <<ssetup, eligible, backlog>>

(* A unit of time between passes. *)
Tick ==
    /\ pass.pc = "wait" /\ \E t \in SweepTenants : state[t].due > 0
    /\ state' = [t \in SweepTenants |-> [state[t] EXCEPT !.due = IF @ > 0 THEN @ - 1 ELSE 0]]
    /\ UNCHANGED <<ssetup, eligible, backlog, pass, owed>>

SweepNext ==
    \/ PassStarts \/ Scan \/ ScanFails \/ Decay \/ Tick
    \/ \E t \in SweepTenants : Write(t) \/ Wake(t) \/ CatalogChange(t) \/ Launch(t) \/ Sweeps(t) \/ Finish(t)

SweepSpec == SweepInit /\ [][SweepNext]_sweepVars

(* The engine's goroutines run, every sweep has a timeout, and time passes.  *)
(* Nothing is assumed of the nudges.                                         *)
SweepFair ==
    /\ WF_sweepVars(PassStarts) /\ WF_sweepVars(Scan) /\ WF_sweepVars(Decay) /\ SF_sweepVars(Tick)
    /\ \A t \in SweepTenants : WF_sweepVars(Launch(t)) /\ WF_sweepVars(Sweeps(t)) /\ WF_sweepVars(Finish(t))

-----------------------------------------------------------------------------
(* Every variable has its type. *)
SweepTypeOK ==
    /\ eligible \subseteq SweepTenants /\ backlog \subseteq SweepTenants
    /\ \A t \in SweepTenants :
          /\ state[t].due \in 0..BackoffCap /\ state[t].backoff \in 0..BackoffCap
          /\ pass.res[t] \in {"", "queued", "flying", "busy", "idle"}
          /\ state[t].inFlight <=> pass.res[t] # ""

(* A woken tenant that the catalog lists is swept by the next pass, unless   *)
(* the wake came while a sweep of it was in flight (sweep.go Wake, Pass).    *)
WokenIsSwept ==
    /\ SweepTypeOK
    /\ pass.pc = "wait" => \A t \in SweepTenants : owed[t] # "now"

(* As WokenIsSwept, for every wake: the tenant is due until it is swept      *)
(* (sweep.go Wake).                                                          *)
WakeMakesDue ==
    \A t \in SweepTenants : owed[t] # "" /\ ~ state[t].inFlight => state[t].due = 0

(* Work of an eligible tenant is swept, with or without a nudge, through     *)
(* failed sweeps, catalog outages and backoff (sweep.go Pass).               *)
BacklogDrains ==
    \A t \in SweepTenants : (t \in backlog /\ t \in eligible) ~> (t \notin backlog \/ t \notin eligible)
=============================================================================
