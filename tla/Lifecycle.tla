------------------------------ MODULE Lifecycle -----------------------------
(* The life of a process: fabriq.Open dials the stores one after another and *)
(* undoes what it did when a step fails (open.go, catalogmode.go); the forge *)
(* extension starts the supervised runners and stops them (extension.go,     *)
(* worker.go, sweeper.go); Stores.Close closes what was opened.              *)
(*                                                                           *)
(* opened are the handles nobody has closed, stores the ones the Stores      *)
(* record knows.  The host calls Start, Run, Shutdown and Stop in turn.      *)
EXTENDS Naturals, Sequences, SequencesExt

CONSTANT LifeSetups   \* [catalog, borrowed, on, faults, exits]

VARIABLES
    yset,        \* the configuration, and how much may go wrong
    phase,       \* of the extension
    at,          \* the step of Open, and later of Run, being taken
    opened, stores,
    closing,     \* the handles the Close under way has still to close
    tailer,      \* the goroutine that evicts the L1 cache
    run,         \* the runners started: running, waiting to restart, ended
    cancelled,   \* the runners' context is cancelled
    done,        \* "none", "awaited" once a goroutine waits for the runners, "closed"
    shut,        \* what Shutdown has come to
    trouble      \* errors of a close, and exits of a runner, so far

lifeVars == <<yset, phase, at, opened, stores, closing, tailer, run, cancelled, done, shut, trouble>>

On(f) == f \in yset.on
Shards == {"shard1", "shard2"}

-----------------------------------------------------------------------------
(* Open: the steps of the two assemblies, what each opens, and what is       *)
(* closed when it fails.                                                     *)

Step(name, opens, undo) == [name |-> name, opens |-> opens, undo |-> undo]
Dial(store, undo) == Step(store, {store}, undo)

StaticSteps ==
    << Dial("shard1", "dialed"), Dial("shard2", "dialed"), Step("routing", {}, "dialed"), Step("key", {}, "stores"),
       Dial("redis", "dialed"), Dial("cache", "dialed"), Dial("graph", "stores"), Dial("search", "stores"),
       Dial("analytics", "stores"), Dial("blob", "stores"), Step("new", {"hub"}, "stores"),
       Step("types", {}, "facade"), Step("rls", {}, "facade") >>

CatalogSteps ==
    << Dial("catalog", "nothing"), Step("boot", {}, "catalog"), Dial("replica", "go on"), Dial("redis", "catalog"),
       Dial("blob", "stores"), Step("pool", {"pool"}, "never"), Dial("graph", "stores"), Dial("search", "stores"),
       Dial("analytics", "stores"), Step("new", {"hub"}, "stores") >>

(* A step is taken when its store is configured; the cache comes with Redis. *)
Always == {"shard1", "routing", "new", "types", "rls", "catalog", "boot", "pool"}
Steps ==
    SelectSeq(IF yset.catalog THEN CatalogSteps ELSE StaticSteps,
              LAMBDA s : s.name \in Always \/ On(s.name) \/ (s.name = "cache" /\ On("redis")))

(* Closed by the undo of a step.  Closing a shard that is the host's own     *)
(* database does nothing (postgres Adapter.Close).                           *)
Undone(undo) ==
    CASE undo = "dialed" -> Shards \cap opened
      [] undo = "catalog" -> {"catalog"}
      [] undo = "stores" -> stores \ {"hub"}
      [] undo = "facade" -> stores
      [] OTHER -> {}

LifeInit ==
    /\ yset \in LifeSetups
    /\ phase = "idle" /\ at = 0 /\ opened = {} /\ stores = {} /\ closing = {}
    /\ tailer = "none" /\ run = << >> /\ cancelled = FALSE /\ done = "none" /\ shut = "no"
    /\ trouble = [errors |-> 0, exits |-> 0]

(* Extension.Start: a worker needs Redis.                                    *)
Start ==
    /\ phase = "idle"
    /\ LET refused == On("worker") /\ ~On("redis")
       IN  phase' = (IF refused THEN "failed" ELSE "opening") /\ at' = (IF refused THEN 0 ELSE 1)
    /\ UNCHANGED <<yset, opened, stores, closing, tailer, run, cancelled, done, shut, trouble>>

StepSucceeds ==
    /\ phase = "opening" /\ at <= Len(Steps)
    /\ opened' = opened \cup Steps[at].opens
    /\ stores' = stores \cup Steps[at].opens
    /\ tailer' = IF Steps[at].name = "cache" /\ On("l1") THEN "running" ELSE tailer
    /\ at' = at + 1
    /\ UNCHANGED <<yset, phase, closing, run, cancelled, done, shut, trouble>>

(* Stores.Close cancels the tailer before it closes anything.                *)
StopTailer(t) == IF t = "running" THEN "cancelled" ELSE t

StepFails ==
    /\ phase = "opening" /\ at <= Len(Steps) /\ Steps[at].undo # "never"
    /\ IF Steps[at].undo = "go on"
         THEN at' = at + 1 /\ UNCHANGED <<phase, closing, tailer>>
         ELSE /\ phase' = "undoing"
              /\ closing' = Undone(Steps[at].undo)
              /\ tailer' = (IF Steps[at].undo \in {"stores", "facade"} THEN StopTailer(tailer) ELSE tailer)
              /\ UNCHANGED at
    /\ UNCHANGED <<yset, opened, stores, run, cancelled, done, shut, trouble>>

Opened ==
    /\ phase = "opening" /\ at > Len(Steps)
    /\ phase' = "started"
    /\ UNCHANGED <<yset, at, opened, stores, closing, tailer, run, cancelled, done, shut, trouble>>

-----------------------------------------------------------------------------
(* Stores.Close: every handle in this order, whatever errors there are.      *)
CloseOrder ==
    << "hub", "search", "blob", "graph", "analytics", "cache", "redis", "shard1", "shard2", "pool", "replica",
       "catalog" >>

Closes(error) ==
    /\ phase \in {"undoing", "closing"} /\ closing # {}
    /\ LET h == SelectSeq(CloseOrder, LAMBDA s : s \in closing)[1]
       IN  /\ opened' = IF h = "shard1" /\ yset.borrowed THEN opened ELSE opened \ {h}
           /\ closing' = closing \ {h}
    /\ error => trouble.errors < yset.faults
    /\ trouble' = IF error THEN [trouble EXCEPT !.errors = @ + 1] ELSE trouble
    /\ UNCHANGED <<yset, phase, at, stores, tailer, run, cancelled, done, shut>>

Closed ==
    /\ phase \in {"undoing", "closing"} /\ closing = {}
    /\ phase' = IF phase = "undoing" THEN "failed" ELSE "stopped"
    /\ UNCHANGED <<yset, at, opened, stores, closing, tailer, run, cancelled, done, shut, trouble>>

TailerEnds ==
    /\ tailer = "cancelled"
    /\ tailer' = "ended"
    /\ UNCHANGED <<yset, phase, at, opened, stores, closing, run, cancelled, done, shut, trouble>>

-----------------------------------------------------------------------------
(* Run: the runners of the two worker planes in the order they are started.  *)
(* Some are built by a constructor that may fail; all but the gauge poller   *)
(* of the static plane are in the wait group; loops are not supervised.      *)

Runner(name, when, builds, kind) == [name |-> name, when |-> when, builds |-> builds, kind |-> kind]

Projects == {"graph", "search"} \cap stores # {}
Consumes == {"analytics", "redis"} \subseteq stores

StaticRunners ==
    << Runner("gauges", On("metrics"), FALSE, "poller"),
       Runner("relay1", TRUE, FALSE, "supervised"), Runner("relay2", "shard2" \in stores, FALSE, "supervised"),
       Runner("documents", TRUE, FALSE, "supervised"),
       Runner("reconciler", On("reconcile") /\ Projects, FALSE, "supervised"),
       Runner("blobs", On("reconcile") /\ "blob" \in stores, FALSE, "supervised"),
       Runner("rollups", On("rollups"), FALSE, "supervised"), Runner("types", On("persist"), FALSE, "supervised"),
       Runner("graph", "graph" \in stores, TRUE, "supervised"),
       Runner("search", "search" \in stores, TRUE, "supervised"),
       Runner("analytics", Consumes, TRUE, "supervised"), Runner("lag", Consumes /\ On("metrics"), FALSE, "loop"),
       Runner("retention", On("retention") /\ "analytics" \in stores, FALSE, "loop"),
       Runner("insights", On("insights"), TRUE, "supervised"), Runner("embed", On("embed"), TRUE, "supervised"),
       Runner("distill", On("distill"), TRUE, "supervised") >>

CatalogRunners ==
    << Runner("sweeper", TRUE, FALSE, "supervised"), Runner("graph", "graph" \in stores, TRUE, "supervised"),
       Runner("search", "search" \in stores, TRUE, "supervised"),
       Runner("analytics", Consumes, TRUE, "supervised"), Runner("lag", Consumes /\ On("metrics"), FALSE, "loop"),
       Runner("retention", On("retention") /\ "analytics" \in stores, FALSE, "loop"),
       Runner("insights", On("insights"), TRUE, "supervised"), Runner("tracked", On("metrics"), FALSE, "loop"),
       Runner("wake", "redis" \in stores, FALSE, "supervised"),
       Runner("reconciler", On("reconcile") /\ Projects, FALSE, "supervised"),
       Runner("rollups", On("rollups"), FALSE, "supervised") >>

Runners == SelectSeq(IF yset.catalog THEN CatalogRunners ELSE StaticRunners, LAMBDA r : r.when)
RunnerNamed(n) == SelectSeq(Runners, LAMBDA r : r.name = n)[1]
Supervised(n) == RunnerNamed(n).kind = "supervised"
Counted(n) == RunnerNamed(n).kind # "poller"

(* Without a worker Run starts nothing, and Shutdown has nothing to wait for. *)
Run ==
    /\ phase = "started"
    /\ IF On("worker") THEN phase' = "launching" /\ at' = 1 ELSE phase' = "running" /\ UNCHANGED at
    /\ UNCHANGED <<yset, opened, stores, closing, tailer, run, cancelled, done, shut, trouble>>

Launch ==
    /\ phase = "launching" /\ at <= Len(Runners)
    /\ run' = [n \in DOMAIN run \cup {Runners[at].name} |-> IF n \in DOMAIN run THEN run[n] ELSE "running"]
    /\ at' = at + 1
    /\ UNCHANGED <<yset, phase, opened, stores, closing, tailer, cancelled, done, shut, trouble>>

(* A constructor fails: the runners already started are cancelled, and Run   *)
(* returns before it starts the goroutine that waits for them.               *)
LaunchFails ==
    /\ phase = "launching" /\ at <= Len(Runners) /\ Runners[at].builds
    /\ cancelled' = TRUE
    /\ phase' = "crippled"
    /\ UNCHANGED <<yset, at, opened, stores, closing, tailer, run, done, shut, trouble>>

Launched ==
    /\ phase = "launching" /\ at > Len(Runners)
    /\ phase' = "running"
    /\ done' = "awaited"
    /\ UNCHANGED <<yset, at, opened, stores, closing, tailer, run, cancelled, shut, trouble>>

(* supervise: a runner that exits is started again after its backoff, and    *)
(* once more even if the context has ended meanwhile.                        *)
Exits(n) ==
    /\ run[n] = "running" /\ ~cancelled /\ Supervised(n) /\ trouble.exits < yset.exits
    /\ run' = [run EXCEPT ![n] = "waiting"]
    /\ trouble' = [trouble EXCEPT !.exits = @ + 1]

Restarts(n) ==
    /\ run[n] = "waiting"
    /\ run' = [run EXCEPT ![n] = "running"]
    /\ UNCHANGED trouble

Ends(n) ==
    /\ cancelled /\ run[n] # "ended"
    /\ run' = [run EXCEPT ![n] = "ended"]
    /\ UNCHANGED trouble

RunnerStep ==
    /\ \E n \in DOMAIN run : Exits(n) \/ Restarts(n) \/ Ends(n)
    /\ UNCHANGED <<yset, phase, at, opened, stores, closing, tailer, cancelled, done, shut>>

(* (Mutant: a runner that waits for its restart is not waited for.)          *)
OverOrWaiting(n) == run[n] # "running"
Over(n) == run[n] = "ended"

AllDone ==
    /\ done = "awaited" /\ \A n \in DOMAIN run : Counted(n) => Over(n)
    /\ done' = "closed"
    /\ UNCHANGED <<yset, phase, at, opened, stores, closing, tailer, run, cancelled, shut, trouble>>

-----------------------------------------------------------------------------
(* Shutdown cancels the runners and waits for them, ten seconds or until its *)
(* own context ends; Stop closes the facade and the stores either way.       *)

Shutdown ==
    /\ phase \in {"running", "crippled"} /\ shut = "no"
    /\ IF On("worker") THEN cancelled' = TRUE /\ shut' = "waiting" ELSE shut' = "drained" /\ UNCHANGED cancelled
    /\ UNCHANGED <<yset, phase, at, opened, stores, closing, tailer, run, done, trouble>>

ShutdownReturns ==
    /\ shut = "waiting"
    /\ \/ done = "closed" /\ shut' = "drained"
       \/ shut' = "late"
    /\ UNCHANGED <<yset, phase, at, opened, stores, closing, tailer, run, cancelled, done, trouble>>

Stop ==
    /\ phase \in {"started", "running", "crippled"} /\ shut # "waiting"
    /\ phase' = "closing"
    /\ closing' = stores
    /\ tailer' = StopTailer(tailer)
    /\ UNCHANGED <<yset, at, opened, stores, run, cancelled, done, shut, trouble>>

LifeNext ==
    \/ Start \/ StepSucceeds \/ StepFails \/ Opened \/ TailerEnds
    \/ \E error \in BOOLEAN : Closes(error)
    \/ Closed
    \/ Run \/ Launch \/ LaunchFails \/ Launched \/ RunnerStep \/ AllDone
    \/ Shutdown \/ ShutdownReturns \/ Stop

-----------------------------------------------------------------------------
LifeTypeOK ==
    /\ phase \in {"idle", "opening", "undoing", "failed", "started", "launching", "running", "crippled", "closing",
                  "stopped"}
    /\ closing \subseteq opened /\ opened \subseteq Range(CloseOrder) /\ stores \subseteq Range(CloseOrder)
    /\ tailer \in {"none", "running", "cancelled", "ended"}
    /\ Range(run) \subseteq {"running", "waiting", "ended"}
    /\ done \in {"none", "awaited", "closed"} /\ shut \in {"no", "waiting", "drained", "late"}

(* The handle lent by the host.                                              *)
Lent == IF yset.borrowed THEN {"shard1"} ELSE {}

(* What the undo of a failed step leaves open: Redis, when the cache on top  *)
(* of it cannot be opened (open.go), and the catalog's replicas, when Redis  *)
(* cannot be (catalogmode.go).                                               *)
Forgotten ==
    CASE at = 0 -> {}
      [] ~yset.catalog /\ Steps[at].name = "cache" -> {"redis"}
      [] yset.catalog /\ Steps[at].name = "redis" -> {"replica"}
      [] OTHER -> {}

(* An Open that fails, at whatever step, has closed every handle it opened   *)
(* except the forgotten ones; one that succeeded and is stopped has closed   *)
(* them all, whatever errors the closes had (Open, openCatalogMode,          *)
(* Stores.Close); the handle the host lent is never closed (Adapter.Close).  *)
EverythingReleased ==
    /\ phase = "failed" => opened \subseteq Lent \cup Forgotten
    /\ phase = "stopped" => opened \subseteq Lent
    /\ Lent \cap stores \subseteq opened

(* The goroutine that evicts the L1 cache is told to stop before the         *)
(* connection it reads from is closed (cancelFns in Stores.Close).           *)
TailerStoppedFirst == tailer = "running" => "redis" \in opened

(* A Shutdown that reports a drained worker leaves no runner of the wait     *)
(* group behind, not even one that waits to be restarted, so that the stores *)
(* are closed under none of them (Extension.Run, supervise, Shutdown, Stop). *)
DrainedIsQuiet == shut = "drained" => \A n \in DOMAIN run : Counted(n) => run[n] = "ended"
=============================================================================
