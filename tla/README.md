# fabriq: TLA+ specifications and proofs

fabriq keeps entities in Postgres and derives everything else from them. A
command writes a row and one versioned event in one transaction; a relay
publishes the events to Redis streams; consumers project them into a graph
(FalkorDB), a search index (Elasticsearch or OpenSearch), analytics tables and
a tree of digests; subscriptions and live queries push them to clients. Beside
that path stand the planes for documents, files and blobs, a read cache, and,
in catalog mode, one database per tenant.

Each module here is translated from the Go source, TLC checks it on small
instances, and TLAPS proves the safety of the command plane, the relay, the
projection, its rebuild and its reconciler, the analytics tables, the read cache
and the blob plane for every value of the constants. `PROJECT.json` maps each
definition to the lines it models and lists runs, mutants, findings, hazards
and theorems.

    tlc -workers 2 -config CommandPlane.cfg MCCommandPlane   # a run
    tlapm CommandPlaneProofs.tla                             # a proof

## The system

| Part | State | Operations | What is hard about it | Modules |
|---|---|---|---|---|
| Command plane (`core/command`, `adapters/postgres/tx.go`, `retention.go`) | rows, outbox, tombstones | `ExecBatch`, `EraseAggregate` | version checks against other transactions, lock order, all-or-nothing batches, erasure against late commands | CommandPlane, AggregateLog |
| Outbox relay (`adapters/postgres/relay.go`, `leader.go`) | `published_at`, advisory lock | campaign, heartbeat, drain | publish and mark are two systems; lock session and drain session die apart | OutboxRelay |
| Event stream and projection (`adapters/redis`, `core/projection/engine.go`, `adapters/falkordb`, `adapters/search`) | stream, group, pending entries, applied record, nodes, documents | read, claim, apply, acknowledge | redelivery; several consumers hold events of one aggregate; only the sink orders writes | Projection |
| Rebuild (`core/projection/rebuild.go`, `open.go`) | `projection_state`, targets | `Rebuild`, `Finalize` | replay against live events, cached state, abandoned attempts | Rebuild |
| Reconcile (`core/projection/reconcile.go`, `adapters/*/reconcile.go`) | drift list | two scans, repair | the scans are of different moments; repairs meet the events they repair | Reconcile |
| Document plane (`adapters/postgres/document.go`) | update log, snapshot, segments, row | append, `Sync`, `Compact`, `MaterializeQuiet` | numbers taken before the commit, folds outside the lock, blobs outside the transaction | Documents |
| Read cache (`adapters/cache`, `cachequery`) | generations, values, L1 | get-or-load, invalidate, tail | a load that straddles an invalidation | Cache |
| Subscriptions (`core/subscribe`) | channels, conflators, pumps | subscribe, publish, flush, cancel | pump and channel lifetimes differ | Hub |
| Live queries (`core/livequery`) | windows, views, partitions, predicate index | attach, apply change, refill, reanchor, close | windows that must stay the top of the result; views shared while they seed, fail and close | LiveWindow, LiveEngine |
| Live-query cluster (`core/livequery/cluster`) | membership, registry, control streams | subscribe, claim, fail over | owners computed from live sets of different moments | LiveCluster |
| Filters (`core/query`, `match`, `adapters/postgres/filter.go`, `adapters/search/filter.go`) | — | evaluate, compile | three evaluators of one language | FilterTerms, Filters |
| Remote live queries (`remote/live.go`, `remote/server.go`, `remote/grpc`) | stream, reply channel, buffers | subscribe, reanchor, close | a reader, a pump and a caller on both sides | RemoteLive |
| Gateway (`gateway`, `forgeext/gateway_*.go`) | connection, pumps | serve, heartbeat, control frame | stalled and vanished clients | GatewayEdge |
| File plane (`fs_node*.go`) | tree of nodes | create, move, trash, restore, delete | cycles from concurrent moves, whole-row writes | Files |
| Blob plane (`adapters/trove`, `blob_writepath.go`) | bytes, reference ledger | put, delete, collect | content stored again while it is collected | Blobs |
| Catalog and provisioning (`core/catalog`, `core/provision`, `adapters/postgres/catalog.go`) | tenant rows, databases | provision, suspend, resume, roll | crashes between states, racing calls | Tenants |
| Directory and pool (`adapters/shard`) | TTL cache; shards, references, cap | look up; acquire, evict, scale | stale answers; a cap that moves, dials shared by waiters | Directory, ShardPool |
| Sweeper (`core/sweep`) | due times, backoff | wake, pass | wake-ups during a sweep | Sweep |
| Dynamic types (`fabriq_dynamic*.go`) | registry, descriptor rows, tables | define, alter, rename, drop, sync | three stores changed one after another by several processes | DynamicTypes |
| Analytics (`core/analytics`, `adapters/pganalytics`) | facts, history, watermark | consume, backfill, reconcile, reproject, purge | three tables per event, rewrites beside consumers | Analytics |
| Insights rollups (`adapters/postgres/insights_*`) | events, rollup, watermark | maintain, query | late events, partial buckets, two leaders | Rollups, Measures |
| Distillation (`core/agent`, `forgeext/distillworker.go`) | tree of summaries, vectors, dirty set | distil, roll up, backfill, debounce | several writes per node, passes that overlap | Distill, Debounce |
| Assembly (`open.go`, `catalogmode.go`, `forgeext/worker.go`, `sweeper.go`) | handles, runners | open, run, shut down, stop | failures half way, restarts during shutdown | Lifecycle |
| Registry, tenancy, admin API, CLI, migrations, telemetry | none of their own | | metadata, handlers and DDL over the parts above | — |

A command reaches a reader as CommandPlane (commit) → OutboxRelay (publish) →
Projection, Analytics, Distill or Hub and LiveWindow (apply) → GatewayEdge or
RemoteLive (deliver). Rebuild and Reconcile run beside the projections;
Documents enters at the first step, since a materialisation writes a row and
an event like a command does.

## Modules

Each component module has the state as variables, one action per step another
actor can observe, and its properties at the end. An action that needs a
database transaction is atomic when the code holds the locks that make it so,
and a critical section of a mutex, or what runs on one goroutine between two
channel operations, is one step; where the code uses two statements, two
systems or two transactions, the module has two actions. Most modules choose a
*setup* in `Init` (what the callers do and what may fail) and record in a
history variable what has happened that a property excludes.

Definitions marked *Mutant* are plausible wrong versions of the definition they
precede; no specification uses them. A module may also state a promise of the
documentation that the code does not keep (`NoStaleRead`, `LaggardsAreTold`, …): no
passing run checks those; see *Known divergences*.

### The write path

**CommandPlane.** `committed[a]` is the row's version, the outbox events per
version and the tombstone; `staged[a]` is what the transaction holding a's
advisory lock sees. `ExecBatch` begins a job; `FenceAggregate` takes the lock
and checks the tombstone; `Apply` is `Executor.apply` with `checkVersion`, the
row write and `AppendOutbox` with its unique index; `EraseAggregate`, `Commit`,
`Abort` and `DeadlockVictim` are the rest of a transaction's life. Payloads,
hooks and validation are left out: a failed validation is an `Abort`.

**AggregateLog** is what everything downstream relies on: per aggregate a
gap-free history, extended atomically, closed by erasure. CommandPlane
implements it under the mapping at the end of its module.

**OutboxRelay.** `Campaign` and `Heartbeat` are the elector, whose lock lives
in a session of its own; `Select`, `Publish` and `Commit` are `Relay.drain`.
`batch` holds the rows locked by a drain, `live` the drains whose transaction
Postgres still knows. Each of `Faults` happens at most once and is remembered,
so a property can say which fault it excludes. Commands and erasures enter as
`Append1` and `EraseAggregate`.

**Documents.** One document: `ApplyUpdate`/`CommitUpdate` (a number is taken
inside the transaction and becomes visible at its end), `ReadSnapshot` and
`MergedState` (two statements under READ COMMITTED), `SealSegment`, `Compact`,
`Materialize`, `Sync`/`SyncLog`, `DeleteHistory`. An update is its sequence
number and a merged state is a set of them: the CRDT library merges
commutatively and is external. `Deployments` say who is around.

### Projections

**Projection.** The consumer group of one projection: `XReadGroup`,
`claimStale`, and `Handle` for the writes of `Engine.handle` in order (sink,
applied record, acknowledgement). `gate` is the version a sink compares with. A
deletion of the graph is not gated and takes the gate with the node; one of the
index leaves a tombstone, which `Expire` drops (Elasticsearch keeps it for
`gc_deletes`, 60 seconds unless set, and the code sets it nowhere). `forgotten`
has the aggregates whose deletion the sink no longer knows of.

**Rebuild.** `Get`, `MarkBuilding`, `DropNew`, `SnapshotPage`, `Replay`, `Flip`
and the two steps of `Finalize` run beside consumers that look up
`projection_state` per event, afresh or, as `open.go` lets them, from a cache;
tombstones expire. `astray` has the events handled by a lookup that was stale
and the deletions that were forgotten. Readers follow the state: the alias that
search queries go through is left out.

**Reconcile.** The scan of the rows, the scan of the projection, the
comparison and each repair are separate steps; a repair upserts an outbox row
as `Adapter.Repair` does, keeping the type of a row of that version, and the
relay publishes it again; tombstones expire here too.

**Analytics.** One aggregate in the Postgres sink: `Upsert`, the history event
and the applied watermark are three writes of a consumer, a backfill, or a
reconcile repair; a reprojection reads, strips and writes back beside them; a
purge empties the tables. A payload is the version it belongs to and whether it
still holds a field the present allow-list leaves out.

**Rollups** and **Measures.** Rollups has the maintainer's leaders, passes and
watermark, events that arrive late, and queries that hold a watermark while
passes go on; a rollup row is the set of events it counts, and `cut` has the
buckets that a pass wrote again from inside. Measures takes the
same split for events on time and follows what each measure becomes: count,
sum, min, max and average, by dimension and bucket, with filters on either side
and HAVING, against the same query over the raw events. Sketches are left out.

**Distill** and **Debounce.** Distill keeps leaves, clusters, scopes and root
as the rows and vectors that the calls of `distill.go` and `rollup.go` write,
each call a step, by replicas that overlap, fail or die. A text is a number,
its embedding a function of it, a content hash a bag. Debounce is the timer in
front of it: `mark`, `nextFireDelay` and the sweep of a burst, with the deadline.

### Reads, subscriptions and edges

**Cache.** One key per keyspace through both levels on two nodes: `Get`, the
flight that leads or waits, `load` and the store under the generation of that
moment, the writer's invalidation and the tail that carries it to other nodes.
Only the entry of the current generation is kept: older ones are unreachable.

**Hub.** One change channel: subscribers, conflation buffer, timer and pump.
A delta is its position in the channel's stream. A flush sends the deltas in any
order: the code sorts them by their stream ids as strings.

**LiveWindow.** One view against a changing table: the window with its cushion,
`insert`, `remove`, `maybeRefill`, `trimTail`, the streamed mode, reconciles, and a client
that splices what it is sent. **LiveEngine** is the life of views instead:
`partitionFor`, the seed, joining, `detach`, `release`, `Reanchor`, `Close`
and the fan-out with bounded channels. **LiveCluster** has gateways and shards
over heartbeats, claims and control streams.

**FilterTerms** and **Filters.** The language of conditions and its three
evaluators: `match` in Go, the WHERE clause as SQL's three-valued logic judges
it, and the clauses of a search; the predicate index that picks the views a
change may concern; and the row order with its keyset. A value is a number, a
string of single-byte characters, a `time.Time` or the text JSON makes of one;
a setup says whether the database orders strings by bytes or by a collation.

**RemoteLive.** One live query over the gRPC transport: the client's reader,
pump and callers, the server's handler and its two goroutines. Frames are well
formed; the connection may break at any moment; the engine behind the server is
a handle that yields deltas.
**GatewayEdge.** One connection, WebSocket or server-sent events: read pump,
write pump, heartbeats, control frames and the write watchdog; a slow client is
one that stalls.

### Storage, tenants, assembly

**Files.** Nodes by id; an operation reads (`begin`), checks and commits in
separate steps, as two commands or one. A path walk reads one snapshot.
**Blobs.** `Put` (bytes, ledger row, reference), deletion and the reconcile
pass (truth, walk, collect, heal) are interleaved call by call; a put and a
pass are each shorter than the grace window; the content store is external.

**Tenants.** Provisioning calls, operators and a fleet roll over catalog rows
written with compare-and-swap. **Directory** answers from a TTL cache, a
primary and a replica that lags. **ShardPool** has Acquire, dials, breaker,
eviction, autoscaler and shutdown. **Sweep** has the due times, wakes and passes
of the sweeper; the cadence of its compaction is left out.

**DynamicTypes.** One type in several processes: registry, descriptor row,
table and backstop change in the order of the calls, any of which may fail or
be the last before a crash. A specification is its set of columns.

**Lifecycle.** `Open` in static and in catalog mode store by store, with the
undo of each step that can fail; the runners of worker and sweeper under their
supervisors; Shutdown with its timeout, Stop and Close. The host calls them in
turn, and what a runner does is left out.

### Composition

The stream between the modules is what composes them. OutboxRelay appends
versions as AggregateLog allows (in order, closed by erasure); Projection's
`Publish` is free to publish any event of such a history, again and, as a
fault, out of order, which covers what OutboxRelay does; Rebuild, Reconcile and
Analytics abstract relay and group to the set of events in flight; the tapes of
Hub and the logs of LiveWindow are such streams.

Components that share no state are checked in one run: MCBackground, MCLive,
MCTenants, MCProgress, MCStorage and MCDerived choose one component in `Init`,
the *focus*, and hold the others still (by EXTENDS or INSTANCE, as names allow). Each has one property per component,
the conjunction of the properties stated and explained in its module.

## Runs

Passing runs (TLC finishes without an error):

| Run | Instance | What it shows |
|---|---|---|
| `command_plane` | 2 callers, 2 aggregates, 3 versions, seven kinds of job | `LogMatchesRow`, `ResultsAreUnique`, `ErasureIsFinal`, `BatchIsAtomic`: row and outbox agree, no version is given twice, erasure is final, batches are atomic; `JobsEnd`: transactions end although batches lock in opposite orders; `ImplementsAggregateLog` |
| `projection` | 2 consumers, graph and index, one life of create, poison update and delete, a disordered stream and two faults for each sink (a failing apply and a crash; a failing acknowledgement and an expired tombstone) | `NoneLost`; `ReadYourWrites` and `NoRegress`, unless a late event revives a document whose deletion the sink forgot; `AppliedUnlessFailed` |
| `rebuild` | fresh lookups: a graph with 2 consumers, an index with one and two rebuilds in a row, with failures; cached lookups: one consumer, a graph with failures, an index with deletions and expiring tombstones | `ConvergedUnlessStale`: before, during and after the flip an aggregate without unacknowledged events is in the live target as its row is, unless its last event went astray; `LiveNeverDropped` |
| `background` | relay: 2 workers, 3 rows, batches of 2, any 2 of six faults; reconciler: index and graph, up to 2 aggregates, 3 versions, 2 lost events; documents: 2 writers, 3 updates, compaction at 2 rows, pages of 1, one failure, five deployments | `PublishedIsInStream`, `RelayKept`, `NothingPublishedAfterErasure`, each naming the fault that breaks it; `RepairsKept`; `DocumentsKept` |
| `background_progress` | the same, with 1 aggregate for the reconciler and 2 updates for the documents | `CopiesCatchUp`: events are published, drift is healed (with the two exceptions of `Healed`), documents reach their row |
| `live` | hub: 3 sessions, 3 deltas, buffers of 1; window: 1 visible row, cushion 1 or 2, 3 commits; engine: 3 handles; cluster: 2 shards; filters: every pair of conditions, every pattern and word up to 3 characters, times and their texts, strings of both cases under two collations; remote: 2 reanchors, a connection that breaks; edges: both transports | `SubscribersServed`, `WindowExact`, `ViewsShared`, `ClusterSettles`, `FiltersAgree`, `EdgesServe` |
| `progress` | the same parts with pool and sweeper | `SubscriptionsProgress`: buffers drain, calls return, failover serves, remote calls and abandoned streams end; `TenantsProgress`: every Acquire returns, every backlog is swept |
| `tenants` | 2 provisioning callers and an operator, rolls over 4 tenants; directory: TTL 2, lag 1; pool: 3 clients, 3 shards; sweep: 2 tenants; types: 2 processes, 2 columns | `TenantsPlaced`, `AnswersAreFresh`, `PoolAccounted`, `WokenIsSwept`, `TypesAgree`, `OthersRespected` |
| `storage` | cache: 2 nodes, 3 reads, 1 write; files: every pair of twelve operations, and triples of moves; blobs: 2 hashes, 2 putters, 2 passes; assembly: both modes, every store, 2 failing steps | `ReadsSeeWrites`, `TreeKept`, `BytesKept`, `StoresReleased` |
| `derived` | analytics: 2 consumers, 3 versions; rollups: 2 replicas, late events, re-roll windows of one bucket and of one and a half; distill: 2 rows, 2 replicas, eight histories; debounce: 2 rows; measures: 3 events, every pair of bounds | `FactsKept`, `RollupsCount`, `DigestsFollow`, `StitchedIsLive` |

Violation runs (TLC finds the counterexample; the finding quotes the text it
contradicts):

| Run | Property | In short |
|---|---|---|
| `rebuild_cached` | `LiveTargetConverged` | a consumer with a cached "live" skips the new target after the snapshot has passed its row |
| `digest_promotion` | `PromotedAboveFloor` | a cluster that fell below the noise floor and rises again gets no node: the upsert of an id once deleted is refused, and the tenant's rollup with it |

### Bounds

A bound is large enough when the interesting interleaving fits inside it.
Three versions give a create, an update and a delete, hence a stale write on
either side of a deletion. Two of each actor give every pairwise race; a third
caller, worker or consumer meets the same locks and gates as the second. Two
aggregates are needed where lock order (CommandPlane), page order (Rebuild) or
id order (Reconcile) matters, and one suffices elsewhere, where actions touch
one at a time. Three versions and two losses let a deletion, its loss and the
repair of what it left meet (Reconcile). A re-roll window of one and a half
buckets starts inside a bucket that holds two events (Rollups). A drain of 2 rows out of 3 leaves a batch boundary between
versions of one aggregate. Two faults allow a fault during the recovery from
another. In Documents three updates are the least for which two are folded and
a third, with a number between or after them, commits late. A window of one
visible row with one or two behind it makes every write cross a boundary.
Buffers of one are full after one delta. Pools have one shard fewer than there
are clients. Cache, files and blobs need one writer more than the call that is
disturbed; folders that can be moved under each other need three.
`MaxVersion` stands for an int64 that no run of the system exhausts: a version
beyond it rolls the job back, like any other failure. Other setups bound how
often callers call and faults strike.

`rebuild` uses symmetry of consumers and has no liveness property. Deadlock is
checked in `command_plane`, where a caller can always begin a job, and is off
where everything may have been published, delivered or closed.

### Fairness

- CommandPlane: weak for the steps of an open transaction; strong for
  `FenceAggregate`, since Postgres queues lock waiters; weak for the deadlock
  detector. Beginning a job and aborting are not fair.
- OutboxRelay: weak for `Campaign` (timer), `Heartbeat` (timer) and the drain
  (the relay polls whether or not it is notified). Faults are not fair.
- Projection: weak per consumer for its loop and its restart (`supervise`).
- Reconcile: weak for relay, consumers and the reconciler's ticks, whichever
  event they take. Commands, losses and expiries are not fair.
- Documents: weak for the end of a transaction, for the passing of the quiet
  window and for the document-plane loop (two tickers in one goroutine).
- Hub: weak for the flush timer and for the pumps. LiveEngine: weak per call.
  LiveCluster: weak for a shard's loop and for the expiry of a dead one's
  heartbeat. RemoteLive and GatewayEdge: weak for the goroutines together, and
  for a client that reads only where the property says it does.
- ShardPool: weak for the steps of a call and for the user's release; strong
  for the timeout of a waiter, a timer that a retry does not reset. Sweep: weak
  for passes and their workers; strong for the clock, which passes interrupt.

Clients, operators and faults are never fair.

## Proofs

TLAPS checks every theorem for all values of the constants that satisfy the
named assumption of the component's module. The assumptions type the constants
and keep "nobody" out of the actors; `ProjectionAssumption` also says that a
deletion ends a history, which AggregateLog promises (an id once deleted is
never written again). Each module of proofs names its inductive invariant, and
one step per action shows that it is kept.

**CommandPlaneProofs.** `Invariance` proves `IInv`, the conjunction of
`TypeOK`, `LockInv` (an unlocked aggregate's staged state is the committed one;
a transaction past its fence holds the lock and saw no tombstone), `IndexInv`,
`StoreInv` (committed and staged states are gap-free logs that agree with their
row, redacted when erased, and the staged one extends the committed one) and
`ResultInv` (a reported version is staged under the reporter's lock and not
yet committed). `LogMatchesRow` alone is not inductive: a commit copies the
staged state, so the same must be known of it, and of who holds the lock.
`RowAndOutboxAgree`, `NoLostUpdate`, `ErasureLeavesNoPayload` and
`ErasedForever` follow. Two lemmas carry the weight: `WrittenIsWellFormed` and
`RedactedIsWellFormed`, what one write and one erasure make of a log.
`BatchesAreAtomic` and `RefinesAggregateLog` add `JobInv` (a batch has reported
one version for each command behind it) and `TxInv` (a transaction locks
aggregates of its job only; a batch stages no tombstone, an erasure no event),
from which each step of the store is a step of AggregateLog or none.

**OutboxRelayProofs.** `AtLeastOnce` strengthens `PublishedIsInStream` with
the rows sent and not yet committed (`StreamInv`). `ErasureStopsPublishing` and
`NoRepublish` need that drains lock disjoint rows that are neither published
nor erased (`LockInv`), as long as no drain has outlived its session.
`OrderKept` (the versions of an aggregate in order, one relay at a time) adds
that the leader alone drains, that ids follow versions, and that the event
before one that a drain holds is in the stream or in the same batch.

**ProjectionProofs.** `AtLeastOnce` (nothing is acknowledged unless applied or
poison) rests on `AckInv`. `AppliedIsVisible` and `NeverBack` hold for both
sinks, any faults and any stream: `SinkInv` says that the document is what the
gate's event left, and that the gate is at least the recorded version unless
the sink has forgotten a deletion, which was then the last event there is.

**RebuildProofs.** Both theorems assume `OneRebuilder`. `LiveAlwaysThere` (no
step drops the target readers use) needs that the rebuilder's copy of the state
is the state (`StateKept`). `LiveAlwaysConverged` is for deployments that
`Converges`: nothing is deleted, or one consumer keeps an index in order. `CInv`
follows the last version of each row into both targets: it is there, or a
consumer that aims at the target holds it, or it went astray, or, in the target
being built, the snapshot has yet to read or to replay it.

**ReconcileProofs.** `RepairsAlwaysKept`, by `RecInv`: a scanned version is
never ahead of the row, and every version of a row is in the outbox, so that
the version past it is free for a deletion and taken for the next command.

**AnalyticsProofs.** `FactsAlwaysKept`, by `AnaInv`: how far each writer is with
its three writes, what a reprojection holds, and what a pass has read.

**CacheProofs.** `ReadsAlwaysSeeWrites`, by `CacheInv`: what a reader at each
step knows of the tiers, and that an equal generation means that nothing was
invalidated in between; a flight's value will do for whoever may join it.

**BlobsProofs.** `BytesAlwaysKept`, by `BlobsInv`: what a put has made sure of,
and what the pass's old readings still imply. A put that did not find the row
has made everything young, and nothing grows old while it or the pass runs.

Only model-checked: liveness, since fairness and ENABLED are out of the
prover's reach here; whatever a recursive definition computes, since induction
is; convergence of a rebuild where deletions can be overtaken; the documents,
and everything about modules without a module of proofs.

## Known divergences

Behaviour met while modelling that contradicts a comment or document, or that
one could argue about. Two have a violation run (above). The others are
the exceptions that passing properties name, in their statement or in a history
variable.

Commands and relay
- `OpUpsert` "inserts when the aggregate is absent" (command.go:27), but a
  deleted id can never be written again: its version 1 is still in the outbox,
  whose unique index refuses another (`UpsertInsertsWhenAbsent`).
- Two relays may drain at once after the leader's lock session dies and before
  it misses a heartbeat (`OneRelay`, fault `session`; decisions.mdx:28 says
  "split-brain impossible"). leader.go:18 promises the same of every elected
  loop; a stale rollup pass may so overwrite a newer one (Rollups, `overlaid`).
- Event ids are minted by the writers' clocks, so versions of one aggregate
  from two writers may be published out of order (`PublishedInOrder`, `skew`).
- A drain whose session has died goes on publishing rows whose locks are gone,
  also after an erasure (`NothingPublishedAfterErasure`, `tx`).

Projections
- An event applied after the deletion of its aggregate was forgotten brings the
  document back: a deleted node takes its version along (falkordb/mutate.go:90),
  and a tombstone of the index expires (`gc_deletes` is set nowhere in
  adapters/search). `Revived`, in `NoRegress` and `ReadYourWrites`;
  mutate.go:19 says that retries "cannot regress the graph".
- An entry whose handling failed stays pending while every consumer keeps
  running: claims happen only at start (redis/streams.go:181;
  `EventuallyApplied`, of which `AppliedUnlessFailed` is what is left).
- During a rebuild a graph deletion may be undone by the replay of an older
  row, and a new index has no tombstones for rows deleted before it. A lookup
  answered from the cache may be of before the rebuild or of before the flip
  (open.go:651): `ConvergedUnlessStale` excepts the events it handled, which
  `rebuild_cached` shows to be lost to the new target.
- Two operators may rebuild one tenant at once (rebuild.go:62 reads, checks and
  writes without a lock), and a rebuild that dies leaves "building".
- An aggregate created between the two scans of the reconciler is taken for a
  zombie and deleted from the projection one version ahead
  (reconcile.go:39, :80): `OnlyZombiesDeleted` and `Healed` are about rows older
  than the scan.
- A repair that meets an outbox row of the same version keeps that row's type
  (reconcile.go:96). In the graph a zombie left at a version that an update of
  the row has in the outbox is so "repaired" by an update without payload, on
  every pass, and stays (`Undead`, in `Healed`; reconcile.go:56 says "so the
  delete applies everywhere"). In the index the following pass finds it one
  version on, and heals it.
- Analytics: in a partitioned history a version may be there twice, with the
  time of its event and with that of a snapshot (`HistoryOnce`; sink.go:271-273
  says that `at` "is fixed per version", snapshot.go:151); a reprojection may
  write the payload it read onto the fact of a newer version
  (sink.go:404-406; `mixed`), and a replica on the former allow-list writes the
  field again; a purge is several statements; reconcile cannot heal a skipped
  deletion; a redelivery after a purge restores the row.
- Rollups: with a re-roll window that is not a multiple of the bucket, a pass
  rewrites a bucket from part of its events (insights_rollup_maintain.go:407,
  which registry.go does not forbid; analytics.mdx:436 says that additive
  measures roll up "exactly"): `cut`, in `OnTimeExact` and `LateNotStranded`. A
  late event is inexact until the next re-roll.
- Distillation: `cleanupL1` deletes the root's intermediate nodes on each pass
  (rollup.go:165, :457); a change of scope alone, or to a blank or blocked text,
  leaves the old summary (distill.go:236-244); a backfill never deletes the
  leaf of a deleted row; a crash after the row is put leaves the node without
  vector; a donor's stale vector may be reused (distill.go:268-272); versions
  are compared per replica only (distillworker.go:124-128).

Documents
- Two compactions at once lose updates: the recount uses the new floor
  (document.go:330-334; compact.go:15 is called by the worker and, through
  remote/server.go:913, by clients): `MergeKeptIfSerial` excludes them.
- `Sync` may skip an update for good when a smaller number commits after a
  larger one was read, or when a compaction falls between its two statements
  (`SyncHeals`, `late` and `sync`).
- A document compacted before it is materialised folds no log rows, stamps
  watermark 0 and is materialised again, with an event, on every tick
  (`NewsWhileLogged`; materialize.go promises "exactly ONE" event).

Cache, files, blobs
- A load that straddles an invalidation may store the old value under the new
  generation (ops.go:115-119, cachequery.go:101-105, l1.go:79-84;
  `NoStaleRead`, caching.mdx:8). It is served until the entry expires.
- A rename, trash, lock or replace writes the parent it read over a concurrent
  move, and may so make a cycle (fs_node_path.go:15-19; Files, `relinked`); a create may land
  under a folder being trashed; the blob of a file that was replaced is kept
  when the node is deleted for good (fs_node_delete.go:71-72, :125-128), as
  that of a file created under a subtree while it is deleted.
- A pass that counted references before content was stored again collects it
  (trove/reconcile.go:98-105; `blame`, in `BytesKept`; blob-gc.mdx:84).

Subscriptions and live queries
- The last subscriber leaving while deltas are buffered stops the pump and
  keeps the channel, so one that joins before the flush has none (hub.go:129;
  `PumpWithSubscribers`, tailer.go:18-20). A cancel is by id, and ids restart
  with the channel (hub.go:119).
- The hub sorts a flush by stream ids as strings (conflate.go:44-49), which is
  not the order of the stream once an id has more digits than an earlier one.
- "Exact top-N at all times" (live-queries.mdx) holds up to the feed's position
  and while Postgres answers refills. It also fails when a row is spliced behind
  the last one of a window that does not reach the end of the result, past rows
  it does not hold (insert and reposition, tag `tail`); when a refill reads
  ahead of the feed (`dup`); when the index withholds a change of a held row
  (`unrouted`, `seeding`); and when a reconcile applies a snapshot older than
  the window (`stale`). `ExactPrefix` and `VisibleFull` name these events;
  after a `tail` the window still holds only rows of the result, in order
  (`RowsAreTrue`).
- A laggard is to be told by a reset (dispatcher.go:79, live-queries.mdx:84);
  a full channel has room for none (dispatcher.go:80-90; `LaggardsAreTold`).
  A reanchored handle may get deltas of its old window on the new channel
  (engine.go:103-104; `ReanchoredChannelIsNew`); Close may race Reanchor
  (engine.go:88, :105); when the feed ends, subscribers are not told
  (dispatcher.go:252-255); a late joiner of a streamed view gets the page its
  creator read (dispatcher.go:177-182; live-queries.mdx:157).
- Failover is to be transparent (live-queries.mdx:172); a shard that computes
  another owner drops the subscribe without an answer, "the gateway will
  re-route", which it does not (shard.go:102; `FailoverTransparent`). Errors of
  a claim, of starting, reanchoring or storing a subscription are ignored
  (shard.go:113-124, :144-147); `SettledServed` and `FailoverServes` except the
  subscriptions they concern, until a later claim starts them.
- Filters: a `time.Time` never matches the string of a JSON row
  (match/compare.go) though SQL compares timestamps; string ranges are in byte
  order in Go and in collation order in SQL; LIKE has no escape and works on
  bytes in Go; a search with `ne` or `notin` also finds documents without the
  field (search/filter.go), and string ranges go to the analysed field; a
  missing sort key compares as equal, so the "TOTAL order" of types.go is
  partial, and a keyset after it selects nothing. `FiltersAgree` excepts
  conditions on times, and string ranges under a collation (`Apart`).
- Remote: a Reanchor that gives up leaves its reply in the one-place channel,
  and the next one returns it (remote/live.go:88-91; :65 "one outstanding
  control frame"); after two of them the reader waits and deltas stop. Deltas of
  the old window and the new snapshot arrive in either order. In the loopback
  transport a handler may return while its pump still sends on the channel it
  closes (remote/transport.go).
- Gateway: with a write timeout of zero a stalled client holds its handler and
  subscription for ever (gateway/ws.go:119).

Tenants and assembly
- A wake during a sweep is overwritten by the idle backoff written at its end
  (sweep.go:171-173, :294-295; `WakeMakesDue`); a catalog outage ends a pass
  early (sweep.go:237-239, :325-331).
- "A concurrent writer just means fresher state" (provision.go:296-297), but a
  Suspend or Resume beside the roll leaves the old version recorded
  (`RollRecorded`). A roll may overshoot its failure budget by the migrations in
  flight. Suspend and Resume make routable a tenant that was
  never migrated (provision.go:134, :152; catalog.go:35; `RoutableIsMigrated`).
- `CloseAll` "tears down every open shard" (provider.go:463) but for one still
  being dialled, which its caller gets and nobody closes (`ShutdownClosesAll`);
  "within one TTL" (catalogdir.go:21-24) leaves out the lookup's own time and a
  replica's lag.
- Dynamic types: concurrent defines of one name overwrite each other
  (fabriq_dynamic.go:57-61 against :74, :108), which `OthersRespected` excepts;
  a drop that fails half way saves the specification it held again; an alter from a stale registry
  does so, and is not checked to be additive (:348); a crash after the DDL of a
  rename or drop leaves a row that names a missing column; a save that fails is
  reverted by the next sync; a drop of a type registered in code drops the table
  under another instance's row.
- `Open` whose cache fails leaves the Redis connection open (open.go:198-201);
  catalog mode whose Redis fails leaves the replicas open
  (catalogmode.go:108-110). A `Run` whose constructor fails returns without
  closing `done`, so Shutdown waits its ten seconds and reports "worker did not
  drain in time" (worker.go:339-355, and sweeper.go). The static gauge poller is
  outside the wait group; Stop closes the stores even if the drain timed out.

## Not modelled

- **Other analytics sinks.** ClickHouse and DuckDB; retention and partitions.
- **Sinks.** Graph edges and reified relations, traversals; index aliases,
  mappings and ranking.
- **Agent memory.** Retrieval, packing of a context and the embedding worker:
  stateless reads, or one write per event behind the engine Projection models.
- **Insights.** Sketches, funnels and retention queries.
- **Documents.** Live frames (`docsync.go`) and the tombstone horizon of the
  CRDT library.
- **Files.** Listings and bookmarks. **Blobs.** Streaming, presigning, drivers.
- **Tenants.** The load signal of the autoscaler, and query fan-out.
- **Metadata and marshalling.** The registry (fixed before the system runs but
  for dynamic types), tenancy (context values; every model but those of catalog
  mode is of one tenant), the unary calls of `remote`, the `client` package.
- **Handlers over the planes above.** The admin API and the command line, which
  are about a quarter of the source. DDL (its constraints appear as guards),
  telemetry, generated code, demos and test support are another third.
