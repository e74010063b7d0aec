# devedge-sdk: verification of its concurrent core

TLA+ models of the concurrent core of devedge-sdk: the protocol that moves a
tenant between cells while requests, writes and events keep flowing; the
transactional outbox, the relays that empty it and the consumers at the other
end of the bus; the change feed; durable request idempotency with the quota
around it; and the host that runs all of these. TLC checks the models on small
instances; TLAPS proves the main safety results of all of them: the move protocol,
the gate, the router cache, the fence, the file-backed table, the outbox relay, the
consumers, the change feed, the idempotent requests and the host, for any number of
cells, drivers, processes, replicas, events, keys, requests, modules, faults and
crashes.

Source references are relative to the repository root. `PROJECT.json` maps each
definition to the lines it models.

## 1. Inventory of the system

devedge-sdk is a Go library for gRPC services. Most of it is request-local
(middleware, authorization, filters), wiring (server, configuration,
observability) or batch code generation. The state that several goroutines,
processes or machines change together is in the following components.

| Component | State | Operations | Interacts with |
|---|---|---|---|
| Tenant-move controller `cells/move.go` | none of its own: the route is the recovery state | `Move`, `Resume`, `Rollback`, `Assign`, `MoveCohort` | reads and CASes the routing table; drains a gate; seals and re-owns the fence; pauses and resumes the publisher |
| Routing table `cells/route.go`, `memtable.go`, `filetable.go` | one `TenantRoute` per tenant; watch channels | `Get`, `CompareAndSet`, `Delete`, `Watch` | every other part of the cell plane |
| Storage fence `cells/plane.go`, `persistence/gormtx/fence.go` | owner cell, epochs and seal per tenant | `Seal`, `SetOwner`, the write-guard predicate | move controller writes it; every SQL write of a tenant reads it |
| Event barrier `cells/plane.go`, `gormtx/eventbarrier.go` | publisher policy and event epoch per tenant | `SetPolicy`, `Drained` | move controller; outbox publisher |
| Admission gates `cells/gate.go`, `controller.go` | per tenant and instance: state, epoch, sequence, in-flight set, condition variable | `TryEnter`, `Leave`, `Open`, `CloseForBarrier`, `Reset`, close | interceptors enter and leave; the gate controller follows the watch; the move drains |
| Router and interceptors `cells/router.go`, `middleware.go` | route cache, watch, freshness | `Start`, `Resolve`, apply | the table; the gate |
| Outbox `events/events.go`, `persistence/outbox.go`, `memory_outbox.go`, `gormtx/outbox*.go` | rows, allocator of `event_seq`, cursor and dead-letter sidecar, partitions | `Publish`, `Append`, `ReadAfter`, `SaveCursor`, `DeadLetter`, `RunRetention` | producing transactions; the relay |
| Relay and leaders `events/relay.go`, `leader.go`, `gormtx/leader.go` | the lock; per replica: `leading`, cursor, head failures, batch | `Run`, `PumpOnce`, `TryAcquire`, `Release` | outbox, sidecar, bus |
| Buses and consumer `events/membus`, `kafkabus`, `consumer.go`, `dispatcher.go`, `gormtx/idempotency.go` | group channels or partitions and offsets, (event, handler) markers | `Publish`, `Subscribe`, `Consume`, `Seen`, `Record` | relay; service transactions |
| Change feed and projections `events/changefeed_repo.go`, `projection.go`, `persistence/memory*.go`, `upsert.go` | rows, members, change events and documents in one transaction | create, update, delete, undelete, upsert, aggregate `Save`, `ProjectExisting` | outbox; indexes elsewhere |
| Request idempotency `middleware/idempotency.go`, `gormtx`, `entrepo`, `servicekit` dedup stores | reservation, fingerprint and stored response per request id | reserve, complete, abandon, expire, sweep | handlers; service transactions |
| Campaign, budget, placement `cells/campaign.go`, `budget.go`, `placement.go` | spent unavailability per tenant and month; wave progress | `Allowed`, `Record`, `Run` | move controller |
| Long-running operations `lro/` | operations, cancel functions | `Submit`, `Cancel`, `Wait` | handler goroutines |
| Quota `quota/` | used units per account, metric and window | `Reserve`, `Commit`, `Release` | interceptor |
| servicekit host `servicekit/run.go`, `bulkhead.go`, `events.go`, `server/server.go` | host context and its cause, supervised goroutines, module readiness, health status | boot, supervise, fail, degrade, serve, shut down | relays, consumers, jobs, servers |

The hard behaviours, with their source lines, are the `hazards` of
`PROJECT.json`. In short:

- **The move** is a sequence of calls on three stores with no common
  transaction. Any driver may stall or die between two calls while another
  continues, rolls back or starts over. What makes it correct: an epoch belongs
  to one cell, a stale writer is fenced from the moment the cut begins, a move
  ends exactly once, and an interrupted one can always be ended.
- **The gate** must be empty when the drain says so and must admit nothing
  afterwards, although events, requests and drains reach it in any order, and a
  drain must not sleep for ever.
- **The cache** answers from a copy; its staleness must never become an
  admission at an epoch at which this cell was not the tenant's.
- **The fence under a service's transaction** is read without a lock, and a
  stream carries no token at all: what keeps a cut free of writes is the drain
  and the guard together.
- **The file table** is shared by processes that may die with the lock held, or
  between truncation and rename.
- **The outbox** must neither lose nor invent events; the relay must keep the
  head of line, stop retrying a poisoned head without punishing its neighbours,
  and survive two leaders.
- **The consumer** sees an event again after every fault between effect and
  offset, from a bus that retries in place, seeks, rebalances or restarts; its
  effect must be committed once, in order, and eventually.
- **The change feed** must be the table whatever mix of calls, rollbacks and
  backfills made it.
- **A retried request** must run once and be answered with the original
  response, although claims expire, are swept and are taken over, and handlers
  fail, hang and crash; and its quota must be given back when it fails.
- **The host** must return on every path, return the right cause, and leave
  nothing running.

Components without such state are listed in `PROJECT.json` as `not_modelled`
with the reason.

## 2. Modules

| Module | Models |
|---|---|
| `TenantMove` | the abstract promise: one tenant rests on one cell at one epoch; a move ends once, on its source or its target, two epochs later |
| `MoveController` | `Move`, `Resume`, `Rollback`, `Assign` over table, fence and event barrier, for concurrent drivers; refines `TenantMove` |
| `MoveControllerProofs` | the theorems about `MoveController` |
| `RouteWatch` | the table as its watchers see it: `TenantMove`'s steps, each announced on a bounded channel |
| `AdmissionGate` | gates, gate controller, requests and drains of one instance, on top of `RouteWatch` |
| `AdmissionGateProofs` | the theorems about `AdmissionGate` |
| `RouteCache` | the router's cache and the interceptors' decision, on top of `RouteWatch` |
| `WriteGuard` | the fence row under a service's transactions: guard, upsert in two halves, unary requests, streams and strays against moves |
| `AtomicTable` | the abstract promise of a routing table: one tenant's route changes at a time, by CompareAndSet or Delete |
| `FileTable` | the file-backed table at the granularity of file-system calls; refines `AtomicTable` |
| `OutboxRelay` | producing transactions, outbox, sidecar, retention, leaders and relays |
| `EventConsumer` | both buses, consumer groups, markers, and the relay's cursor |
| `ChangeFeed` | repository, aggregate saves, upserts, change events, projection documents, backfill |
| `Requests` | retries of a request through the quota and idempotency interceptors over three stores |
| `Host` | the life of `servicekit.Run` with its modules |
| `WriteGuardProofs`, `FileTableProofs`, `OutboxRelayProofs`, `EventConsumerProofs` | the theorems about the module each is named after |
| `RequestsProofs` | the theorems about what a request passes, `RouteCache` and `Requests` |
| `ServiceProofs` | the theorems about what a service runs on, `Host` and `ChangeFeed` |
| `MC*` | constants and symmetry for TLC |

**Composition.** `MoveController` is shown to implement `TenantMove`; `RouteWatch`
takes `TenantMove`'s actions as the route changes that can happen and adds the
watch channel and deletion; `AdmissionGate` and `RouteCache` extend
`RouteWatch`. So the gate and the cache are checked against every sequence of
routes that any number of racing drivers can produce, without their state in the
state space. Two things sharpen or weaken that: `RouteWatch!BeginMove` moves from
the route's owner, where the controller takes the source from the plan (they can
differ: `SourceIsActive`), and `DeleteRoute` is outside
`TenantMove`. `RouteCache!AdmitsAtKnownEpoch` in turn justifies the epochs at
which `AdmissionGate!TryEnter` lets requests arrive.

The two modules that a proof module takes together do not use each other; the
definitions of `RouteCache` and `Host` that would clash carry a prefix
(`CacheSpec`, `HostSpec`).

### MoveController

One tenant. `route`, `fence` and `events` are the three stores; `pc`, `plan`,
`exp`, `want`, `bar`, `tgt`, `depth`, `err`, `ret` are a driver's program counter
and Go locals. Every call on a store is one step. `cas` is one step for the
CompareAndSet and one (`Reget`) for the re-read after a conflict. `depth` counts
the enclosing frames (`Move`, `resumeFrom`) that answer an error with
`Rollback`. A deadline that has passed is a choice of the step that reads the
clock. `Fault` is a transient error of the next call (or the lost reply of the
previous one), `Crash` loses the locals. `FencerKind` selects the code's two
fencers, which check epochs differently, or none; `HasEvents` says whether an
event barrier is configured. `rested` is a history variable: the (epoch, cell)
pairs at which the tenant has rested. Audit fields of the route and hooks are
left out; a refusal by the preflight hook or the budget is a `Fault` of
`moveGet`.

### AdmissionGate

A gate is an object with a number, because `Reset` makes the registry forget a
gate to which goroutines hold pointers. A request looks the gate up, enters,
runs, and leaves through the pointer it got. `CloseForBarrier` is split where
the mutex is released or not held: the check, the registration as a waiter, the
wake-up, and the deadline goroutine's unlocked `Broadcast`. A drain may reach its
gate at any time after its driver has asked for it, its move settled or not, and
an event may wait on the channel as long as it likes or be dropped. `Reconcile`
and `Deleted` are the gate controller's reactions to an event of the watch.
`Restart` loses the registry and the in-flight requests. Three history variables
name what goes wrong in this code when drains and events are late: `ajar`, the
gates that an ACTIVE event older than a barrier in force has opened, `slipped`, the
requests that came in by one, and `shut`, the gates that a drain of a settled move
has shut.

### RouteCache

`Resolve` reads the cache, reads the table and stores the answer in three steps.
It may do so before `Start`, while the watch runs and after it has ended: nothing
in `Resolve` asks. `Start`, `Apply` and `Stop` are the watch loop. `Age` is the
freshness bound passing. `Admit`, `Reject` and `Finish` are the interceptors.
`spoiled` is a history variable: the cache holds a lazy fill older than the latest
event, or than the watch.

### OutboxRelay

An event is stamped with the clock, appended (taking its tenant's allocator row
when the allocator table exists), then committed or aborted. Ids are compared as
the store compares them and taken up in any order, as random UUIDs are. A relay
replica is a program counter over `Run` and `PumpOnce`. The bus is external: a
publish succeeds, or fails because the event is poisoned or by a bounded
transient fault. A crash loses the replica's locals; a database session that
breaks frees the advisory lock without telling its holder. `late` is a history
variable: the events that were committed behind the position of a row committed
before them, dropped since or not, of which the cursor can say nothing (`InOrder`).

### EventConsumer

`OutboxRelay` ends with a publish and `EventConsumer` begins with it: the relay
is reduced to its cursor, advanced after the bus accepted the event. Publishing
to the in-memory bus is one step per group, because a context that ends half-way
leaves an event with some groups only. A loop is a program counter over receive
or poll, `Seen`, the handler's transaction, commit and seek; the marker and the
effect commit in one step because they are one transaction. The broker, its
group coordinator and its offsets are external, modelled from the calls
`kafkabus` makes: a partition may be taken from a member that is running its
handlers, which then goes on beside the new owner until its commit is refused. A
Kafka loop that meets an error of a poll or of a commit ends for good ("ended"):
its client stays a member of the group and may keep the partition or be given it.
If it was the last loop of its process the error may take the process down, which
is a `dead` loop, whose partition the coordinator hands on and which is restarted.

### ChangeFeed

`MemoryTxRunner` holds every participant's lock, so a transaction is a sequence
of steps nobody interleaves with, any of which may fail and restore the
snapshots; callers interleave between their load and their save, and the
backfill between its pages. An entity is its etag, whether the projection
answers `emit` for it, and its members. A page of the backfill is the entity at the
token's offset among those that `List` shows. What a consumer makes of the outbox is
written by the place of the last event that matters to a key (`Replayed`,
`Indexed`), which is what reading it in order comes to; TLC has compared both with
the folds over the outbox in every state of the run.

### Requests

One record, several deliveries with two bodies. `tx` mode keeps claim, handler
and completion in one transaction, `reserve` mode commits the claim before a
remote effect. Where the three stores differ (the lock a transaction holds on the
record, the answer to a conflicting insert, the memory store's one mutex) the
step has a disjunct of its own. Expiry, the sweep in two halves and a turn of the
quota window may come at any point the constants allow, while calls run, too. A
call whose claim expires or is deleted under it is a stray (`strays`): it goes on,
and completes or abandons the record by its key, whoever holds that by then.
`swept` says that a sweep's DELETE has hit a record that was live again.

### Host

`phase` is where `Run` is; `work` has a relay, a consumer and a job for every
module, `drain` the loop of every group that each module's `Consume` started on
the shared bus, `gc` the idempotency sweep. A step fails, panics or is signalled
at any time; the first cause of cancellation is kept, as `context.WithCancelCause`
keeps it. `Consume` starts its loops one after the other (`OpenGroup`), over Kafka
each with a client that may fail to open (`OpenFails`, after which it returns and
waits for none); a loop ends with the context or with an error (`DrainStops`,
`GroupFails`); and when `Consume` returns, its error goes to the supervisor unless
the host is stopping (`ConsumerEnds`).

### WriteGuard

`MoveController` has every call a move makes against an atomic fence; `WriteGuard`
opens up the fence: a move is the calls that drain, seal and hand over, each of
the fencer's upserts is a read and a write, and a request checks the row at every
statement of its transaction, at READ COMMITTED. A *stray* is a request in a
replica whose gate the driver does not drain.

### FileTable

Lock file, read, temporary file, write, rename and unlock are steps of their own;
a process dies at any of them, and a lock it leaves makes the others time out.
The watch polls, and is a step per read and per event it delivers.

## 3. Runs

| Run | What it shows |
|---|---|
| `move_mem` | 2 drivers, 3 calls, 3 cells, 1 transient error, `MemFencer`: stale writers are fenced, the cut stays sealed, a tenant at rest is unsealed, nothing is abandoned without a fault, and the controller implements `TenantMove`. The inductive invariant `IInv` holds |
| `move_recovery` | `GormFencer`, one error, one crash and one deletion of the route at any step: every call returns, and the route comes back to rest |
| `gate` | a move away and back against 2 requests, a drain and a restart of the instance anywhere, with drains and events as late as they like and a channel that drops events: a clean cut is empty; after the tenant has left only what an old event's opening let in still runs; the gate follows what the controller was sent, unless a drain of a settled move has shut it |
| `gate_live` | on the default cell, where a deletion makes the registry forget the gate in the middle of a drain while 2 requests hold pointers to it, over a channel of one event: the drain's own gate admits nothing past the cutoff, and the last handler wakes the drain |
| `cache` | the cache over a channel that drops events, asked before, during and after its watch: when it converges, and the epochs at which it lets requests pass |
| `write_guard` | a unary request, a stream and a stray, of up to two statements each, through two moves with deaths, resumptions and rollbacks: no write lands in a cut, and cells write one after the other |
| `file` | two processes, two tenants, a watch and a death at any file-system call: the file implements an atomic table, every call returns, the watch catches up |
| `relay` | overlapping and aborting transactions, a poisoned event, retention, crashes, stops, a broken session and failing stores: nothing in cursor order is skipped, head of line, a fair poison count, gap-free numbering, and every committed event is published or dead-lettered in the end |
| `consumer` | two events, two handlers, both buses, a handler that always fails, an error of a handler, a publish, a poll or a commit, a rebalance or eviction and an exit anywhere: effects once, nothing skipped, nothing overtakes, everything handled in the end but by a group whose partition stays with a loop that has ended |
| `feed` | two clients and a paged backfill over two keys, any call may fail: the feed is the table, the index is the projected part of it, no aggregate save is lost |
| `requests` | three deliveries, two bodies, both modes, three stores, an expiry under whoever runs, a sweep that deletes by key, crashes, a turn of the window: one effect and one answer unless the sweep deleted the live record, no duplicate beside an original that still has its claim, quota exact, every call returns |
| `host` | a fail-host module beside another one or a degraded one, on either bus, failing anywhere: nothing leaks but the loops of a `Consume` that could not open all its groups, the cause surfaces, `Run` returns |

Every property of these runs has a mutant: a plausible bug in a mapped
definition, under which TLC finds the property violated.

On the same instances the following also hold, and are checked by adding them to
the run's configuration: `TypeOK` of every module; `EventsPausedInCut`,
`EpochNamesOneOwner`, `ExpectIsCurrent` and `EpochAdvances` (`MoveMem.cfg`);
`CutoffHolds` and `InflightExact` (`Gate.cfg`); `DegradedShows` (`Host.cfg`);
`ReplacesExpected` and `FenceForward` (`File.cfg`, `Guard.cfg`). `RelayMore.cfg` has three events, a batch that
ends inside them and serialised producers, and adds `NoPhantom` and
`SingleLeader`; `GateTwoDrains.cfg` has two drains asleep at once, for the four
safety properties of the gate.

**Sentences the code does not keep.** The last sections of the modules state what
a comment or a document of the repository says. Each has an instance in which TLC
finds a counterexample (`tlc -config X.cfg Module`); where it differs from a run
only by a constant or the property, the table names the change.

| Instance | Property | Sentence and line | What the code does |
|---|---|---|---|
| `GormClaims` | `CutIsSealed` | "enforces the identical contract" `cells/plane.go:64` | `GormFencer` compares two epochs separately: a delayed `SetOwner` of the previous move unseals the cut of the next |
| `GormClaims` | `NotSealedAtRest` | the same | a late `Seal` of a finished move leaves a resting tenant sealed |
| `GormOneOwner` | `EpochNamesOneOwner` | "At most one cell is ACTIVE for any committed route epoch" `cells/spec/README.md:21` | without an event barrier, commit and rollback of one move both take effect |
| `MemClaims` | `OwnerCanWriteAtRest` | "reset to the source at the new epoch before the route flips back" `cells/move.go:410` | commit and rollback race at one epoch: the route rests on one cell, the fence on the other |
| `MemClaims` | `SourceIsActive` | "from its current cell" `cells/move.go:180` | the plan's `FromCell` is not compared with the route |
| `MemClaims` | `MoveOkMeansLanded` | "to plan.ToCell" `cells/move.go:181` | `Move` returns nil after finishing or rolling back another move |
| `MemCommitting` | `CommittingFinishesForward` | "COMMITTING always finishes forward" `cells/move.go:486` | `Move` rolls back on any error, `Rollback` accepts COMMITTING |
| `GateLate` | `StaleRouterRejected` | "a stale upstream router cannot get work admitted" `cells/controller.go:8` | the ACTIVE event of the previous move reopens a gate that is draining, and a request runs in the source cell after the tenant has left |
| `GateLate` | `AlwaysAligned` | "keeps a GateRegistry's gates aligned" `cells/controller.go:5` | a drain after its move was settled shuts an open gate, and nothing opens it until the next move |
| `GateWakeup` | `DeadlineReturns` | "it never waits forever" `cells/gate.go:235` | the deadline broadcasts without the mutex; between check and `Wait` the wake-up is lost |
| `GateClose` | `CloseReleasesDrains` | "any drainers are released" `cells/gate.go:222` | a woken drain tests only the in-flight set and ctx, and sleeps again |
| `GateDeleted` | `DrainedIsEmpty` | "in-flight reached zero" `cells/gate.go:48` | after `Reset` the drain looks at a new, empty gate |
| `GateDeleted` | `DefaultReadmits` | "the default cell must admit at epoch 0" `cells/gate.go:209` | a stale request re-creates the gate at an old epoch |
| `Gate`, `MaxDeletes = 1` | `GateAligned` | "must use a fresh, higher epoch" `cells/gate.go:213` | `Assign` after `Delete` restarts at epoch 1 and `Open` ignores it |
| `Gate`, `Drains = {}` | `AlwaysAligned` | "must always deliver the latest state" `cells/route.go:191` | a full watch channel drops the newest event, and the gate stays as it was |
| `CacheOvertaken` | `CacheConverges` | "keeps the cache converged" `cells/router.go:80` | a lazy fill overwrites a newer watched route, or stays from before the watch |
| `Guard` | `ZombiesStopped` | "is stopped at the row even if it slipped past the L1 router and the L2 gate" `gormtx/fence.go:18` | the row is read without a lock: a stray whose check came before the seal commits in the cut |
| `Guard`, `Drivers = {d1, d2}` | `FenceForward` | "so the forward-only check and the write are atomic" `gormtx/fence.go:132` | two upserts read the row before either writes it, and its epochs go back |
| `File`, `SeedFails = TRUE` | `WatchCatchesUp` | "must always deliver the latest state" `cells/route.go:191` | the error of the first read is dropped, and a route deleted before the next poll stays with the reader |
| `RelayClaims` | `InCommitOrder` | "so the cursor never skips or repeats a row" `persistence/outbox.go:113` | a row stamped first and committed last is never read |
| `RelayTies` | `InCommitOrder` | "never skips or repeats a row" `persistence/outbox.go:68` | equal stamps and random ids hide a row behind the cursor |
| `RelayClaims` | `OwnFailures` | "on the SAME head event" `events/relay.go:51` | the failure count belongs to the cursor and is inherited |
| `RelayClaims` | `SeqOrder` | "deliver the per-tenant ordering" `events/relay.go:43` | the stamp is read before the allocator row is taken |
| `RelayClaims` | `RetentionBehindCursor` | "AND fully behind the dispatch cursor" `persistence/outbox.go:168` | retention reads only the clock |
| `RelayOverlap` | `OverlapIsBrief` | "We re-check the claim each tick" `events/relay.go:227` | a leader asks only while its local flag is FALSE |
| `RelayForeignRelease` | `SingleLeader` | "a no-op" `events/leader.go:31` | `SingleProcessLeader.Release` frees another's lock |
| `Consumer` | `RestartRepublishes` | "so a restart re-publishes from the outbox" `events/membus/membus.go:12` | the cursor is past an event as soon as the channel has it |
| `Feed` | `SuppressedWasNeverProjected` | "correct because the entity was never projected" `events/projection.go:41` | a document projected earlier stays when the delete is suppressed |
| `Feed`, `Named = FALSE` | `IndexMirrors` | — (`events/changefeed_repo.go:224`) | without `NameOf` or `EmitBefore` a deletion is not projected at all |
| `Consumer` | `DeliversUntilCancelled` | "block delivering records to the registered handlers until ctx is cancelled" `events/kafkabus/kafkabus.go:211` | a failed poll or commit ends the group's loop, its client keeps the partition, and `Consume` says nothing until the other loops end |
| `Requests` | `GCIsOptional` | "correctness does not depend on it" `middleware/idempotency.go:87` | the sweep deletes by key a record that a retry has reclaimed since it was selected: its effect has no response, and the next retry runs again |
| `Requests` | `NeverReexecuted` | "never a re-execution" `middleware/idempotency.go:150` | a call that outlives its claim runs beside the retry that took it over, and may abandon that one's reservation |
| `Host` | `ShutdownIsClean` | "so shutdown is clean (no leaked relay/consumer/job/GC goroutines)" `servicekit/run.go:395` | `Consume` returns when the client of a group cannot be opened, without waiting for the loops it has started |
| `Host` | `PanicContained` | "it does NOT crash another module or the host" `servicekit/bulkhead.go:32` | a handler on a goroutine of the bus is outside of the boundary |
| `Host` | `OneConsumer` | "the HOST starts exactly ONE consumer for the module" `servicekit/servicekit.go:331` | each module's `Consume` starts a loop for every group of the shared bus |
| `Host` | `HostStaysReady` | "without sinking the whole host" `servicekit/bulkhead.go:39` | one degraded module makes the health status NOT_SERVING |

Met while reading, and not stated as properties: `kafkabus` headers drop
`EventSeq` and `EventEpoch`, although they are said to carry the exact envelope;
a drain that finds its gate closed leaves it so and returns the cutoff of an
earlier barrier; an old event that opens a draining gate takes its wake-up from the
last handler, which signals only while the gate drains (`DrainCompletes` excepts
it); one blocked `membus` group holds up the relay for all; a replayed request is
charged to the quota again; the memory repository updates a soft-deleted row; the
change emitter hides a batch repository; a transient error of a relay fails the
host of a fail-host module; a degraded gate is never reset; the error paths of
the boot leave the bus open; the goroutines of operations are not awaited;
`MoveCohort` reverses with the context whose end may be why it reverses.

**Assumptions of the runs.** Where the code has one of the flaws above, the runs
state the condition under which the rest is right, as a constant that an instance
above lifts, or in the property itself:

- `FencerKind = "mem"` in `move_mem`: the fence checks one epoch (lifted by
  `move_recovery` and `Gorm*`); `Drivers = {d1}` in `write_guard`: one upsert at a
  time (lifted for `FenceForward`);
- `CoarseClock = FALSE`: distinct stamps (lifted by `RelayTies`);
- `MaxDeletes = 0` in `move_mem` and `gate` (lifted by `move_recovery`,
  `gate_live`, `GateDeleted` and in the table);
- `InTx = TRUE`: the marker store joins the handler's transaction, as
  `GormIdempotencyStore` does; with the markers elsewhere `NothingSkipped` fails
  in `consumer`;
- `Named = TRUE`, `SeedFails = FALSE`: as in the table;
- `NoEventLost`, `HeadOfLine` and `EventuallyResolved` speak of events committed
  in cursor order (`late` has the others); `NoOverlap` excepts who
  came in by a gate that an old event had opened, `GateAligned` a dropped latest
  change and a gate that a drain of a settled move has shut, `CutoffHolds` an
  opening by an old event; `ConvergesUnlessMissed` excepts a lazy fill that is older
  than the latest event or than the watch and a dropped latest change;
  `DrainCompletes` a gate that is opened, closed or forgotten under its drain;
  `CutIsQuiet` and `OwnersInTurn` a stray whose last check came before the
  fence changed; the consumer's properties an event that an exit of the process
  dropped from a channel, and `EventuallyApplied` a group whose partition stays with
  a loop that has ended; `IndexMirrors` a key whose last change the projection
  misrepresents; `EffectHasItsResponse` the memory store's loss of a claim when a
  response cannot be stored, and with `OneAnswer` a sweep that deleted the live
  record; `OneAnswer` and `RunsAlone` what a call does that has lost its claim;
  `NothingLeaks` the loops of a `Consume` that could not open all its groups.

**Bounds.** Three calls by two drivers cover a placement and two calls that race
on it; four calls allow two complete moves, which the delayed call of `GormClaims`
needs. Faults and crashes are bounded by one because the models let them happen at
every step and the protocols keep no memory of them; `Resume` is not counted.
Epoch 5 is two moves of a tenant, so that the gate sees an event of the previous
move, and epoch 3 one. Two requests suffice for one to be inside while another
enters, and for one to be inside by a gate that the registry has forgotten while
another comes in by the pointer it still holds. A buffer of two lets an event wait
while the next is sent, and overflows at the third; a buffer of one, in `gate_live`,
`cache` and `consumer`, overflows or blocks at the second. One expiry and one sweep
let a retry take a record over while the original runs and the sweep has it
selected. Two moves and two
statements let a token go stale between statements and the tenant come back to
its cell. Two events, one of them poisoned, and two replicas give one failover
with its overlap; `MaxAttempts = 2` makes the count outlive one attempt. Two
handlers and two events let a batch fail in the middle and a seek go back behind
what was handled. Two keys, one of them an aggregate root, and three etags give
two saves from one load and an entity that is projected, suppressed and projected
again. Three deliveries are an original, a retry and a retry that finds what the
first left; two windows let a call fail in another window than it began. Two
processes with four calls cover a lost CompareAndSet and an abandoned lock. Every
bound is a named constant of its module. Deadlock is not checked where the bounded
model really stops (all calls used up); `relay` and `feed` check it.

The runs reach between 68 thousand distinct states (`file`) and 5.9 million
(`write_guard`); each takes less than three and a half minutes with two workers.

**Fairness.** `MoveController!FairSpec` and `RecoverySpec`: a driver's goroutine
goes on to its next call unless it crashes, and the deployment calls `Resume` on
a tenant that is moving, which is how the code documents recovery.
`AdmissionGate!FairSpec`: the goroutine of a drain runs and handlers return; the
deadline, its watcher and the gate controller may never come. `StuckHandlerSpec`
(`GateWakeup`, `GateClose`) turns this round: the watchers and the controller run,
and nothing obliges a handler to return. `OutboxRelay!FairSpec`: producing transactions end, the replicas'
tickers fire and their calls return, and a replica that is down is started again
by the deployment. `EventConsumer!FairSpec`: the relay's ticker, the consume
loops, the coordinator that reassigns the partition of a process that is gone, and
the restart of such a process; a loop that has ended by an error of a poll or a
commit is not revived, and nothing makes its process exit or its partition move.
`Requests!FairSpec`: a call that runs goes on; handlers return. `Answered` then says
that again and again no call is under way; since a call that has returned stays so,
each returns. `Host!Fairness`: `Run`'s own steps, the readiness ticker, a `Consume`
that opens its groups and waits for them, and goroutines that watch the context they
were given; nothing makes a module fail or a signal come. `FileTable!FairSpec`: a call goes on, to its deadline at the latest, and the
watch's ticker ticks. Crashes, faults, rebalances and lost sessions are bounded
and never fair.

## 4. Proofs

Every theorem holds for all values of the constants that its module's assumption
allows: any number of cells, drivers, processes, replicas, events, requests,
modules, faults and crashes. Each module's proof has the same shape: an inductive
invariant, checked by TLC before it was proved; one lemma per action; a few
lemmas about the operators; and the theorems, which combine them. Type correctness
is proved in each (`TypeCorrect`, `CacheTypeCorrect`, `HostTypeCorrect`,
`FeedTypeCorrect`). It is more than a declaration where it says that an array is
never read outside of its bounds: that `PumpOnce` always has a row to work on, that
an offset lies in its log, that at most two `Rollback` frames are open.

| Module | Theorem | States | Needs |
|---|---|---|---|
| `MoveControllerProofs` | `StaleWritersAreFenced`, `CutStaysSealed`, `RestingIsUnsealed`, `EventsStayPaused`, `EpochsNameOneOwner`, `NoABA`, `EpochAdvancesByTwo` | the safety of a move, from `IInvHolds` | `MemFencer`, no deletions |
| | `NothingAbandoned` | `NoAbandonedMove` | the same |
| | `ImplementsTenantMove` | the controller refines `TenantMove` | the same |
| `AdmissionGateProofs` | `BarrierHolds`, `ControllerAligns` | `NoOverlap`, `GateAligned` | no deletion, not the default cell |
| | `CutoffIsLast` | `CutoffHolds` | no deletion, or not the default cell |
| | `InflightIsExact`, `CleanCutIsEmpty` | `InflightExact`, `DrainedIsEmpty` | the same |
| `WriteGuardProofs` | `NothingLandsInTheCut`, `CellsWriteInTurn` | `CutIsQuiet`, `OwnersInTurn` | one driver at a time |
| | `FenceNeverGoesBack` | `FenceForward` | the same |
| `FileTableProofs` | `FileIsAtomic` | the file refines `AtomicTable` | |
| | `NothingOverwritten` | `ReplacesExpected` | |
| `OutboxRelayProofs` | `NothingIsLost`, `StreamInOrder`, `OnlyCommitted` | `NoEventLost`, `HeadOfLine`, `NoPhantom` | |
| | `DeadLettersAreEarned` | `EarnedDeadLetter` | |
| | `SequenceHasNoGap` | `SeqGapFree` | |
| | `OneLeader` | `SingleLeader` | the advisory lock |
| `EventConsumerProofs` | `EffectsOnce`, `NoEventSkipped`, `EventsInOrder` | `EffectOnce`, `NothingSkipped`, `InOrder` | markers in the handler's transaction |
| `RequestsProofs` | `QuotaIsExact` | `QuotaExact` | |
| | `DuplicateRunsAlone`, `EffectIsAnswered`, `ReplaysTheOriginal` | `RunsAlone`, `EffectHasItsResponse`, `OneAnswer` | |
| | `PassesAtKnownEpochs`, `CacheFollows` | `AdmitsAtKnownEpoch`, `ConvergesUnlessMissed` | |
| `ServiceProofs` | `RunLeavesNothing`, `RunReturnsTheCause` | `NothingLeaks`, `CauseSurfaces` | |
| | `SavesAreKept`, `FeedTellsTable` | `NoLostSave`, `FeedComplete` | |
| | `IndexTellsTable` | `IndexMirrors` | `NameOf` or `EmitBefore` set (`Named`) |

What a theorem needs beyond the module's assumption is a hypothesis of its own
(`OneDriver`, `NeverReset`, `RoutesStay`, `InTransaction`, `Named`, `LeaderKind = "pg"`
for `OneLeader`, and for the controller `FencerKind = "mem"` and `MaxDeletes = 0`).
Each but one is needed: section 3 has a counterexample to the property without it,
and for the gate TLC finds one to `NoOverlap` with `HereIsDefault = TRUE` in
`Gate.cfg` (a request that entered at epoch 0, before the tenant had a route, still
runs after its first placement on another cell, which drains nothing), one to it
with `MaxDeletes = 1` there, and one to `InflightExact` on `GateDeleted.cfg`.
`GateAligned` is not meant for the default cell, whose gate accepts at epoch 0 a
tenant that has no route. The one is `CutoffIsLast`: where the registry may forget
gates, `CutoffHolds` is checked by `gate_live` and not proved.

**The move.** None of the safety properties is inductive: whether a delayed
`Seal` or `SetOwner` does harm depends on what the driver remembers. `IInv` has
four parts about the stores and one about each driver.

- `RouteInv`: a moving route has distinct source and target and a barrier one
  above its epoch; a resting one has neither.
- `FenceInv`: the fence's epoch lies between the route's epoch and that plus two;
  it equals the route's at rest and has left it from COPYING on; a sealed fence
  is at exactly one above.
- `EventInv`: the same for the event epoch, and the policy at the barrier is
  PAUSE.
- `HistoryInv`: past epochs are below the present one.
- `DriverInv(d)`: what a driver remembers is the current move at a phase no later
  than the table's, or a decided move at least two epochs back (`ExpInv`); its
  barrier belongs to that memory or to an earlier one (`BarInv`); and at each
  control point the fence and the events have already reached what the earlier
  steps of the call installed (`PcInv`), which is stable because their epochs
  never go back.

The key lemma `MemoryKept` says that any step that lets the route and the epochs
progress preserves every *other* driver's invariant; each action then only needs
its own driver and the shared parts. With `IInv`, a driver two epochs back finds
every forward-only check against it, and a driver of the current move can only do
what the current move needs.

`NoAbandonedMove` is about where the drivers are, not about the stores. `GuardInv`
says that while nothing has failed and nobody has crashed, a moving route has a
driver that is `Engaged` with it: its memory has the route's epoch and it is on its
way forward or in a rollback's last calls, or it is about to read the route for a
rollback. A driver only leaves the way forward by settling the move or by an error,
and an error leads to a rollback because every frame of `continueMove` lies inside
one that answers errors with it (`Backed`). A CompareAndSet that loses has lost to
one that settled the move or advanced it, whose driver is then the engaged one:
that is where `IInv` is needed.

**The gate.** The invariants build on each other, because the count needs less than
the cutoff and the cutoff less than the barrier. `BaseInv`: requests and drains are
at the gate that the registry has (`RefsOK`), which fails when a deletion on the
default cell makes the registry forget it; a number issued is at most the gate's
counter (`TokensOK`), so the next one is new. From it follow the exact in-flight set
and the clean cut, whatever else happens. `CutOK` adds that a sleeping drain's gate
stays shut until an opening past its barrier, or by an old event. `GateInv` adds what
makes the gate a barrier, with events late and lost and drains that come when their
move is long settled. The events on the channel are routes of the past, the last one
is the route unless that was dropped (`WatchOK`), and the barrier of a drain is at
most one past the route's epoch, and below it once the tenant rests (`EpochsOK`).
While the tenant is elsewhere, or a drain of its move has returned clean (`Away`),
every epoch a router can still believe in is older than some barrier for which a
drain has returned clean (`Overdue`); a gate that is open is past every barrier in
force unless an old event opened it (`OpenPast`); and a handler inside that did not
slip in is past every barrier for which a drain has returned clean (`InsidePast`).
With `Overdue`, nobody else can be inside. What a late drain does to an open gate of
a later epoch is no threat to any of these: it shuts it.

**The cache.** `AdmitInv` says that every copy of a route that can reach an
interceptor, on the channel, in the cache, in a reply under way, lets requests of
this cell pass only at an epoch at which the tenant has rested here
(`CopiesVouched`): then loss, overtaking, staleness, an answer from before or after
the watch and failure of reads cannot matter, since they only choose among such
copies. `Tracking` is what convergence
needs: unless the latest change was dropped, a channel that is not empty ends with
the route, and with an empty one the cache holds the route or nothing and a reply
that no event has overtaken is the route. Neither theorem needs a hypothesis:
deletions, losses, faults and the default cell are all included.

**The write-guard.** `GuardInv` ties the fence row to the route (`RowFollows`) and
to the driver's place in its call (`StepsFollow`): a copy of the row that the
driver has read is still the row when it writes, which is what fails with two
drivers. From DRAINING on nothing that the gate has admitted is in flight (`DrainHolds`); tokens and writes
are of the route's past, and at its epoch they are the source's (`TokensPast`,
`LandedPast`); a request that the gate holds is of the source, and every token and
write of another cell is older (`HeldIsCurrent`); and a stray whose check no change
of the row has crossed would still pass it (`StraysChecked`).

**The file.** `FileInv`: at most one process is between acquiring and releasing
the lock file (`OneInside`); what such a call has read is the file's contents until
it renames (`Fresh`), and what it is about to write is one change of one tenant's
route (`CallsOK`). So the rename is the abstract step and every other action a
stutter.

**The relay.** `RelayInv` says of a position, the sidecar's and each replica's
own, that it is the start of the stream or some row's position, and that every
event committed in order up to it is published or dead-lettered; and of a batch
that whatever lies before one of its rows is in the batch or dealt with. The
second holds when the batch is read because a read returns a prefix of what is
visible (`ReadPrefix`, by cardinality), and stays because the head is removed only
after it was resolved. A commit keeps both: an event that is not `late` comes
after every row stored before it (`Grows`). That `late` has to be judged against
dropped rows as well as visible ones came out of this proof: with three events, a
row that commits behind a dropped one is passed by the cursor. For
`EarnedDeadLetter`, `CountInv` adds that a non-zero count belongs to the row that a
scan from its position begins with, and that a batch is what comes right after its
replica's position; both break as soon as a row can appear or vanish at the head,
which is why the property excepts late commits and retention. `SeqInv` adds to
`SeqGapFree` who holds the allocator's row lock and what number it took. `LeaderInv`
says that a replica's flag is the lock it holds, which `SingleProcessLeader.Release`
and a broken session undo.

**The consumer.** `ConsumerInv`: the marker is there exactly when the effect is
(`Stored`); a loop at a handler has applied the earlier ones (`Progress`); over
Kafka, everything behind a committed offset, behind a batch and behind the offset
that the holder would fetch next is applied (`OffsetsOK`), also for a member that
has lost its partition and does not know; in memory each group has one loop, which
is at the envelope it received last (`ChannelsOK`); and earlier events precede
later ones in every log, while the cursor is past only what every group has
(`LogOK`).

**The requests.** `QuotaInv` counts, by window, the calls that hold a unit.
`RecordInv`: in `tx` mode whoever runs has the lock, over a record that nobody may
replay, whether or not its claim has expired (`TxClaims`); in `reserve` mode a call
that runs and has not lost its claim (`Holds`) has the live reservation, alone, and
every response there is is the remote system's (`Reservations`); and what was done
and said since the last expiry is what the record will answer, unless a sweep has
deleted it live (`RecordTells`). A stray may change the record, but only in two
ways that these survive: `Complete` stores the one remote response, and `Abandon`
deletes what nobody has been answered from, and makes a stray of who held it.

**The host.** `LeakInv`: nothing runs before `Start` (`NothingYet`), since the error
paths of the boot return without waiting; and a group loop lives inside the
`Consume` that the supervisor waits for, or that one still has a group it has not
opened, because it could not (`LoopsAreWaitedFor`). `CauseInv` relates the context's
cause to what the phases of the shutdown have kept of it.

**The change feed.** All three properties speak of committed states, and a rollback
may follow at any step: each invariant therefore says the same of the snapshots
that an open transaction holds, and beside it how far the store is ahead of them.
`CallInv` relates the row before the call that runs to the row now (`Looked`).
`SaveInv`: etags are never handed out twice (`Numbered`), so a caller whose loaded
version is still the root's has loaded the members that are stored (`Committed`),
and a transaction has given every row that it wrote a version nobody holds
(`Adding`). `FeedInv`: the outbox tells of the row as it was before the call until
the call has emitted (`Seen`). `IndexInv` is the same for documents, one stage
later, and holds a key out once its last change is one that the index cannot
follow; it also needs that a page of the backfill is of a live row (`Paged`). The
lemmas `MaxIs`, `Longer`, `AppendMatch` and `AppendMiss` say what an appended event
changes in what a consumer knows. They are why `Replayed` and `Indexed` are written
by the place of the last event: of a fold over the outbox the provers cannot
establish what one more event does, which takes an induction.

**Only model-checked:** liveness, which is outside the prover's reach; the
controller with `GormFencer` or deletions; and the gate of the default cell under
deletions, where `CutoffHolds` is checked by `gate_live`.

## 5. Not modelled, and why

- *Move budget, campaigns, cohorts, placement* (`cells/budget.go`, `campaign.go`,
  `placement.go`, `MoveCohort`): sequences of whole moves; each move is one of
  `MoveController`. The hazards there (concurrent moves that pass the budget's
  check together, a reversal that itself fails or reverses a member another driver
  has moved on) are left for a module over `TenantMove`. The data a move copies is
  not modelled: in this code the copying phase is a no-op.
- *Long-running operations* (`lro/`): one goroutine and one mutex per operation;
  the race of completion and cancellation for the final record is short, and a
  crash leaves the operation pending by design.
- *The in-process de-duplicator* `middleware/dedup.go`: a cache per pod without a
  claim.
- *GORM's resolution of a statement to a tenant* in the write-guard: a statement it
  cannot resolve passes, as a stream's does in `WriteGuard`.
- *Clocks of different hosts* are one clock in `OutboxRelay`: skew adds to the ways
  stamps and commits disagree, which `InCommitOrder` already shows. The cursor
  column is taken to be as precise as `created_time`, which
  `gormtx/outbox.go:315` asks of the deployment.
- *Filters, ordering, SQL repositories, migrations*: query building and schema
  files, sequential and without shared state of their own.
- *Authentication, authorization, stateless middleware, resilience wrappers,
  configuration, secrets, flags, GraphQL federation, SLO derivation*: decisions
  local to a request, I/O, or lookup of configuration data. The breaker's and the
  limiter's states belong to the implementations a service passes in.
- *Code generators and scaffolding* (`cmd/`, some 12,000 lines of Go): batch
  programs that turn descriptors into text. A model of them would be their text
  again.

## 6. Plan

1. `MoveCampaign`: cohorts and their reversal, waves, the budget ledger, over
   `TenantMove`.
2. `Operations`: submit, completion, cancellation, wait and crash.
3. Proofs about the controller with `GormFencer`: what is left of the fence's
   safety when its two epochs are checked separately (section 3), and for which
   orders of delayed calls.
