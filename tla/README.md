# A TLA+ verification of Xinity AI

Xinity AI runs language models on an organisation's own machines. A *dashboard*
decides which model runs on which node, a *tether* carries those decisions to a
*daemon* on every node and the daemons' reports back, and a *gateway* routes
inference requests to the nodes that serve them. All four meet in one Postgres
database; an *info server* describes the models, a CLI installs everything.

This directory models the control plane (the tether, the daemon and the
dashboard's orchestration) and the stateful core of the gateway. `PROJECT.json`
maps each definition to the source lines it stands for and lists the hazards the
properties were chosen from.

To check a run: `tlc -config MCOrchestration_safety.cfg MCOrchestration`.
To check proofs: `tlapm TetherConnectionsProofs.tla`.

All paths below are under `src/packages/`.

## Inventory

Everything is TypeScript on one event loop per process. So there are no data
races inside a process; what interleaves is the stretches between two `await`s,
the processes with one another, and all of them with the database.

| Part | State it keeps | Operations | What is hard | What makes it correct |
|---|---|---|---|---|
| tether: connections (`xinity-tether/src/connections.ts`, `index.ts`, `status-writer.ts:11-100`) | map node → stream with its key; per-node chain of availability writes; `ai_node` rows | register, open, supersede, cancel, expire, drop all on a database failure | streams of one node overlap; writes are slow and may fail; a restart forgets everything | the row's flag agrees with the map once writes are done; one pinned key per id; a registration clears its address first |
| tether: keepalive (`connections.ts:150-205`) | last sign of life per node, time of the last tick | `markSeen`, tick | the tether's own stalls look like everyone's silence | a healthy daemon is never expired, a dead one is |
| tether: notify bus, desired state (`notify-bus.ts`, `desired-state.ts`) | pending set, timer | notification, flush, build, push, re-subscription | lost notifications, overlapping builds, failing builds | each change reaches the connected daemon |
| tether: status writer (`status-writer.ts:102-280`) | buffer of newest states, timer, flush in progress | queue, flush, retry, stop | failures in the middle of a batch, vanished rows, shutdown | no newest state lost, none overwritten by an older one, members told of changes |
| tether: configuration broadcast (`config-broadcast.ts`, the daemon's `config-feed.ts`) | last values read, timer | refresh, push to all, first event of a stream | overlapping refreshes, failed reads, streams that start during one | every open stream ends with the values read last, and those are the table's |
| daemon: sync (`xinity-ai-daemon/src/modules/sync-coordinator.ts`, `db-sync.ts`) | copy of the desired state, gate of runs | receive, trigger, run | states that arrive during a run; dropped triggers | the newest state received is applied |
| daemon: tether client (`tether-client.ts`, `node-identity-store.ts`) | stream, timers, identity in two files | connect, heartbeat, reconnect, rotate | dead links, crashes between two writes, refusals | eventually connected; heartbeats only of an open stream; registered as what is on disk |
| daemon: installations (`model-installation/`) | per-installation stage and last reported state, group generation, files in the cache | admit, download, copy from a peer, evict, start, watch, stop | multi-node groups start together; restarts mix generations; downloads share a disk and resume | an engine runs only for an attempt all members were admitted to; files are whole; eviction takes no model that stays desired |
| dashboard: orchestration (`xinity-ai-dashboard/src/lib/server/lib/deployments/`) | single-flight flags; deployments and installations in the database | sync: require, collect, plan, uninstall, install | edits during a run; reads at different moments; no transaction | ports, spreading and capacity kept; installations converge to what is required |
| dashboard: nodes, deployments, notifications, audit, auth, licence (`orpc/procedures`, `notifications`, `audit`, `license`) | rows; the scheduler's last snapshot | CRUD; `removeNode`, `retryDeployment`; scheduled checks | decisions on lagging flags; changes between snapshots | only disconnected nodes removed; each phase change told once |
| gateway: routing (`xinity-ai-gateway/src/llm-forward/model-data.ts`, `load-balancer.ts`, `cache.ts`, `cache-invalidation.ts`) | caches with generations, admission counters in Redis or memory | resolve, select, admit, release, invalidate | results of old queries stored after an invalidation; counters that expire | requests are routed by current rows; each admission is counted and let go once |
| gateway: authentication (`auth.ts`, `semaphore.ts`) | key cache, verifications in flight, slots and waiters | verify, acquire, release, time out | a timeout races a released slot | slots never leak; every request answered; no revoked key past its TTL |
| gateway: responses (`response-store.ts`, `responses/`) | a response in the cache and in its row | generate, save, cancel, delete, read | late writers, two stores, failures after the client was answered | the first outcome stays; every response settles; the cache catches up |
| gateway: realtime (`realtime/session.ts`) | event chain, turns with lease and watchdog | append, commit, clear, close, engine events | events in any order, silence, departure | leases given back once; committed turns end; items told in order |
| gateway: records (`callLogger.ts`, `usageRecorder.ts`) | queue, timer, inserts under way | enqueue, flush, fall back to rows, shut down | lost answers, bad rows, flushes beside each other | written once; only bad rows lost; flushed means settled |
| shared configuration (`common-env/src/config/`) | values in force, timer, refresh under way | notification, refresh, retry, reconcile, stop | lost notifications, failing reads | values end as the table's and never go back |
| info server, schema, logging, CLI | catalogue; files | read, install | – | – |

How they interact. The dashboard writes deployments and, through its sync,
`model_installation` rows. A row trigger notifies the tether, which builds the
node's desired state and pushes it over the node's event stream. The daemon
copies it and runs its drivers. It reports installation states by signed POST;
the tether batches them into `model_installation_state` and pushes again to
the other members of a group. The tether also owns `ai_node.available`, which
the gateway's routing, the dashboard's planning and `removeNode` all read.
The gateway checks a request's key, looks up its deployment and the nodes that
serve it in two caches fed by the same row triggers, takes an admission on one
of them, and writes what happened in batches. Settings of `dynamic_config` are
followed by each process for itself and relayed to daemons by the tether.

## Modules

| Module | Models | Composed with |
|---|---|---|
| `TetherConnections` | registration, streams, the availability chain, probe, restart, `removeNode` | – |
| `TetherKeepalive` | the keepalive loop against discrete time | justifies the guard of `TetherConnections!removeConnection` |
| `TetherClient` | the daemon's connection, its identity on disk, crashes | the other end of `TetherConnections`, with the tether reduced to the pinned keys |
| `DaemonSync` | the daemon's copy, gate and run | – |
| `DesiredStateFlow` | notify bus, builds and pushes | EXTENDS `DaemonSync`: a push *is* the daemon's `setDesiredInstallations` |
| `StateRegister` | abstract: what is promised of the stored states | – |
| `StatusWriter` | the buffer of states and its flushes | implements `StateRegister` while serving (`INSTANCE`) |
| `GroupLifecycle` | a multi-node group: daemons, the tether's restart, the pushes between | takes a report as stored and pushed at once; `StatusWriter` and `DesiredStateFlow` open those two |
| `ConfigBroadcast` | settings from the table through the tether to a daemon | – |
| `ConfigFeed` | a process that follows the table itself | – |
| `BlobDownload` | one file from a peer and the hub | – |
| `CacheEviction` | overlapping downloads on one disk | – |
| `Orchestration` | the dashboard's sync | – |
| `SlotPool` | abstract: what a pool of slots promises | – |
| `Semaphore` | `semaphore.ts` | implements `SlotPool` (`INSTANCE … WITH`) |
| `KeyAuth` | the API key check | EXTENDS `Semaphore`: its callers are verifications |
| `RouteCache` | the two routing caches and their invalidation | – |
| `RequestFlow` | from host selection to the release of the admission | – |
| `StoredResponse` | a response in cache and row | – |
| `RealtimeSession` | a transcription session | – |
| `RecordBatch` | the queue of call records | – |
| `MC…` | instances for TLC | see [Runs](#runs) |
| `TetherConnectionsProofs`, `StatusWriterProofs`, `OrchestrationProofs`, `KeyAuthProofs` | theorems | EXTENDS its component and TLAPS |
| `TetherFlowProofs` | theorems | about `DaemonSync`, `DesiredStateFlow`, `TetherKeepalive`, `TetherClient` and `ConfigFeed` |
| `GatewayCacheProofs` | theorems | about `RouteCache` and `RecordBatch` |
| `RequestProofs` | theorems | about `RealtimeSession`, `RequestFlow` and `StoredResponse` |
| `NodeProofs` | theorems | about `BlobDownload`, `ConfigBroadcast`, `GroupLifecycle` and `CacheEviction` |

Definitions named in lower case carry the name of the function they model;
those in upper case are environment steps, parts of a function, or vocabulary.
Definitions that no specification refers to, placed just before the one they
are a wrong variant of (`storeSources_Unguarded`, `rowFailsEndingBatch`), are mutants: they
show that each property can fail.

### TetherConnections

A *handler* is one run of `handleSSEStream`. It registers the node in a
transaction, later runs the stream's start callback (`addConnection`, which
supersedes), and ends by the stream's cancel callback. Connection ids are
compared only for equality, so the handler stands for its id, and ended handlers
are reused: the model allows reconnection without bound.

The transaction of `writeRegistration` has its statements: the retiring UPDATE
takes its snapshot (`handleSSEStream`), gets its rows once no other transaction
holds them and looks at them again (`retireOldNode`), and the upsert claims the id
and commits (`claimNode`), finds another key pinned and rolls back
(`claimRefused`), or throws (`registrationFails`: the database is gone, a
deadlock, or the unique index on live addresses). Transactions interleave as at
READ COMMITTED, Postgres' default: retired rows are `Locked` for everyone until
the end. The upsert and the commit after it are one step, so a rejection by the
index is a claim that cannot go on. `overtaken` is a history flag: another row
came to the address after this transaction had looked there. Such a claim is
rejected and the daemon, told 503, tries again; `OnlyOvertakenIsRejected` says that
no other is, which is what the retirement is for (`status-writer.ts:13`). A
commit's answer may be lost, which leaves a row available without a stream.

The promise chain of `syncAvailability` is `queued[n]` writes that have not
started and one `inFlight`. `BeginWrite` reads the map – as
`writeAvailability` does, when its turn comes – `CommitWrite` changes the row,
`FailWrite` is the logged error. `wire[h]` says whether the daemon still holds
its end; `removeConnection` (expiry, or an event that cannot be written) needs
it gone, which `TetherKeepalive` justifies. `unsynced[n]` is a history variable:
a change of the map was lost with a failed write, a mass disconnect or a
restart. Init admits rows of earlier releases, without a key. Authentication is
abstracted to the key presented.

### TetherKeepalive

Time is counted in units. `Pass` lets one unit go by while the event loop turns,
so nothing may be overdue; `Stall(d)` lets d units go by with no callback in
between, and what became due is then handled in any order. `runKeepaliveLoop`
is one tick with the code's factor 2 and strict comparisons. Ages stop counting
where all comparisons are decided, which makes the model finite without
bounding time.

### DaemonSync and DesiredStateFlow

A desired state is a *version* of the node's installations. The coordinator's
rx pipeline is its scan's state (`gate`) and the run `concatMap` is subscribed
to. A run reads the copy after its first awaits (`readDesired`); a failing run
leaves the engines between two states.

`DesiredStateFlow` adds the database (`Change` bumps the version and notifies
if anyone listens), a LISTEN connection that may break with notifications in
transit, the bus's pending set and timer, and the builds: `flush` and a
stream's `start` each begin one, nothing serialises them, and each pushes to
whichever connection is there at its end. One node is enough, since nodes share
only the timer.

### StatusWriter

States of one installation are numbered in the order the tether queued them.
`flushPending` takes the buffer; `readStored`, `insert` and `tellListeners` are
the stretches between its awaits; an insert may commit without its answer
arriving, be refused by the foreign key, or fail. `settle` is the end of the
promise including the scheduling of the next flush. There are three places for
flushes (the timer's, one beside it, and `flushAndStop`'s own) because whether
two can be under way is the question.

`StateRegister` is what all of that is for: a register per installation that moves
forward only, to states that were accepted by the process that writes them, several
at once; a crash may lose what is not stored yet (`lost`). The variables of the
register are those of the same names in `StatusWriter`.

### Orchestration

`syncDeployedModels` is the single flight with its rerun flag; the module has
room for two runs so that the guard's absence shows. A run reads requirements
(`assembleModelRequirementTable`), reads installations and live nodes and
collects what must go (`collect`), plans requirement by requirement
(`planNewInstallations`), then executes the two statements of `applyChanges`.
The environment edits, retries, loses nodes and the catalogue, and reports
misfits between any two of these. Memory is one number per node, and what
installations are charged (`Charge`) the number of units they need together; the ranking of
fitting nodes is left free, so the results hold for every strategy. Left out:
multi-node groups, Ollama's shared port, host memory, interconnect constraints.

### TetherClient

`client` is where the process is between two awaits of `connectSSE`: in the
handshake, reading a refusal, streaming, rotating its identity or pausing. Ids
and keys are minted numbers, and the tether is reduced to the key each id is
pinned with. A *dead* link delivers nothing in either direction and reports no
error, so only `silenceTimer` ends a wait on one; there is none while a
refusal's body is read, which the model keeps (`Hung`). `writeIdentity` writes
two files one after the other, and a crash in between may leave the old content,
the new or an empty file. The service manager starts the process again
(`Restart=on-failure`).

### GroupLifecycle

Each member's daemon has what the tether last pushed, a sync that works from
what it was given when it began, an engine with the attempt it was launched for,
and a health watch. A report is stored and pushed in one step, and storing a
failure raises the generation within the budget (`restartsAfter`). Downloads,
admissions, starts, calls and processes may fail, within one bound for all.
`vouched` is a history variable: the members stored as admitted in an attempt.

### ConfigBroadcast and ConfigFeed

Both follow `dynamic_config` by notifications, a coalescing timer and a fresh
read after each subscription; the table is a version number. They differ where
the code does. `ConfigFeed` refreshes one at a time, remembers that another was
asked for, retries failed reads and reconciles on an interval;
`ConfigBroadcast` refreshes without serialisation and leaves a failed read at a
log line.

### BlobDownload and CacheEviction

`BlobDownload` is one file: a number of chunks and whether each is the right one
at its place. `streamResumed` is `Resume` (a range answered with one) or
`Restart` (anything else, written over what is there). The leader's copy may be
absent, growing, whole or damaged. `leftover` marks chunks of a damaged copy
that were taken over without a check. Assumed: one download writes a file, and a
body ends after its last byte or with an error.

`CacheEviction` is the disk: each download measures it, lists the caches, plans,
evicts one directory at a time and writes unit by unit, with every other
download in between. `planEviction` is the code's loop as a recursive function;
`PlanIsLeast` is its reference definition.

### Semaphore, SlotPool and KeyAuth

`SlotPool` is what a pool promises: holders and queued callers, nobody queues
beside a free slot, a slot that comes free goes to a queued caller. `Semaphore`
is the counter, the queue of closures – those of waiters that timed out stay in
it – and the timers. The refinement maps holders and waiters. `KeyAuth` adds the
key cache, the verification that requests of a burst share, and the database
query that reads, fails or is late.

### RouteCache and RequestFlow

In `RouteCache` each table is a version; a look-up goes through the shared
deployment cache and the process's map of sources, with a query on a miss. The
shared cache executes commands in the order sent, later. `RequestFlow` starts
from the hosts found: select, admit, try the next, fall back to the other side
of a canary, resolve the catalogue entry, serve, release. Counters may expire,
and a decrement may fail (`missed`). Strategies only rank hosts, so any
candidate may be picked. `Release` stands for all paths on which a request lets
go, since each release function acts once whoever calls it first. The two caches
differ where a key is gone: Redis' DECR makes one, the cache in memory does
nothing (`decrCounts`).

### StoredResponse, RealtimeSession and RecordBatch

`StoredResponse` is one response with its status in the cache and in its row;
the generation, its progress writes and client calls are processes somewhere in
`getResponse` or `saveResponse`. Modes: blocking, streamed, background, research.
Each access to the cache or to Postgres may fail; a read that fails altogether
(`loadFails`) ends the call, and fails a generation that was looking for a
cancellation.

`RealtimeSession` keeps the chain of client events, and for each turn its
engine, lease, watchdog and what the client was told. Events are handled one at a
time, but a look-up that is not awaited and the engine's events come in between.
The watchdog is off, armed or due (`silence`); an engine event clears it, and sets
it anew for a committed turn, so it fires only after a time in which the engine
was not heard.

`RecordBatch` keeps which records are queued, in an insert or in the table; an
insert may commit and its answer be lost. `usageRecorder.ts` has the same shape.

## Runs

The `MC…` modules that gather several components check them in one run: the parts
share no state, `part` is chosen in the initial state, and in each behaviour one
part moves while the others rest. So each behaviour is one of one component, and
what is checked is what separate runs would check.

| Run | Parts and instance | What it shows |
|---|---|---|
| `tether_writes` | `TetherConnections`: 1 node, 3 handlers, backlog 1; `StatusWriter`: 2 installations, 2 reports each | no order of opening, superseding, cancelling and slow writes leaves a settled row wrong (`AvailabilitySettled`, `OpenStreamIsTheConnection`); a daemon that is gone leaves routing (`DisconnectedLeavesRouting`); reports survive failing flushes in order (`NewestIsKept`, `StoredStagesAreTold`, `AcceptedIsStored`) and implement the abstract register (`KeepsRegisterPromise`) |
| `nodes` | `TetherConnections`: 2 nodes, 2 keys, 1 address, 2 handlers; `GroupLifecycle`: 2 members, 1 restart, 1 fault; `ConfigBroadcast`: 3 writes, 2 refreshes; `BlobDownload`: 3 chunks; `CacheEviction`: 3 models, disk 4 | a connection speaks for the pinned key, and a registration is rejected by the index on addresses only if another overtook it (`ConnectedKeyIsPinned`, `OnlyOvertakenIsRejected`); members of a group are `LaunchedTogether`; streams end with the latest settings (`StreamEndsWithLatest`); however it was resumed, a finished file is whole (`BlobIsWhole`); eviction removes the least it must by what it listed, and no model that is desired and known all along (`PlanIsLeast`, `SteadyCacheStays`) |
| `tether_flow` | `DesiredStateFlow`: 2 versions, 2 builds; `TetherKeepalive`: 2 nodes, interval 2, timeout 6; `TetherClient`: 3 faults; `ConfigFeed`: 3 writes, one that does not resolve | a change is pushed and applied (`QuietMeansPushed`, `IdleIsCurrent`, `LatestIsApplied`); the keepalive tells the living from the dead (`HealthyNeverExpires`, `SilentDaemonExpires`); a daemon `ComesBack`; at rest the values in force are the table's (`QuietFeedIsCurrent`) |
| `orchestration` | nodes of size 2 and 1, 2 requirements of up to 2 replicas, 2 edits | `PortsDiffer`, `ReplicasSpread`, `CapacityKept`, `EditHasARun` |
| `orchestration_converges` | 2 nodes with room, 1 requirement | `Converges` |
| `gateway_caches` | `KeyAuth`: 2 keys, 1 slot, 2 requests; `RouteCache`: 2 look-ups, 1 change of each table; `RecordBatch`: 3 records, 1 bad, batches of 2 | the key check implements a pool of slots (`KeepsPoolPromise`) and leaks none (`SlotsVerify`), answers everyone (`RequestAnswered`) and forgets a revoked key (`RevokedKeyIsRefused`); requests are routed by current rows (`QuietSourcesAreCurrent`); call records are written once, and only bad ones lost (`OnlyBadRowsAreLost`, `FlushedIsSettled`) |
| `gateway_requests` | `RequestFlow`: 3 requests, 2 hosts with and without a canary, 1 fault; `StoredResponse`: 1 client, 1 failure, each mode; `RealtimeSession`: 2 turns | admissions are counted, let go and bounded (`HoldersAreCounted`, `AdmissionBounded`); a response settles, once (`ResponseSettles`, `RowIsFinal`); a realtime turn gives its lease back, ends and is told in order (`LeaseUntilEnd`, `CommittedTurnEnds`, `ItemToldInOrder`) |
| `updated_state` | 2 versions, 2 builds | **violated**: `UpdatedStateIsApplied` |
| `status_shutdown` | 1 installation, 3 reports | **violated**: `OlderNeverAfterNewer` once the process stops |
| `group_restart` | 2 members, 1 fault | **violated**: `NeverRestartsAlone` |
| `left_turn` | 2 turns | **violated**: `LeftTurnEnds` |
| `cache_room` | 3 models, disk 4 | **violated**: `DownloadFindsRoom` |

### Bounds and why they suffice

- *Handlers 3*: the longest interesting pattern is an old stream whose cancel is
  late, the current one, and one registering. *MaxBacklog 1*: a registration needs
  an empty queue; with the writes of streams that are then superseded or cancelled
  there is one in flight and several behind it, so a write can be stale.
- *One address for two nodes* in `nodes`: every registration with an address then
  competes for it. The theorems cover any addresses. Nodes, keys and handlers are
  interchangeable there (`SYMMETRY`; the run has no liveness property), and the database probe, which
  `tether_writes` exercises, always succeeds.
- *Interval 2, timeout 6*: the smallest whole numbers with the defaults' ratio
  and a point strictly inside the interval. Other values are covered by proof.
- *Versions 2, builds 2* (and *refreshes 2*): an old and a new state, and two
  builds to reorder. The proof covers any number.
- *Two installations, two reports*: a neighbour to vanish, and a newer state to
  arrive during the write of an older one.
- *Two requirements, nodes of size 2 and 1, licence 3*: a plan that must choose
  and cannot place all; two edits are an edit and one during its run.
- *One slot, two keys*: a holder and a waiter whose timeout races the release.
- *One change of each table, two look-ups*: a query before and one after it.
- *Two members, one fault, one restart*: a failure anywhere and the attempt after
  it; a second attempt that fails ends the group.
- *Three faults* in `TetherClient`: a crash while creating the identity, one
  while rotating it, and a dead link. Nine minted ids and keys are never used up.
- *Three chunks*: a resumed stream has a beginning, a middle and an end.
- *Disk 4, models of 2, 2 and 1, margin 1*: room for some models and not for all.
- *Three records, batches of two, two inserts*: a full batch with a bad row beside
  another insert.

### Fairness

The event loop runs each callback that is due; timers fire; each statement of
the database ends, with success or error. That is weak fairness of each
continuation, with success and failure in one fairness condition unless
stated. `StatusWriter` and the daemon's sync also need that queries and drivers
do not fail *for ever*: strong fairness of the successful step, since failures
make it enabled again and again rather than continuously; and `StoredResponse`
that a model does not go on calling tools for ever. postgres.js subscribes again
on its own, which `updated_state` assumes. `TetherKeepalive` assumes that the tether is not stalled over and
over for ever. `TetherClient` assumes that a tether with a live link answers; its
faults are bounded. `KeyAuth` assumes of a request that its look-up, which the
bound on cache writes may hold up, is taken when possible again and again, and
that cached keys expire. `Orchestration` and `updated_state` state convergence, so
their specifications let the environment and failures come to rest. Nothing is
assumed about daemons returning, builds succeeding, availability writes
succeeding, or engines answering: the properties name these cases instead. A
registration's transaction ends, well or badly, since Postgres breaks deadlocks.
In `RealtimeSession` time passes and a timer that stays due fires, which ends a
silent engine's turn; an engine that sends events for ever puts the timer off for
ever, and `CommittedTurnEnds` and `LeftTurnEnds` excuse it (`KeepsTalking`).

### Deadlock

Deadlock is checked wherever the environment can always act: `tether_writes` and
the two orchestration runs. The other runs hold parts that may really stop (a
daemon switched off, a feed that was stopped, a finished file, a gateway that
exited).

## Where code and documents disagree

1. **An outdated state may be applied last** (`updated_state`).
   `docs/features/daemon.md:25` has the updated state pushed and a periodic
   resync behind it. Overlapping builds may push in the wrong order, and the
   resync repeats the daemon's own copy.
2. **An older batch may land after a newer one during shutdown**
   (`status_shutdown`), against `status-writer.ts:144`: the flush of
   `flushAndStop` does not set `flushing`.
3. **A group member may restart on its own** (`group_restart`), against
   `vllm.ts:636`: an engine that dies while loading is neither running nor
   installed for the next sync, which launches it again for the same attempt.
4. **A turn may outlive its client for ever** (`left_turn`), against
   `session.ts:90`: `close` discards the turns there are, and an append still on
   the event chain starts another that nothing watches once the engine has spoken.
5. **Downloads may fill the disk** (`cache_room`), against
   `cache-eviction.ts:152`: the downloads of one sync measure the same free space
   and reserve nothing.

Observations that are not runs of their own:

- `docs/architecture.md:132` says the tether sets `available = false` when a
  daemon disconnects. `dropAllConnections` writes nothing and a failed write is
  not repeated; `DisconnectedLeavesRouting` excuses both (`unsynced`).
- `compute.procedure.ts:413` says only a disconnected node can be removed; the
  check reads the flag, which lags by the chain of writes.
- `orchestration.ts:403` says that orphans which cannot be placed stay; each is
  looked up on its own (`:429`), so two may count on the same place.
- The licence counts live nodes only (`orchestration.ts:244`).
- `docs/features/daemon.md:54` says caches of active models are never evicted; one
  whose model no catalogue knows any more is (`cache-eviction.ts:183`), and so may
  one that becomes desired between the listing and the removal (`:189`); `steady`
  excuses both.
- The wait for a refusal's body has no timer (`tether-client.ts:122`, `Hung`).
- Bytes of a peer's copy that was cut short are never compared with a hash
  (`peer-share.ts:139`, `leftover`).
- `status-writer.ts:13` retires the old node because the index would reject the
  insert. Two new nodes that register for one address at once both find nothing to
  retire: the second is rejected all the same, and gets in when it tries again.
- `audit-forwarder.ts`: a failed batch is not counted as a gap, and the queue is
  emptied long before the limit that would report one.

## Theorems

| Theorem | Statement | For every |
|---|---|---|
| `TetherConnectionsProofs!TypeCorrect` | `Spec => []TypeOK` | nodes, keys, addresses, handlers, backlog |
| `TetherConnectionsProofs!OpenStreams` | `Spec => []OpenStreamIsTheConnection` | the same |
| `TetherConnectionsProofs!ConnectedKey`, `RejectedOnlyWhenOvertaken`, `PinIsForever` | `Spec` implies `[]ConnectedKeyIsPinned`, `[]OnlyOvertakenIsRejected`, `PinNeverChanges` | the same |
| `TetherConnectionsProofs!Availability` | `Spec => []AvailabilitySettled` | the same |
| `TetherFlowProofs!HealthySurvivesStalls` | `KeepaliveSpec => HealthyNeverExpires` | interval ≥ 1, timeout ≥ 3 intervals |
| `TetherFlowProofs!NoStateLost`, `NewerGetsARun` | `DaemonSpec => []IdleIsCurrent`, `[]NewerStateIsQueued` | versions |
| `TetherFlowProofs!NothingMissed` | `FlowSpec => []QuietMeansPushed` | versions, builds |
| `TetherFlowProofs!FeedIsCurrent`, `ConfigOnlyAdvances` | `FeedSpec => []QuietFeedIsCurrent`, `ConfigNeverGoesBack` | versions, faults |
| `TetherFlowProofs!ServesAsOnDisk`, `NoWaitUntimed` | `ClientSpec => []StreamIsOnDisk`, `[]WaitsAreTimed` | identities, faults |
| `StatusWriterProofs!NewestKept`, `ForwardOnly`, `MembersHear` | `ServingSpec` implies `[]NewestIsKept`, `OlderNeverAfterNewer`, `[]StoredStagesAreTold` | installations, reports |
| `StatusWriterProofs!UnstoredIsFlushed` | `ServingSpec => []UnstoredHasAFlush` | the same |
| `StatusWriterProofs!WriterIsARegister` | `ServingSpec => KeepsRegisterPromise` (refinement) | the same |
| `OrchestrationProofs!PortsNeverClash`, `ReplicasStaySpread`, `CapacityIsKept` | `Spec => []PortsDiffer`, `[]ReplicasSpread`, `[]CapacityKept` | finite sets of nodes and deployments, capacities, footprints, licences, bounds on edits |
| `OrchestrationProofs!NoEditIsForgotten` | `Spec => []EditHasARun` | the same |
| `OrchestrationProofs!LicenseIsKept`, `NoMoreThanRequired` | `Spec => LicenseKept`, `RequiredAtMost` | the same |
| `NodeProofs!GroupLaunchesTogether` | `GroupSpec => []LaunchedTogether` | members, attempts, faults |
| `NodeProofs!NoDaemonPassedOver` | `BroadcastSpec => []StreamEndsWithLatest` | versions, refreshes |
| `NodeProofs!FinishedIsWhole` | `DownloadSpec => []BlobIsWhole` | chunks, faults, with and without a known hash |
| `NodeProofs!EvictsTheLeast`, `SteadyCachesStay` | `EvictionSpec => []PlanIsLeast`, `SteadyCacheStays` | finite sets of models, sizes, disk, margin |
| `KeyAuthProofs!SemaphoreIsAPool`, `AuthKeepsPool` | `SemSpec => KeepsPoolPromise`, `AuthSpec => KeepsPoolPromise` (refinement) | callers, limit, queue |
| `KeyAuthProofs!SlotsStayAccounted`, `NoSlotLeaks` | `AuthSpec => []SlotsAccounted`, `[]SlotsVerify` | the same, and requests |
| `KeyAuthProofs!NobodyIsOrphaned`, `RevokedStaysRefused` | `AuthSpec => []NoRequestOrphaned`, `RevocationLasts` | the same |
| `GatewayCacheProofs!SourcesAreCurrent` | `RouteSpec => []QuietSourcesAreCurrent` | look-ups, changes |
| `GatewayCacheProofs!NoRowCostsAnother`, `FlushSettlesAll` | `RecordSpec => []OnlyBadRowsAreLost`, `[]FlushedIsSettled` | records, bad rows, batch size, inserts |
| `RequestProofs!LeasesEnd`, `CommittedWatched`, `ToldInOrder` | `SessionSpec => []LeaseUntilEnd`, `[]CommittedIsWatched`, `[]ItemToldInOrder` | turns, caps |
| `RequestProofs!HoldersCounted`, `AdmissionsBounded` | `RequestSpec => []HoldersAreCounted`, `[]AdmissionBounded` | requests, hosts, placements, batch size |
| `RequestProofs!RowStaysFinal`, `RowIsNotAbandoned` | `ResponseSpec => RowIsFinal`, `[]NoRowAbandoned` | clients, progress writes, failures |

Assumptions are the named ASSUMEs of the component modules: null values differ
from real ones, bounds are naturals, sets that are counted are finite, and the
timeout is at least three intervals, as by default (`config-schema.ts` does not
enforce it).

- *Availability.* Not inductive: it says nothing while writes are pending.
  `Settling(n)` says, for every state of the chain, that what is in flight, what
  is queued, or the row itself will bring the row to the map's value;
  `StreamInv` (a handler's phase agrees with the map, and a busy handler has a
  node) supplies that a cancelled stream removes only itself.
- *Identity.* `IdentityInv` needs `StreamInv` for the node of a handler; the
  step splits into what a committed claim does and what every other action leaves.
- *Rejection.* `OnlyOvertakenIsRejected` speaks of claims; `AddressInv` says the same
  of transactions that still wait for their rows, whose snapshot must already hold
  whatever is on the address. A claim that commits elsewhere either brings a row to
  the address, and overtakes, or clears it.
- *Keepalive.* `SilenceBounded`: a healthy daemon has been silent for at most one
  interval longer than the loop since its last tick, unless that tick is so late
  that it restarts the timers, or has just happened with heartbeats of a short
  stall still to be handled. A tick that does not restart the timers thus sees at
  most three intervals of silence, the timeout.
- *DaemonSync.* `SyncInv`: the gate is idle exactly when no run is under way,
  and a running run whose target is outdated has another queued.
- *DesiredStateFlow.* `OnItsWay`: while connected without a failed build, the
  current version has been pushed, or a notification, a pending entry with its
  timer, a silent LISTEN connection, or a build that will still read it – or has
  read it – is there to push it.
- *StatusWriter, while serving.* `OneFlush`: only the timer's flush is ever busy,
  and no timer is set beside it. Hence `InOrder`: a queued state is the newest
  accepted, a batch with nothing queued behind it holds the newest, and what is
  stored is not newer than the batch; so putting a batch back, or writing it,
  never hides a newer state. `Told` follows what the flush read before its
  insert. `OneFlush` is exactly what the shutdown run shows to fail. For the
  register one thing more is needed (`AfterLoss`): what a process that died had
  accepted is neither queued nor in a batch. Then an insert is a `Store`, a report
  an `Accept`, a crash a `Lose`, and everything else a stutter. `Scheduled`, that
  what is queued has the timer or a running flush before it, needs no other part
  to be inductive; with `InOrder` it gives `UnstoredHasAFlush`.
- *TetherClient.* `ClientInv`. That a stream is served as what is on disk is not
  inductive: while an identity is created or rotated, memory, the two files and the
  tether's pins may all differ. `IdentityInv` says that a process whose identity is
  not the one on disk is `Barred`: the tether has its id pinned with another key,
  and a pin is never taken back, so it gets no stream before it has replaced
  itself. `WriteInv` says what the write of the two files has yet to do.
- *ConfigFeed.* The property speaks of rest only. `FeedInv` says of every state
  that values older than the table have something coming for them: a notification,
  a timer, a refresh that was asked for again, or a read that has yet to begin or
  took the newest; that there is one read at a time; and that what is read is no
  older than what is in force, so that a read never takes the values back.
- *Orchestration.* All three placement properties are parts of `Placed`, which must
  hold of the rows and, before anything is written, of what a run counts on: what
  it keeps with what it means to install (`Keeps`). Every row on a node the run plans
  for is among what it keeps, or among what it has yet to uninstall. `OneRun`, the
  single flight, is why that stays so: no other run adds a row meanwhile.
  `PlacedAfterPlan` is one turn of the planner's loop, `PlacedAfterInstall` the
  insert. Ports need that there is a free one: a node's installations are of
  different deployments and there are more ports than deployments
  (`SomePortIsFree`), so the search for the least succeeds. Charges need that a
  subset is charged no more, and one more installation its footprint; `Charge` counts
  units, of which both are facts about cardinalities. The licence is kept in
  every state of a plan that holds anything (`LicensedPlan`): what a requirement adds
  is charged its footprint for each installation (`ChargeOfOneDeployment`), of which
  the division left room for that many (`RoomForCount`). For `RequiredAtMost`,
  `Counted` holds of each deployment from `collect` on: what the run counts on is no
  more than required, has the settings it read, and nothing has been planned for a
  requirement that is still to be planned, so that what is missing is what the run
  kept subtracted from what is required. Both then carry over to the rows, because
  `Keeps` bounds what is on the counted nodes when the run inserts.
- *CacheEviction.* `planEviction` is a loop over the candidates in order of age, so
  `PlanIsLeast` needs its loop invariant, `PlanInv`: after i entries, what is to go is
  all stale caches among them, or the oldest that suffice and would not without
  their last. That the loop's recursive function has a value, and that the value
  keeps `PlanInv`, is proved by induction over i; it needs that no cache is listed
  twice (`NoRepeats`). The bytes of a set of caches are a cardinality, so that one
  more cache adds exactly its size. `JobInv` carries this to each download: one that
  is resolving has every steady model among those it needs, and what it then evicts
  is a least plan that holds none of them. `SteadyIsWanted`: what is steady is
  desired and known.
- *GroupLifecycle.* That every member is vouched for is known at each place the
  attempt passes: a stage that is stored (`StoreInv`), a target that says admitted
  and a launch (`GroupSyncInv`), and an engine (`EngineInv`).
- *ConfigBroadcast.* `StreamEndsWithLatest` with its types is inductive: values are
  read and pushed in one stretch, and so are a stream's opening and its first event.
- *BlobDownload.* `Continues`: the next chunk of a copy or a stream is the one that
  is missing. `WrongIsDamaged`: what is not right is left over from a damaged copy,
  or still being copied from one. `FinishedIsDone`: a finished file ends the
  download.
- *Semaphore and KeyAuth.* `SemInv` is the types and `SlotsAccounted`, which is
  inductive: the counter is the number of holders, nobody waits beside a free
  slot, and each waiter has one live closure. Each operation is then a step of
  `SlotPool` on holders and waiters (`AcquireStep`, `TimeoutStep`,
  `ReleaseStep`). `AuthUsesSemaphore` shows that every step of the key check is
  one of the semaphore or leaves it alone, which carries both results over.
  `NoRequestOrphaned` is inductive with the types, because whatever ends a
  verification answers all who joined it; `RevocationLasts` is a step property: no
  step of any actor makes a verdict on a row that is bad a good one.
- *RouteCache.* `RouteInv` adds to the property that what a query in flight could
  still store is the current version (`AnswerOlderIsDiscarded`), and that a
  noted generation is not from the future (`NotedIsPast`): an invalidation then
  disarms every query that read before it.
- *RealtimeSession.* `TurnInv` speaks of one turn; one lemma for each function of
  `session.ts` shows that it keeps a turn's invariant, and `Lifts` carries that
  to the session, so a step's proof is what it does to the turns it touches.
  `ToldInv` adds a turn's *tale*: a committed turn was announced, unless nobody
  listens, and an uncommitted one never; and `CurrentTakesAudio`: the turn that
  takes audio is not committed unless it has ended. Without either, a second commit
  would be told twice, or a transcript without its commit.
- *StoredResponse.* `OnlyRunCreates`: no process but the generation ever carries
  the creating write, so once it is past it, a late save can only settle a row that
  is in progress. `SettleInv`: as long as no write has failed, a row in progress has
  a generation that will still write it or a cancellation about to
  (`RunWritesOrIsCancelled`), and nobody sees the cancelled status, which makes a
  generation give up, before that cancellation is on its way (`CancelledIsOnItsWay`).
- *RecordBatch.* `OnePlace`: a record is unlogged, queued or in one insert.
  `WrittenOnce`: a record that is still to be written is not in the table, so neither
  the fallback to single rows nor a lost answer writes it twice. `DueIsAwaited`: what
  the shutdown's flush owes is in inserts it waits for.
- *RequestFlow.* `FlowInv`: a request holds nothing before it is admitted and has
  chosen its host from then on, each counter is its holders less what was missed,
  and holders that nothing was missed under stay within the limit
  (`HoldersBounded`).

`TypeCorrect`, `PinIsForever`, `NewerGetsARun`, `SlotsStayAccounted` and
`CommittedWatched` are proved and not checked by a run: parts of the inductive
invariants worth stating for themselves. `ForwardOnly` proves of a serving process
what `status_shutdown` refutes of one that stops.

Induction. The library's induction theorems take a predicate as a parameter, which
the installed provers cannot instantiate. `SetInduction` in `NodeProofs` states it
of a *set* of numbers instead, from the well-foundedness of `<`, and is cited with
the set of numbers of which the claim holds.

Only model-checked: liveness under fairness, which is out of the prover's reach.
Most of it rests on a safety property, that something is always there to bring it
about, and that half is proved:

| Liveness property | What is proved of it |
|---|---|
| `DisconnectedLeavesRouting` | `Availability`: the chain of writes ends with the map's value |
| `AcceptedIsStored` | `UnstoredIsFlushed`: an unstored state has the timer or a flush |
| `LatestIsApplied` | `NothingMissed`, `NoStateLost`: a quiet tether has pushed, an idle daemon has applied |
| `ComesBack` | `NoWaitUntimed`: no wait without its timer |
| `Converges` | `NoMoreThanRequired`, `NoEditIsForgotten`: no run overshoots, no edit is left to the timer |
| `RequestAnswered` | `NobodyIsOrphaned`: each waiting request has a verification |
| `RevokedKeyIsRefused` | `RevokedStaysRefused`: once its verdicts are gone, none comes back |
| `ResponseSettles` | `RowIsNotAbandoned`: a generation that is over leaves no row to nobody |
| `CommittedTurnEnds` | `CommittedWatched`: a committed turn has its watchdog |
| `SilentDaemonExpires` | nothing: that a tick comes is fairness itself |

No run lists the properties of `UnstoredIsFlushed`, `NoWaitUntimed`,
`NoMoreThanRequired`, `NobodyIsOrphaned`, `RevokedStaysRefused`,
`RowIsNotAbandoned`, `ServesAsOnDisk`, `ConfigOnlyAdvances` and `LicenseIsKept`.
TLC checked them on instances like the runs' (`LicenseKept` with a licence of 2)
before they were proved.

## What the properties excuse

Some properties name a case in which the code gives no guarantee, by a history
variable or a term of their own. In these cases the hazard is real and nothing
here shows it harmless:

| Excuse | Property | The case |
|---|---|---|
| `unsynced` | `AvailabilitySettled`, `DisconnectedLeavesRouting` | the write failed, a mass disconnect, a restart, a registration whose answer was lost |
| `untold` | `StoredStagesAreTold` | a write that committed and was reported failed |
| `missed` | `HoldersAreCounted`, `AdmissionBounded` | a counter that expired under its holders; a decrement that failed or found none |
| `failures`, `aborted` | `ResponseSettles` | a failed read or write, a crash, a stream whose client left |
| `KeepsTalking`, `stranded` | `CommittedTurnEnds` | an engine that talks for ever, a look-up that threw |
| `steady` | `SteadyCacheStays` | a model that no catalogue knows, or that was not desired all along, as one that becomes so after the listing |
| `leftover` | `BlobIsWhole` | bytes of a damaged copy that was cut short or has no known hash |
| `struck` | `OnlyBadRowsAreLost` | a record whose statement failed for another reason than a bad row |

## Exposures without a property

Known exposures of the code that no property speaks of, most of them because
nothing in it promises otherwise:

- an interval or timeout lowered at run time expires daemons that follow the old
  one (`tether-client.ts:144`), and nothing keeps the liveness timeout above the
  heartbeat interval (`config-schema.ts:40`);
- two daemons with one identity supersede each other for ever
  (`tether-client.ts:205`);
- a state the tether accepted and had not yet written when it crashed is never
  sent again (`state.ts:36`; `lost` in `StatusWriter`), and two reports posted
  at once may be queued in either order (`state.ts:41`);
- a restart of a failed group that fails itself is not repeated
  (`status-writer.ts:169`);
- an installation that does not fit may be planned on the same node again
  (`orchestration.ts:569`), and two dashboards would not see each other's single
  flight (`:583`);
- the deployment cache has no generation: a query older than an invalidation may
  be stored after it, until the entry expires (`model-data.ts:122`); likewise the
  cached copy of a response, which may be older than its row
  (`response-store.ts:59`);
- when both sides of a canary run on one node, a request rolled to one may be sent
  to the other (`model-data.ts:310`);
- a client that leaves its stream aborts the generation and its row stays in
  progress (`stream.ts:230`); a look-up that throws strands a realtime turn
  (`session.ts:336`);
- a late `stop` of a failed attempt may end the next attempt's container
  (`vllm.ts:762`), which then fails like any other;
- a body from the hub that ends early without an error is taken for the file, as no
  size is compared after it (`vllm-download.ts:194`), and two installations of one
  model that start together write the same `.incomplete` file (`vllm.ts:734`);
- an engine that never stops sending events keeps a committed turn open for ever
  (`session.ts:285`);
- overlapping refreshes of the broadcast, or a failed one, leave older settings in
  force until the next write (`config-broadcast.ts:43`).

## Not modelled

See `components` in `PROJECT.json` for each part and its reason. In short:

- presentation, the command-line installer and the MCP server, which are most of
  the repository's lines: they hold no state beyond a form or a plan that is
  carried out once;
- pure I/O and parsing (hardware and interconnect detection, proxying, metrics,
  format conversion in the gateway), and Ollama's sequential pulls;
- third-party state (sessions, organisations, roles) and stateless checks
  (signatures, permissions, licence files);
- real-valued arithmetic (footprints, ranking of nodes and hosts);
- the notification scheduler, which compares two snapshots in one process. That
  it tells only some changes follows from its period; nothing says it tells all.
- in modelled parts: multi-node placement and host memory in `Orchestration`, the
  choice of a repository's files, media uploads, sealed secrets.

## Plan

Done: the tether (connections, keepalive, desired state, status writer,
settings), the daemon (sync, client, groups, downloads, cache), the dashboard's
orchestration, and the gateway (authentication, routing, admission, responses,
realtime, records).

Every safety property of the runs is proved. Two refinements were considered and
left out. `DesiredStateFlow` implements a channel that delivers the latest version
only without overlapping builds, which the code does not exclude (`updated_state`).
`Orchestration` implements an assignment of replicas to nodes that always keeps
`Placed`, but that abstraction would state no more than the proved `PortsDiffer`,
`ReplicasSpread`, `CapacityKept` and `RequiredAtMost` together.
