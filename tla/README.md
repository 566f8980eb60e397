# Neemata, verified: TLA+ models of the framework's concurrent parts

Neemata is a TypeScript monorepo: a durable workflow engine
(`packages/workflows`), a typed RPC framework (`client`, `protocol`,
`transports`, `gateway`, `application`, `core`, `pubsub`), and a build and
process host (`neem`).  This project models the parts whose correctness rests on
concurrency, ordering and failure, checks them with TLC on small instances, and
proves the safety of most of them, queue, task runs, runtime, client, network and
host, for every instance with TLAPS.

Paths are relative to the repository; `W` stands for `packages/workflows/src`.
`PROJECT.json` names the source lines of every definition, and the hazards the
properties are for, each at its line.

## 1. Inventory

### The workflow engine

| Component | State | Operations | What is hard |
|---|---|---|---|
| Command queue, Postgres (`W/adapters/postgres/queue.ts`, `executor.ts`) | rows of `workflow_commands`: subject, lease, `run_at`, delivery count, `dead_at`, `reaped_at` | enqueue continue (upsert), dispatch attempt, claim, ack, release, heartbeat, deleteUnclaimed, requeue, mark reaped | wake-ups against claims, lease expiry, stale acks, dead-lettering |
| In-memory runtime (`W/runtime/in-memory.ts`) | the same queue and store as arrays and maps | the same | must agree with Postgres, without its indexes |
| Run store (`W/adapters/postgres/store-*.ts`, `W/runtime/transitions.ts`) | runs, nodes, node children, attempts | status transitions, attempts, fenced settlement, child runs, cancellation, retention, lists | guarded updates instead of locks; writers in different orders |
| Execution worker (`W/runtime/worker/task-attempt.ts`, `activity-attempt.ts`, `retry.ts`, `reconcile.ts`, `heartbeat.ts`) | the claimed command and the snapshot read | load, run, heartbeat, settle, retry, reconcile, release | snapshot stale at settlement; a crash anywhere |
| Coordinator (`W/runtime/coordinator/`) | none; a run lock per pass | continue a run: select ready nodes, dispatch, fan in, start and cancel child runs, finish | works on a snapshot; parent and child coordinators; orphans |
| Maintenance (`W/runtime/worker/maintenance.ts`) | none | reap dead commands, time runs out, prune | many store calls, no transaction, no lock |
| Client (`W/runtime/client.ts`) | none | start, cancel, retry, delete, watch, requeue | two calls for a cancel; racing starts |
| Scheduler (`W/runtime/scheduler.ts`, `W/adapters/postgres/schedules.ts`) | schedule rows | reconcile, fireDue, trigger, setEnabled | one run per slot across processes |
| Wake events (`W/runtime/wake-events.ts`, `W/adapters/postgres/wake-events.ts`) | one LISTEN connection, listeners | listen, reconnect, pulse | notifications lost while nobody listens |
| Worker pool (`W/runtime/worker/loop.ts`, `entry.ts`) | active executions, wake latch, abort signals | claim loop, periodic tasks, drain, shutdown | lost hints, abandon after abort |
| Deployment (`W/neem/`) | resolved pools, one runtime per thread | check pools, plan threads, start, stop | uncovered names; stop during start |

### The network layer

| Component | State | Operations | What is hard |
|---|---|---|---|
| Client connection (`client/src/core.ts`, `transports/ws`, `plugins/`) | connection state, socket, reconnect loop | connect, disconnect, reconnect, heartbeat | overlapping calls, sockets and loops |
| Calls (`client/src/layers/rpc.ts`, `transports/src/neemata/ws/session.ts`, `rpcs.ts`) | pending calls, streams and their credits at both ends | call, abort, pull, push | aborts crossing answers; credits |
| Blob streams (`client/src/layers/streams.ts`, `ws/streams.ts`, `protocol/src/*/stream.ts`) | credit, buffers, idle timers | pull, push, end, abort | credit at the cap; a single abort |
| Gateway (`gateway/src`, `ws/server.ts`) | connections, sessions, scopes | upgrade, connect, call, close, stop | teardown by several parties |
| HTTP host (`transports/src/http-server/node.ts`) | one request and response | read body, pump a stream | partial writes, client leaving |
| Request handlers (`neemata/http`, `json-rpc`, `mcp`, `application/src/api/api.ts`) | scopes of a request and its calls | resolve, middlewares, guards, procedure, timeout | batches; timeouts; scope of a stream |
| Pub/sub (`pubsub/src/redis.ts`, `manager.ts`) | listener counts, one SUBSCRIBE per channel | subscribe, publish, unsubscribe | leaving while joining |

### The server process

| Component | State | Operations | What is hard |
|---|---|---|---|
| neem host (`neem/src/internal/host/`) | controllers, groups, threads, recovery | start, reload, recover, stop | stop during recovery |
| Host proxy (`host/proxy.ts`) | desired and applied upstreams | setUpstreams, reconcile | racing reconciliations, refusals |
| Container (`core/src/container.ts`) | instances, resolutions, dependants | get, provide, fork, dispose | resolution against disposal |
| Lifecycle (`common/src/lifecycle.ts`, `application/src/host.ts`, `http-server/transport.ts`) | teardown stacks | start, stop, reload | failure or stop in the middle of a start |
| Dev session (`neem/src/cli.ts`, `internal/services/`) | watcher, runtime and config-signal services | rebuild, restart, replace, stop | stale rebuilds, crashing services |

What makes these correct, in brief.  *Queue*: a wake-up is never lost, and a
command that keeps failing is given up after a fixed number of deliveries.
*Store, workers, coordinator*: what is settled stays settled, the rows of a run
agree, retries follow the policy, an open run always has somebody who takes it
further, and an ended one has no child left executing.  *Network*: calls,
streams, connections and scopes end at both ends, once and completely.
*Process*: what is started is stopped, in order, whatever fails meanwhile.

## 2. Modules

```
Transitions           status maps
CommandTable          one operator per SQL statement on workflow_commands
 |   `- CommandTableProofs
 |- CommandQueue        the Postgres queue         MCCommandQueue
 |   `- CommandQueueProofs
 |- MemoryQueue         the in-memory queue        MCDurable
 |   `- InMemoryProofs  (of StoreParity too)
 `- RunStore            store methods on a task run's rows
     `- AttemptWorker   execution workers
         `- TaskRun     clients, workers, sweep    MCTaskRun, MCTasks, MCLive
             |- DurableTask  (INSTANCE: the abstract specification)
             `- TaskRunProofs
RunTree               store methods on a tree of runs
 `- Coordinator         a coordinator's pass, as operators
     `- WorkflowRun     coordinators, workers, sweeps, client   MCWorkflowRun, MCWorkflows
         `- WorkflowRunProofs
StoreParity           both run stores side by side             MCDurable
RunAdmission          racing starts                            MCWorkflows
Scheduler, RunWatch   schedules; watching over LISTEN          MCTasks
WorkerPool            the claim loop                           MCWorkflows, MCLive
 `- RuntimeProofs       of WorkerPool, RunAdmission, RunWatch, Scheduler
ClientConnection, RpcLink, BlobStreams, Gateway,
HttpResponse, HttpCall, PubSub                                 MCNetwork
 `- NetworkProofs       of ClientConnection, RpcLink, BlobStreams, Gateway,
                        PubSub, HttpResponse, HttpCall
NeemHost, HostProxy, Container, ServerLifecycle,
DevSupervisor, WorkerDeployment                                MCHost
 `- HostProofs          of NeemHost, HostProxy, WorkerDeployment, ServerLifecycle,
                        DevSupervisor, Container
```

An MC module that extends several specifications has a variable `part`: a
behaviour chooses one part at the start and the variables of the others never
change.  The parts do not interact; the sum only puts several checks of small
systems into one run.  The composition of components that do interact is in the
specifications: `TaskRun` (queue, store, worker, client, sweep), `WorkflowRun`
(store, coordinators, workers, sweeps, client), `RpcLink` and `BlobStreams`
(client, wire, server), `Gateway`, `HttpCall` and `ServerLifecycle` (transport,
gateway, application), `DevSupervisor` (supervisor and services).

Definitions marked *Seeded fault* are wrong variants of the definition that
follows them; nothing uses them but the mutation runs, which show that each
property can fail.

### The workflow engine

**CommandTable** is a function from row ids to rows or `None`.  A lease token is
a fresh uuid per claim; since a claim slot holds one command at a time, the slot
stands for the token.  `run_at` and `lease_expires_at` are only compared with
`now()`, so a row keeps the answers, `due` and `expired`, and the clock is two
actions that flip them.  The partial unique index of continue commands is
modelled in full, because two findings hang on it.

**CommandQueue** makes each statement a step.  Beside the table it has `held`
(what a worker is executing, in its own memory) and two histories: `owed`, the
subjects requested and not served since, and `givenBack`, the rows whose latest
delivery ended in a plain release.  **MemoryQueue** is the same interface over
`in-memory.ts`.

**RunStore** and **AttemptWorker** follow `runTaskAttempt` and
`runActivityAttempt`: *loading*, *starting*, *running*, *settling*, *fenced* (the
transaction has passed `loadFencedAttempt`), then the commit; or *dropping*
(only the ack is left) or *stale* (reconcile from what was read).  A
transaction's reads and its writes are separate steps; the writes, under row
locks until the commit, are one.  **TaskRun** adds clients, retention, an
operator and the sweep, with one step per store call and a crash between any
two.  The table has `CommandIds` rows, so a step that inserts waits for room
(`RoomFor`, `RoomToNotify`): a bound of the model, not a guard of the code.
**DurableTask** is what a task run promises: a status and the results of
its attempts in order, at most `Limit` of them, and one outcome.

**RunTree** names a run by its path from the root and makes each store method an
operator from database to database.  The queue is reduced to what `CommandQueue`
proves of it: an enqueued continue is delivered, or dies and is reaped.
**Coordinator** is one pass of `continueWorkflowRun`: `dispatch*` for activities,
tasks, child workflows, branches, parallels and maps in every mode, from a view
read earlier to writes applied to the rows as they are at the commit.
**WorkflowRun** runs it: a coordinator locks, reads and commits in three steps,
the two sweeps take neither lock nor transaction and make one step per call, an
activation of `cancelRunTree` being a frame on their stack (a coordinator's own
`cancelRunTree` is inside its transaction, hence one with the commit), an
attempt is claimed and settled (what lies between is AttemptWorker's), a client
cancels.  Retries are TaskRun's subject; a busy coordinator's give-back is a
plain release; reads made under the lock that creating a node takes are one with
it; `failMissingChildRun` cannot be reached, since no child row is deleted under
a live parent.

**StoreParity** gives the same calls to a model of the Postgres store and to one
of the in-memory store: start, leases, nodes, children, attempts, settlement,
cancellation, retention, deletion, lists page by page and details.  Calls are
sequential, a run has one node, and the order of equal timestamps is open.

**RunAdmission** has starters that use one idempotency key, one unique key, or
both, inside a transaction or not, and `retryRun`.  An insert that meets an
uncommitted row waits for it.  **Scheduler** has `reconcile`, `fireDue`,
`trigger` and `setEnabled` for both adapters, time in slots and no clock skew;
`ScheduleSound` is about Postgres, and the in-memory adapter is there for comparison.
**RunWatch** is `watchRun` over the hub's connection, its failures, reconnects
and pulses, and the debounce window.

**WorkerPool** is the loop between two awaits per step, with the driver's calls
reduced to what the loop sees of them.  A promise that settles and the loop's
use of its value are two steps.  **WorkerDeployment** is
`normalizeExecutionWorkerPools` and the planner over a set of configurations,
without its check of the coordinator's thread count (`planner.ts:22`), and one
worker thread's start, loop and stop.

### The network layer

**ClientConnection** has a step per run of JavaScript to its next await: calls of
the application, socket events, continuations.  The error and the close of a
failed socket are one step; the heartbeat's nonce is left out.  **RpcLink** has
the two frame queues between the client's RPC layer and the session; frames may
be dropped by the server's socket, calls aborted at either end; ids are not
reused.  **BlobStreams** counts bytes of one upload and one download, with the
credit cap and the pull size scaled down; a source may yield an empty chunk.
**Gateway** has upgrades, closes,
calls and the stop of the server.  **HttpResponse** is one request on
uWebSockets, an external library: `tryEnd` may take a part, an aborted response
throws; a body may fall short of its declared length or overrun it.  **HttpCall** takes one request through a handler and each call through
middlewares, guards and the procedure; a pipeline goes on in the background
after a timeout; filters only map errors.  **PubSub** has subscribers of one
channel; a command to Redis and its answer are one step.

### The server process

**NeemHost** has the controller's operations one at a time, and recoveries on
their own; one runtime name, `failOnWorkerError` on, hooks immediate.  It starts an
idle server and reloads one that runs or has failed, where `controller.ts:88`
refuses only a running one, and a `stop()` does not throw inside `recover`
(`runtime.ts:214`) or `reloadRuntime` (`controller.ts:189`).
**HostProxy** has the serial queue and a native proxy that may refuse.
**Container** has a chain of containers; injectables are numbered so that
dependencies come first, an alias points to a smaller number, the order among
incomparable instances is open.  Disposals by hand may overlap; a container's
`dispose()` is called once at a time, by the one that made it
(`execution-environment.ts:110`, `gateway.ts:149`).
**ServerLifecycle** nests the teardown stacks of host, gateway and transport and
lets every acquisition fail; one reload runs at a time, as its callers have it.
**DevSupervisor** numbers the versions on disk: a
runtime loads one between request and answer, or answers that the reload failed.
Runtime names other than one (with several, a reload of another marks a failed
server running again), `error` events and the content of the config are left out.

## 3. Runs

| Run | Checks | Instance | Result |
|---|---|---|---|
| `queue` | `TypeOK`, `OwedIsDeliverable`, `DeadExactlyAtThreshold`, `NoEndlessRedelivery` | 1 run, 1 attempt, 2 workers, 2 rows, threshold 2 | holds |
| `stores` | `KeepsQueueContract`, `HoldsWherePostgresFails`; `StoresAgree`, `PgLiveRunsSurvive` | 2 workers, 3 items; 2 runs, 2 child keys, 2 attempts, 6 changes | holds |
| `task_run` | `TypeOK`, `RowsAgree`, `RetryDiscipline`, `NotStranded`, `ImplementsDurableTask`; `ScheduleSound`; `WatchSound` | 1 task run with a retry, 2 workers, 3 rows; 2 schedules and 2 schedulers; 3 statuses, 3 connections | holds |
| `workflow` | `TypeOK`, `NotStranded`, `MapWithinConcurrency`, `SettledIsFinal`, `CoordinatorLeavesNoChild`; `PoolSound`; `StartsAgree`, `AdmittedIsSent` | one root run per plan with child runs, 2 coordinators, 1 crash, 1 timeout, a cancel; 2 slots, 3 commands; 3 starters | holds |
| `live` | `EventuallySettled`; `WorkIsClaimed`, `AbortEndsPool` | 1 worker, a retry; 1 slot, 2 commands | holds |
| `network` | `ConnectionSound`; `CallsEnd`, `CreditsBalance`; `BlobsSound`; `GatewaySound`; `ResponseSound`; `CallSound`; `SubscriptionsSound` | 3 sockets, 3 loops; 1 call, window 3, 5 chunks; 2 sources; 2 connections; bodies of 4; 3 entries; 3 subscribers | holds |
| `host` | `HostSound`; `ProxySound`; `ContainerSound`; `LifecycleSound`; `DevSessionSound`; `DeploymentSound` | 2 controllers, 3 groups, 2 faults; 3 upstreams; 2 containers, 4 injectables; 2 handlers, 2 services, 4 calls; 4 services, 2 rebuilds; the pool lists of `MCPoolLists` | holds |
| `queue_plain` | `PlainReleaseUncounted` | as `queue`, 3 rows | **violated** |
| `queue_absorb` | `DeadNeverAbsorbs` | as `queue`, 3 rows | **violated** |
| `task_reap` | `SweepIsRepeated` | the task run of `task_run` | **violated** |
| `task_cancel` | `CancellationSettles` | the task run of `live` | **violated** |
| `workflow_orphan` | `FailedLeavesNoChild` | 2 coordinators, 1 timeout, no crash | **violated** |

A property named `...Sound` is a conjunction of named parts, each with its own
comment in the module:

| Property | Parts |
|---|---|
| `PoolSound` | `WithinConcurrency`, `NothingLeftBehind`, `DrainIsComplete` |
| `WorkIsClaimed` | `PushSuffices`, `PollSuffices` |
| `KeepsQueueContract` | `OwedIsDeliverable`, `DeadExactlyAtThreshold` of the in-memory queue |
| `HoldsWherePostgresFails` | `DeadNeverAbsorbs`, `PlainReleaseUncounted` |
| `StoresAgree` | `RowsAndAnswersAgree`, `ReadsAgree` |
| `StartsAgree` | `IdempotentStartsAgree`, `GivesUpOnlyOnChurn` |
| `ScheduleSound` | `SlotsAdvance`, `DisabledStaysQuiet`, `NoBacklog` |
| `WatchSound` | `AsleepIsUpToDate`, `HubRecovers` |
| `ConnectionSound` | `NeverStuck`, `OneReconnectLoop`, `ConnectedIsUsable` |
| `CallsEnd` | `NoHangingCall`, `NoOrphanStream` |
| `CreditsBalance` | `ReaderHasCredit`, `LeadBounded` |
| `BlobsSound` | `AtMostOneAbort`, `HonestPushAccepted`, `DownloadWithinGrants`, `EndIsComplete` |
| `GatewaySound` | `NoZombie`, `TeardownOnce`, `ClosedScopeAbortsCalls`, `StoppedIsClean` |
| `ResponseSound` | `EndedIsWhole`, `CapHolds`, `AbortFreesChunkedPump` |
| `CallSound` | `RequestLeavesNothing`, `BatchIsAnswered`, `NothingBypassed`, `NoSilentOverrun` |
| `SubscriptionsSound` | `LeaverKeepsOthers`, `NothingMissed`, `OnePump` |
| `HostSound` | `NoStrayGroup`, `RunningIsServing` |
| `ProxySound` | `ReadyIsRouted`, `QuietIsApplied` |
| `ContainerSound` | `CreatedOnce`, `NothingStranded`, `DirectDependenciesOutlive` |
| `LifecycleSound` | `IdleHoldsNothing`, `SocketClosesLast`, `ServesLiveApplication` |
| `DevSessionSound` | `QuietIsFresh`, `BrokenConfigIsWatched`, `OneOfEach`, `EndedLeavesNothing` |
| `DeploymentSound` | `RoutedExactlyOnce`, `LoopKeepsItsAdapter`, `StoppedIsReleased` |

(`PoolSound`, `KeepsQueueContract`, `ConnectionSound`, `CallsEnd` and `HostSound`
also carry the type invariant of their module.)

**Bounds.**  Two workers are what a takeover needs: the one that lost the lease
and the one that has it.  Two rows let a leased continue and a fresh one exist
together; three add the attempt's own command.  Threshold 2 lets a command fail
once and survive; two attempts are one retry, so both the retried and the
exhausted failure occur.  Two coordinators are a parent's and a child's, or two
on one run; there is one root plan per node kind, of one or
two nodes with at most two children, of which one may be a workflow of its own
with one task, so that `cancelRunTree` recurses to a grandchild run, and a map's limit of 1 makes its second item wait.  `MaxMember` = 2 lets a user
callback choose either case of a branch or none, and throw at either member or
not at all.  Three starters are a winner, a loser and one
that comes after the winner ended.  Three sockets are a first connection, its
replacement and one that overtakes it.  Window 3 makes a refill smaller than the
window.  Sources of four single bytes and of chunks larger than a pull exercise
both ways of splitting, one has an empty chunk; the cap is two pulls.  Three subscribers are one that
stays, one that leaves and one that joins.  Three groups are a start, a recovery
and a reload.  Of the four injectables one is transient, one a token without a
factory and two depend on others, across two scopes.

Deadlock checking is off: an idle queue, a finished run, a closed connection or
a stopped server is a proper end.

**Fairness.**  Time passes (`LeaseExpires`, `BecomesDue` weakly fair).  A busy
worker's next call returns and its handler ends, by its timeout at the latest.
A due command is not passed over for ever: the claim query orders by `run_at`
and workers poll even without hints, hence strong fairness of claiming a given
row.  The sweep is a periodic task of every pool.  Nothing is assumed about
handlers succeeding or processes surviving.  `NoEndlessRedelivery` and
`EventuallySettled` are conditional where the code bounds nothing: plain releases
and operator requeues may repeat for ever, so they speak of behaviours in which
these cease, and `EventuallySettled` excepts a run whose sweep was interrupted.
For the pool only the event loop is fair; the rest is a hypothesis of each
property: `PushSuffices` has hints and no timers, `PollSuffices` timers and no
hints, both with handlers that end; `AbortEndsPool` needs a handler to end only
once the `executions` signal is aborted.  The liveness of workflow runs is left
to `NotStranded`: a live run has a command, a live child or a sweep that will
come to it.  The network and host parts state at rest what must have happened
(`NoHangingCall`, `NeverStuck`, `QuietIsFresh`, `QuietIsApplied`) instead of
liveness.

**Refinement.**  `ImplementsDurableTask` is `DurableTask!Spec` under `phase` = the
run's status (queued and running are both *open*) and `results` = the statuses of
its settled attempts by number.  Leases, commands, sweeps and crashes are
stuttering steps.  One abstract step, `ReportLate`, exists because a failing
attempt that the sweep had given up may still record its own failure.

### Findings

1. `queue_plain`.  Giving back a continue command while a newer one of the run is
   queued collides with the dedup index; the give-back and the error release
   after it fail, and the delivery is counted when the lease expires.
   `W/runtime/executors.ts:25` promises that a plain release stays uncounted.
2. `queue_absorb`.  A continue command dead-lettered by an error release is
   unleased, so it stays in the dedup index and absorbs later wake-ups.
   `W/runtime/in-memory.ts:1516` says that dead items must not, and that Postgres
   behaves so; it does only for rows that die at claim time.
3. `task_reap`.  The sweep deletes the dead attempt command, through
   `deleteUnclaimed`, before it fails the run: a crash in between leaves a run
   that nothing lists, against the comment on `reapDeadWorkflowCommands`.
4. `task_cancel`.  A cancelled standalone task run stays `cancelling`: no worker
   claims its continue command, and the execution worker only acknowledges.
5. `workflow_orphan`.  `cancelDescendants` of the sweeps reads a run's children
   without the lock a coordinator holds; a child run that the coordinator commits
   afterwards survives its failed parent.  `W/runtime/worker/maintenance.ts:80`
   says "a failed run must not leave children executing".

`OwedIsDeliverable` counts a dead row as an answer to a wake-up, since the sweep
finds it: the strongest form that holds for Postgres, given the second finding.

### What the code does not guarantee

These definitions state what a reader would expect and carry the comment "It
does not hold"; no run lists them, but TLC violates each of them when it is added
to its configuration.  The properties of the runs set these cases apart, each in
a named exception.

| Definition | What happens | Instance |
|---|---|---|
| `ClientConnection!DisconnectSticks` | a disconnect during a connect is taken for a connect error, and the client reconnects (`client/src/core.ts`) | `network` |
| `BlobStreams!HonestReaderAccepted` | a pull that would pass the credit cap is a violation, though each pull answered a read (`protocol/src/server/stream.ts:103`) | `network` |
| `BlobStreams!NoPushRefused` | the client pushes an empty chunk of its source (`protocol/src/client/stream.ts:83`) and the server refuses it (`ws/streams.ts:151`) | `network` |
| `HttpCall!StreamStaysAlive` | a stream returned over HTTP is sent after its connection was disposed (`transports/src/neemata/http/server.ts:202`) | `network` |
| `HttpResponse!AbortFreesPump` | the pump of a declared length is not cancelled when the client leaves (`http-server/node.ts:340`) | `network` |
| `HttpResponse!OverrunShows` | of a body longer than its declared length the declared bytes are sent, and the response ends as if whole (`http-server/node.ts:319`) | `network` |
| `PubSub!NobodyIsDeaf` | an awaited UNSUBSCRIBE overtakes the next subscriber (`pubsub/src/redis.ts:154`) | `network` |
| `NeemHost!RestartsAreUsed` | a recovery whose restart fails is not tried again, though attempts are left (`host/runtime.ts:211`) | `host` with `Attempts = 2` |
| `Container!DependenciesOutlive` | a dependency reached through a transient without a dispose hook may be disposed first (`core/src/container.ts:678`) | `host` with such a transient between two instances of one container |
| `Container!NothingDropped` | the end of the later of two overlapping disposals by hand deletes the entry of an instance created meanwhile (`core/src/container.ts:291`); it is never disposed, and a second one may be made | `host` |
| `DevSupervisor!QuietRuns` | a reload that fails is answered with the server's health (`host/controller.ts:230`): the session goes on and nothing runs until the next change | `host` |
| `ServerLifecycle!FailedStartUnwinds` | an application whose `initialize` throws is not disposed (`application/src/host.ts:96`) | `host` |
| `StoreParity!MemLiveRunsSurvive` | retention in memory deletes live descendants of a terminal root (`W/runtime/in-memory.ts:487`) | `stores` |

Other cases set apart: a server stop that lands in a restarting recovery leaves
a group (`host/runtime.ts:214`); overlapping `setUpstreams` calls may leave an
upstream unapplied until the next one; a middleware that calls `next()` twice
skips the rest of the chain; a config-signal watcher that starts while the dev
session stops, and a `replaceWatcher` whose runtime does not stop in time, leave
a watcher behind; a stop message during a worker's start exits without stopping
its runtime; a dropped RPC response leaves the call pending until its timeout, if
it has one; a client that dies between the two calls of a cancel, or of a start
outside a transaction, and a timeout sweep that dies between failing a child run
and waking its parent, or while it cancels a child run whose swept ancestor then
settles by itself, leave a run nothing wakes (`torn`).

## 4. Proofs

Every theorem holds for all values of the constants that satisfy the named
assumptions of the modules; the runs evaluate those assumptions.

| Module | Theorem | States | For any |
|---|---|---|---|
| `CommandQueueProofs` | `TypeCorrect`, `ThresholdExact`, `NoLostWakeUp` | `TypeOK`, `DeadExactlyAtThreshold`, `OwedIsDeliverable` of the Postgres queue | runs, attempts, workers, rows, threshold |
| `InMemoryProofs` | `MemoryKeepsContract`, `MemoryHoldsWherePostgresFails` | `KeepsQueueContract`, `HoldsWherePostgresFails` (partly an action property) | the same |
| | `StoresStayInLockstep` | `StoresAgree` | runs, child keys, attempts, leases, calls |
| | `LiveRunsSurviveInPostgres` | `PgLiveRunsSurvive`, an action property | |
| `TaskRunProofs` | `TasksTyped`, `RowsTellOneStory`, `RetriesFollowPolicy`, `NoRunStranded` | `TypeOK`, `RowsAgree`, `RetryDiscipline`, `NotStranded` of task runs | runs, attempts, workers, rows, threshold, retry policy, parents |
| | `SettledStays` | `SettledIsFinal`, an action property | |
| | `TasksAreDurable` | `ImplementsDurableTask`, the refinement | |
| `WorkflowRunProofs` | `WorkflowRowsAgree` | `TypeOK` of trees of workflow runs | plans, members, coordinators, crashes, expiries |
| | `WorkflowSettledIsFinal` | `SettledIsFinal`, an action property | |
| | `MapsStayWithin` | `MapWithinConcurrency` | |
| `RuntimeProofs` | `PoolIsSound` | `PoolSound` | finite set of commands, concurrency |
| | `RacingStartsAgree`, `NoRunUnsent` | `StartsAgree`, `AdmittedIsSent` | starters, requests, keys |
| | `WatchersAreTold` | `WatchSound` | connections, changes |
| | `SlotsFireOnce` | `ScheduleSound` | definitions, schedulers, calls |
| `NetworkProofs` | `ClientsReconnect` | `ConnectionSound` | attempts, reconnect loops |
| | `CallsEndAtBothEnds` | `CallsEnd` | calls, window, stream lengths |
| | `CreditsNeverStarve` | `CreditsBalance` | calls, window, stream lengths |
| | `BlobsArriveWhole` | `BlobsSound` | sources, pull size, cap of the credits |
| | `ConnectionsEndOnce` | `GatewaySound` | connections |
| | `SubscribersHear` | `SubscriptionsSound` | finite set of subscribers, high water mark |
| | `ResponsesAreWhole` | `ResponseSound` | body cap |
| | `RequestsAreAnswered` | `CallSound` | entries, middlewares, concurrency |
| `HostProofs` | `ProxyRoutesTrue` | `ProxySound` | finite set of upstreams, refusals |
| | `WorkersServeAndLeave` | `DeploymentSound` | pool lists, workflows, tasks |
| | `ServersUnwind` | `LifecycleSound` | handlers, services, calls |
| | `HostRunsWhatItSays` | `HostSound` | controllers, groups, threads, restarts, failures |
| | `DevSessionsAreSound` | `DevSessionSound` | services, rebuilds, config changes, faults |
| | `ContainersAreSound` | `ContainerSound` | injectables, containers, instances, provisions, disposals |

**Assumptions.**  For the queues and task runs: an attempt belongs to a run, runs
and attempts are disjoint, the threshold is positive, a child's retries are a
natural, and `None` is neither a worker, a row, a delivery nor an execution.
Elsewhere: bounds are naturals, sets whose elements the code counts are finite,
and names that the code uses as a null are not members of the sets; a client has
at least two names for its reconnect loops, the one that runs and its successor;
an injectable's dependencies have smaller numbers, and a container's parent is a
container.  A blob's source is a sequence of chunk sizes; a pull asks for at least
one byte and for no more than the cap.  For workflow runs: a plan is what the workflow builder lets one
declare (`PlanOk`): known kinds of nodes, one member for an activity, task or
workflow node, child runs for the items of a map, and a positive concurrency.

**Arguments.**  None of the properties is inductive as it stands.  What each
invariant adds, and why:

* *Command queue* (`IInv`).  `LeaseMatches`: a worker that still holds the lease
  of a row executes that row's subject; without it an ack could serve one subject
  and delete the row of another, because row ids are reused.  `AttemptsFresh`:
  only wake-ups of runs make a delivery out of date, so a second dispatch of an
  attempt may be absorbed even by a leased row.  `CommandTableProofs` shows that
  each statement takes sound tables to sound tables.
* *In-memory queue* (`MemInv`).  The same with `ClaimedIsLive`: an item dies only
  on its way back, which is why nothing dead absorbs a wake-up here.
* *Stores* (`InMemoryProofs!StoreInv`).  Until retention has parted them the two
  stores are a `Pair`: the same tables; runs that are a forest, each created after
  its parent and with its parent's root (`RunsOk`); children that name a child run
  of their own run (`KidsOk`); and maps in memory that name the one run the index
  of Postgres finds, or none (`KeysOk`).  The forest is why three ways to delete
  come to one: following parents, following roots and the cascade take the same
  set (`TreeIs`, `DeletePair`), and the links that Postgres sets to NULL lie inside
  it (`KeptKids`).  The guards of `waitNode` differ on a node that is `cancelling`;
  no call makes a node so (`NodeMaySame`).  Retention compares ordered batches:
  while the stores agree on which roots may go, they pick the same ones
  (`PickedSame`), and a page read with one row more ends where the other does
  (`PagesSame`).
* *Task runs* (`TaskInv`).  `StoreInv`: each run tells one `Story`, its rows made
  and deleted together (`Linked`), ended from the attempt up to the run
  (`Agreed`), its attempts numbered and failed in order (`Retried`).
  `LeaseMatches`, `CommandsKnown`, `WorkerSound` and `ReaperSound` say in what the
  older reading of a worker or of the sweep may differ from the rows.  They carry
  the proof: every write is guarded by a transition map or a fence, and they say
  which outcomes the guard lets through.  `Grown` is what no step undoes; a
  reading stays true enough because the rows only grow.
* *Refinement*.  A step changes the rows of one run at most (`Local`), in one of
  the ways `Seen` lists: nothing visible, a start, a deletion, an attempt that
  completes, fails for good or is retried.  Each is one abstract step or a
  stutter; an attempt the sweep had given up that reports its own failure is
  `ReportLate`.
* *Workflow runs* (`WfInv`).  Rows agree (`DbOk`) when a child run exists exactly
  for a linked child, nodes are the plan's, the children of a node were created
  together, and a branch has its case before its child.  Each operator of
  `RunTree` and `Coordinator` takes rows that agree to rows that agree and are
  `Later`: none lost, none settled changed.  What a coordinator or a sweep has
  read stays true enough of later rows (`ReadsStay`), which is why a stale reading
  does no harm.  The passes over the nodes of a plan and the members of a node are
  recursive functions; that they exist and keep the rows sound is an induction on
  their argument (`InductionOnSets`, from the well-foundedness of `<`).  The frames
  of a sweep's `cancelRunTree` name runs that exist (`Frames`), which later rows
  keep so.
* *Maps* (`MapInv`).  The items of a map that waits are started in order
  (`Within`), two coordinators never hold one run, and what a coordinator has read
  of a run it holds is exact about which child runs exist (`ViewExact`): only the
  holder of a run starts children of it.  So the pass counts every live item it
  comes by (`Counted`), and passes none over while the concurrency allows more.
* *Worker pool* (`PoolInv`).  The slots in use are exactly the executions under
  way plus the claim in hand, and every stop has a cause that keeps the drain
  awake.  *Starts* (`AdmissionInv`): each start step's knowledge is a row that
  was committed at some time.  *Watching* (`WatchInv`): a watcher whose report is
  old is `Owed` a wake-up by the hub, a timer or a notification under way.
  *Schedules* (`SchedulerInv`): `OnTrack` relates a row's next slot to what has
  been fired, and `ReadIsStored` makes the conditional update catch a stale read.
* *Client connection* (`ConnInv`).  The promise and the abort controller belong to
  a loop that is alive, an aborted loop is at an await, and at most one is
  aborted.  Unless two calls have raced, the promise's loop is the only one that
  goes on and the transport's socket the only one not closed; only then may the
  state be read as what the sockets are.
* *Calls* (`RpcInv`).  While the link is up, the two ends of a call agree as far
  as the frames under way allow (`EndsAgree`): a request stands before its abort
  in the queue up (`UpOrdered`); the response comes first in the queue down, and
  the last frame only after the server has ended (`DownOrdered`).  The queue
  lemmas say what one more or one less frame does to that order.
* *Credits* (`CreditInv`).  The chunks granted and not yet read (`Ahead`) are a
  window less the reads since the last refill: never more, exactly that while both
  ends have the stream, and none before the first read.  *Blobs* (`BlobInv`): a
  consumer has at most one pull outstanding, as a pull, as a pull to answer or as
  its push, and only while it waits (`OnePull`), so a grant clamped by the cap still
  covers what it asked for.  While both ends are open, bytes held, under way and
  left make the source; the last word of the sender stands behind all of them.
  A push is empty only where the source gave an empty chunk (`PushesFull`), and only
  an empty push is refused.  Sums over queues are
  recursive functions, their facts (`SumFacts`,
  `SumMonotone`) inductions on the length.
* *Gateway* (`GatewayInv`): `ScopesFollowUpgrades` and `StopProgress`, what the
  sweep of a stop has behind it.  *Subscriptions*: as long as no subscriber came
  while an UNSUBSCRIBE was awaited, listeners, the shared promise and the
  commands to Redis are in one of five shapes (`Channel`).  *Responses*
  (`HttpInv`): bytes sent, kept and left add up at every stage of the pump, up to
  the declared length.
  *Requests* (`HttpCallInv`): `EntryOk` for each call, `RequestOk` for the whole,
  and the number of busy entries.
* *Proxy* (`ProxyInv`): the one operation under way `LeadsTo` what is wanted.
  *Deployment* (`DeployInv`): what a configuration that passed the checks routes,
  and what each stage of a stop has given back.  *Lifecycle* (`LifeInv`): the
  teardown stacks are piles of known shape (`LifeAtRest`), and while they unwind the
  frames name exactly what is still held (`Unwinding`).
* *Host* (`HostInv`).  `Tended(c)`: a controller is opened or closed by at most
  one process, its fields are as that process's stage says, and a live group is
  in its fields or in the hands of the process that closes it.  `Serving(c)`: a
  started thread is ready unless its failure has been heard.  Each holds but for
  the controllers named by `excused`, and by `ignored` for the second: a server
  stop that meets a restarting recovery breaks the first, a dropped failure the
  second.  A step touches one controller, or two in a reload; the frame lemmas
  `TendedElsewhere` and `ServingElsewhere` settle the others.
* *Dev session* (`DevInv`).  A service that is up is in a field of the supervisor or
  in the hands of the one operation that stops it (`InHands`), so there is one of
  each kind; when no stop waits any more, every field has been taken (`Stopping`).
  `Following` is why no rebuild is lost: what could make the watcher's events look
  stale comes before a `ready` event, and what is on disk is loaded, is being
  loaded, or is still to be announced or handled.  `Answering`: only a runtime fails,
  and the one in the field is being loaded or has answered.
* *Containers* (`ContInv`).  Links between instances lead to smaller numbers, and a
  link inside a container has an edge there for as long as the dependant is being
  resolved or held (`LinkOk`); so what comes next in the disposal order is used by
  nothing still held.  Once the first of two disposals by hand has deleted an entry,
  an instance made since is in neither's list and the second deletes it too:
  `dropped`.  While a container disposes, it resolves nothing and what it
  holds is in the order (`PhaseOk`).  A rejection takes resolutions in flight only:
  `Waiting` is the least set closed under waiting, and those with something to wait
  for are such a set.

**Only model-checked.**  Liveness (`NoEndlessRedelivery`, `EventuallySettled`,
`WorkIsClaimed`, `AbortEndsPool`), which the prover does not reach; and
`NotStranded` and `CoordinatorLeavesNoChild` of `WorkflowRun`, whose inductive
invariant must name, for each stage of each coordinator, worker and sweep, the
wake-up it still owes; it has not been worked out.

## 5. Plan

The model is as broad as intended; what is left is proof: `NotStranded`
and `CoordinatorLeavesNoChild` of `WorkflowRun`, with the argument that
`NoRunStranded` has for task runs.

## 6. Not modelled

Declarations and types (`type`, `contract`, the builders of routers, procedures
and workflows), encodings (`protocol` codecs, frames, headers), build tooling
(compiler, manifests, bundler plugins, `vite`, `nuxt`, `unplugin-labels`),
counters (`metrics`) and read-only views (the inspector, list calls of the
client) have no protocol of their own.  The bun and deno HTTP hosts differ from
the node host by the library they call.  `Pool` and `Semaphore` of `common` have
no user in the repository.

Within the modelled parts: payloads, schemas and error texts; the lengths of
delays and backoffs (only that they pass); row locks and the deadlocks among
them, a transaction's writes being one step (an aborted transaction is a failed
delivery); adapters without atomic completion, which the repository does not
ship; retention shorter than the reaping interval; more than one sweep of dead
commands at a time.
