# RedMatrix in TLA+

RedMatrix is a distributed scanning platform: a server (Go, PostgreSQL, Redis,
MinIO, Elasticsearch) that users drive over Connect RPCs, and agents on scan
nodes that pull work, run scanner plugins and report. This directory holds its
verification project: TLA+ modules translated from `src/`, the TLC runs that
check them on small instances, and theorems checked by TLAPS.

- `ScanTasks.tla` – the scan-task core, statement by statement.
- `WorkQueue.tla`, `TaskLife.tla` – what that core promises of an assignment, and
  of a task row, abstractly.
- `SuiteRun.tla` – chained suite runs, built on `TaskLife`.
- `RetryQueue.tla` – what a table of retried work promises; `Outbox.tla` and
  `NotifyQueue.tla` implement it, `ResultPipeline.tla` composes `Outbox` with
  `AssetEvents.tla`.
- `AuditChain`, `IdentityLogin`, `FindingWorkflow`, `MatcherCache`, `PluginRegistry`,
  `NodeFleet`, `ProjectNodes`, `TaskInstances`, `TargetPlan` – the services beside
  the scan core, one module each; `CertExpiry` is the sweep over expiring certificates,
  `ServerProcess` the server's start and end.
- `MC*.tla`, `*.cfg` – instances for TLC.
- `*_proofs.tla` – the theorems about the module they are named after; `Delivery_proofs` is about
  `NotifyQueue` and `MCDelivery`, `Services_proofs` about the services in one instance.
- `PROJECT.json` – components, runs, mutants, the map from definitions to
  source lines, findings, hazards, theorems.

## 1. Inventory

State is kept in PostgreSQL rows unless something else is said. Operations are
RPC handlers or goroutines; none of them runs in a transaction unless said.

| Component | State | Operations | What is hard | What makes it correct |
|---|---|---|---|---|
| Scan-task core (`internal/scan/service.go`, `repo`) | `scan_tasks.status`, `scan_task_assignments.status` | create + dispatch, cancel, delete, pull, progress, results, aggregate | read–decide–write with no transaction, many callers of the aggregator, soft deletion meanwhile | work is handed out once; the status of a task is true of its rows; assignments only move forward; terminal is final |
| Stale sweeper (`internal/scan/sweeper`) | none | every 30 s: fail assignments pulled or started over 10 min ago | races the late answer of an agent | whatever was pulled is settled in the end |
| Agent task loop (`internal/agent/tasks`) | one goroutine per assignment | pull, report running, execute, report | lost replies, crashes | starts nothing twice |
| Suite runs (`internal/scan/suite_service.go`) | `scan_suite_runs.status`, `current_step` | run, aggregate + advance the chain, cron trigger | compare-and-set of the step, then a separate creation of its task | each step is created once, runs end |
| Scheduler, continuous tasks, retry (`scan/scheduler`, `service.go`) | cron entries in memory, `next_continuous_at` | load, add, remove, trigger, pop, clone | memory and table disagree, crash after the pop | every due template is instantiated, once |
| Target expansion and slicing | – | pure | ranges, limits, remainders | slices partition the targets |
| Results, artifacts, index | result rows, objects, search documents | insert with an outbox event in one transaction; then assets, index | effects after the commit | nothing committed is lost to the index |
| Event bus (`platform/eventbus`) | `outbox_events` | publish in a transaction, poll, dispatch, mark | crash between dispatch and mark, retry limit | at least once, or given up after six attempts |
| Notifications (`notify`) | `deliveries` | enqueue, sweep, test | send-then-mark, unconditional mark | never dropped silently, dead only after the last attempt |
| Audit chain (`audit`) | hash-chained rows, mutex per tenant in memory | append, verify | two processes, equal clocks | an honest log verifies |
| Tenancy (`tenancy`) | projects, nodes, tokens, certificates, whitelist | redeem, heartbeat, disable, reissue | heartbeat against disable, token races | a token makes one node; disabled stays disabled |
| Agent heartbeat and store (`agent/heartbeat`, `agent/store`) | four enrolment files, clients | beat, renew, save | crash between renames, two clients | the stored key fits the stored certificate |
| Plugins (`pluginpkg`, `agent/pluginpuller`) | package rows, objects, manifest | upload, sign, pull, verify, install | failure half way | what is listed can be downloaded and verifies |
| Findings (`finding`) | status, assignee, events | transition, assign, upsert | compare-and-set then event | history matches the state |
| Assets (`asset`) | assets, events | upsert, sweep disappeared, sweep certificates | mark then event | one event per change |
| Identity (`identity`) | users, token version, sessions, API keys, Redis counters | login, lock out, disable, change password | several statements, counters and locks | disabled users get no session |
| Matcher cache (`fingerprint`) | rules per tenant in memory with a TTL | match, invalidate | load racing invalidation | rules older than an invalidation are not used |
| Server process (`cmd/server`) | goroutines, context, pool | start, signal, shutdown | main waits for goroutines that wait for something else | it ends when told to, the pool last |
| PoC engine, plugin wrappers, export, webhook, platform, web console | – | – | pure, read-only or wiring | not modelled |

How they interact: users and the cron, continuous and suite machinery call
`CreateTask`, which dispatches assignments to online, allowed nodes (tenancy).
Agents pull (`PullTasks`), report progress and results. Progress and the sweeper
call the aggregator of tasks, which calls the aggregator of suite runs, which
creates the next step's task. Results go through the outbox to the index, and
inline to assets and findings, which notify. Everything a user does is audited.

The hazards of this code that tests hardly reach are listed, each at its line,
in `PROJECT.json`; the properties below are chosen from that list.

## 2. Plan

Done, in this order:

1. **ScanTasks, WorkQueue**: the core, its abstract specification, its theorems.
   Everything else either feeds it or reads its statuses.
2. **TaskLife, SuiteRun**: chained steps over tasks that live as TaskLife says, which
   ScanTasks implements.
3. **RetryQueue, Outbox, AssetEvents, ResultPipeline, NotifyQueue**: what becomes of a
   result after its rows are committed, up to the channel.
4. **AuditChain, IdentityLogin, FindingWorkflow, MatcherCache, PluginRegistry, NodeFleet,
   TaskInstances, TargetPlan**.
5. **ProjectNodes**: the whitelist of a project against the dispatch that reads it.
6. **CertExpiry**, **ServerProcess**.

Then the theorems: of the core, of suite runs, of the services one by one, of the two retried
tables and their refinements, of the server process, of the types of all services.

Left, most useful first: API keys and captcha beside `IdentityLogin`; the
callers of `RunSuite` (cron and webhook) together with `TaskInstances`; `RetryTask`.
No module meant for proof declares a RECURSIVE operator;
constants carry named assumptions.

## 3. ScanTasks: state, actions and the code

| Variable | In the code |
|---|---|
| `status`, `deleted` | `scan_tasks.status`, `deleted_at` |
| `asg` | `scan_task_assignments.status`; the row is named by `UNIQUE (task_id, node_id)` |
| `aged` | the row's `started_at`/`pulled_at` is before the sweeper's cutoff |
| `job` | the agent goroutine `execTask` of an assignment |
| `wk` | the locals of each server goroutine between two SQL statements |
| `faults` | crashes and failing statements so far, bounded by `MaxFaults` |

One SQL statement is one step; what a goroutine read stays in `wk[w]` while
others move. `Handler` bounds concurrent requests; there is one `Sweeper`.
The actions follow the code: `CreateTask` and `Dispatch` (row, then one bulk
insert); `CancelRead` and `CancelCAS`; `DeleteTask`; `PullForNode` (the single
`UPDATE ... RETURNING`), `Resolve` (one `GetByID` per row), the aggregations,
`PullReply` (which may be lost); `ReportRunning`/`ReportFinal`, `UpdateProgress`,
`ProgressReply`; `AggRead`, `AggList`, `AggWrite` (the three statements of
`aggregateTaskStatus`) and `AggFail`; `SweepList`, `SweepMark`, `SweepSkip`,
`SweepEnd`; `ServerCrash`.

What is abstracted:

- The nodes a dispatch picks are any set, since whitelist, liveness and slicing decide
  it; the empty set included (a task without assignments stays pending).
- A request that fails before its first write changes nothing on the server; on the
  agent that is `AgentDrop`. An agent that crashes or is stopped is also `AgentDrop`.
- The clock is `Age(p)`: any open row may become old at any time. Ten minutes are
  not counted, so the sweeper may strike as early as the code would at the latest.
- A second assignment status `canceled` exists in comments, not in the code's type.
- Results, evidence, metrics, notifications and `next_continuous_at` are left to
  later modules. The call of the suite aggregator follows the last statement.

A behaviour worth knowing although it breaks no promise: with one assignment
settled and another never pulled, a running task falls back to pending
(`service.go:851`), and stays so while the other node is offline, because the sweeper
looks at pulled and running rows only.

## 4. SuiteRun: state, actions and the code

`TaskLife` is the interface: a task row is inserted once; only a user cancels it, and
only while it is open; an aggregation begins on an open task, and either concludes
with a decision, written whatever has become of the task unless it is deleted, or
is forgotten. `ScanTasks` implements it (`ImplementsLife`) with an aggregation between
its read and its write as `reading[w]`; `SuiteRun` EXTENDS it, and every step of
`SuiteRun` on the rows is one of its steps (`RunOnLifeRows`).

| Variable | In the code |
|---|---|
| `status`, `deleted`, `reading` | the rows of the run's tasks, from TaskLife |
| `run` | `scan_suite_runs.status`, `current_step` |
| `suiteDeleted` | `scan_suites.deleted_at` |
| `stepOf` | the step whose kind a task has (`kind`, unique in a suite, and `suite_run_id`) |
| `wk` | what `RunSuite` or `aggregateSuiteRunStatus` holds between two statements |

`RunSuite`, `CreateStep`/`CreateFails` are `RunSuite` and `createStepTask`; `AggBegin`,
`AggConclude`, `AggNoChange` are `aggregateTaskStatus` of a task of the run, as seen
from here; `RunRead`, `SuiteRead`, `List`, `Advance`, `CreateStep`, `RunWrite` are the
statements of `aggregateSuiteRunStatus`, `Legacy` its rule for a suite it could not read;
`CancelTask`, `DeleteTask`, `DeleteSuite` are users; `Fail` and `ServerCrash` faults.

What is abstracted: one run stands for all, for runs share no row but the suite's; what
the extractor finds is any outcome, the empty one (the chain ends) included;
`CreateFails` is any refusal of `CreateTask`; `finished_at` is left out; the legacy
rule for a `current_step` outside the kinds is not modelled because no such state
is reachable (`TypeCorrect`). A suite has at least one kind (`ValidateForCreate`).

Worth knowing: the run stays open for ever also when the server dies between the
compare-and-set and the creation of the step's task (`suite_service.go:460-473`), or when
the step's only task is deleted; no comment speaks of these cases. A deleted suite ends
its chain after the current step. Any error of reading the suite is taken for that
(`suite_service.go:370-374`), a failing statement too: the rule over all tasks may then end
a run as completed although steps are left.

An aggregation that read the run before it ended writes without a condition on the status
(`scan/repo/suite_pg.go:391`), so an ended run may be set running again, against the comment
at `scan/domain/suite.go:40`: `EndedRunFinal` is violated (`suite_reopened`).
`EndedStaysEnded` is what is left of it: only such a goroutine can.

## 5. Results, retries and notifications

`RetryQueue` is the interface of the two retried tables: a job is enqueued once, its effect
may take place more than once, before and after it is settled; it is settled as done
only after an effect, or dropped, and does not stay open for ever.

| Module | Variables and what they are | Actions |
|---|---|---|
| `Outbox` | `order`, `event`: `outbox_events`; `relay`: `Relay.Run`; `taken`: the batches whose bulk request was carried out | `PublishTx`, `Pending`, the dispatch to the indexer, `MarkPublished`, `MarkFailed`, one step each |
| `AssetEvents` | `asset`, `stale`: rows of assets; `assetEvents`; `gone`: what `MarkDisappeared` returned | the upsert, its events, the disappearance sweep |
| `ResultPipeline` | `rep`: a `ReportResults` call after its transaction; `alerted` | commit, high-severity notification, finding, assets, events, index; a crash before each |
| `NotifyQueue` | `sub`, `delivery`: the tables; `sweeper`, `tester`: two goroutines; `sends`: what the channel accepted | `Notify`, `FetchDue`, look-up, send, `MarkSent`/`MarkFailed`/`MarkDead`, `TestSubscription`, changes of a subscription |

A send whose answer is lost has had its effect and counts as failed. Backoff is one bit, `due`:
a failed attempt makes the row wait, and it becomes due at some later time.

The effect of an event is its bulk request, carried out. That is less than "every document is
in the index": a bulk answer 200 may refuse single documents, and the indexer does not look at
`errors[]` (`indexer.go:136` defers that to the next write). Such a document is lost and its
event is published. Nothing here says that an indexed report is found by a search.

## 6. The services beside the core

| Module | State in the code | What is one step |
|---|---|---|
| `AuditChain` | rows of `audit_logs` by tenant, the mutexes of `audit/service.go`, the clock | lock, read the latest hash, stamp + insert + unlock; failures, a crash |
| `IdentityLogin` | the row of a user, Redis counters and locks, tokens by the version they carry | each read, count, lock and reset of `Login`, and each of them failing where the code goes on (fail-open); `ChangePassword` between read and write; the two statements of `DisableUser` |
| `FindingWorkflow` | a row of findings and its events | read + decide, compare-and-set, event; the upsert by a scan |
| `MatcherCache` | the rules, the cache entry, a clock | `SELECT`, store, write, `Invalidate`, a tick |
| `PluginRegistry` | rows, objects, keys; the agent's keys, manifest and binary | each statement of `UploadPackage`; each phase of the puller |
| `NodeFleet` | tokens with their expiry and revocation, nodes, certificates; the agent's four files and its client | redeem (mark, insert, sign), each file of `Save`, heartbeat in two, reissue |
| `CertExpiry` | `seen`: the first TLS result of a project with the certificate; `told`: its events | the `INSERT ... SELECT` of a sweep; a sweep that fails; the next round |
| `ServerProcess` | what main does next, `ctx`, what each goroutine is doing, the pool | each statement of `runWith` at which it branches or waits; a round, job or request between and in its SQL statements |
| `ProjectNodes` | `project_allowed_nodes`, nodes, the project's status | DELETE and COMMIT of a Set; the three statements of a dispatch |
| `TaskInstances` | cron rows and scheduler entries; `next_continuous_at` | row and entry one after the other; pop and clone one after the other |
| `TargetPlan` | the locals of `expandTargets` and `sliceTargets`; a shard is a window on the list, as a slice of Go is | a target, the end of an item, the end of the expansion; accept or refuse; a shard |

Abstractions that matter. A hash is the tuple of its inputs (`AuditChain`), a signature the
key it was made with (`PluginRegistry`), an address a small number (`TargetPlan`).
`AuditChain` is one process, as `audit/service.go:95` says, and assumes that two rows of a
tenant have different, growing times. `MatcherCache` assumes a bound `LoadTime` on the
time from the SELECT to the store. A transaction of `ProjectNodes` runs at READ COMMITTED: its
DELETE removes the rows that were there when the statement began; what the others see in
between is `VisibleStill`. `CertExpiry` counts time in rounds of `asset_sweeper.go`; a round
may sweep more than once, because a restart sweeps at once, and a missed one stands for an
error or a server that is down. `may`, `void`, `made`, `dead`, `marks`, `clones` are ghosts.

In the code and worth knowing, without a property that fails:

- Two concurrent `SetProjectAllowedNodes` leave the union of both lists, although
  `tenancy/repo/allowed_nodes_pg.go:25` reads like a replacement. `WhitelistHolds`
  counts both as in force. Deleted nodes stay in the list; a list of deleted nodes allows
  nothing, rather than everything.
- `dispatch` and the project filter of `ListProjects` look at the first 200 rows.
- A rule set loaded before a change and stored after its `Invalidate` is used until it
  expires; `StalenessBounded` is the bound that remains.
- A token that expires after `IsUsable` and before `MarkUsed` still makes its node: the UPDATE
  looks at `used_at` and `revoked_at` only (`registration_token_pg.go:145-151`). `TokenOnce` speaks
  of tokens that expired before anyone was past the check.
- A crash or an error between two of the four files of `Save` leaves a certificate and a key that do
  not fit. While the agent runs, it keeps its old client and the next renewal writes all four files
  again; if it is restarted before that, it has no client to renew with and is shut out
  until somebody enrolls it anew (in the model, `StartEnrolled` and `Redeem` are both disabled).
- A crash between the puller's rename and its manifest leaves a pair that does not fit. A version
  deprecated after such a crash stays installed.
- An error of Redis counts as "not locked" and as "not counted" (`lockout.go:136`, `199`): `ThresholdLocks`
  is claimed without such errors.
- `TestSubscription` inserts a row that is due, which the sweeper may deliver as well
  (`notify/service.go:63` says it does not); what it marks is counted in `RetriesAccounted`.
- A trigger removes its cron entry on any error of its read, until the next restart.
- The comments in `create_audit_logs.sql:7,36` speak of a transaction and of a UNIQUE
  key against forks; the code has a mutex, and the hash contains `created_at`, so
  two processes would fork a chain undetected by the key.
- `ExpandTargets` counts a duplicate against the limit when it arrives at a full list.
- The process waits for the relay and the stale sweeper only: the sweepers of notifications,
  assets and continuous tasks may be between two statements when the pool closes, and so may
  the stale sweeper after a `Shutdown` that exceeded its ten seconds (`main.go:633`), and requests of
  agents when `Bootstrap` fails.
- When its address is in use, main waits for a relay whose context nobody cancels
  (`cmd/server/main.go:593`), although the comment above that line says that it is cancelled: the
  process stays, without a port, until it is sent a signal. `SignalEnds` promises no more.
- The sweep over certificates selects by tenant, project and fingerprint but suppresses by
  fingerprint alone (`asset/repo/event_pg.go:250`): the event of one project silences another, of
  another tenant as well, although `event_repo.go:39` says one event for each. A project that finds
  the certificate in the last days of its validity may never be told; `ExpiryToldInTime` promises
  the event only to those that knew it for longer than the window of suppression.
- The agent's task loop and puller keep the client they were started with
  (`cmd/node/main.go:204`, `240`). When the old certificate expires after a renewal, heartbeats go on with
  the new one while `PullTasks` is refused, until the agent is restarted. `NodeFleet` has the
  client of the heartbeat only.

## 7. Properties and runs

| Run | Instance | Checks |
|---|---|---|
| `scan_race` | 1 task, 2 nodes, 2 handlers, sweeper, 1 fault; or 2 tasks, 1 node, 1 handler at a time, sweeper, no fault | `TypeOK`, `StatusJustified`, `HandedToOne`, `ImplementsQueue`, `ImplementsLife`, `AssignmentForward`, `TerminalOnceQuiet`, `DeletedFrozen` |
| `scan_live` | 1 task, 2 nodes, 1 handler, 1 fault, fair; or one server process with relay, stale sweeper, 1 job of each scheduler, 1 request of each server, fair | `PulledSettles`, `OrderlyClose`, `SignalEnds` |
| `scan_terminal` | no fault | refutes `TerminalFinal` |
| `scan_completed` | no fault | refutes `CompletedMeansSuccess` |
| `scan_stuck` | no fault, fair | refutes `SettledTaskTerminates` |
| `suite_chain` | 2 steps, 3 task rows, 2 goroutines, 1 fault | `TypeOK`, `StepOnce`, `StepsInOrder`, `EndedStaysEnded` |
| `suite_cancel` | 2 steps, 1 goroutine, no fault, fair | refutes `EndedStepIsNoticed` |
| `suite_reopened` | 2 steps, 2 goroutines, no fault | refutes `EndedRunFinal` |
| `delivery` | 2 reports with one asset, 1 row each, 2 attempts; 1 event, 1 subscription, sweeper and tester, 2 attempts; 1 fault | `DeliveryTypeOK`, `NewAssetToldOnce`, `DisappearanceTold`, `NothingOwed`, `RetriesAccounted`, `OutboxRefines`, `DeliveryRefines` |
| `services` | one scene per service, 1 fault each (see below) | `ServicesTypeOK`, `ChainContinues`, `RevokedStaysOut`, `ThresholdLocks`, `TimelineReplays`, `OnlyAllowedTransitions`, `StalenessBounded`, `InstalledVerified`, `PullerConverges`, `TokenOnce`, `SavedBeforeUsed`, `DisabledStaysDown`, `TemplateRegistered`, `LoopKept`, `PlanCovers`, `WhitelistHolds`, `ExpiryToldInTime` |
| `audit_verify` | 1 tenant, 2 goroutines, 2 ticks of the clock per tick of the column | refutes `UntouchedChainVerifies` |
| `plugin_upload` | 2 uploads, no fault | refutes `PackagesDownloadable` |

- `StatusJustified`: the aggregator decides on a list it read earlier; what it
  writes must nevertheless be true of the rows, then and afterwards.
- `HandedToOne`: no two pulls, and no pull and no agent, hold one assignment.
- `ImplementsQueue`: with assignments as work items, ScanTasks is an at-most-once
  queue (`WorkQueue`): offered, claimed, started and settled once each.
- `AssignmentForward`, `DeletedFrozen`, `TerminalOnceQuiet`: what no step may do.
  The last one is what remains of "terminal is final": only an aggregation that
  read the task earlier can change it.
- `PulledSettles`: whatever happens to an agent, a pulled assignment ends.
- `ImplementsLife`: the rows keep to the life on which `SuiteRun` relies.
- `StepOnce`, `StepsInOrder`: aggregations racing over a run that others advanced
  create each step once, in order, without a hole.
- `EndedStaysEnded`: what remains of "a run that has ended does not change" (`EndedRunFinal`):
  only an aggregation that read the run earlier changes it.
- `NewAssetToldOnce`, `DisappearanceTold`, `NothingOwed`: what a report owes its
  subscribers, although its effects follow one another with nothing to repeat them.
  `NothingOwed` is claimed without faults only: a crash after the commit loses the
  notification and the asset event for good (`scan/service.go:968`).
- `RetriesAccounted`: work is given up at the last attempt, neither earlier nor later,
  whichever marks are lost, and a notification is sent twice only for a fault or a test.
- `OutboxRefines`, `DeliveryRefines`: both tables implement `RetryQueue`, and nothing
  stays in them for ever.
- `ChainContinues`: whichever writers race, fail or die, the rows of a tenant are one chain,
  with a clock finer than the column. That the chain verifies (`UntouchedChainVerifies`) is what
  `audit_verify` refutes.
- `RevokedStaysOut`: a login that read the user's row before a revocation gets no
  working token out of it. `ThresholdLocks`: concurrent failures are not lost.
- `OnlyAllowedTransitions`, `TimelineReplays`: decisions taken on a stale read
  move the row along the table only, and the timeline tells them all.
- `InstalledVerified`, `PullerConverges`: what the agent runs is what somebody uploaded,
  and in the end it is the newest version on offer.
- `TokenOnce`, `DisabledStaysDown`: racing enrollments, a heartbeat decided before a disable.
  `SavedBeforeUsed`: the client is replaced after the last file, so that a renewal that fails
  half way leaves the agent that runs with the client it had; not, that its files fit.
- `TemplateRegistered`, `LoopKept`: a cron row and its entry, a mark and its clone.
- `PlanCovers`: for every input up to the bounds, the shards together are the set of the
  targets asked for, each once, compared with a definition as a set; and `truncated` says what
  the comment of `PreviewExpandTargets` says, although four statements set it.
- `WhitelistHolds`: a task goes only to nodes that were allowed at some moment of its
  `CreateTask`, while the list is replaced, cleared or rolled back.
- `ExpiryToldInTime`: restarts and late finders do not make a project hear twice
  within the window of suppression, and who has known the certificate for longer
  than that window hears of it before it expires, unless a sweep was missed.
- `OrderlyClose`, `SignalEnds`: main's waiting is neither too short, so that the pool closes
  under what it promised to await, nor for ever.

Bounds. The races of this code need two goroutines in the server besides the sweeper
(one aggregates while the other writes) and two rows of a task (so that a list may
be half settled): `scan_race` has both. Two tasks are needed only where a
statement or loop runs over several, which the other scene of that run adds; faults are left
to the first scene there, for the time it takes. One fault suffices to
cut any sequence of statements at any point. The liveness run keeps one handler: it asks
about a row, whose fate depends on the sweeper alone. `suite_chain` has two goroutines to
race for one step and a third row, so that a second task of a step could exist; with
two steps a goroutine can be one step behind. Deadlock is not checked: a
system whose tasks are all over has nothing to do. Handlers, nodes and tasks are symmetric in
`scan_race`, tasks and goroutines in `suite_chain`, which have no liveness property.

`delivery` and `services` put components side by side that share no variable: the
constant `scene` of a behaviour says which one moves, so that one run explores them one after
the other. In `delivery` two reports are what it takes to race for one new asset and
for one batch of the relay (`OutboxBatchSize` 1), and two attempts what it takes to
tell "at the limit" from "at the first failure". In `services`: three writers of two
tenants; two logins, one password change, a threshold of two; two calls on a finding and two
sightings; a TTL of two with two loaders; two uploads of two binaries as two versions with two
keys; two agents for two tokens, one of which renews once; one template, two continuous
tasks and two sweepers; all lists of two items over four addresses, limits up to
four (a whole block, one more exceeds it) and up to three nodes; two Sets, one dispatch and two nodes. A race needs two actors
on one row, and each scene has them. The certificate: its expiry comes after a round that is
before the window, the window is twice the suppression, so that a project can be told
twice, and a third project can find the certificate between the events of two others. `scan_live` puts a server process
beside the tasks in the same way. One job or request stands for many, for main asks
only whether there is one; there is no other sweeper (`OtherSweeper` is empty), because main
awaits none of them, as it awaits no request of an agent, of which there is one.

Fairness (`Fairness`): time passes (`Age`), the ticker keeps firing (`SweepList`,
`SweepMark`, `SweepEnd`: `sweeper.Run` loops for ever), and a goroutine that can take its
next statement does. Nothing is assumed of agents or users: reports, cancels and
creations may never come. Faults are bounded, which stands for "statements do
not fail for ever". `SuiteRun` assumes only that a goroutine that can take its next
statement does. `delivery` assumes that the relay and the notification sweeper go on
(`Relay.Run`, `startNotifySweeper` loop for ever, and a restart begins them anew) and that a
backoff ends; `services` only that the puller goes on (`PullerStep`). Nothing is
assumed of reports, users, administrators or the channels, which may always fail.
`ServerProcess` assumes that main goes on when it can, that a round, job or request, which
has finitely many SQL statements, ends, and that a loop between two rounds leaves once `ctx` is
done. A `select` that finds both a tick and `ctx.Done()` and takes the tick is one that
took it just before the signal. Nothing is assumed of new requests, of crashes or of the signal.

## 8. Findings

- `scan_terminal`: `aggregateTaskStatus` checks that the task is not terminal, then
  lists the rows, then updates with no condition on the status; a cancel in
  between is overwritten (`domain/task.go:42` says terminal statuses allow no transition).
- `scan_completed`: the sweeper fails a listed row by id, also if the agent
  completed it since; the task stays completed with a failed row
  (`domain/task.go:28`).
- `scan_stuck`: of two racing aggregations the staler writes last; the task is running
  with all rows settled, and nothing aggregates it again (`service.go:800`).
- `suite_cancel`: `CancelTask` of a step's task does not aggregate the run, and nothing
  that happens to the ended task later does: the run stays open, although
  `suite_service.go:353-354` says that a canceled task ends the chain.
- `suite_reopened`: an aggregation that read the run before another one ended it writes its
  older decision by id only (`scan/repo/suite_pg.go:391`); the completed run is running again
  (`scan/domain/suite.go:40` says that a terminal run does not change).
- `audit_verify`: `ComputeHash` is given `time.Now()` with nanoseconds, the row keeps
  microseconds, and the verification computes the hash from the row: a log nobody
  touched fails (`audit/domain/types.go:167`). The tests' repository keeps nanoseconds.
- `plugin_upload`: an upload of a version that exists overwrites the object of its package and
  then removes it in its rollback (`pluginpkg/service.go:178`).

## 9. Proofs

Eight modules hold theorems, each for every value of the constants under the assumptions
that the component's module names: `ScanTasks_proofs`, `SuiteRun_proofs`, `NodeFleet_proofs`,
`ProjectNodes_proofs`, `ServerProcess_proofs`, `ResultPipeline_proofs`, `Delivery_proofs` and
`Services_proofs`. Each invariant below was checked by TLC before it was proved.

### The scan core and suite runs

`ScanTasks_proofs` proves, for every finite or infinite choice of the constants
under the three assumptions of `ScanTasks` (the sweeper is not a handler, `NoTask`
is no task, `MaxFaults` is a natural number):

- `TypeCorrect`, `Invariant`;
- `StatusIsJustified`, `HandedOutOnce`: the safety invariants of the runs;
- `AssignmentsMoveForward`, `DeletedStaysFrozen`, `TerminalIsFinalOnceQuiet`: the action
  properties;
- `QueueImplemented`: the refinement of `WorkQueue`;
- `LifeImplemented`: every step is a step of `TaskLife` or leaves the row and the aggregations
  alone.

`StatusJustified` is not inductive: a write under way carries a decision made before.
The strengthening `IInv` adds that rows of a task are inserted once, by the
goroutine that created it (`DispatchedOnce`), and that the locals of a goroutine stay
true while others move (`WorkTaken`): what it holds was pulled and is no longer
assigned, and the status it is about to write is justified by the rows *now*. That
last part is preserved because rows only appear before any aggregation and
assignments only move forward, so what justified the decision still does. `WorkStep`,
`StatusStep` and `HandedStep` are the inductive steps, one case per action.
`LifeImplemented` needs, besides `IInv`, that an aggregation in hand is of a task and that
what it is about to write was decided (`ReadOK`).

`SuiteRun_proofs` proves, under the assumptions on the constants of `SuiteRun`,
`TypeCorrect`, `StepCreatedOnce`, `ChainInOrder`, `EndedRunStays` and `RunOnLifeRows`.
None of the invariants is inductive alone: that a step is created once rests on there being
one creator. `SInv` says so: a goroutine about to create (`Creates`) is the only one,
and its step is `current_step` and has no task. The compare-and-set keeps this true
because a goroutine reaches it only having seen a task of the step it read
(`Fits`), and the creator's step has none; so while someone is creating, nobody's
comparison can succeed. `AdvanceStep` and `CreateStepStep` are that argument.

### Results, retries and notifications

`ResultPipeline_proofs` proves, for any number of reports, assets, attempts and faults:

- `PipelineTypes`: the types of the outbox, the assets, the relay and the reports.
- `NewAssetOnce` (`NewAssetToldOnce`). What makes it inductive is `FreshOnce`: an asset is fresh in
  the hands of at most one goroutine, and only before its `asset_new` event, because the
  upsert that inserts a row is one.
- `DisappearancesCounted` (`DisappearanceTold`). `TellsAll` counts what the sweep still holds with
  the events it has inserted.
- `ReportsOweNothing` (`NothingOwed`). `OwedSoFar` says for each place in `ReportResults` what has
  been done when a goroutine is past it.
- `GivenUpOnlyAtTheLimit`: a row of the outbox has given up exactly when its attempts are
  used up, and no published row has (`AttemptsTell`). It rests on `InHand`: what the relay read
  of a row still holds when it marks the row, because there is one relay.
- `OutboxImplementsQueue`: the refinement of `RetryQueue` without its liveness. A row is marked
  published only after the bulk request of its batch was carried out (`DispatchedIsTaken`).

`Delivery_proofs` proves `NotificationsAccounted` and `NotificationsImplementQueue` (the refinement
of `RetryQueue` without its liveness) of `NotifyQueue`, and of the composition the run
checks `DeliveryTypes` and `DeliveryRetriesAccounted`. Nobody but the sweeper marks a queued delivery,
so that what `FetchDue` read of it still holds (`ReadIsFresh`); a send that the row does not know
of is in the sweeper's hand or was paid for with a fault (`SendsAccounted`); and the mark it is
about to write fits the attempts (`OutcomeDue`).

### Server process

`ServerProcess_proofs` proves `PoolClosesInOrder` (`OrderlyClose`): main closes the pool when it is
about to return, with the jobs of both schedulers over, and after exit code 0 also the relay, the
stale sweeper and the requests of users. It is silent about the sweepers main does not await and,
when `Bootstrap` fails, about the agent server, which is still accepting then. The invariant follows main's
way out stage by stage: which exit code there is when the pool closes (`StageOfClose`), that a
stopped scheduler begins no job (`SchedulersStopped`), and what exit code 0 has waited for
(`OrderlySoFar`). What was awaited stays over, because a loop whose context is done begins
nothing. It holds for any set of sweepers that main does not await; `OtherSweeperAssumption`
says that they are none of the awaited ones.

### The services

`Services_proofs`, with `NodeFleet_proofs` and `ProjectNodes_proofs`, proves:

- `ChainNeverForks` (`ChainContinues` of `AuditChain`), whatever the precisions of clock and column.
  Each hash is that of a time the column rounds to the row's (`StoredWithin`). The mutex makes the hash a goroutine has read the
  latest one until it inserts (`ReadIsLatest`).
- `StatusFollowsTable` (`FindingWorkflow`). A call that is about to write has read a status from
  which the table allows what it writes (`DecidedByTable`); the comparison in the UPDATE carries
  this over to the row.
- `HistoryReplays` (`FindingWorkflow`): as many events lead to each status and assignee as lead
  away from it, but for the ends. A call between its UPDATE and its event is counted with the
  events (`Moves`); each such move begins where the row was, so that one more move keeps the
  balance (`OneMore`, `OneMove`); and moves are told apart by their calls (`EventsOfCalls`).
- `RevokedNeverAuthenticates`, `ReachedThresholdLocks` (`IdentityLogin`), for any number of
  logins and password changes. No login has seen a later token version than the row has, and a
  void one has seen an earlier one and will not read again (`VersionsBehind`).
- `StaleRulesExpire` (`MatcherCache`), for any TTL and any number of goroutines, from the bound
  `LoadTime` on a load. Whoever holds rules that were overtaken read them before that, no
  longer ago than a load takes (`LoadsInTime`), so an entry is stored no later than that
  (`StoredInTime`); an entry that differs from the table was raced, or its `Invalidate` is due
  (`DropIsDue`).
- `ActiveTemplatesFire`, `MarksCloneOnce` (`TaskInstances`). Whoever is about to remove an entry
  removes that of a template that never becomes active again (`RemovalsFinal`). A mark, a
  task in a sweeper's hand and a clone are counted together, and each step moves one
  of them or starts another (`InFlight`, `MarkedOnce`); to count what sweepers hold there must
  be finitely many.
- `ProjectsToldInTime` (`CertExpiry`), for any windows and any number of projects, in the terms of
  `ExpiryToldInTime` (section 7): late finders and missed sweeps are left out. One project's
  event silences another's; but a sweep that tells one tells every one that knows the
  certificate (`ToldTogether`), so nothing keeps the sweep of the last round from telling one
  that has known it for longer than the window of suppression (`ToldByLastSweep`).
- `OnlyVerifiedInstalled` (`PluginRegistry`), for any number of versions, keys and uploads. The
  round of the puller is about a row that exists and whose binary never changes any more
  (`RoundIsOfRow`), whatever becomes of the object. It assumes that there is a key to sign with.
- `TokenMakesOneNode`, `ClientIsSaved`, `DisabledStays` (`NodeFleet`), for any number of agents,
  tokens, certificates and faults. Whoever is about to insert a node has used up its token and is
  alone with it (`TokensSpent`); in `Save` the files before the one it is at are of the new
  certificate, those after it are not newer than it, and the client is never ahead of the key on
  the disk (`FilesOf`), because the client is replaced only after the last file. A token that is
  dead makes nothing, because it is not claimed any more or nobody is past its check.
- `DispatchedAsAllowed` (`ProjectNodes`), for any number of nodes, Sets and dispatches. The table
  holds, once each, the nodes named by the Sets in force (`RowsInForce`); a Set between its
  DELETE and its COMMIT leaves exactly the rows of those that came after it (`PendingSets`), which
  is preserved by another commit because an INSERT waits for a DELETE of the row it conflicts
  with; and what a dispatch holds is part of what was allowed since it began (`TaskInv`).
- `PlansCover` (`TargetPlan`), for addresses of any size and any number of items and nodes. The
  list is never longer than what was named so far, so whatever stops an item early, a full list
  or a long block, means that the limit is exceeded (`Bounded`); within the limit the list has
  all that was named (`NothingMissed`). The end of the k-th shard is k times the quotient plus as
  many of the remainder as there are (`ShardEnd`, `ShardEnds`), so the shards lie side by side up
  to the end of the list (`ShardsCut`).
- `ServicesTypes` (`ServicesTypeOK` in the specification of the run). Each component takes its own
  steps there and no others (`SceneSteps`), so the invariants above hold of the run, too. The
  bounds need a few more: the mutex keeps the room for a row (`RoomLeft`), each login
  counts one failure for each key (`FailuresCounted`; there must be finitely many), each handler that
  is about to invalidate made a change of its own (`McBounds`).

### What is assumed, and what is only model-checked

Besides the named assumptions on constants (numbers are numbers, "none" values are
none of the others), the theorems assume what is said above: a bound on the time of a load in `MatcherCache`, finitely
many sweepers and logins, at least one signing key; and that powers of two are positive
numbers (`PlanAssumption`), which the provers cannot derive. Those that are about the code and not
the instance are in the comments of the modules, and the runs make them too.

Only model-checked:

- everything temporal: `PulledSettles`, `SignalEnds`, `PullerConverges`, and the promise of `RetryQueue`
  that nothing stays open for ever in `OutboxRefines` and `DeliveryRefines`. Liveness is out of
  the prover's reach.

Every invariant and every action property that a passing run checks is stated by a theorem. The
refuted properties need no proof.

## 10. Not modelled

Components with status `not_modelled` in `PROJECT.json`: the PoC engine, the scanner plugin
wrappers, export and the suite webhook are data in, data out, or stateless; the platform
packages have no state that other parts read; the web console
is a client. The code generated from the protocol files, about a third of the Go lines,
has no behaviour of its own.

Of the components that are `partly` modelled, the parts left out are named there: among
them single-row CRUD and lists (projects, members, subscriptions, suites, rules, users), the
conversions of the RPC handlers, API keys and captcha, comments on findings, `RetryTask`,
and the opening of the stores when the server starts.
