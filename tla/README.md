# A TLA+ model of Local Model Gateway

Local Model Gateway (TypeScript, `src/packages`) puts every GPU-bound request of
a workstation behind one admission queue, loads and unloads the model runtimes
that serve them, and offers the result over OpenAI-compatible HTTP routes and an
MCP endpoint. A second program, the lazy MCP broker, hides large tool catalogs
behind a search.

This directory holds TLA+ modules translated from that source, the TLC instances
that check them, and theorems about them proved with TLAPS. `PROJECT.json` lists
components, runs, mutants, findings, hazards and theorems, and maps every
definition to the lines it stands for.

- [The system](#the-system)
- [How the modules compose](#how-the-modules-compose)
- [The GPU coordinator module](#the-gpu-coordinator-module)
- [The other modules](#the-other-modules)
- [What is checked](#what-is-checked)
- [Where code and documentation disagree](#where-code-and-documentation-disagree)
- [What is proved](#what-is-proved)
- [What is not modelled](#what-is-not-modelled)
- [Plan](#plan)

## The system

Node runs one handler at a time, from one `await` on a timer, a child process, an
HTTP exchange or a file to the next. SQLite is used synchronously. Concurrency is
therefore the interleaving of these stretches, and the hazards are what a stretch
remembers from before its `await`.

| Component | State it keeps | Operations | What makes it correct |
| --- | --- | --- | --- |
| GPU admission coordinator (`core/gpu-coordinator.ts`) | `pending` map, `runtimes` map (state, `activeRequests`, `activeWorkItemIds`, idle timer), `activeOneShotWorkItemId`, `admitting` | `acquire`, `release` of a lease, `cancelRuntimeRequest`, `cancelPublicJob`, `timeoutPublicJob`, `forceUnloadRuntime`, `refreshRuntimeHealth`, queue and idle timers, `pump` | one model at a time, lease cap, one-shot work alone, queue order, no orphaned row or pending entry, no lost wakeup, first outcome wins, everybody is answered |
| GPU work item rows (`core/db.ts`) | table `gpu_work_items` | create, start, finish, list in queue order, recover | a state only moves from queued to running to final |
| Job store and recovery (`core/db.ts`, `gateway/server.ts`) | tables `jobs`, `job_events` | create, start, complete, fail, cancel, time out, recover at startup, prune | a job ends; its outcome agrees with its work item; a restart leaves nothing live |
| Scheduler (`core/scheduler.ts`) | `activeJobs`, `activeRun`, `stopping` | `submitJob`, `executeJob`, `cancelQueuedJob`, `waitForJob`, `waitForOpenAiJob`, `waitForOpenAiJobStart`, `tick`, `stop` | one run per job, the queue limit, `stop` returns |
| OpenAI upstream proxy (`core/openai-upstreams.ts`) | per call: `finished`, `completed`, `consumerCancelled`, abort controllers; per pool: round-robin cursors | `proxyOpenAiJson`, the wrapped body stream, `orderedUpstreams` | completion reported exactly once, with the right outcome; every upstream tried once |
| OpenAI HTTP routes (`gateway/openai-routes.ts`) | none of its own | validate, acquire or submit, wait, stream, cancel on disconnect | a client that leaves cancels its own work only |
| MCP tools and server (`gateway/tools`, `gateway/server.ts`) | sessions | thin calls into scheduler and coordinator; startup and shutdown order | - |
| Lazy MCP broker (`lazy-mcp-broker/broker.ts`) | `servers`, `catalog`, `connections`, `refreshes`, the cache file | `searchTools`, `describeTool`, `callTool`, `ensureConnected`, `reconnectServer`, catalog refresh, load and save of the cache | a tool runs on a live client; no client is leaked; the catalog never lists a disallowed tool as callable |
| Broker tool policy (`lazy-mcp-broker/allowlist.ts`) | none | normalise a name, resolve a policy | destructive tools need confirmation |
| Model registry (`core/model-registry.ts`) | table `models`, managed directory | import, remove, startup sync | a row never names a file that is gone, nor one its checksum is not of |
| llama-cli backend (`core/backend`) | a child process | spawn, collect output, kill on abort | ends when its signal aborts |
| Configuration, prompts, redaction, dashboard, CLI | none | parsing, formatting, one-shot commands | - |
| Runtime adapters (`packages/runtime-adapters`, `examples/`) | the service processes | start, stop, health | - |

Interactions: HTTP routes and MCP tools submit jobs to the scheduler or acquire
leases from the coordinator; the scheduler's `executeJob` runs a job inside a
lease; the coordinator writes work rows and, on a cancellation, the job linked to
them; it starts and stops the runtimes through adapter commands and probes them
over HTTP; the upstream proxy streams from a loaded runtime and its completion
callback releases the lease. Timers (queue wait, idle unload, probe and command
timeouts) and abort signals of clients call back into all of them.

The behaviours that are hard here are listed as `hazards` in `PROJECT.json`, each
at its line: an admission that spans many awaits while clients leave; stops that
run outside the admission lock; `pump` entered again from inside itself; counters
kept by hand; a load or stop that fails half way; two writes without a
transaction; a stream that ends in five ways at once; a server record written
back after an await.

## How the modules compose

| Module | Models | Relies on |
| --- | --- | --- |
| `GpuCoordinator` | admission queue, leases, runtimes | that a lease's holder releases it: shown by `OpenAiProxy` (`EveryRequestCompletes`) for proxied requests |
| `GatewayJobs` | job rows, their work items, the scheduler, crash, restart and stop | that a queued item is admitted or refused: shown by `GpuCoordinator` (`EveryCallAnswered`) |
| `JobPromise` | what a client may count on of a job; abstract | implemented by `GatewayJobs` (`Implements`, checked and proved) |
| `OpenAiRoutes` | what an HTTP request or a job tool is answered | instantiates `JobPromise` for its jobs, and takes their ending from its `Prompt` |
| `OpenAiProxy` | one proxied call over its upstreams, and the rotation | nothing: its timers alone make it end |
| `WorkTelemetry` | what the gateway tells of a work item | the queue in a reduced form |
| `McpBroker` | connections, catalog and cache of the broker | - |
| `ToolPolicy` | which tools the broker exposes | - |
| `ModelRegistry` | LoRA adapters: files, rows, imports, removals | - |
| `GatewayConfig` | settings over starts, and which models are managed | - |

Each module `M` has an instance `MCM` and one or more `.cfg`, and theorems about it
are in `MProofs`. `ToolPolicy` and `GatewayConfig`, which share no state, have one
instance, `MCConfiguration`, in which each moves while the other rests, and one
module of theorems, `ConfigurationProofs`. In every module an action is the code from one `await` to the
next, with all the calls it makes, and a definition marked `mutant` is no part of
the model: it is the next definition with a plausible bug that a property must
find.

## The GPU coordinator module

`GpuCoordinator.tla` models `gpu-coordinator.ts` with the rows of
`gpu_work_items`. `MCGpuCoordinator.tla` gives its constants values for TLC, and
`GpuCoordinatorProofs.tla` holds the theorems.

**State.** The variable `gpu` is a record with the fields of the object and of
its rows; it is one variable because methods call each other several levels deep,
and each is an operator from such a record to such a record.

| Field | Code |
| --- | --- |
| `work`, `born`, `rows` | `gpu_work_items.state`, rowid, rows inserted |
| `pending`, `aborted` | keys of `this.pending`; those whose controller was aborted |
| `answer` | the promise of `acquire`: unsettled, resolved, or the HTTP status it was rejected with |
| `lease` | the lease: held, released, or `lost` when the promise had been rejected before |
| `state`, `active`, `ids`, `idle` | per runtime: state, `activeRequests`, `activeWorkItemIds`, idle timer armed |
| `oneShot`, `admitting` | `activeOneShotWorkItemId`, `admitting` |
| `adm` | where an `admit()` call awaits: a probe, a stop or a start of some runtime |
| `refusing` | `admit()` calls refused with 409, whose `.finally` has not run |

Around it: `overdue` (queued items whose `deadline_at` has passed), `svc` (the
service process of each runtime), `idleStop` and `forceStop` (stops that run
outside an admission), `probe` (answers a running `refreshRuntimeHealth` holds).

**Actions.** An action is one stretch between two awaits, with every call it
makes, the trailing `pump()` included.

| Actions | Code |
| --- | --- |
| `Acquire`, `AcquireRefused`, `Release`, `Cancel`, `QueueTimeout` | `acquire`, the release callback, every path into `cancelWorkItem`, the queue timer |
| `CheckHealth`, `ProbeHealth` | the two probes of `ensureRuntimeReady` |
| `SweepProbe`, `SweepStopCommand`, `SweepStopped`, `SweepStopFails` | `unloadLoadedRuntime` and the `stopRuntime` in it |
| `StartCommand`, `StartCommandFails`, `LoadHealthy`, `LoadAborted`, `LoadTimesOut` | the load in `ensureRuntimeReady` |
| `RefusedSettles` | the `.finally` of an admission refused with 409 |
| `IdleFires`, `IdleStop...`, `ForceUnload`, `ForceStop...` | `scheduleIdleUnload`'s callback, `forceUnloadRuntime` |
| `RefreshProbe`, `RefreshApply` | `refreshRuntimeHealth`, which applies answers after the last one came |
| `DeadlinePasses`, `ServiceReady`, `ServiceDies`, `ServiceStartedOutside` | the clock and the service processes |

**Pump.** `pump()` starts the next admissible item. If overdue items head the
queue, `takeNextAdmissibleQueued` cancels each of them, and each cancellation
calls `pump()` again before the outer loop, over a list it read earlier, goes on.
`Pump` gives the result in closed form, without recursion (`Nested`, `Taken`,
`TakenTwice`, `Expired`): with *k* overdue items in front there are *k* + 1 calls
of `admit()`; the odd ones start the next item, the even ones meet the item just
started, find its row no longer queued and refuse it with 409. Without an overdue
head this is one `admit()` of the queue's head, if that is admissible.

**Abstractions.** Names, payloads, errors' texts, telemetry and the timeline are
left out. Time is left out: a timer may fire whenever it is armed, and
`DeadlinePasses` lets the clock be ahead of the timer, which is what makes an
overdue head possible. A service is down, starting or up; health is "up". Model,
priority and whether a request has a maximal queue wait are constants of the
instance, as functions of the item.

## The other modules

### GatewayJobs and JobPromise

`GatewayJobs` has `scheduler.ts`, the tables `jobs` and `gpu_work_items` of `db.ts`
and the process of `server.ts`. SQLite executes one statement at a time and the
handlers that write several use no transaction, so a crash may fall between two.
A handler that writes therefore leaves its statements in `todo`; `Continue`
executes one, with the `WHERE` clause that guards it (`StatesMove`), no other
handler runs before the list is empty, and `Crash` drops the rest.

| State | Code |
| --- | --- |
| `job`, `work` | the `state` columns of the two tables; a job and its item share a name |
| `run` | where `executeJob` (or a proxied request) stands; `Active` is `activeJobs` |
| `waiter`, `told` | where `waitForJob` or `waitForOpenAiJobStart` stands, and what its client was told |
| `phase`, `awaited` | the process, and the promises `stop()` awaits |
| `events` | the kinds of outside event this behaviour may have |

| Actions | Code |
| --- | --- |
| `Submit`, `Request` | `submitJob` with `maxQueue`; `acquire` of a proxied request |
| `Begin`, `Admitted`, `AdmissionFails`, `CallEnds` | start of the row, start of the job, refusal, release with completion or failure |
| `Cancel`, `QueueTimeout` | `cancelWorkItem` by a user, a forced unload or the queue timer |
| `Wait`, `StartSeen`, `EndSeen`, `QueueWaitTimeout` | `waitForJob`, `waitForOpenAiJobStart` and its timeout |
| `Stop`, `Exit`, `Crash`, `RecoverGpuWork`, `FailRunningJobs`, `Prune` | `stop()`, the end of the process, both recoveries at startup, `pruneJobs` |

`JobPromise` says of a job what a client is told, with no word of items, queues or
crashes: it runs once at most, ends once, is answered with its end, and ends.

### OpenAiProxy

The locals of each `proxyOpenAiJson` call and of the body it wraps are the record
`req[r]` (`Call`), and `cursor` is the pool's. Functions of the code are operators
on such a record (`Attempt`, `AttemptFailed`, `Wrapped`, `Bodiless`, `Complete`,
`Abort`); actions are the events: `Begin`, `FetchResolves`, `FetchRejects`,
`Arrived`, `TextEnds`, `ReadEnds`, `ReadFails`, `ConsumerCancels`, `ClientAborts`,
`TimesOut`. Status codes are three classes (good, error, retryable); chunks of a
body change nothing and are left out.

### OpenAiRoutes

`route[r]` holds the handler of request *r* from its parsed form to its answer;
`item[r]` is the work item of a proxied one; jobs are those of `JobPromise`. The
actions of arrival follow the order of the tests in the route: `Invalid`,
`StopCommand`, `Proxied`, `NoSpeechModel`, `PoolProxied`, `Submits`. Then
`ProxyAnswers`, `PoolAnswers`, `StartSeen`, `StreamEnds`, `EndSeen`,
`QueueWaitExceeded`, `WaitGivesUp`. Chat stands for the chat and the responses
routes, tool for `submit_job` followed by `wait_job`. Which text is a stop command
and what prompts and chunks say is left out.

### WorkTelemetry

`work[w]` has the row, the telemetry in memory and the timeline of a request;
`kept` is the bounded list of completed telemetry, `file` the progress file of the
runtime and `now` the clock that says whether it is fresh. The operators
`InPhase`, `MarkFirstByte`, `AddResponseBytes`, `FinishTelemetry`, `Finish` and
`Cleanup` are the methods of those names; the actions are the moments at which
the coordinator and the upstream callbacks call them, late ones included.
`ShownPhase` and `ShowsPrefill` are what `telemetryStatus` answers.

### McpBroker

`srv`, `catalog`, `connections` and `file` are the broker's maps and its cache
file; `task` has the locals of every call in flight and of the background
refresh of each server. A list of tools is a version number. `Ask` and `Search`
begin; `Resolved`, `Woken`, `Linked` are what a task does when it resumes;
`Connected`, `ConnectFails`, `Saved`, `SaveFails`, `Closed` the steps of
`refreshServerCatalog` and `ensureConnected`; `CallReturns`, `CallFails`,
`Dropped`, `Reclosed` those of `callWithReconnect`. `Settled` says that promise
callbacks run before the next event. `world` fixes which requests and failures a
behaviour has.

### ToolPolicy

`ResolveToolPolicy` is `allowlist.ts` rule by rule in the code's order. Around it
is the catalog over the starts of the broker: the configuration an operator
edits, the one the broker runs with, the cache file written under an earlier one.
Which words a name contains is given by the sets `Mutating` and `Reading`.

### ModelRegistry

`call[w]` is where an import, a removal or a sync awaits; `source`, `stored` and
`folder` are the files, `row` the table. Imports go `stat`, `hash`, `mkdir`, `copy`
to a temporary name, `rename`, `register`; a removal deletes the row, then the
folder. A file in managed storage has the base name of its source, so two sources
may have one (`FileName`). A file is its content, which is its checksum. Each of
these steps may fail (`Fails`: the `catch` of a sync, the error of an import),
`Crash` may fall at any of them, and `Replace` writes, puts back or deletes a
source at any time.

`raced` and `parted` are history variables and say where the two properties end:
which kinds of operation met another on their alias, and of which aliases the
source was written between hash and copy, or the row not written after the rename.

### GatewayConfig

Environment over file over defaults (`ReadEnv`, `ReadFile`), then the table `config`
over all (`Seed`, `Applied`), for a setting that is a number and one that is a
text; the lists of managed runtimes and of upstreams with their validation; the
loopback and token check (`Valid`). An operator edits the sources at any time and
calls `update_config`; starts read them.

## What is checked

Constants `Events` (of `GpuCoordinator`) and `Worlds` (of `GatewayJobs` and
`McpBroker`) name the kinds of outside event an instance allows. A property
checked with an event in its set survives it.

| Run | Instance | Shows |
| --- | --- | --- |
| `sharing` | items *q1* (with a deadline), *q2* for runtime 1 (cap 2), *m1* for runtime 2; cancel, loadfail; fairness | leases counted and exclusive per model, nothing takes the service from under one, no row stranded by a load that fails or is given up, a resident runtime is on its idle timer, outcomes final, every caller of `acquire` answered |
| `residency` | *q1*, *m1* for two runtimes, one-shot *x1*; force, idle, crash, stopfail | types, one admission, no orphaned row or pending entry; a second service only where a stop has failed or is running |
| `overdue` | *q2* with a deadline and a higher priority, *q1*, *m1*, caps of 1; late, refresh, external, idle, loadfail | with an overdue head, when `pump()` calls itself: the order of the queue, by priority and arrival, and no lost wakeup |
| `cap` | *q2* with a deadline and a higher priority, *q1*, *q3*, *q4*, all of one runtime with cap 1, behind a one-shot *x1*; late, loadfail | a violation, see below |
| `idle_race` | *q1*, *q2*; idle | a violation, see below |
| `jobs` | two jobs and a proxied request, `MaxQueue` 2; fairness; worlds {cancel, crash, stop}, {cancel, torn}, {prune, stop, late}, {proxied} | rows, executions and answers agree; recovery; a stop leaves nothing; every wait ends; `JobPromise` is implemented |
| `proxy` | two requests over two upstreams; fairness | outcomes are true, timers are kept exactly while something waits, nothing is sent in vain, every request completes |
| `routes` | two requests of any kind and one for speech, over a managed, a pooled and a local model, `MaxQueue` 1; fairness | answers say what became of the job, a stop command ends the requests of its model alone, every request is answered |
| `telemetry` | a proxied request, a text, a one-shot; one kept record, one chunk, two instants | history and telemetry keep the first outcome, nothing leaks, prefill shown is the request's own |
| `broker` | one server, two callers, one background refresh, lists of up to two versions, seven worlds; fairness | the record is never left refreshing or out of step with the catalog, calls share a connection, every request ends |
| `registry` | one startup alias, two sources of one name and two contents, two tool calls, one crash; every await may fail | a registered adapter has its file, and its checksum is that of the file |
| `configuration` | four tools, one for each combination of words, every raw policy as entry and default; a number, a text, three names in two spellings | what is exposed is warranted, what is included is exposed; what was asked before a start is in force after it; no model is both managed and pooled |

**Bounds, and why they are enough.** In the GPU runs an item is acquired once, so
there are three requests (five in `cap`, which needs them); two of one model, one of another or a one-shot
are the smallest queue in which sharing, swapping, head-of-line blocking and a
nested pump all happen, and two runtimes are enough for a sweep to skip one and
stop the other. At most one idle stop, one forced unload per runtime and one
refresh are in progress. `EventsAssumption` excludes forced unloads together with
overdue deadlines, because `ForceUnload` folds the pumps of its cancellations
into one, which is exact only without an overdue head. In `jobs` two jobs and a
request are enough for a full queue with one job waiting and one refused, and for
a stop that awaits one and leaves another. Requests of `OpenAiProxy` share only
the cursor: two and two upstreams give every rotation and every retry.
Two tool calls and the sync of a start, two sources and two contents are enough for
each to be overwritten, put back or lost under another in `registry`; the theorems
have no such bound. `MaxVersion`, `MaxSearches` (broker), `MaxCrashes` (registry),
`MaxClock`, `MaxChunks` (telemetry) bound counters of the model; `MaxKept` and
`Fresh` of telemetry, 100 and 30 s in the code, are reached at 1. `ListLimit` of
routes, 1000 in the code, is 3, the number of requests, and never reached: see
the departures below.

**Deadlock.** Not checked where the system may rest: a coordinator, a gateway or a
broker with nothing to do, or one whose bounded requests are all over. Checked in
`configuration` and `registry`, where an operator can always act.

**Fairness.** `GpuCoordinator`: weak fairness of each admission's steps and of each
stop, since every await there is a command or a probe with a timeout; of `Release`,
since the proxy and the backend end on their own timeouts; of `ServiceReady`.
`GatewayJobs`: handlers run on (`Continue`), the next step of an item and of a
waiter is taken if it is possible again and again (strong, since other handlers
come between), and a dead gateway is started again by launchd. `OpenAiProxy`: the
timer fires and promises that have settled are seen; nothing of the upstream or
the client. `OpenAiRoutes`: proxied requests and jobs end, which are
`EveryRequestCompletes` and `JobPromise!Prompt`. `McpBroker`: `connect`, `listTools`,
`writeFile` and `close` settle, a call has its timer. Cancellations and failures are
never assumed to happen, nor to stop.

Every property of a passing run has a mutant that breaks it under the run's own instance.
`TypeOK` (`PolicyTypeOK` in `ToolPolicy`) is proved for every module of the system and
checked for `GpuCoordinator`.

## Where code and documentation disagree

Two runs end with a counterexample, and `findings` quotes the lines.

`idle_race`: the stop an idle timer starts does not take the admission lock. A
request acquired while the stop command runs finds the service healthy, adopts it
and loses it, although active work "is not interrupted".

`cap`: an overdue queue head makes `takeNextAdmissibleQueued` cancel it and so call
`pump()` within `pump()`. The inner one starts *q1*; the outer one, over the list it
read before, admits *q1* again, which is refused with 409, and the `.finally` of that
refusal drops `admitting` under the first admission, so *q3* is admitted beside it.
When the load of *q1* fails, its own `.finally` drops the flag again and *q4* is
admitted; no counter has been raised yet, and then *q3* and *q4* both hold leases of
one runtime, which is to be shared "only up to `maxConcurrency`". It takes the
overdue head and three more requests of that runtime, behind whatever keeps the GPU
until the deadline has passed. Without overdue heads and forced unloads the cap
holds always (`CapHolds`).

The properties of the passing runs stop short of the following departures, each
named in the comment of the property or in a hazard's note. They were met while
modelling, and no run is spent on them.

- `gpu-coordinator.ts:1495` - an overdue queue head makes `pump()` start an item
  twice; the refused second admission answers the caller 409 and drops the lock of
  the first, whose lease then reaches nobody (`OneAdmission` and
  `ActiveAccounting` are checked and proved without overdue heads; for the cap see
  `cap` above).
- `gpu-coordinator.ts:367` - a refresh applies answers it collected earlier, so a
  runtime that came up meanwhile may be recorded unloaded under a lease
  (`ActiveWorkUninterrupted`, which also speaks of the record, is checked and
  proved without refreshes).
- `gpu-coordinator.ts:915`, `963` - a load given up after its start command is
  never stopped, and a failed stop is swallowed; the next load or one-shot goes
  on beside the service (`ServicesAlone` lets a service stand beside another if
  the record knows its stop failed, and is checked and proved without failing
  loads and without cancellations).
- `gpu-coordinator.ts:811`, `613` - a forced unload zeroes the counter of a runtime
  while a holder has yet to release; the late release lowers the count of a newer
  lease (`ActiveAccounting` is checked and proved without forced unloads).
- `gpu-coordinator.ts:1371` - where a runtime serves several requests, the progress
  file does not tell them apart (`PrefillIsOwn` speaks of one at a time).
- `gpu-coordinator.ts:581` and `openai-routes.ts:402` - a stop command looks at the
  1000 newest work items, and requests of the pool have none.
- `db.ts:799` - a crash between `createJob` and `createGpuWorkItem` leaves a queued
  job that no recovery finds (`RowsAreExecuted` excepts torn handlers).
- `db.ts:291` - the first start writes every setting into the database, which from
  then on is put over the environment (`docs/cli-reference.md:162`).
- `broker.ts:393`, `431` - two calls that fail on one client both reconnect, and one
  of the new clients is left without an owner (`NoStrayClient` says when not).
- `model-registry.ts:104` - an import that runs while its alias is removed may
  register a file that the removal then deletes (`RegisteredIsStored`).
- `model-registry.ts:92`, `49` - when the gateway dies, or the row cannot be
  written, after the rename, the row keeps the checksum of the file that was
  replaced. The next sync notices only if the source it knows has another
  checksum than the row: not where the file is of another source with the same
  base name (116), nor where the source was put back. A source written between
  its hash and its copy is registered with a checksum that is not its file's
  (`ChecksumIsOfFile` excepts these aliases, `parted`).

## What is proved

`GpuCoordinatorProofs.tla` proves, for every finite set of items and every value
of the other constants that meets the assumptions of `GpuCoordinator`:

| Theorem | Without | Statement |
| --- | --- | --- |
| `TypeCorrect` | - | `Spec => []TypeOK` |
| `OutcomeStands` | - | `Spec => OutcomeIsFinal` |
| `QueueInOrder` | - | `Spec => NoOvertaking` |
| `NoWakeupLost` | force | `Spec => []NoLostWakeup` |

"Without" names the kinds of `Events` an instance must not have; where it is empty
the theorem is about every instance.

The argument is one relation, `Evolves(s, t)`, between the coordinator's record
before and after a method: *t* is typed if *s* is, rows that are final in *s* are
the same in *t*, and two facts that make `TypeOK` inductive carry over. These are
`OneShotsOnlySweep` (the admission of a one-shot never waits for a runtime of its
own, otherwise an idle timer could be armed for a runtime that does not exist) and
`NoRowBeforeCall` (an item nobody acquired has no row, so `Acquire` overwrites no
outcome). The relation is transitive: it is proved once per method, in the order
the methods call each other, and composed for each action. The inductive
invariant is `IInv`, and `NextEvolves` has one case per action. `FirstRuntime`
says that the next runtime of a sweep exists, by the well-foundedness of `<`.

`QueueInOrder` and `NoWakeupLost` are about what a method does, with overdue heads
and all. `InOrder(s, t)`, of the record before and after, says that what has started
leaves nobody in the queue who ranks above it, or as high and was there before; it
needs `Lined`, that a queued row has its pending entry. `Woken` says that an idle
coordinator's queue has no admissible head. A method either starts and queues nobody
(`Calm`), changes nothing `pump` looks at (`Rests`), or ends in `pump` (`Stirs`), and
`pump` starts in order and restores both invariants.

The second half of the module proves the mutual exclusion the coordinator is for, and
where it stops: an overdue queue head breaks the admission lock and a forced
unload the counters (see the departures above). The theorems are about every
instance without these events, whatever its other events are:

| Theorem | Without | Statement |
| --- | --- | --- |
| `AdmissionLock` | late | `Spec => []OneAdmission` |
| `CountersNameTheLeases` | late, force | `Spec => []ActiveAccounting` |
| `OneModelHolds` | late, force | `Spec => []OneModelAtATime` |
| `CapHolds` | late, force | `Spec => []WithinMaxConcurrency` |
| `NoWorkOrphaned` | late | `Spec => []NoOrphanedWork` |
| `ActiveWorkStays` | late, force, refresh, idle, crash | `Spec => []ActiveWorkUninterrupted` |
| `IdleRuntimesAreTimed` | late, force, refresh, external | `Spec => []IdleIsTimed` |
| `ServicesStandAlone` | late, loadfail, cancel, refresh, external | `Spec => []ServicesAlone` |

None of these properties is inductive: an admission decides in `pump` and takes
its slot many awaits later. The strengthening is `Good(s)`, a conjunction of

- `Locked`: `admitting` is up exactly while one item is in flight, and no refused
  admission is left to settle;
- `Exclusive`: by the code's own counters, one runtime at most is in use, within
  its cap, and none beside a one-shot;
- `Reserved`: while an item is in flight the slot `pump` saw is still free - every
  busy runtime is the item's and below its cap. This is the fact that carries the
  decision over the awaits; a release can only enlarge the slot, and `Locked` keeps
  anyone else from taking it;
- `RowOK`: an item queued or in flight is waited for and has no lease, so a grant
  reaches a caller and no lease is counted twice;
- `Ordered`: rows are numbered as inserted, so the queue has one head, and `pump`
  without an overdue item starts at most one (`PumpStarts`);
- `Accounted`: ids and counters name the leases held (required only where forced
  unloads are excluded).

`NoWorkOrphaned` rests on `Owned` alone, one fact per item (`Attended`): a queued row
has its pending entry and a caller who waits, a running one is in flight or leased,
and a pending entry is there for as long as the promise or the lease.
`ActiveWorkStays` is about the runtimes too. Its invariant `SInv` adds `Steered`
(an admission starts only its own runtime and its sweep stops only others) and
`Served` (a runtime with work is loaded and up, the runtime of an admission that
found it so stays that way, and a sweep never meets a runtime with work). Each of
the five kinds of events it excludes makes TLC find a violation: a health refresh
applies what it probed before a load, an idle timer's stop command outlives the
check that found nobody, and the others act on purpose or from outside.

`IdleRuntimesAreTimed` is about the loaded runtimes. Its invariant `RInv` adds
`Resident` to `Steered`, `Owned` and `Woken`: at most one runtime is loaded, it is
the one in use, and none beside a one-shot (`Single`); an admission has yet to clear
what its sweep has not passed, and nothing is loaded when it starts its own service
(`Clearing`); between admissions the loaded runtime, unless used or dead, has its
timer armed (`IdleTimed`). The timer that fires and finds work to do returns and is
not armed again: `IdleIsUnused` shows from `Owned` and `Woken` that there is no such
work when the runtime rests.

`ServicesStandAlone` follows the processes where `Resident` follows the records, and
holds under forced unloads too. Its invariant `AInv` adds `Alone`: the services that
run and are not astray (`Present`) are one at most, and none beside a one-shot
(`Sole`); an admission's sweep leaves none behind it but its own (`Passed`); and a
service that is starting has the admission that waits for it (`Awaited`), so a stop
that ends meanwhile makes no second one present. `Over` says that whoever was aborted
is neither queued nor in flight, so that without cancellations and failing loads
every admission comes to its end.

`Good` is a predicate of the coordinator's record, as `Evolves` is a relation of
two, so it too is proved method by method. Between the end of an admission and its
pump the lock and the reservation do not hold; `Ending` and `Granting` say what
does. `NextXInv` has one case per action.

Assumptions: a finite set of items that does not contain the null id; at least one
runtime, with caps of at least one; a runtime or `OneShot` and a priority for each
item; event kinds among those declared.

`GatewayJobsProofs.tla` speaks of every set of jobs and
requests, queue limit and choice of events, torn handlers included.

- `JobsTypeCorrect`, `AnswersStand` and `GatewayKeepsPromise`: `Spec => Implements`,
  the refinement of the safety part of `JobPromise`. Between two statements the
  tables disagree, so the invariant `IInv` names every list of statements that may
  be left in `todo`, with what the rows say at that point (`ScriptOf`,
  `ItemScriptOf`), and adds that live items have live jobs, that answers stand and
  that nothing is live between the two recoveries. Every write is then a step of
  the promise or a stutter (`StepPromised`).
- `RowsTellExecutions`, `JobsAndItemsAgree`, `StopIsClean`. They need where item,
  job and execution stand together: `Settled` at rest, `Written` within a handler,
  `Left` after a crash, and that a stop awaits what is executing (`StopAwaits`).

`OpenAiProxyProofs.tla`, for every finite set of requests and number of upstreams:
`ProxyTypeCorrect`, `SuccessIsWhole`, `WaitingIsTimed`, `AttemptsAreNeeded` and
`CancellationIsTrue`. Calls share only the cursor, so the invariant is one of a
single call (`Sound`), and the two action properties are one relation between a
call and its next state (`Good`), proved function by function.

`OpenAiRoutesProofs.tla`, for every set of requests and models and every limit:
`RoutesTypeCorrect` and `AnswersTell` (`AnswersAreTrue`). The invariant `Agrees`
says of each place a handler can be in what its job may be: a handler that gave up
the queue has a timed-out job, and nothing else times one out.
`StopsReachAll` proves `StopEndsRequests` of every behaviour in which the live items
stay among the newest `ListLimit` rows (`LiveListed`), and `FewStopAll` that they do
where there are no more requests than that. An older live item is not found by the
list (`gpu-coordinator.ts:581`) and a stop misses it.

`McpBrokerProofs.tla`, for every finite set of servers and callers and every world
of requests and failures, with lists and searches without bound:
`BrokerTypeCorrect`, `ListedToolsAgree` (`ListedAgree`), `RecordsAreTended`
(`RecordIsTended`), `CallsAreAnswered` (`CallsAnswered`) and `NoClientIsLost`
(`NoStrayClient`).

- The first invariant, `Fits`, is about one task: where it may be, on which server,
  and how often its call was sent. That clients can be numbered is a theorem too
  (`NewClientFree`).
- Records and catalog: a step leaves the record of a server and its workers alone
  (`Kept`) or makes it failed, refreshing, its client's, or without client
  (`Becomes`); one lemma per action, and both properties follow.
- Calls that nobody fails: `Orderly` says that a server has at most one connection
  registered, by the caller that makes it (`OneConnection`), that those who joined
  wait for that one (`Registered`), and that nobody refreshes or reconnects
  (`Plain`). It is what makes "one client per server" hold for any number of
  callers, through connections that fail.

`WorkTelemetryProofs.tla`, for every finite set of requests, any cap of the runtime
and limit of the list: `TelemetryTypeCorrect`, `TimelineIsTrue` (`HistoryIsTrue`),
`TelemetryAccounted` (`TelemetryIsAccounted`), `PrefillBelongs` (`PrefillIsOwn`) and
the action property `OutcomesStand` (`OutcomeStands`). The invariant `WInv` says of
one request how its row, telemetry and timeline agree with where its call is
(`Fits`), of the list that it holds requests that are over, once each (`KeptFits`),
and of the progress file that on a runtime with one slot it is its holder's or not
later than the holder's start (`FileFits`). An action moves one request (`Moves`) or
ends it (`CleansUp`), and the invariant and the action property are proved of
these two.

`ModelRegistryProofs.tla`, for every set of aliases, sources, file names, contents and
tool calls, every startup map and any number of crashes: `RegistryTypeCorrect`,
`RegisteredModelsAreStored` (`RegisteredIsStored`) and `ChecksumsAreTrue`
(`ChecksumIsOfFile`). `raced` holds every meeting of two calls on an alias, so a call
on an alias without one has its row and files to itself. Of a call the invariant says
what it has in hand at each place (`Held`): its hash is that of the source, and of
its copy, unless the source was written in between. Of an alias that no removal
shared, the file is there before the row and the row goes before the file (`Backed`);
of one that nobody shared, the file is the one whose checksum the row has, or the
call that is about to write the row (`Matched`).

`ConfigurationProofs.tla` extends `GatewayConfig` and `ToolPolicy`, which share no
variable. Of the policy, for every configuration: `PolicyTypeCorrect` and
`ToolsFollowRules`. The invariant `Current` says that the catalog is what the
rules make of its tools under the running configuration; that the rules warrant
what they expose is proved of `ResolveToolPolicy` alone (`ExposedByRules`,
`IncludedByRules`).

Of the settings, for all keys, names, environments and files:
`ConfigTypeCorrect`, `AskedSettingsHold`, `NothingBypassesTheCoordinator`. The
invariant: the database holds what was asked last, a running process holds what
was asked when it started (`Kept`), and its pool was filtered by its managed
aliases (`Apart`).

**Only model-checked:** all liveness (out of the prover's reach) - `EveryCallAnswered`,
`EveryWaitEnds`, `EveryRequestCompletes`, `EveryRequestAnswered`,
`EveryRequestEnds`. Every safety property of the passing runs is a theorem.

## What is not modelled

- The scheduler's `tick` and the queue order in `jobs`: they serve a gateway without
  coordinator, and `startGateway` always passes one.
- llama-cli (`core/backend`): one child process; its end is `CallEnds` of
  `GatewayJobs` and `Release` of `GpuCoordinator`, and the rest is I/O and parsing.
- Prompts, redaction, input schemas, the dashboard, the command line tools
  (`doctor`, `init`, ...) and the formatting of status views: text without state.
- The runtime adapters and the services behind them: only their effect on a
  service, which may be down, starting or up.
- The ranking of `search_tools`, the spilling of large results and the transports
  of the broker; byte counts, bandwidth and load progress of telemetry; MCP
  sessions and tools that only read.
- `cancelOpenAiRequests` is one step in `OpenAiRoutes`, as in the code, and a
  sequence of `Cancel` steps in `GpuCoordinator`, which allows others between them.
- `GpuCoordinator` has no restart: a restart forgets the object and fails every
  live row, which leaves the initial state with other items; `GatewayJobs` and
  `WorkTelemetry` have it.

## Plan

Next: an abstract admission (submitted, granted under the exclusion rule, ended
once) with a refinement from `GpuCoordinator`.
