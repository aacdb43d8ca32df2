# PyFaaS (SOPM) in TLA+

This directory is the formal model of PyFaaS, a functions-as-a-service platform: an API
(`src/api`), a job queue and a lock in Redis (`src/shared/queue`), workers (`src/worker`) that run
user code in a Kubernetes sandbox (`src/sandbox`), a cron scheduler (`src/scheduler`), PostgreSQL
(`src/shared/db`), an artifact store (`src/shared/storage`), a dashboard (`src/dashboard`) and a CLI
(`src/cli`).

The model concentrates on what the tests of the repository do not reach: transactions that
interleave between their SELECT and their COMMIT, crashes between two steps, replies that are lost,
leases that expire, and counters that are checked and then changed.

## 1. Inventory

| Component | State it keeps | Operations | Interacts with |
|---|---|---|---|
| Execution rows (`shared/db/models.py`, `shared/db/session.py`) | status, failure_kind, worker_id, started_at, completed_at, result | `transition_to`, insert, unit-of-work flush | every writer below |
| Job queue (`shared/queue/redis_client.py`) | `sopm:queue`, `sopm:processing`, heartbeat keys | `enqueue_job`, `dequeue_job`, `ack_job`, `heartbeat`, `redis_retry` | API, scheduler, worker |
| Distributed lock (same file) | one key with a token and a TTL | `acquire`, `release` | scheduler |
| Trigger and cancel (`api/routers/executions.py`, `invoke.py`) | none of its own | create + enqueue, cancel, wait for a result | rows, queue |
| Ephemeral endpoint (`api/routers/ephemeral.py`) | per-minute counter in Redis | gate, rate limit, concurrency limit, create + enqueue | rows, queue |
| Worker (`worker/worker.py`) | held job, open transaction, sandbox result | poll, process, ack, stale recovery, heartbeat, shutdown | queue, rows, sandbox |
| Scheduler (`scheduler/scheduler.py`, `api/routers/schedules.py`) | schedule rows (status, next_run_at, last_run_at, missed_runs) | tick, fire, advance; create, update, pause, delete | lock, rows, queue, version routing |
| Function registry (`api/routers/functions.py`, `shared/execution/version_routing.py`, `shared/storage/artifact_storage.py`) | functions, versions, active and canary pointers, activations, artifacts | create, upload version, activate, canary, delete; choose version | rows, object store |
| Sandbox (`sandbox/k8s_sandbox.py`, `sandbox/runner.py`) | a Kubernetes Job, a per-version cache directory | create, poll, classify, clean up; download, extract, install, run | worker, object store |
| Code validator (`shared/security/code_validator.py`) | none (pure) | AST deny list, archive checks | registry |
| Accounts and keys (`api/routers/auth.py`, `keys.py`, `api/dependencies/*`, `shared/security/auth.py`) | users, API keys | register, login, refresh, create/revoke key, authenticate | every request |
| Live events (`api/services/ws_manager.py`, `api/routers/dashboard.py`, `dashboard/src`) | open sockets; the browser's event list | connect, broadcast, disconnect; push, reconnect | browser |
| Dashboard figures (`api/services/dashboard_service.py`, `api/routers/health.py`) | none (reads) | metrics, health, worker and queue figures | rows, Redis |
| CLI (`cli/sopm.py`) | config file | login, deploy, invoke, logs | API |
| Schemas, config, logging, metrics, migrations, Docker/K8s manifests, page layout | - | - | not modelled: declarations, formatting and deployment |

What is hard, component by component (each entry is a hazard in `PROJECT.json`, at its line):

* **Rows.** READ COMMITTED, no `SELECT ... FOR UPDATE`, no version column: `transition_to` checks the
  status the transaction loaded, not the one it overwrites. A flush writes only the columns that
  changed, so two transactions can leave a row that neither of them wrote.
* **Queue.** The pop and the move to the processing set are two commands; the retry decorator repeats
  a whole function; an enqueue can be applied although it raised; nothing reads the processing set.
* **Worker.** It may crash anywhere; the ack depends on everything before it; a late result meets a
  row that recovery or the user has finished.
* **Scheduler.** The execution is committed before `next_run_at` moves; the lock has a TTL that nobody
  renews; the user edits the schedule while it fires.
* **Ephemeral endpoint.** Count, compare and insert are three steps, and the requests of a key are
  concurrent. INCR and EXPIRE are two commands, and the Redis client repeats an INCR whose reply was
  lost. What dies with a committed row and no job occupies the limit.
* **API keys.** A revocation and the mark of use are flushed by different units of work.
* **Registry.** Database and object store are changed in sequence and not together.
* **Sandbox.** Three clocks start at different moments; calls run in threads that a cancellation does
  not stop; without a sandbox, runners that may be killed share a directory without a lock.
* **Code validator.** A tree is only walked if every visit method goes on to the children; the
  examination is cut short; names of a zip may repeat, and two may come to one path.
* **Live events.** In the browser the close of a former socket arrives after its successor was made.

## 2. Modules

| Module | Models | Parameters |
|---|---|---|
| `ExecutionLifecycle` | abstract specification: the statuses and `VALID_TRANSITIONS` of `shared/db/models.py` | executions |
| `ExecutionPipeline` | API, queue, worker, cancellation, stale recovery | executions, workers, recovery loops, retry bound, fault bound, three sets of executions that are exposed to a hazard |
| `DistributedLock` | the Redis lock with its expiry | clients, expiry, waiting time, clients that outstay the expiry |
| `Scheduler` | replicas under the lock (it extends `DistributedLock`, and its replicas are the clients), schedule rows, their users | schedules, replicas, cron expressions and `CronNext`, clock and fault bounds |
| `FunctionRegistry` | versions, routing pointers, artifacts, deletion of one function | requests, limit of versions, fault bound |
| `EphemeralLimits` | the requests of one API key: authentication, gate, rate limit, concurrency limit, insertion; the key's row | requests, which of them are ephemeral, settings, both limits, clock and fault bounds |
| `SandboxJob` | one execution in Kubernetes under three clocks | the timeout, what the poll loop and the worker add to it, TTL, bounds on delays |
| `SandboxOutcome` | how the worker reads the end of `SandboxJob`, and the pipeline that it is a step of | as `SandboxJob` |
| `RunnerCache` | runners that share the cache directory of a version, and their pips | runners, members of the archive, packages |
| `LiveEvents` | the sockets of a dashboard page and of the API, broadcasts | broadcasts, bounds on lost connections, reruns of the effect and sockets |
| `CodeValidator` | what becomes of an uploaded archive | archives, their entries and ast nodes, limits, classes of names |
| `*Proofs` (eight) | theorems | as above, without bounds on the sets |
| `MC*` | values for TLC only | - |

`ExecutionPipeline` refers to `ExecutionLifecycle` twice: for the table that `transition_to`
consults, and as the specification that its row statuses must implement
(`CalmLifecycle == C!Spec`, a PROPERTY and a theorem). `Scheduler` takes every step of the lock from
`DistributedLock` and implements it (`TicksUseTheLock`), so what is proved of the lock holds of the
scheduler's lock. The scheduler ends
where the job is enqueued; from there on the job is one of `ExecutionPipeline`. `SandboxJob` and
`RunnerCache` are what happens inside its step `SandboxEnds`, which takes every outcome at any time as
possible; `SandboxOutcome` instantiates the pipeline for the worker of a `SandboxJob`, which implements
that step (`OneStepOfThePipeline`). `EphemeralLimits` keeps of the pipeline the steps that make a row active or end it.
`CodeValidator` decides whether `FunctionRegistry!UploadCounts` is reached.

### Conventions

* **A transaction is a load and a commit.** PostgreSQL runs at READ COMMITTED and no query of the
  code locks a row, so other transactions commit between the SELECT and the COMMIT. The load copies
  the row into the process (`seen`, `edit`, `fresh`, `cancel`, `recovery`); the commit applies
  `Flush(current, old, new)`, SQLAlchemy's unit of work: only the columns that differ from the load
  are written. Where a request has one statement only, it is one step.
* **A Redis command is a step.** BZPOPMIN and the ZADD of `dequeue_job` are two steps, and so are INCR
  and EXPIRE.
* **An await is where others run.** Handlers are cut at database, Redis, object store, socket and
  sandbox calls and nowhere else. The runner is a process of its own and is cut at every file it
  touches.
* **A crash** drops the local variables of a process and nothing else.
* **History variables** (`struck`, `runs`, `torn`, `exposed`, `overlapped`, `recast`, `peak`, `revived`,
  `crowded`, `excuses`) record what happened and are read by properties only; no guard mentions them.
  The counters `stalls`, `late` and `faults` are history too, except that a guard bounds them.
* **Mutants.** Next to an action there may be a changed copy of it, marked "Mutant": the bug that a
  property is there to catch. No next-state relation uses them.

### How state and actions correspond to the code

*ExecutionPipeline.* `row` is the `executions` table (status, failure_kind, completed_at, worker_id);
`queue` and `processing` are the two sorted sets; `api[e]` is the position of the request that creates
`e`, `pc[w]` that of a worker in `_poll_once` and `_process_job`.

| Actions | Code |
|---|---|
| `Submit`, `Enqueue`, `EnqueueRaises`, `MarkEnqueueFailed`, `ApiDies` | `executions.py` trigger, `invoke.py`, `redis_client.enqueue_job` under `redis_retry` |
| `CancelLoad`, `CancelCommit`, `CancelAborts` | `executions.py` cancel |
| `Pop`, `Claim` | the two commands of `dequeue_job` |
| `LoadForStart`, `CommitStart`, `SandboxEnds`, `LoadForFinish`, `CommitFinish`, `Ack`, `Abort` | `worker._process_job`, `_poll_once`, `ack_job`, shutdown |
| `RecoverLoad`, `RecoverCommit`, `RecoverAborts` | `_recover_stale_running_executions` |

*DistributedLock.* `key` and `left` are the Redis key and its TTL, `mode[c]` where a client is in
`async with`; `Orphan` is a token that nobody will release. A SET that was applied and whose reply is
lost leaves one: the client raises (`TakeRaises`), or sends the SET again under `retry_on_timeout`, is
answered None over its own key and goes on waiting (`TakeUnheard`). `Pass` is a unit of time: it lets
keys expire and deadlines pass.

*Scheduler.* `pc[r]` follows `_tick`: `TickBegins`, `Locks`, `SelectDue` (`_process_due_schedules`),
`FireLoad`, then `SkipCommit` or `Insert`, `Enqueue`, `Close` (`_fire_schedule`), `Leave`. `Create`,
`UpdateLoad`, `UpdateCommit` and `Delete` are `api/routers/schedules.py`; an update changes status, cron
expression or both. `DatabaseRaises` is any statement of the tick that fails, the `db.refresh` after the
first commit (scheduler.py:163) included. croniter is a parameter, `CronNext(c, t)`, of which only
`CronNext(c, t) > t` is assumed.

*FunctionRegistry.* A request runs one handler once and is its own version id or execution id.
`fn` is the three routing columns, `stored` the object store. `UploadCounts`, `UploadNumbers`,
`UploadStores`, `UploadCommits` are `create_version`; `ConfigLoads` and `ConfigCommits` are
`activate_version` and `update_canary`; `TriggerLoads` and `TriggerCommits` are
`choose_execution_version` and the INSERT; the `Delete*` actions are `delete_function`. The only row
locks held for long are those of a deletion that has removed the rows and not committed (`Locked`).

*EphemeralLimits.* `counter[m]` and `expiry[m]` are the Redis key of minute `m` and its TTL, `bucket[r]`
and `count[r]` what a request made of them, `key` the row of the API key, `row[r]` an execution by what
the limit asks of its status, `job[r]` where its job is.

| Actions | Code |
|---|---|
| `CreateKey`, `RevokeLoads`, `RevokeCommits` | `keys.py` |
| `Authenticate` | `get_api_key_principal`, `_enforce_ephemeral_gate` and the name of the bucket |
| `Incr`, `IncrReplayed`, `Expire`, `CountActive` | `_enforce_rate_limits`; the replay is `retry_on_timeout` of the Redis client |
| `Route` | the selection of function and version of `invoke_function` |
| `Insert`, `Enqueue`, `EnqueueRaises`, `MarkEnqueueFailed`, `RequestFails` | the rest of both handlers, and `get_db` |
| `WorkerLoads`, `WorkerStarts`, `WorkerReports`, `WorkerDies`, `RowEndedElsewhere` | the pipeline, as far as a row becomes active or ends |
| `NextMinute`, `Vanish` | the clock, and Redis |

A row has one job here. The second copy, which a ZADD that is sent again may store (redis_client.py:157),
is modelled in `ExecutionPipeline` (`resent`); for the limits it would be one more way in which a worker
revives an execution that has ended.

*SandboxJob.* `step` is where `KubernetesSandbox.execute` stands, `create` and `delete` the two calls
that change something and can outlive it, `job` the Job with the times of its start and end.
`Abandoned` is a CancelledError at the present await, with the `finally` clause that it enters:
`WaitForExpires` is `asyncio.wait_for` of `_process_job`, `Shutdown` is `run_workers`. The other
actions of `execute` are named after what the code does (`PollSeesEnd`, `PollGivesUp`, `LogsFetched`,
`CleanupEnds`, ...); `CreateApplies`, `DeleteApplies`, `JobStarts`, `PodEnds`, `DeadlineExceeded` and
`Expires` are Kubernetes, which acts on what `_create_job` asks for. A call for whose answer nobody waits
any more may never arrive (`CreateIsLost`, `DeleteIsLost`). The alarm of the runner has the
same timeout as the Job and starts later; when it rings inside the handler the runner exits with 1.

*SandboxOutcome.* `Outcome` is how `_process_job` reads a result: as a success, as timed out, or as a
fault of the platform by the wording of its error, which is how the `wait_for` of the worker reports a
timeout. While `execute` is under way the worker of the pipeline is at `"sandbox"`; when it returns,
`pc` and `out` of the pipeline change in one step.

*RunnerCache.* `pc[r]` follows `runner.main`; `src` and `deps` are the two directories, `extracted` and
the member `sopm_installed` of `deps` their markers. An extraction opens and writes member by member,
`rmtree` lists and then removes (`List`, `Remove`, `RemoveRaises`), pip installs package by package and
goes on when its runner is killed (`Kill`: `_docker_local_execute` kills `timeout` + 5 s after the start,
and a worker that is shut down forgets its runners altogether). Only the runners of the container of
the worker share a directory: a Job of Kubernetes has a fresh one. No member of the archive is called
`.sopm-extracted`. The code does not forbid it (runner.py:43-49 extracts into the directory that line 153
puts the marker in), and such a member would be taken for the marker before the last one is extracted.

*LiveEvents.* `wsRef`, `timers` and `named` are the two references of `useWebSocket` (`reconnectRef` may
forget a timer that is pending), `client[s]` the readyState of a socket, `handler[s]` where
`ws_dashboard` stands, `connections` the set of `ConnectionManager`, and `copy`, `waiting`, `dead` the
locals of `broadcast`. `EffectRunsAgain` is React running the effect of a mounted component again, as
it does in development. `pingRef` is left out, since no guard reads it; it is one reference as well, and
the late close of a former socket stops the pings of its successor (useWebSocket.ts:75). At this commit
nothing but the tests calls `broadcast`, so what is said of it is a promise to its future callers.

*CodeValidator.* `Reads`, `RejectsArchive`, `OpensArchive`, then for each Python file
`RejectsLargeFile`, or `ParsesFile`, `Visits` and `FileEnds`, and `Reports` are the upload of
`create_version` from the reading of the archive to its refusal. The AST visitor recurses, and the model
keeps the nodes it has still to visit on a stack (`todo`): `Visits` is one visit method with its
`generic_visit`, over nodes with a kind, the names they mention and their children.

Two conversions lie between what is examined and what is run, and neither is the identity. `Path(name)`
is the path that `zipfile.extract` gives an entry, a parameter of which nothing is assumed: several
names may come to one path, and a name that does not end in `.py` to a path that does. `OnDisk(path)` is
the entry that `_extract_archive` leaves there, the last one in the order of the names. And each file
has a `tree`, parsed from its bytes decoded as UTF-8 (code_validator.py:228), and a `program`, which is
what the interpreter reads, by its own rules for the encoding. `ValidationDecides` therefore says
exactly what the verdict means for the entries that the validator looks at, and of the disk only what
follows: a file from such an entry runs nothing dangerous if the interpreter reads it as the validator
did. It says nothing of other names and other decodings, which the code does not examine;
docs/SECURITY.md:41 calls the check best-effort, and the sandbox is what isolates user code.

## 3. Runs

| Run | Instance | Distinct states | Shows |
|---|---|---|---|
| `contended` | 2 executions, 2 workers, 1 recovery loop, 2 faults; the second execution may be cancelled and may outlive the stale deadline | 139 483 | types; the sandbox is started at most once; no finished row runs again; what a cancellation survives; the undisturbed execution implements `ExecutionLifecycle` |
| `resent` | 1 execution that has every hazard (reply lost, late worker, cancellation), 2 workers, 1 fault, fairness | 650 814 | the sandbox is started no more often than the job may have been stored (`JobsAreCounted`); a QUEUED row is on its way, a RUNNING one is being run and the processing set leaks only through faults (`InGoodHands`); RUNNING is always left |
| `settles` | 2 executions, both cancellable, 1 fault, fairness | 246 323 | status, failure_kind and completed_at agree; whatever no fault hits ends in a terminal status for good |
| `lock` | 3 clients, one of which outstays its expiry, TTL 3, waiting time 2 | 2 673 | exclusion; the lock comes free |
| `ticks` | 1 schedule with two cron expressions, 2 replicas, clock to 4, 1 fault, 1 request of the user, fairness | 986 361 | nothing is fired early or made up for, no execution is forgotten, a repeated or stranded one takes a fault (`RepeatsNeedFaults`), `next_run_at` only advances; due schedules are dealt with; a new cron expression takes effect |
| `registry` | 5 requests, limit of 3 versions, 1 failure | 119 232 | version numbers, how far the limit of versions can be exceeded, routing columns, artifacts |
| `ephemeral` | 2 ephemeral requests and an invocation of one key, both limits 1, three minutes, 1 fault | 4 260 363 | how far the limits can be exceeded; leaks take faults; a revocation sticks |
| `sandbox` | timeout 2, slacks 2 and 6, TTL 3, up to 6 units of slow calls and 4 of a late control plane, fairness | 464 753 | which clock decides; the Job is deleted, or goes away by itself; for the pipeline `execute` is one step with a true outcome |
| `runner` | 3 runners on one cache and 1 of inline source, 2 members, 2 packages | 796 704 | markers and handlers, although runners are killed at any step; what is complete stays complete |
| `live` | up to 4 sockets, 1 rerun of the effect, 1 lost connection, 1 broadcast, fairness | 148 003 | the set of the API; the number of sockets; reconnection |
| `validator` | archives of up to 4 entries, trees of up to 5 levels | 14 722 | exactly the archives get through whose Python entries are harmless as the validator reads them; what that is worth on the disk |

**Why the bounds are enough.** A race of this system is between two transactions on one row, or two
workers and one job, and a third party that changes the row in between: two executions (one disturbed,
one not), two workers, one recovery loop and one user reach all of them. Two faults let the recovery
of one crash meet another crash. `MaxAttempts = 2` has a retry and an exhaustion. For the lock the
third client is the one that profits when a laggard's key expires. The clock of the scheduler reaches
two occurrences and has a third as a `next_run_at`, so that a punctual, a late and a missed one all
exist, and `MaxGap` lies between late and missed; one fault shows what each costs, and the theorems hold
for any number. A firing of one expression may write an occurrence that the other one does not have.
Five requests to the registry hold two uploads, a change of the routing, an execution and a deletion; three of them can fill the limit. With limits of 1
two ephemeral requests pass one another at each limit, in one minute or in two, and three minutes see a
counter expire. The slacks of `sandbox` are so far apart that the poll loop, the worker and neither can
be first, and the bounds on delays exceed each of them by enough to use it up. Two runners collide, and
the third finds what they leave; two members and two packages are the least that can be half there. One
broadcast is under way while a socket is lost and its successor, the socket of the rerun and the one
that its late close causes are made; the proofs do without these bounds. Four entries and a limit of
three exceed the limit of files, repeat a name and go on after the examination could have stopped
(`Enough = 1`).

Every bound is a constant: `MaxFaults`, `MaxEdits`, `Horizon`, `LastChange` (after it no fault and no
user request, so that liveness has time left), `MaxAttempts` (3 in the code), `MaxMinute`, `MaxStalls`,
`MaxLate`, `MaxReruns`, `MaxSockets`, and the sets `Cancellable`, `Flaky`, `Overrun`, `Laggards`,
`Recron` that say which execution, client or schedule is exposed to a hazard. A property that mentions
such a set excludes exactly that hazard.

**Symmetry** is used where only safety is checked: workers are interchangeable in `contended`,
requests in `registry`, the ephemeral requests in `ephemeral`, runners and packages in `runner`. No
liveness run uses it.

**Deadlock** is checked where something is always left to do. `ephemeral`, `sandbox`, `runner` and
`live` are about a finite number of requests, one Job, a finite number of runners and one page: when
they are over nothing happens any more, which is what their cfg files allow.

**Fairness.** `ExecutionPipeline!Fairness`: the event loops run every ready coroutine, so a request
that has started continues, a worker takes its next step (`BZPOPMIN` returns when there is a job,
`asyncio.wait_for` bounds the sandbox), the recovery loop wakes every interval and selects every stale
row. `Scheduler!Fairness`: time passes, the loop of a replica (which catches every exception) goes on,
and a request that has loaded commits. `DistributedLock!LockFairness`: time passes and clients leave.
`SandboxJob!FairSpec`: the coroutine goes on, a call that was sent is applied or lost, the Job
controller acts on deadline and TTL, and time passes. `LiveEvents!FairSpec`: timers fire, and opening,
closing and accepting are not put off for ever; nothing is assumed of broadcasts or of the user.
Nothing assumes that a user cancels, that a fault happens, or that one worker is preferred: all
conditions are weak.

### Where documentation and code disagree

`orphaned_artifact` checks one statement of the repository, and TLC answers with the run that refutes
it: API.md:149 says "Delete a function and all its versions and artifacts", and a version that is
committed between the listing of the artifacts and the removal of the rows leaves its artifact behind.

More follows from the models and has no run of its own; the properties are stated so as to say how far
it goes:

* worker.py:191 says "Already in terminal state - skip", and only the status is skipped: result,
  failure_kind and completed_at of a CANCELLED row are overwritten (`CancellationSticks`).
* ARCHITECTURE.md:113-132 lists the valid transitions, and a worker that loaded the row before the
  cancellation commits RUNNING over CANCELLED (the `Cancellable` exception of `CalmLifecycle`).
* ARCHITECTURE.md:213 says "at-least-once delivery", and a worker that dies between the two commands of
  `dequeue_job` takes the only copy of the job with it; nothing reads the processing set again (the
  `struck` exception of `InGoodHands`).
* ARCHITECTURE.md:109 says "exactly one scheduler instance fires each schedule tick", and a crash
  between the two commits of `_fire_schedule` fires the occurrence again, once for each such crash
  (`RepeatsNeedFaults`). A tick that outlives the lock's expiry lets two replicas fire one schedule (`Laggards`).
* An update that sets `next_run_at` may overwrite what a firing has written since it loaded the row, so
  that an occurrence is executed twice (the `recast` exception).
* Two overlapping changes of the routing may leave a canary that is the active version (the
  `overlapped` exception of `RoutingConsistent`). The limit of versions can be exceeded, because counting
  and inserting are separate statements (`LimitOvershoot` says by how much); so can the concurrency
  limit (`OvershootBounded`).
* Two runners that are at work in one cache may leave it with a marker and without a package, and then
  every later runner of the version fails (the `crowded` exception).
* A rerun of the effect leaves an extra socket behind while the page stays mounted (`SocketsBounded`).
* `urllib.parse` is listed among the allowed modules (code_validator.py:152), and an import of it is
  refused, since `urllib` is denied.

## 4. Proofs

All theorems hold for any sets of executions, workers, replicas, clients, schedules, requests, runners,
members, packages and broadcasts (those of `Requests` finite) and any values of the bounds, limits and
timeouts. Assumptions: the named `ASSUME` of each module: null values are not members of the sets they
complete, bounds are naturals, `CronAssumption` (an occurrence lies after its base), that the worker
grants no less than the poll loop (10 s and 30 s in the code), and that `MaxSockets` is large enough for
the sockets that the other bounds allow. `TreesAssumption` says that the nodes of a file are a finite
tree: it unfolds the recursive function `Within`, which defines what is buried in a node, and which the
provers could not unfold by themselves. TLC evaluates all of them.

| Theorem | States |
|---|---|
| `TypeCorrect`, `CustodyCorrect`, `StartedAtMostOnce`, `FinishedStaysFinished`, `JobsNeverMultiply`, `StartsAreBounded` | `TypeOK`, `Custody`, `RunsAtMostOnce`, `NeverRevived`, `JobsAreCounted`, `StartsBounded` of the pipeline |
| `NeverLeftToItself`, `VerdictCorrect`, `CancellationStands`, `CalmImplementsLifecycle` | `InGoodHands`, `VerdictAgrees`, `CancellationSticks`, and that the calm rows implement `ExecutionLifecycle` |
| `LoadsCorrect`, `PipelineCorrect` | the invariants that these rest on |
| `LockExcludes`, `LockSparesOthers` | `MutualExclusion`, `OthersKeySpared` |
| `SchedulerTypeCorrect`, `NeverBackfills`, `NothingForgotten`, `NextRunAdvances`, `FaultsPayForRepeats` | `TypeOK`, `NoBackfill`, `NoneForgotten`, `NextOnlyAdvances`, `RepeatsNeedFaults` |
| `TicksUseTheLock`, `TicksExcludeEachOther` | the scheduler implements `DistributedLock!LockSpec`; `OneTickAtATime` |
| `RegistryTypeCorrect`, `VersionsNumbered`, `LimitNearlyKept`, `RoutingStaysConsistent`, `ArtifactsPresent`, `ExecutionsKeepArtifacts` | `TypeOK`, `NumbersGapless`, `LimitOvershoot`, `RoutingConsistent`, `RowHasArtifact`, `ArtifactsKept` of the registry |
| `TypeCorrect`, `OvershootIsBounded`, `RateIsBounded`, `LeaksHaveFaults`, `KeyIsSafe` | `TypeOK`, `OvershootBounded`, `RateBounded`, `LeaksNeedFaults`, `KeyColumnsStick` of the limits |
| `TypeCorrect`, `ClocksAreNested`, `CleanedUp`, `OverrunTakesStalls` | `TypeOK`, `InnermostClockDecides`, `NoJobLeft` of the Job; who outlives the stale deadline |
| `ImplementsSandboxEnds` | `OneStepOfThePipeline`: the Job is the pipeline's `SandboxEnds` or `Abort` |
| `TruthOfMarkers`, `HandlersFind`, `WarmForGood` | `MarkersTellTheTruth`, `HandlersFindAll`, `WarmStaysWarm` |
| `ConnectionsExact`, `SocketsAreBounded` | `SetIsExact`, `SocketsBounded` |
| `ArchivesDecided` | `ValidationDecides` |

**Pipeline.** "Started at most once" is not inductive: nothing in it says that a worker about to commit
RUNNING is the only one that could. `Custody` says where the job is: in the queue or with one worker,
never both; that nobody has started an execution nobody has decided about; and that a RUNNING row, or
one that recovery has loaded, was started. `Pop` is the one action that moves custody, and the proof
turns on the fact that no action gives a job back. `NeverRevived` then follows: to commit RUNNING a
worker holds an undecided job, and the row of such an execution is not finished.

For an execution whose enqueue may be applied twice custody is not unique, and the invariant counts:
`Counted` bounds the jobs that wait, are held undecided and were started by what `enqueue_job` may have
stored so far (`Stored`). The holders are finitely many because each has popped the job.

The other properties are about rows and need to know what the open transactions have loaded (`Loads`):
a cancel request a row that may be cancelled, a recovery loop a RUNNING one, a worker about to start a
QUEUED one, and nobody anything before the row is inserted. From it `EveryRowStep` derives who may
write a row and what that leaves in it (`RowStep`), so that a proof about rows has a case for each
writer instead of one for each action. `Story` makes `VerdictAgrees` inductive: until somebody decides, and while a
worker runs it, a row has no verdict, and whoever is about to report has loaded RUNNING or a CANCELLED
that still stands. `OwnerReports` makes `InGoodHands` inductive: not only is a RUNNING execution being
run, the row names the worker, and what that worker has loaded is RUNNING, so its report will end the
row. `CancellationSticks` needs `Loads` only. `CalmImplementsLifecycle` maps each step of a row that no
cancellation, lost reply or late worker can hit to a transition of `VALID_TRANSITIONS`, or to none.

**Lock.** `InsideOwnsKey`: a client that leaves in time and is inside owns the key. It is inductive
with `LockTypeOK`, which ties the key to the time it has left: `Take` needs a free key, `Release`
compares the token, and `Pass` expires no key of such a client. Two owners of one key are equal.

**Scheduler.** The invariant has a local half (types, `InsideOwnsKey`, the position in the tick
fits the lock, the local variables of a firing fit the position, an open update leaves `next_run_at`
alone unless it is recorded in `recast`, executions belong to schedules that exist) that needs no
assumption, and a second half that holds if no replica outlives its lock: whoever fires knows
`next_run_at` (`FreshIsFresh`), and an execution whose firing is over lies before it (`NextIsAhead`).
The lock enters in one place: two replicas inside are the same one, so nobody else moves `next_run_at`
while a firing is under way. `NoneForgotten` needs the local half only, and two facts more: firings have
executions of their own (`OwnExecution`), and when one is about to close its enqueue has raised or its job
is there (`Answered`).
`FaultsPayForRepeats` is an argument by counting. `Orderly`, the second half's form of `NoBackfill`,
lets an occurrence come again only after an execution that a fault has struck, so the last execution
before a repeated one that has its occurrence is struck, and different repetitions have different
predecessors: there are no more repetitions than struck executions (`RepeatsFollowStruck`). Each fault
strikes at most one (`StruckByFaults`, `StruckMoves`), and by `NoneForgotten` whatever is stranded is
struck. The proofs of the lock by itself are in the same module.

**Registry.** Numbers: a number chosen by an upload has a predecessor among the versions and keeps it,
since versions are never removed singly; the unique constraint does the rest. Limit: an upload that has
counted is charged like a version (`Charged`), and once the limit is reached none is let in. Routing:
while one change is under way it knows canary and share, and its canary differs from the active version although uploads
move that pointer, because an upload makes a version active that did not exist when the change was
loaded (`ChangeFits`). Artifacts: only listed ones are removed, and those are of versions; an execution
committed without a deletion under way keeps deletions behind the 409 (`Guarded`).

**Limits.** Rate: a counter lives until two minutes after its own at least, and a request increments
the counter of its minute or the one before (`Clock`); hence it never starts anew under a request, and
answers each with a number of its own (`Counts`); at most `RateLimit` numbers are within the limit.
Overshoot: a request is let in when fewer than the limit are active, and from then on active executions
and requests let in grow together only by further requests that had counted (`peak`) or by executions
that a worker starts after their end, each of which it does once (`Revivals`). Leaks: every action
creates at most one counter or row that is left alone, and those that do count a fault.

**Job.** The argument is arithmetic on the clocks. Until the poll loop is entered, and after it is left,
time passes only in calls (`WorkerClock`), and while it polls the Job is behind by the counted delays
and no more (`JobClock`): if the loop reaches its limit the delays make up its slack, and if the worker
reaches its own, calls have used up what it grants beyond. `Swept` follows the deletion from its sending
to a Job that is gone, and names the ways it may miss.

`OverrunTakesStalls` is about the boundary to the pipeline: a worker that is still in `execute` when
recovery takes its row for stale (`worker.py:268`) has spent the timeout and the grace, less the slack
of the poll loop, waiting for the Kubernetes API. The set `Overrun` of the pipeline stands for such
executions.

`ImplementsSandboxEnds` connects the two levels. Seen from the pipeline nothing happens while `execute`
waits, polls and cleans up (`LeftOnce`): the worker's place changes once, when the coroutine is over or
dead, and not after that. What is reported then is true (`OutcomeIsTrue`), which is not inductive: a
verdict of a timeout outlives the poll that gave it, and the Job's deadline may pass before anybody
sees it. `Timely` says of both that the timeout has passed, and of a poll that gave up that it saw no
end; with the types, which tie a verdict to the end that was seen, it is inductive. A timeout of the worker's
`wait_for` is reported as a fault of the platform and promises nothing.

**Cache.** Until two runners crowd, only one changes the directory (`OneChanger`), it does so without
the marker it is about to write (`Extraction`, `Installation`), and what it has not yet to do is done.
`Ready` adds that a runner past the checks saw the second marker, so a handler finds what the markers
promise. `WarmStaysWarm` needs none of this: it holds step by step from any typed state.

**Live events.** The set is exact because a connection that is over stays over: what a broadcast has
found dead is dead when it is removed, and a socket that joined meanwhile is not among them. The number
of sockets: each rerun sends at most one socket into closing, and a late close makes at most one live
socket lose its reference, so the sockets that are closing or live without a reference (`Spare`) are at
most as many as the reruns.

**Archives.** The invariant says at each step what the verdict so far means (`VerdictSoFar`): between
files, that those before the next one are harmless; within a file, that they and this one are, if also
all nodes on the stack are clean. `Visits` keeps this because a node is clean if and only if it has no
flags and its children are (`CleanByVisit`): a call is flagged for the function it calls, which is one
of its children, so nothing is flagged that is not dangerous somewhere. An examination that is cut
short has found something, and then the verdict about all files is known. No induction over trees is
needed: the stack carries it. From the entries to the disk it is one step: what is left at a path is one
of the entries, whatever `Path` is, and one with such a name has been examined (`OnDiskIsExamined`).

**Model-checked only.** All liveness (`EverySubmissionSettles`, `RunningSettles`, `LockComesFree`,
`DueIsServed`, `EditTakesEffect`, `JobGoesAway`, `Reconnects`), which TLAPS cannot prove under fairness.
**Proved only**: the invariants `Custody`, `Loads` and `Story`, `StartsBounded`, `OneTickAtATime`,
`OthersKeySpared`, `TicksUseTheLock`, `TypeOK` of the registry and of the Job, and `OverrunTakesStalls`, which follow from, or lead to, what the
runs check.

## 5. Not modelled

* Log lines, results, durations and metrics: payload that no guard reads.
* The heartbeat keys and the depth of the queue: they are shown on the dashboard, no decision reads them.
* The score of a queued job (the clock of its API host): `Pop` may take any job, which includes every
  order of the scores.
* PENDING rows: no code path inserts one. The status remains in `ExecutionLifecycle`.
* `create_function`, `update_function`, the activation history, and names and tags: they change no
  column that another operation of the model reads.
* The waiting caller of `invoke` and `execute-ephemeral`: it polls its own row, which `VerdictAgrees` is
  about, and changes nothing.
* Registration is one INSERT behind a unique constraint; login and refresh sign tokens that nothing
  stores and nothing revokes, so they have no state to interleave.
* Manifests of Kubernetes beyond restart policy, deadline and TTL; the text of errors that
  `_classify_failed_job` composes.
* Exceptions of zipfile and ast other than a SyntaxError: the request ends in a 500.
* `emit_*` of `ws_manager.py`, which nothing outside the tests calls, and the lists that the browser's
  store folds events into.
* Read-only parts (dashboard figures, health), the CLI, schemas, configuration, logging, migrations,
  manifests and the layout of the pages.

## 6. Plan

Done, in this order: what every execution goes through (`ExecutionLifecycle`, `ExecutionPipeline`), what
creates executions (`DistributedLock`, `Scheduler`, `EphemeralLimits`), what they run
(`FunctionRegistry`, `CodeValidator`), where they run (`SandboxJob`, `RunnerCache`), and who watches
(`LiveEvents`).

What is left: the store of the browser (`dashboard/src/store/index.ts`), once something emits events.
