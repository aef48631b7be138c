# TLA+ models of neko-suite

neko-suite is a monorepo of creative tools around an AI agent. Most of it is presentation: webviews, a
terminal client, editors, codecs. Its concurrency is in a few places, and most of those are in the agent
packages: the turns of a conversation and the messages that wait for them; what runs when a model asks for an image, a video,
a tool server call or a team of sub-agents, how many of these run at once, and what happens to them on cancel, timeout,
failure, shutdown and crash; and how their results come back to the conversation. This directory models
these parts, checks them with TLC and proves the main results with TLAPS.

Paths below are relative to `src/`; `agent/` stands for `packages/neko-agent/packages/agent/src/`.

## Inventory

### Execution plane (modelled)

| Component | State | Operations | Interacts with | What is hard | What makes it correct |
|---|---|---|---|---|---|
| `ConcurrencyPool` (`packages/neko-types/src/core/concurrency-pool.ts`) | running count, limit, priority queue of pending promises with timers, counters, disposed flag | `acquire`, `tryAcquire`, `release`, `run`, `setMaxConcurrent`, `clearQueue`, `dispose`, queue timeouts | the code that awaits `acquire` | timers against grants, wake-up on a changed limit, overtaking | no slot leaks, no waiter lost, no idle slot beside a waiter, order, every waiter settled |
| `KeyedConcurrencyPool` (same file) | a pool per key | `getPool`, `setKeyLimit`, `run`, `disposeAll` | TaskManager, one key per task type | pools re-created after disposal | a holder gives back what it took |
| `TaskManager` (`agent/task/task-manager.ts`) | task map, storage, abort controllers, waiters, terminal listeners, two levels of pools | `submit`, `resumePendingTasks`, `executeTask`/`executeTaskCore` with retries, `cancel`, `delete`, `waitForCompletion`, `upsertExternalTask`, `dispose` | executors, storage, pools, recovery, observers of terminal tasks | cancel at every await, hold-and-wait over two pools, failures in `finally`, a start-up that acts on what it read earlier, pollers, shutdown with unwinding executions | slots match executions, limits, cancel reaches executors, waiters answered, ends announced once |
| `Coordinator` + `TaskPool` (`agent/subagent/coordinator/`) | phase, task statuses with dependencies, worker map, notifications, confirmation gate | `start` (an async generator), `confirm`, `cancel` | `SubAgentManager`, the coordinate tool that iterates it | the generator is suspended at events and awaits while cancel, confirm and sub-agents act | dependencies first, limit, nothing lost, nothing before approval, termination |
| `SubAgentManager` (`agent/subagent/subagent-manager.ts`) | instances with a status, an abort controller and waiting resolvers | `spawn`, `getResult` with a timeout, `cancel`, `cancelRun`, `cleanupRun` | executors, Coordinator | timeout of a wait against the end of the sub-agent | each result delivered, limits |

### Task recovery and observation (modelled)

| Component | State | Operations | Interacts with | What is hard | What makes it correct |
|---|---|---|---|---|---|
| Task recovery (`packages/neko-agent/packages/platform/src/media/media-task-executor.ts`, `platform/src/index.ts`, `agent/task/sqlite-task-storage.ts`) | recovery info per task, queued writes, pollers, the start-up's position | save the job's id, start-up (`initialize`, `resumeFromRecovery`, `resumePendingTasks`), polling, completion | TaskManager, storage, providers | crash at any await, writes nobody awaits, provider errors while recovering | an unfinished task is always somebody's; a job that is waited for survives a crash; no info is left behind |
| Task result observation (`agent/task/task-result-observation-runtime.ts`, `-coordinator.ts`, `agent/session/task-result-observation-recorder.ts`, `journal-writer.ts`) | a chain of calls per task and status, journal entries, the writer's promise chain | `handleTerminalTask`, `reconcileTerminalTasks`, record, dispatch of a follow-up | terminal events, owners of media tasks and child runs, the conversation's agent | overlapping members of a wait-all group, repeated reports, restarts half-way, failed appends | observed, requested and handed over at most once; a group waits, and is followed up |
| Stream task observer (`agent/runtime/stream/agent-stream-task-observer.ts`) | tasks seen in a turn | project events on the stream | the turn's stream | order of late task events and the end of the turn | nothing after the end (not modelled) |

### Conversation plane (turns modelled)

| Component | State | Operations | Interacts with | What is hard | What makes it correct |
|---|---|---|---|---|---|
| Turn runtime (`agent/runtime/turn/agent-turn-runtime.ts`) | one suspended call per message sent | `executeAgentTurn`: enqueue or configure, prepare, execute, loop over the queue | pool, controller, runner, queue | nothing serialises the calls of a conversation | one turn at a time, no message lost, doubled or waiting for ever |
| Runtime pool (`agent/runtime/session/agent-runtime-pool.ts`, `conversation-runtime-context.ts`, `agent-runtime-manager.ts`) | agents per conversation, order of use, a limit that moves | look up or create, evict, expand, shrink, remove | every command of the user | eviction against calls that hold the agent | a running agent is not evicted |
| Session controller and session (`agent-runtime-session-controller.ts`, `agent/session/agent-session.ts`) | the runner's session, its own running flag | configure, execute, dispose | the runner | two configurations at one time, disposal of a running session | a session runs one turn |
| Session runner (`agent/runtime/runner/agent-session-runner.ts`) | running flag, queue, pending confirmations | execute, cancel, enqueue, promote, dispose, confirm | session, queue | a disposed turn that still unwinds | the flag tells who runs; each confirmation answered once (not modelled) |
| Message queue (`agent/runtime/session/agent-message-queue.ts`) | items, paused flag | enqueue, promote, edit, remove, release, pause, resume, clear | runner | who releases what waits | every message in one place |
| Run registry (`agent/runtime/session/conversation-run-registry.ts`) | tree of runs and children | register, complete, cancel cascades, dispose | runs | callbacks that re-enter the registry | cancel reaches every descendant once (not modelled) |
| Persistence (`agent/session/conversation-persistence-coordinator.ts`), session lock (`agent/workspace/session-lock.ts`), permission bridge, approval engine | debounced saves, a lock file, pending approvals, rules | save, flush, acquire, take over, route, decide | files, other processes | two processes, late saves | not modelled |

### Host, engine and product plane (listed, not planned first)

Market installs (`packages/neko-market/packages/core`), token refresh (`packages/neko-auth`), project file
saves (`packages/neko-types/src/project-file-io`), the scene socket and the scene command queue of the Rust
engine (`packages/neko-client`, `packages/neko-engine/packages/engine-kernel`), batch generation in the canvas,
media requests in the cut editor, the search index and viewport leases. Each has a state machine
worth a look; none coordinates as many actors as the execution plane. Clients, webviews, renderers and generated code
have no coordination of their own. `PROJECT.json` lists every component with its status.

## Modules

| Module | Content |
|---|---|
| `PoolOps` | the record of one pool, and each method of `ConcurrencyPool` as an operator on it; used by two modules below |
| `ConcurrencyPool` | one pool under any number of callers, with queue timeouts and counters |
| `TaskLifecycle` | abstract: what `TaskManager` promises its callers, without executors, slots or storage |
| `TaskManager` | the manager over two levels of pools; implements `TaskLifecycle` |
| `Coordinator` | the workflow generator, its task pool and its sub-agents |
| `TaskRecovery` | tasks, storage and pollers through crashes of the process; composes TaskManager's bookkeeping with `MediaTaskExecutor` and the platform's start-up |
| `ResultDelivery` | abstract: what the delivery of background results promises |
| `TaskResultObservation` | the observation runtime, its recorder and the journal; implements `ResultDelivery` |
| `MessageQueue` | the queue of one conversation as operators on a record |
| `AgentTurns` | calls of `executeAgentTurn` over pool, controller, runner, session and queue |
| `MCConcurrencyPool`, `MCTaskManager`, `MCCoordinator`, `MCTaskRecovery`, `MCTaskResultObservation`, `MCAgentTurns` | bounded instances |
| `PoolOpsProofs` | lemmas about the pool operators: types, which clients leave a queue, how counts move |
| `ConcurrencyPoolProofs`, `TaskManagerProofs`, `TaskStatusProofs`, `CoordinatorProofs`, `TaskRecoveryProofs`, `TaskResultObservationProofs`, `AgentTurnsProofs` | theorems |

### How the models correspond to the code

JavaScript runs to completion between awaits, so an action is what runs between two of them: a method
call, a timer, or a continuation. Each action includes everything the code does synchronously, such as the
wake-up inside `release` and the notifications of `updateTask`.

*ConcurrencyPool.* A client is one `acquire` call. The promise it awaits is `caller[c]`. A grant made by `release`
or `setMaxConcurrent` raises the count inside the entry's `resolve`, so it is part of that action. A queue timeout may fire
for any call that waits, when the pool has one.

*TaskManager.* `exec[t]` is the program counter of one `executeTask` call, at its awaits:

    none -> starting -> waitGlobal/hasGlobal -> waitType/hasType -> executing <-> backoff -> done
              save         global pool            type's pool         executor   sleep

`hasGlobal` and `hasType` are the moments between the grant of a slot and the continuation that uses it, where cancel may
come in. When an execution throws, its two `finally` blocks and the `catch` of its caller run in
consecutive microtasks and are one action with the step that threw. `stored` is storage as a
later read sees it: writes pass through a first-in first-out section. After `disposeAll` the keyed pools are
new on demand, with the default limit, and executions that are still unwinding release into those.

The process is starting: `resumePendingTasks` has just read the unfinished tasks of the last process (`Loaded`) and comes to them one after
another, in any order. `resume[t]` is what it read of a task it has not come to, or what it awaits for it: the save of a task that was running (`MarkPending`),
then the load of its recovery info (`Adopt` puts the task as read into the map and asks; `Resume` executes it or leaves it to its poller). Meanwhile
callers may cancel or delete the task and its poller may end it; `Adopt` overwrites all this, as the code does. `poller[t]` is the poller that `resumeFromRecovery` has
started for the tasks in `Polled`; it ends its task by `upsertExternalTask` (`Upsert`, and `UpsertEnds` after its await), which resolves no waiter and
drops no controller. `Loaded` also separates the two callers of `executeTask`: the `catch` in `submit` looks at `isDisposing`, the one in `resumePendingTasks` does not.

*TaskLifecycle* promises two things. A submitted task opens once, closes at most once, and closing it is what announces it and answers its waiter. For the
tasks an earlier process left behind it promises less, because the code does less: such a task may be reopened by the resumption and then closed and announced again, its poller may
close it without answering its waiter (`CloseQuietly`), and that end is announced later (`Announce`).

*Coordinator.* `at` is where the generator is suspended: at an event whose consumer has not come back, or at an await. The
rest of `executePhase` between two suspensions is built from `Loop`, `Dispatch`, `Claim` and `Leave`. `slots` is what
is left of the dispatch loop's `slotsAvailable`, which the code computes once and uses across several claims.
The two consecutive events of the verification phase are one stage, since nothing changes between them. A task whose
dependencies name an unknown id is never ready, and neither is one in a cycle; the model has cycles (`Deps` is any relation)
and leaves unknown ids out.

*TaskRecovery.* `writes` is the storage's queue of transactions: one at a time, first in first out
(`ExclusiveCoordinator`). `Land` makes the first; a code path that awaits its own write goes on when it is no longer in the queue.
`exec[t]` is where the execution of a task is suspended, `poll[t]` where the poller of a job of an earlier process is, and
`phase` with `doing` and `on` is the position of the start-up, which handles one recovery info, then one pending task, at a time.
A call to the provider is not passed the abort signal, so it goes on when its task
is cancelled or timed out: `exec[t]` is "stopped" until it has the job's id and "late" while it saves it. `TimeOut` is the timer of `runProviderCallWithTimeout`. A late id is saved for a task that has failed;
`InfoSaved` then reports the lifecycle of the task, and `updateTask`, called for an ended task, deletes the recovery info again. This is why `TasksSettle` holds.
A `Crash` keeps `disk`, `info` and the provider's `jobs`, and nothing else. The start-up runs in the background, so the user can cancel and delete loaded
tasks meanwhile, and executions of resumed tasks begin before it has come to the last. The slots, retries and dispose are in
`TaskManager`. An error of the provider, a missing provider and a missing adapter are one action, `CannotAsk`: the code does the same.

*TaskResultObservation.* A result is a task and the status it ended with: that is what the ids of the observation and the follow-up request hash and what the chain of calls is
keyed by. The evidence is also told apart by the output (`Output`). A call of `handleTerminalTask` is a pair of a result and an attempt; `at` is its stage, and
calls on one result are chained (`Begin` waits for the others that have begun). After a restart a task whose terminal status was not written runs again and may end otherwise, with another output: it has another result then,
observed and followed up as well. `Begin` decides about the group (`Follows`): the three lists it awaits
are read in consecutive microtasks. A call whose owner passes a policy (`GivesPolicy`; media tasks, from the extension and the terminal client) does not look at the group. Calls of `handleTerminalChildRun` have no group logic; they are those of
an owner whose task wants no follow-up. `using` is the session whose recorder the call found, `broken` the sessions in whose
writer an append has failed: their promise chain rejects everything after it. `missed` names results with a call that failed or died
with its process, so the liveness and group properties can say what they leave out. `watched` are the tasks whose owner reports
them and lives in this process.

*AgentTurns.* A call of `executeAgentTurn` is named by the message it was made for; `agent` is the runner it looked up at its
start and keeps, `work` the message it is on, `at` the await it is suspended at:

    none -> configuring -> creating -> preparing -> executing -> leaving -> between -> none
            config         session     context      session's    runner's   queue      (or preparing,
            projected      created     built        generator    generator  empty?      with the next message)

Only the extension's `AgentRunner.configure` awaits before the controller tests the session (`Configured`); a runner without that await is the case where the step comes at once. A call
whose agent is running by then is refused.

The pool may dispose the agent a call holds; the call goes on with the object. A session is named by the call that
created it, and `busy` is the session's own running flag, beside `running`, the runner's. `GetOrCreate` is the whole of `getOrCreateContext`: evictions,
expansion and shrinking of the limit happen in one synchronous loop, so they are computed at once. Names of agents are reused when
neither the pool nor a call has one. `stranded` names agents whose last call failed with messages waiting. The precheck, a running turn with another configuration and a
message that cannot be queued end a call alike (`Reject`).

## Runs

| Run | Instance | Shows |
|---|---|---|
| `pool` | 4 callers, priorities 0 and 1, limits 1 and 3, queue timeouts | five invariants, one action property and the liveness of one pool |
| `tasks` | 4 submitted tasks, 3 types (one without executor), 2 global slots, 1 slot per type, 1 retry, 1 priority, 1 task deleted | type, slots, limits, cancel |
| `tasks_live` | a resumed and polled task with a retry, cancelled, deleted and waited for; a submitted one of its type; 1 global slot | waiters, cancelled tasks, the refinement of `TaskLifecycle`; executions end and waiters are answered |
| `tasks_cancel` | 1 task with a retry | violation: a cancelled task ends as failed |
| `tasks_shutdown` | 1 resumed task with a retry | violation: a snapshot of dispose is overwritten |
| `coordinator` | 5 tasks with dependencies and a priority, 2 workers, all configurations | dependencies, limit, agreement, no forgotten task, approval, termination |
| `coordinator_cancel` | 2 tasks | violation: cancel misses a sub-agent that is being spawned |
| `turns` | 3 messages of one conversation, a second one to be opened and deleted, a pool of 1 that may grow to 2 | one turn per session, the flag, one place per message, eviction, refusals, waiting messages released |
| `observation` | a wait-all group of 2, one of which may end in two ways, 2 calls per result, 1 output, 2 sessions, 1 restart | the refinement of `ResultDelivery`, the group waits and is followed up, announced results are observed |
| `observation_group` | the same with 2 outputs and no restart | violation: a group gets two continuations |
| `observation_restart` | the same with a restart | violation: a loaded terminal task is never observed |
| `recovery` | 1 task, 3 jobs, 2 crashes | an unfinished task is somebody's, no job only in memory, tasks end and leave nothing |

### Bounds, and why they are enough

- *pool.* With limits 1 and 3, four callers make a queue of three behind one holder, a wake-up of two at once, and
  three holders over a limit lowered to 1. Two priorities order a queue; more callers or priorities repeat these cases.
- *tasks.* Two tasks of one type meet in its queue while holding global slots, the third, of another type, competes for the
  global slots, and the fourth fails early for want of an executor. One retry makes a backoff. One task is deleted (`Removable`): its execution runs on beside the others. With fewer tasks than slots no queue forms; with
  these every await is contended. The slot properties do not mention how a task came to be executed, so nobody is resumed here.
- *tasks_live.* One task left behind meets every step of resumption, poller, cancel, delete, waiter and dispose; the other one competes for the slots, and one global slot makes hold-and-wait as tight as it gets.
  The task may be read as pending or as running, and be polled or executed, or both when its recovery info is gone by the time it is asked for. A task has one `waitForCompletion` call, and tasks share no waiters, so one
  task is waited for (`Watched`); the theorems cover the rest.
- *coordinator.* Two dependants with one and two dependencies, three roots, and a priority that reorders them: both
  workers are busy while tasks become ready two at once, and every chain of failures is reached.
- *turns.* Three messages of one conversation are two calls that overlap at every await and a third that queues, overtakes (one is a continuation) or
  comes after an eviction. The second conversation is needed only to push the first out of the pool, so nobody sends to it; with a default
  of one and a maximum of two the pool evicts, expands and shrinks; a pool that is past its maximum is left to the theorems. Four agents: the two conversations and two calls of
  disposed agents can hold one each; when all are held, none is created until a call ends.
- *observation.* A group of two has every order of its members; one is announced by the manager, the other perhaps by its owner, so both ways in are there. One member has two results: it may end otherwise
  when it runs again. Two attempts per result overlap or repeat. Two sessions let an agent be evicted, or its writer break, with a call under way. One restart cuts every stage;
  what a second would cut is the same stages with entries already in the journal, which the first run of calls after the restart has too. A second output only adds a second evidence entry, so the passing run has one, and the
  theorems have any number.
- *recovery.* Tasks meet only in the start-up's loop, where one can delay another, and every step of the one task can be late as it is. Two crashes let the
  second hit what the first left. A third job is given when a task was executed again after each crash.
- Counters (`clock`, `totalAcquired`, `told`, `retries`, `notified`) are bounded by the number of callers or tasks; no constraint is needed.

`CHECK_DEADLOCK FALSE` in the pool, task, recovery, observation and turn runs: a pool whose callers have all been served, a manager that was disposed of,
or a conversation whose messages are over rightly stops. The coordinator runs check deadlock; `cancel` may always be called.

### Fairness, and why the code justifies it

- *pool*: weak fairness of each `Release`: `run` releases in a `finally` block and operations are assumed to end. Nothing
  makes callers come, timers fire or limits change.
- *tasks_live*: weak fairness of each execution's next step (`Proceed`), of the end of a `delete`, of the resumption (`StartUp`) and of each poller (`Poll`): continuations of settled promises run, executors
  settle, backoff timers fire, storage answers, and a poller has a limit of attempts. Which way an executor settles is free. Queue timeouts and the timeout of
  a waiter are not assumed to fire, so the results do not lean on them.
- *coordinator*: weak fairness of `Advance`: the consumer asks for the next event (the for-await loop of
  `coordinate-tool.ts`), `spawn` answers, and a wait for workers ends by a result or by the timer of `getResult`. Sub-agents may run for ever. The answer
  to a confirmation is not assumed, which is why `ExecutionEnds` starts at execution.
- *turns*: weak fairness of the calls' next steps together (`GoesOn`), not of each: configurations are projected, sessions are created, contexts built, model calls end (each has a
  timeout). createContext may settle either way (`Settles`): it starts the turn or ends the call, and nothing says which. Nothing makes the user send or
  command, and no other failure is assumed.
- *observation*: weak fairness of `Load` and of the chain of calls of each result: the lists, the journal and the appends settle, one way or the other. Nobody is
  made to connect, report or restart.
- *recovery*: weak fairness of the storage, of the start-up, and per task of its execution, its poller and a delete that has begun: `runProviderCallWithTimeout` and the poller's limit of attempts end every wait. How a call ends is free, and
  crashes are bounded, not fair.

### Properties and the mistakes they catch

Each module has, before the definition it concerns, variants marked `Mistake`: plausible bugs. Substituting one for
its neighbour must make the named property fail.

| Property | Mistake | Bug |
|---|---|---|
| `ConcurrencyPool!TypeOK`, `TaskManager!TypeOK` | `ReleasedTwice` | a slot released in `catch` and in `finally` |
| `QueueHoldsTheWaiters` | `KeptInQueue` | a timed-out call leaves its entry behind |
| `CountersMatchCallers` | `AdmittedUncounted` | a granted slot is not counted |
| `NoIdleSlotWhileQueued` | `AdmissibleOnce` | a raised limit wakes one waiter only |
| `QueueOrdered` | `InsertionIndexBeforeEquals` | newcomers before their equals |
| `NeverFurtherOverLimit`, `ConcurrencyLimitsHold` | `HasCapacityAtLimit` | `<=` for `<` |
| `WaitersAreSettled`, `ExecutionsEnd` | `WokenIfCapacity` | capacity looked at before the slot is given back |
| `SlotsMatchExecutions` | `UnwindNothing` | type's slot acquired outside the outer `try` |
| `NoStrandedWaiter` | `CatchSilently` | a failure that is not reported |
| `AbortReachesExecutors` | `CancelAfterUpdate` | status updated before the abort |
| `CancelledNeverRestarts` | `BeginExecutionUnchecked` | status not looked at after a wait |
| `ImplementsLifecycle` | `UpdateTasksAlwaysAnnounces` | terminal event announced again |
| `WaitersAreAnswered` | `DeleteEndsSilently` | delete forgets waiters |
| `Coordinator!TypeOK` | `DispatchAllReady` | claims not counted |
| `DependenciesFirst` | `DependenciesEnded` | a failed dependency counts as met |
| `WorkersWithinLimit` | `FreeSlotsOfNone` | slots in use not subtracted |
| `BooksAgree` | `SpawnFailsSilently` | failed spawn not notified |
| `NothingReadyIsLeft` | `DispatchOnceIdle` | loop ends when no worker is active |
| `ApprovedBeforeWork` | `PassGateAnyway` | the answer is not looked at |
| `ExecutionEnds` | `RaceTimesOutAndLoops` | loop goes on after a failed wait |
| `AgentTurns!TypeOK` (order and contexts agree, the limit stays in its range) | `LimitOfSize` | the limit shrinks with the size |
| `OneTurnPerSession` | `SessionAlwaysFree` | session's own guard dropped |
| `RunnerFlagTells` | `RunnerAlwaysFree` | runner's guard dropped |
| `MessagesInOnePlace` | `PromotedCopy` (in `MessageQueue`) | a promoted item stays where it was |
| `WaitingHasACall` | `NextOnlyOnce` | one released message per call |
| `EvictionSparesRunning` | `IdleOrNot` | eviction does not look whether an agent runs |
| `RefusalNeedsRival` | `SessionStaysBusy` | session's flag not reset |
| `QueuesEmpty` | `RunnerEndsWithQueue` | the turn waits for its own queue |
| `TaskResultObservation!TypeOK` (loaded tasks are ended ones) | `LoadPending` | the start-up reads unfinished tasks only |
| `DeliveredOnce` | `BeginUnchained` | calls on one result not chained |
| `GroupWaits` | `FollowsAlways` | the group is not looked at |
| `GroupContinues` | `FollowsObserved` | members count once observed, not once ended |
| `ResultsAreObserved` | `BeginWithGroup` | observation itself waits for the group |
| `TaskRecovery!TypeOK` (nothing is awaited once up) | `ResumedEarly` | last task of the list not awaited |
| `SomebodyWorks` | `CannotAskNow` | recovery info kept when the provider cannot be asked |
| `CrashFindsJob` | `AcceptedUnsaved` | polling does not wait for the save |
| `TasksSettle` | `InfoSavedOnly` | a late id is saved and the lifecycle not reported |

### Findings

1. `tasks_cancel`. `cancel` during the backoff aborts a sleep inside the `catch` block; the rejection leaves the retry loop and the caller's `catch` stores
   `failed` over `cancelled`.
2. `tasks_shutdown`. The same rejection during `dispose`, for a resumed task, stores `failed` over the `pending` snapshot, so the next process does not
   resume it.
3. `coordinator_cancel`. The dispatch loop never looks at the cancelled flag, and a sub-agent spawned after `cancel` is told nothing.
4. `observation_group`. Members of a wait-all group that end at one time each find the group complete and each request a continuation, where the specification of internal continuations
   (`openspec/changes/normalize-agent-internal-continuations/specs/agent-internal-continuation/spec.md:65-70`) wants one grouped continuation. `GroupContinues` shows that at least one is requested.
5. `observation_restart`. The reconciliation of terminal tasks runs once, before the storage has been read and before any agent is in the pool; a terminal task
   that the restart loads without an observation is never observed, against the feature's specification.

Seen while modelling, without a run of their own, because no document of the repository says what should happen, or the properties name the exception:

- a release still admits the head of the queue while the pool is over a limit that `setMaxConcurrent` has lowered; `NeverFurtherOverLimit` shows the excess never grows;
- a member of a wait-all group whose owner passes a policy (`mediaTurnBridge.ts:180`) is followed up without waiting for the group, and the group then gets that continuation too;
- a task that is cancelled, deleted or ended by its poller while the start-up is under way is put back as pending, executed and announced a second time, if `loadPending` had read it before;
- whoever waits for a polled task gets no answer from `upsertExternalTask` and waits for its own timer, 300 seconds by default;
- a task submitted between the start of the process and `loadPending` is executed twice;
- after a timed-out wait the coordinate tool reports success with tasks still running or pending, because none of them counts as failed (`coordinate-tool.ts:257`);
- a crash or a failed append between the follow-up entry and its dispatch loses the continuation, since the journal then says it was requested;
- a provider that cannot be asked for a moment after a restart means a second generation, and so does a crash between the last write of a poller and the completion of its task;
- a cancelled task whose job is polled ends as completed; a job id that arrives after `cancel` or a timeout is saved although the task is over, and is deleted again by a side effect of reporting the lifecycle;
- a call that is still preparing does not count as running, so its agent can be evicted under it, queue included; it then runs a turn the pool does not know, or is refused;
- two overlapping configurations leave a session running that `cancel` no longer reaches;
- a saturated pool reports it and grows all the same; opening the projection of a deleted conversation creates its agent again.

## Proofs

TLAPS proves the following for all values of the constants that satisfy the named assumptions (`ClientAssumption`, `PrioritiesAssumption`, `LimitsAssumption`,
`QueueTimeoutAssumption`; `TaskAssumption`, `OptionsAssumption`, `LimitsAssumption`; `TasksAssumption`,
`ConcurrencyAssumption`; `TasksAssumption` and `NamesAssumption` of `TaskResultObservation`; `BoundsAssumption` of `TaskRecovery`; `NamesAssumption`, `LimitsAssumption` and `ContinuationsAssumption` of `AgentTurns`): finite sets of callers and tasks, positive limits, integer priorities, for the coordinator any
dependency relation, and for the recovery any numbers of tasks, jobs and crashes.

- **ConcurrencyPool** (`ConcurrencyPoolProofs`): `TypeCorrect`, `WaitersAreQueued`, `SlotsAreCounted`, `SlotsAreNotWasted`, `ExcessNeverGrows`, `QueueStaysOrdered`. The inductive invariant
  `PoolInv` is the conjunction of the first four with "a disposed pool has an empty queue"; the last two are proved from it. The parts need each other: a wake-up of *n* entries raises the count by
  the number of holders only because the queue names each waiter once. `QueueStaysOrdered` assumes priorities that are not negative: the code puts a newcomer of priority 0 at the end, behind lower ones.
- **TaskManager, slots** (`TaskManagerProofs`): `TypeCorrect`, `SlotsAreExact`, `LimitsHold`, `CancelledStaysAway`. The invariant `SlotInv` adds to the types that both pools count and queue the
  executions at the corresponding stages and stay within limits that are the configured ones, and that a task the resumption has not come to has no execution (`Resting`). Type correctness is not inductive
  alone: that `running` stays a natural number when `dispose` subtracts the holders among the rejected needs the count. `CancelledStaysAway` names the one way back: `Adopt`, once, for a task that was read before it was cancelled.
- **TaskManager, statuses** (`TaskStatusProofs`): `NobodyIsStranded`, `CancelReaches`. `StatusInv` ties, before `dispose`, the status of a task to the stage of its execution, the resumption and its poller (`InStep`), says at all times that
  who waits for a task waits for one that somebody has in hand (`Held`), and that after `dispose` waiters of submitted tasks are left only where the task is being deleted (`Abandoned`), since statuses and stages part ways during shutdown.
- **TaskManager implements TaskLifecycle** (`TaskStatusProofs`): `LifecycleIsImplemented`. The refinement maps a task to absent, open, closed or removed, and the pollers between their two steps to what is still to be announced. It needs
  `UnsettledInv`: an execution of a submitted task that has not ended has not said how it ended, even during shutdown, so no such task closes twice. `Adopt` of a closed or removed task is a `Reopen`.
- **Coordinator** (`CoordinatorProofs`): `TypeCorrect`, `DependenciesComeFirst`, `BooksAlwaysAgree`, `WorkersStayWithinLimit`, `WorkIsApproved`, `NothingReadyIsForgotten`. `CoordInv` adds that at most one task is claimed and only between
  its claim and its registration (`ClaimInv`), that nothing has started before execution (`StageInv`), and that the claims still to be made fit beside the active tasks (`LimitInv`), which is what
  keeps the limit across a loop that computes its slots once. The last theorem has an invariant of its own (`EndInv`): a race always has workers, so one that times out leaves some in the map, and a loop
  that is left without workers had nothing ready or was cancelled.
- **TaskResultObservation** (`TaskResultObservationProofs`): `TypesHold`, `ResultsAreDeliveredOnce` (the refinement of `ResultDelivery`), `GroupsWait`, `GroupsContinue`. The chain of calls gives `OneAtATime`: one call
  per result is past its start. From this, what a call still owes (`due`) is not in the journal yet (`Recorded`), and one about to dispatch has its request on record and not handed over (`Promising`), so the journal read
  at the beginning is still right at the end. `GroupsWait` is about members that the manager announces; those whose owner passes a policy are outside it, as they are outside the code's test. For the group, `ContinueInv` says that while its members are all ended, announced, observed and without failure, some member's call has decided to ask, or one will still be decided
  after the last ended: whoever decides last sees all. `GroupsContinue` is the lower half of the specification's "one grouped continuation"; the upper half is false (`observation_group`).
- **TaskRecovery** (`TaskRecoveryProofs`): `TypeCorrect`, `SomebodyAlwaysWorks`, `CrashesFindJobs`. The queue of writes can be of any length, so the invariant `RecoveryInv` never speaks of its order, only of
  what a record of the storage will say once all writes have landed (`WillSay`): it is quiet and says it already, or the last write of it does. Two lemmas say how this survives more writes at the end (`MoreWrites`) and the landing
  of the first (`FirstWriteLands`); nothing more about the queue is used. Per task, `Untouched` says that nothing works on it before the start-up comes to it, and that storage and map will agree; `Recovering`, that an info the start-up read is polled or is
  on its way out; `Resuming`, that a task is still in hand, executed or polled; `Working`, that the id of a job waited for is in the storage to stay. The third part needs the second: `resumePendingTasks` skips a task with recovery
  info, so an info without a poller would leave the task to nobody. `SomebodyAlwaysWorks` is the third part at the stage `up`, `CrashesFindJobs` the fourth, and the types need `JobsKnown` for the ids in writes.
- **AgentTurns, turns** (`AgentTurnsProofs`): `SessionsRunOneTurn`, `RunnerFlagIsRight`, `WaitingMessagesAreSeen`, `TurnsAreNotEvicted`, `RefusalsHaveARival`. Two flags guard a turn and each can be cleared too early, by the disposal of the
  agent or by an older turn's end; the invariants say of which turns each flag still speaks. Refusals need in addition that the session of a pooled agent is busy only through a turn of that agent.
- **AgentTurns, messages**: `MessagesAreInOnePlace`. The run counts copies; `PlaceInv` says without counting that queues repeat nothing, share nothing and hold exactly the messages whose fate is `queued` (`QueuePart`), and that calls at work hold
  different messages, those that are `held` (`CallPart`). Each part is kept by what moves a message between them, and `PlacesCounted` turns it into the two cardinalities.
- **AgentTurns, pool**: `PoolAndOrderAgree` (types, limit, and the access order naming each pooled conversation once), `PoolKeepsItsLimit`, `PoolGrowsOnlyWhenAllRun`. The last two state what no run checks: the pool exceeds its limit only at
  the absolute maximum, and grows rather than evicts only when nobody who stays is idle. `Evicted` says in one formula what `_evictIfNeeded` does in a loop, and `FullWhenAllRun` shows that it ends as the loop does: of the
  idle agents outside it the least recently used comes right behind those in it, so it would have been evicted as well. The order is a sequence from which positions are kept, not a `SelectSeq`, which the provers know nothing about; `Ranks` shows
  that the kept positions are numbered without gaps.

Lemmas about shared steps (`BothUnwound`, `LoopMoves`, `PoolKept` and others) are stated once, and the proof of each step has one case per action.

Checked by TLC only:

- liveness (`WaitersAreSettled`, `ExecutionsEnd`, `WaitersAreAnswered`, `ExecutionEnds`, `QueuesEmpty`, `ResultsAreObserved`, `TasksSettle`), which the prover does not reach.

Every other property of the passing runs, invariant, action property or refinement, is the statement of a theorem.

## Not modelled

- In `ConcurrencyPool`: statistics about waiting times. Priorities below the default are left out of the run: the code puts a newcomer of priority 0 behind them, against its own comment, but no caller passes one.
- In `TaskManager`: tasks submitted before `loadPending` has read the storage (they are executed twice), tasks with the policy `snapshot-only` (no submitter asks for it), the start-up before that read (`TaskRecovery` has it), `cleanup`, progress and output updates, and storage that rejects a write. `upsertExternalTask` is one step with the call of `get` before it: both run in consecutive microtasks. Pollers go on through `dispose`, as they do in the code. The model shows storage as later reads of the same process see it; `TaskRecovery` has the crashes. The owner makes no call after `dispose`.
- In `Coordinator`: prompts, summaries, results passed to dependants, `max_concurrency` 0 (which spins without an await), `SubAgentManager` beyond what the coordinator calls. A cancelled sub-agent ends as one that failed. The
  manager's own timeout aborts a controller; that the executor hears of it is not assumed.
- In `TaskRecovery`: rejected writes, tasks with the policy `snapshot-only`, tasks submitted before the start-up is over, retries (media tasks have none).
- In `TaskResultObservation`: more than one conversation and group, groups without `expectedTaskIds` (they are never followed up), the entries the session remembers beside the journal.
- In `AgentTurns`: confirmations of tool calls and their timers, what a turn does inside, `edit` (a text), `drain` and the terminal client's own loop (`apps/neko-tui/src/tui/hooks/useAgentSession.ts`), `cancelAll`, the disposal of the whole pool, and a cancel that comes before the model phase
  has a controller.
- The run registry, session lock, persistence, permission bridge, approval engine and stream task observer.
- Everything under "listed" in the inventory: most of the repository's 700,000 lines are views, codecs, schemas and providers. The models cover the parts where several actors meet, a small share of the lines.

## Plan

The order follows the weight of what can go wrong, from what costs users money or messages to what is local.

1. *Done.* `PoolOps`, `ConcurrencyPool`, `TaskLifecycle`, `TaskManager`, `Coordinator`, `ResultDelivery`, `TaskResultObservation`, `MessageQueue`, `AgentTurns`, `TaskRecovery` with their proofs.
2. Confirmations in `AgentTurns`: a timeout against a late answer, a second request with the same call id (`agent-session-runner.ts:380`), and the permission bridge that routes those of sub-agents.
3. `ConversationRunRegistry`: trees of up to four nodes with re-entrant callbacks (`conversation-run-registry.ts:176`); theorem: a cancelled node has no active descendant.
4. `SessionLock`: two processes and stale takeover (`session-lock.ts:141`, where release reads and unlinks in two steps).
5. Failing saves in `TaskManager` (`task-manager.ts:401`).
6. `SceneCommandQueue` of the engine, as an example from the Rust side.

Theorems to add: that a queue of `AgentTurns` releases continuations first and otherwise in order, and that no recovery info outlives the end of its task once the writes have landed. Each new module gets its types and safety invariants
proved before the next is begun.
