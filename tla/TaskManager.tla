----------------------------- MODULE TaskManager -----------------------------
(***************************************************************************)
(* One process lifetime of TaskManager                                     *)
(* (packages/neko-agent/packages/agent/src/task/task-manager.ts): the task *)
(* map, the executions it starts, the two concurrency pools they pass, the *)
(* abort controllers that cancel them, waiters, terminal events and        *)
(* dispose.                                                                *)
(*                                                                         *)
(* An execution is one call of executeTask.  Its program counter `exec'    *)
(* stops at each await; what runs between two awaits is one action, and so *)
(* is the unwinding of executeTask (its two finally blocks and the catch   *)
(* of its caller), which runs in consecutive microtasks.                   *)
(*                                                                         *)
(* The process is starting: Loaded holds the tasks that resumePendingTasks *)
(* has just read from the storage, and it puts them back into the map one  *)
(* after another, each after an await or two, while callers may cancel or  *)
(* delete them.  Those in Polled have recovery info and a poller already   *)
(* (media-task-executor.ts under packages/neko-agent/packages/platform/):  *)
(* what the resumption does not execute is left to it, and it ends its     *)
(* task with upsertExternalTask.  All other tasks are submitted.  Only     *)
(* submit's catch around executeTask looks at isDisposing.  The owner of   *)
(* the manager makes no call after dispose.                                *)
(*                                                                         *)
(* A task submitted before that read is in it too, and is executed twice;  *)
(* such tasks are left out, and so are updates that change no status.      *)
(*                                                                         *)
(* `stored' is the storage as later reads of this process see it: writes   *)
(* go through a first-in first-out exclusive section.                      *)
(***************************************************************************)
EXTENDS PoolOps, FiniteSets

CONSTANTS
  Task,
  Type,              \* task types, each with a pool of its own
  Loaded,            \* tasks the previous process left unfinished, which
                     \* loadPending has just returned
  Polled,            \* those of them a poller waits for
  Watched,           \* bound: tasks that callers wait for
  Removable,         \* bound: tasks that callers delete
  TypeOf,            \* [Task -> Type]
  Priority,          \* [Task -> Int]: input.options.priority
  MaxRetries,        \* [Task -> Nat]: input.options.retry.maxRetries
  Registered,        \* types that have an executor
  MaxConcurrent,     \* concurrency.maxConcurrent
  TypeLimit,         \* [Type -> Nat]: concurrency.perTypeLimits
  DefaultTypeLimit   \* limit of a pool that perTypeLimits has not reached

ASSUME TaskAssumption == 
  /\ IsFiniteSet(Task)
  /\ Loaded \subseteq Task
  /\ Polled \subseteq Loaded
  /\ Watched \subseteq Task
  /\ Removable \subseteq Task
ASSUME OptionsAssumption ==
  /\ TypeOf \in [Task -> Type]
  /\ Priority \in [Task -> Int]
  /\ MaxRetries \in [Task -> Nat]
  /\ Registered \subseteq Type
ASSUME LimitsAssumption ==
  /\ MaxConcurrent \in Nat \ {0}
  /\ TypeLimit \in [Type -> Nat \ {0}]
  /\ DefaultTypeLimit \in Nat \ {0}

VARIABLES
  tasks,        \* status in the task map, "absent" when there is no entry
  stored,       \* status in storage
  exec,         \* program counter of the task's execution
  retries,      \* failed attempts of the execution
  signal,       \* the AbortSignal its executor was given
  registered,   \* executionControllers: tasks whose controller is in the map
  globalPool,
  typePools,    \* [Type -> pool]
  waiter,       \* the waitForCompletion call on each task
  told,         \* how many terminal events were announced for each task
  deleting,     \* tasks whose delete call has not returned
  phase,        \* "up", "flushing" (inside dispose) or "disposed"
  resume,       \* what resumePendingTasks read of a task it has not come to, or
                \* what it awaits for the task: "saving" or "asking"
  poller        \* where the poller of each task is

lifeVars == <<tasks, stored, waiter, told>>
runVars == <<exec, retries, signal>>
poolVars == <<globalPool, typePools>>
startVars == <<resume, poller>>
vars == <<lifeVars, runVars, poolVars, registered, deleting, phase, startVars>>

Terminal == {"completed", "failed", "cancelled"}
Unfinished == {"pending", "running"}
Statuses == Terminal \union Unfinished \union {"absent"}
Resumption == Unfinished \union {"none", "saving", "asking"}
Stages == {"none", "starting", "waitGlobal", "hasGlobal", "waitType",
           "hasType", "executing", "backoff", "done"}

isDisposing == phase # "up"
PoolOf(t) == typePools[TypeOf[t]]

-----------------------------------------------------------------------------
(***************************************************************************)
(* updateTask, and what it notifies.                                       *)
(***************************************************************************)

\* Mistake: wasTerminal is not looked at.
UpdateTasksAlwaysAnnounces(S, status) ==
  LET present == {t \in S : tasks[t] # "absent"}
      ended == IF status \in Terminal THEN present ELSE {}
  IN
  /\ tasks' = [t \in Task |-> IF t \in present THEN status ELSE tasks[t]]
  /\ stored' = [t \in Task |-> IF t \in present THEN status ELSE stored[t]]
  /\ waiter' = [t \in Task |-> IF t \in ended /\ waiter[t] = "waiting"
                               THEN "resolved" ELSE waiter[t]]
  /\ told' = [t \in Task |-> IF t \in ended /\ ~isDisposing
                             THEN told[t] + 1 ELSE told[t]]

\* updateTask(t, {status}) for every t of S: a task that is not in the map is
\* left alone; a terminal status resolves the waiter and drops the controller,
\* and is announced when the task was not terminal before.
UpdateTasks(S, status) ==
  LET present == {t \in S : tasks[t] # "absent"}
      ended == IF status \in Terminal THEN present ELSE {}
      news == {t \in ended : tasks[t] \notin Terminal /\ ~isDisposing}
  IN
  /\ tasks' = [t \in Task |-> IF t \in present THEN status ELSE tasks[t]]
  /\ stored' = [t \in Task |-> IF t \in present THEN status ELSE stored[t]]
  /\ waiter' = [t \in Task |-> IF t \in ended /\ waiter[t] = "waiting"
                               THEN "resolved" ELSE waiter[t]]
  /\ told' = [t \in Task |-> IF t \in news THEN told[t] + 1 ELSE told[t]]

\* Tasks whose controller updateTask removes from the map.
Unregistered(S, status) ==
  {t \in S : tasks[t] # "absent" /\ status \in Terminal}

\* The catch around executeTask lets a failure pass in silence only for a
\* submitted task of a manager that is being disposed of.
Reported(S) == {t \in S : t \in Loaded \/ ~isDisposing}

-----------------------------------------------------------------------------
(***************************************************************************)
(* Slots.                                                                  *)
(***************************************************************************)

\* Execution t goes to a stage; the executions a released slot wakes go on.
Goto(t, stage, wokenGlobal, wokenType) ==
  exec' = [u \in Task |-> IF u = t THEN stage
                          ELSE IF u \in wokenGlobal THEN "hasGlobal"
                          ELSE IF u \in wokenType THEN "hasType"
                          ELSE exec[u]]

Woken(pool) == FirstClients(pool.queue, WokenByRelease(pool))

\* Both finally blocks run: the execution held a slot of each pool.
UnwindBoth(t) ==
  /\ typePools' = [typePools EXCEPT ![TypeOf[t]] = Released(@)]
  /\ globalPool' = Released(globalPool)
  /\ Goto(t, "done", Woken(globalPool), Woken(PoolOf(t)))

\* Mistake: the type's slot is acquired before the outer try.
UnwindNothing(t) == globalPool' = globalPool /\ Goto(t, "done", {}, {})

\* Only the outer finally block runs.
UnwindGlobal(t) ==
  /\ globalPool' = Released(globalPool)
  /\ Goto(t, "done", Woken(globalPool), {})

\* The execution ends without a word.
Return == UNCHANGED <<lifeVars, registered>>

\* Mistake: the caller's catch does not report the failure.
CatchSilently(t) == Return

\* What is left of an execution that threw: its caller's catch.
Catch(t) ==
  /\ UpdateTasks(Reported({t}), "failed")
  /\ registered' = registered \ Unregistered(Reported({t}), "failed")

-----------------------------------------------------------------------------
\* Nothing has been done yet with what loadPending returned, which is what the
\* map and the storage say.
Init ==
  /\ tasks \in [Task -> Unfinished \union {"absent"}]
  /\ \A t \in Task : tasks[t] = "absent" <=> t \notin Loaded
  /\ stored = tasks
  /\ resume = [t \in Task |-> IF t \in Loaded THEN tasks[t] ELSE "none"]
  /\ poller = [t \in Task |-> IF t \in Polled THEN "polling" ELSE "none"]
  /\ exec = [t \in Task |-> "none"]
  /\ retries = [t \in Task |-> 0]
  /\ signal = [t \in Task |-> "none"]
  /\ registered = {}
  /\ globalPool = NewPool(MaxConcurrent)
  /\ typePools = [type \in Type |-> NewPool(TypeLimit[type])]
  /\ waiter = [t \in Task |-> "none"]
  /\ told = [t \in Task |-> 0]
  /\ deleting = {}
  /\ phase = "up"

-----------------------------------------------------------------------------
(***************************************************************************)
(* resumePendingTasks and the pollers.                                     *)
(***************************************************************************)

\* The loop over what loadPending returned awaits nothing.
TurnFree == \A t \in Task : resume[t] \notin {"saving", "asking"}

\* A task that was running is saved as pending first, over whatever has been
\* saved of it since it was read.
MarkPending(t) ==
  /\ resume[t] = "running"
  /\ TurnFree
  /\ resume' = [resume EXCEPT ![t] = "saving"]
  /\ stored' = [stored EXCEPT ![t] = "pending"]
  /\ UNCHANGED <<tasks, waiter, told, runVars, poolVars, registered, deleting,
                 phase, poller>>

\* The task goes into the map as it was read, even if it was cancelled, deleted
\* or completed meanwhile, and its recovery info is asked for.
Adopt(t) ==
  /\ \/ resume[t] = "pending" /\ TurnFree
     \/ resume[t] = "saving"
  /\ resume' = [resume EXCEPT ![t] = "asking"]
  /\ tasks' = [tasks EXCEPT ![t] = "pending"]
  /\ UNCHANGED <<stored, waiter, told, runVars, poolVars, registered, deleting,
                 phase, poller>>

\* Without recovery info, which a cancellation has deleted or which could not be
\* loaded, the task is executed; with it, the task is left to its poller.
Resume(t) ==
  /\ resume[t] = "asking"
  /\ resume' = [resume EXCEPT ![t] = "none"]
  /\ \/ exec' = [exec EXCEPT ![t] = "starting"]
     \/ poller[t] = "polling" /\ UNCHANGED exec
  /\ UNCHANGED <<lifeVars, retries, signal, poolVars, registered, deleting,
                 phase, poller>>

\* The job is over: upsertExternalTask, up to its await, for a task that is in
\* the map.  It leaves waiters and the controller as they are.
Upsert(t) ==
  /\ poller[t] = "polling"
  /\ poller' = [poller EXCEPT ![t] =
                  IF tasks[t] \in Unfinished THEN "announcing" ELSE "over"]
  /\ \/ tasks[t] = "absent" /\ UNCHANGED <<tasks, stored>>
     \/ /\ tasks[t] # "absent"
        /\ \E status \in {"completed", "failed"} :
             /\ tasks' = [tasks EXCEPT ![t] = status]
             /\ stored' = [stored EXCEPT ![t] = status]
  /\ UNCHANGED <<waiter, told, runVars, poolVars, registered, deleting, phase,
                 resume>>

\* The rest of upsertExternalTask, once the save has returned.
UpsertEnds(t) ==
  /\ poller[t] = "announcing"
  /\ poller' = [poller EXCEPT ![t] = "over"]
  /\ told' = [told EXCEPT ![t] = IF isDisposing THEN @ ELSE @ + 1]
  /\ UNCHANGED <<tasks, stored, waiter, runVars, poolVars, registered, deleting,
                 phase, resume>>

StartUp(t) == MarkPending(t) \/ Adopt(t) \/ Resume(t)
Poll(t) == Upsert(t) \/ UpsertEnds(t)

-----------------------------------------------------------------------------
(***************************************************************************)
(* The calls on the manager, and the executions.                           *)
(***************************************************************************)

\* submit up to its await; executeTask is called when the save has returned.
Submit(t) ==
  /\ phase = "up"
  /\ t \notin Loaded
  /\ exec[t] = "none"
  /\ tasks[t] = "absent"
  /\ UNCHANGED <<waiter, told, registered, retries, signal, poolVars,
                 deleting, phase, startVars>>
  /\ tasks' = [tasks EXCEPT ![t] = "pending"]
  /\ stored' = [stored EXCEPT ![t] = "pending"]
  /\ exec' = [exec EXCEPT ![t] = "starting"]

\* executeTask without an executor for the type.
StartUnregistered(t) ==
  /\ exec[t] = "starting"
  /\ TypeOf[t] \notin Registered
  /\ Catch(t)
  /\ exec' = [exec EXCEPT ![t] = "done"]
  /\ UNCHANGED <<retries, signal, poolVars, deleting, phase, startVars>>

\* executeTask up to the global slot: sets the type's limit, then acquires.
Start(t) ==
  LET pool == Resized(PoolOf(t), TypeLimit[TypeOf[t]])
      wokenType == FirstClients(PoolOf(t).queue,
                     Admissible(PoolOf(t), TypeLimit[TypeOf[t]]))
  IN
  /\ exec[t] = "starting"
  /\ TypeOf[t] \in Registered
  /\ typePools' = [typePools EXCEPT ![TypeOf[t]] = pool]
  /\ UNCHANGED <<retries, signal, deleting, phase, startVars>>
  /\ \/ /\ ~globalPool.disposed
        /\ globalPool' = Acquired(globalPool, Entry(t, Priority[t]))
        /\ Goto(t, IF HasCapacity(globalPool) THEN "hasGlobal" ELSE "waitGlobal",
                {}, wokenType)
        /\ Return
     \/ /\ globalPool.disposed
        /\ Goto(t, "done", {}, wokenType)
        /\ Catch(t)
        /\ UNCHANGED globalPool

\* executeTask on to the type's slot; getPool never returns a disposed pool.
AcquireType(t) ==
  /\ exec[t] = "hasGlobal"
  /\ typePools' = [typePools EXCEPT ![TypeOf[t]] =
                     Acquired(@, Entry(t, Priority[t]))]
  /\ exec' = [exec EXCEPT ![t] =
                IF HasCapacity(PoolOf(t)) THEN "hasType" ELSE "waitType"]
  /\ UNCHANGED <<lifeVars, retries, signal, registered, globalPool, deleting,
                 phase, startVars>>

\* executeTaskCore for a task that was cancelled while it waited.
SkipCancelled(t) ==
  /\ exec[t] = "hasType"
  /\ tasks[t] = "cancelled"
  /\ UnwindBoth(t)
  /\ Return
  /\ UNCHANGED <<retries, signal, deleting, phase, startVars>>

\* Mistake: the status is not looked at after the wait.
BeginExecutionUnchecked(t) ==
  /\ exec[t] = "hasType"
  /\ UpdateTasks({t}, "running")
  /\ registered' = registered \union {t}
  /\ signal' = [signal EXCEPT ![t] = "live"]
  /\ exec' = [exec EXCEPT ![t] = "executing"]
  /\ UNCHANGED <<retries, poolVars, deleting, phase, startVars>>

\* executeTaskCore up to the executor call, with a controller of its own.
BeginExecution(t) ==
  /\ exec[t] = "hasType"
  /\ tasks[t] # "cancelled"
  /\ UpdateTasks({t}, "running")
  /\ registered' = registered \union {t}
  /\ signal' = [signal EXCEPT ![t] = "live"]
  /\ exec' = [exec EXCEPT ![t] = "executing"]
  /\ UNCHANGED <<retries, poolVars, deleting, phase, startVars>>

\* The check after the executor settled.
Stopped(t) == signal[t] = "aborted" \/ tasks[t] = "cancelled"

\* The executor returns an output, which may carry an error.
ExecutorReturns(t, status) ==
  /\ exec[t] = "executing"
  /\ UnwindBoth(t)
  /\ UNCHANGED <<retries, signal, deleting, phase, startVars>>
  /\ \/ Stopped(t) /\ Return
     \/ /\ ~Stopped(t)
        /\ UpdateTasks({t}, status)
        /\ registered' = registered \ Unregistered({t}, status)

\* The executor throws and an attempt is left.
ExecutorThrows(t) ==
  /\ exec[t] = "executing"
  /\ ~Stopped(t)
  /\ retries[t] < MaxRetries[t]
  /\ retries' = [retries EXCEPT ![t] = @ + 1]
  /\ exec' = [exec EXCEPT ![t] = "backoff"]
  /\ UNCHANGED <<lifeVars, signal, registered, poolVars, deleting, phase, startVars>>

\* The executor throws for good, or after it was stopped.
ExecutorGivesUp(t) ==
  /\ exec[t] = "executing"
  /\ UnwindBoth(t)
  /\ UNCHANGED <<signal, deleting, phase, startVars>>
  /\ \/ Stopped(t) /\ Return /\ UNCHANGED retries
     \/ /\ ~Stopped(t)
        /\ retries[t] = MaxRetries[t]
        /\ retries' = [retries EXCEPT ![t] = @ + 1]
        /\ Catch(t)

\* The backoff elapses: the loop looks at the status and calls the executor.
BackoffElapses(t) ==
  /\ exec[t] = "backoff"
  /\ signal[t] = "live"
  /\ tasks[t] # "cancelled"
  /\ exec' = [exec EXCEPT ![t] = "executing"]
  /\ UNCHANGED <<lifeVars, retries, signal, registered, poolVars, deleting,
                 phase, startVars>>

\* abort rejects the sleep inside the catch block: the rejection leaves
\* executeTask as if the executor had failed.
BackoffAborted(t) ==
  /\ exec[t] = "backoff"
  /\ signal[t] = "aborted"
  /\ UnwindBoth(t)
  /\ Catch(t)
  /\ UNCHANGED <<retries, signal, deleting, phase, startVars>>

\* A queue timeout rejects an acquire.
QueueTimesOut(t) ==
  /\ UNCHANGED <<retries, signal, deleting, phase, startVars>>
  /\ Catch(t)
  /\ \/ /\ exec[t] = "waitGlobal"
        /\ globalPool' = RemovedFromQueue(globalPool, t)
        /\ exec' = [exec EXCEPT ![t] = "done"]
        /\ UNCHANGED typePools
     \/ /\ exec[t] = "waitType"
        /\ typePools' = [typePools EXCEPT ![TypeOf[t]] = RemovedFromQueue(@, t)]
        /\ UnwindGlobal(t)

\* Mistake: updateTask comes first, and takes the controller out of the map.
CancelAfterUpdate(t) ==
  /\ phase = "up"
  /\ tasks[t] \in Unfinished
  /\ UpdateTasks({t}, "cancelled")
  /\ registered' = registered \ {t}
  /\ UNCHANGED <<runVars, poolVars, deleting, phase, startVars>>

\* cancel of a task that has not ended.
Cancel(t) ==
  /\ phase = "up"
  /\ tasks[t] \in Unfinished
  /\ signal' = [signal EXCEPT ![t] = IF t \in registered THEN "aborted" ELSE @]
  /\ UpdateTasks({t}, "cancelled")
  /\ registered' = registered \ {t}
  /\ UNCHANGED <<exec, retries, poolVars, deleting, phase, startVars>>

\* delete up to its first await: the execution, its controller and its slots
\* are left as they are.  A task is not deleted again before delete returns.
Delete(t) ==
  /\ t \in Removable \ deleting
  /\ phase = "up"
  /\ tasks[t] # "absent"
  /\ tasks' = [tasks EXCEPT ![t] = "absent"]
  /\ stored' = [stored EXCEPT ![t] = "absent"]
  /\ deleting' = deleting \union {t}
  /\ UNCHANGED <<waiter, told, runVars, poolVars, registered, phase, startVars>>

\* Mistake: delete forgets the waiters.
DeleteEndsSilently(t) ==
  /\ t \in deleting
  /\ deleting' = deleting \ {t}
  /\ UNCHANGED <<lifeVars, runVars, poolVars, registered, phase, startVars>>

\* The rest of delete, once storage and recovery storage have answered.
DeleteEnds(t) ==
  /\ t \in deleting
  /\ deleting' = deleting \ {t}
  /\ waiter' = [waiter EXCEPT ![t] = IF @ = "waiting" THEN "rejected" ELSE @]
  /\ UNCHANGED <<tasks, stored, told, runVars, poolVars, registered, phase, startVars>>

WaitForCompletion(t) ==
  /\ t \in Watched
  /\ phase = "up"
  /\ tasks[t] # "absent"
  /\ waiter[t] = "none"
  /\ waiter' = [waiter EXCEPT ![t] =
                  IF tasks[t] \in Terminal THEN "resolved" ELSE "waiting"]
  /\ UNCHANGED <<tasks, stored, told, runVars, poolVars, registered, deleting,
                 phase, startVars>>

WaiterTimesOut(t) ==
  /\ waiter[t] = "waiting"
  /\ waiter' = [waiter EXCEPT ![t] = "rejected"]
  /\ UNCHANGED <<tasks, stored, told, runVars, poolVars, registered, deleting,
                 phase, startVars>>

\* dispose up to its await: every controller is aborted, and the unfinished
\* tasks are snapshotted as pending.
Dispose ==
  LET unfinished == {t \in Task : tasks[t] \in Unfinished}
      snapshot(f) == [t \in Task |-> IF t \in unfinished THEN "pending" ELSE f[t]]
  IN
  /\ phase = "up"
  /\ phase' = "flushing"
  /\ signal' = [t \in Task |-> IF t \in registered THEN "aborted" ELSE signal[t]]
  /\ tasks' = snapshot(tasks)
  /\ stored' = snapshot(stored)
  /\ waiter' = [t \in Task |-> IF t \in unfinished /\ waiter[t] = "waiting"
                               THEN "rejected" ELSE waiter[t]]
  /\ UNCHANGED <<told, exec, retries, poolVars, registered, deleting, startVars>>

\* The rest of dispose, when the snapshots are saved or the shutdown timeout
\* has passed: the pools reject their queues, and each rejected execution
\* unwinds.  The keyed pools start afresh for whoever asks for one later.
DisposeEnds ==
  LET rejected == {t \in Task : exec[t] \in {"waitGlobal", "waitType"}}
      holders == {t \in rejected : exec[t] = "waitType"}
  IN
  /\ phase = "flushing"
  /\ phase' = "disposed"
  /\ UpdateTasks(Reported(rejected), "failed")
  /\ registered' = {}
  /\ exec' = [t \in Task |-> IF t \in rejected THEN "done" ELSE exec[t]]
  /\ globalPool' = [Disposed(globalPool) EXCEPT !.running = @ - Cardinality(holders)]
  /\ typePools' = [type \in Type |-> NewPool(DefaultTypeLimit)]
  /\ UNCHANGED <<retries, signal, deleting, startVars>>

\* What an execution does next of its own accord.
Proceed(t) ==
  \/ StartUnregistered(t)
  \/ Start(t)
  \/ AcquireType(t)
  \/ SkipCancelled(t)
  \/ BeginExecution(t)
  \/ \E status \in {"completed", "failed"} : ExecutorReturns(t, status)
  \/ ExecutorThrows(t)
  \/ ExecutorGivesUp(t)
  \/ BackoffElapses(t)
  \/ BackoffAborted(t)

Next ==
  \/ \E t \in Task :
       \/ StartUp(t)
       \/ Poll(t)
       \/ Submit(t)
       \/ Proceed(t)
       \/ QueueTimesOut(t)
       \/ Cancel(t)
       \/ Delete(t)
       \/ DeleteEnds(t)
       \/ WaitForCompletion(t)
       \/ WaiterTimesOut(t)
  \/ Dispose
  \/ DisposeEnds

Spec == Init /\ [][Next]_vars

\* Executors settle, timers of the backoff fire, storage answers and pollers give
\* up in the end.  Nothing makes a caller cancel, delete, wait or dispose, and no
\* queue or waiter timeout has to pass.
FairSpec ==
  /\ Spec
  /\ WF_vars(\E t \in Task : StartUp(t))
  /\ \A t \in Task :
       WF_vars(Proceed(t)) /\ WF_vars(DeleteEnds(t)) /\ WF_vars(Poll(t))

-----------------------------------------------------------------------------
GlobalHolders ==
  {t \in Task : exec[t] \in {"hasGlobal", "waitType", "hasType", "executing",
                             "backoff"}}
TypeHolders(type) ==
  {t \in Task : /\ exec[t] \in {"hasType", "executing", "backoff"}
                /\ TypeOf[t] = type}
GlobalWaiters == {t \in Task : exec[t] = "waitGlobal"}
TypeWaiters(type) == {t \in Task : exec[t] = "waitType" /\ TypeOf[t] = type}

\* Type invariant of the maps, the executions and the pools.
TypeOK ==
  /\ tasks \in [Task -> Statuses]
  /\ stored \in [Task -> Statuses]
  /\ exec \in [Task -> Stages]
  /\ retries \in [Task -> Nat]
  /\ signal \in [Task -> {"none", "live", "aborted"}]
  /\ registered \subseteq Task
  /\ globalPool \in PoolType(Task, Int)
  /\ typePools \in [Type -> PoolType(Task, Int)]
  /\ waiter \in [Task -> {"none", "waiting", "resolved", "rejected"}]
  /\ told \in [Task -> Nat]
  /\ deleting \subseteq Task
  /\ phase \in {"up", "flushing", "disposed"}
  /\ resume \in [Task -> Resumption]
  /\ poller \in [Task -> {"none", "polling", "announcing", "over"}]

\* The pools count exactly the executions between an acquire and the finally
\* that releases it, and queue exactly those that wait, whichever of return,
\* throw, cancel, retry, timeout and dispose ends them: no slot leaks.
SlotsMatchExecutions ==
  /\ globalPool.running = Cardinality(GlobalHolders)
  /\ Clients(globalPool.queue) = GlobalWaiters
  /\ phase # "disposed" =>
       \A type \in Type :
         /\ typePools[type].running = Cardinality(TypeHolders(type))
         /\ Clients(typePools[type].queue) = TypeWaiters(type)

\* No more executors run, or sleep between two attempts, than the options
\* allow, in all and of each type, until dispose has dropped the type pools.
ConcurrencyLimitsHold ==
  /\ Cardinality(GlobalHolders) <= MaxConcurrent
  /\ phase # "disposed" =>
       \A type \in Type : Cardinality(TypeHolders(type)) <= TypeLimit[type]

\* The poller of t has ended it, which resolves no waiter.
EndedByPoller(t) == tasks[t] \in Terminal /\ poller[t] \in {"announcing", "over"}

\* Whoever waits for a task waits for one that has not ended and that an
\* execution, the resumption or a poller still has in hand, or for a delete on
\* its way.  The exception is a task that its poller has ended: its waiters have
\* only their own timers left.
NoStrandedWaiter ==
  \A t \in Task : waiter[t] = "waiting" =>
    \/ /\ tasks[t] \in Unfinished
       /\ \/ exec[t] \notin {"none", "done"}
          \/ resume[t] # "none"
          \/ poller[t] = "polling"
    \/ tasks[t] = "absent" /\ t \in deleting
    \/ EndedByPoller(t)

\* Until dispose, cancel reaches the executor of every running task: its
\* controller is in the map and not yet aborted.  (A task the previous process
\* left running has none until it is resumed.)  An executor that outlives the
\* status of its task was told to stop, unless the task was deleted, or ended by
\* its poller.
AbortReachesExecutors ==
  phase = "up" => \A t \in Task :
    /\ tasks[t] = "running" =>
         \/ /\ t \in registered
            /\ signal[t] = "live"
            /\ exec[t] \in {"executing", "backoff"}
         \/ resume[t] \in {"running", "saving"}
    /\ exec[t] \in {"executing", "backoff"} /\ tasks[t] \in Terminal =>
         (tasks[t] = "cancelled" /\ signal[t] = "aborted") \/ EndedByPoller(t)

\* A task that is cancelled is not handed to an executor afterwards, whether it
\* was being saved, queued, admitted, or waiting for its next attempt, and does
\* not become unfinished again: only the failure of its execution, a delete or
\* its poller changes its status.  The exception is a task that the resumption
\* had read before it was cancelled: it is put back, once.
CancelledNeverRestarts ==
  [][\A t \in Task : tasks[t] = "cancelled" =>
       /\ exec'[t] = "executing" => exec[t] = "executing"
       /\ \/ tasks'[t] \in {"cancelled", "absent"}
          \/ tasks'[t] = "failed" /\ exec'[t] = "done"
          \/ tasks'[t] \in {"completed", "failed"} /\ poller[t] = "polling"
          \/ /\ tasks'[t] = "pending"
             /\ resume[t] \in {"pending", "saving"}
             /\ resume'[t] = "asking"]_vars

\* Where task t is in its life.
LifeState(t) ==
  IF tasks[t] = "absent"
  THEN IF exec[t] = "none" /\ t \notin Loaded THEN "absent" ELSE "removed"
  ELSE IF tasks[t] \in Terminal THEN "closed" ELSE "open"

Life == INSTANCE TaskLifecycle WITH
  Recovered <- Loaded,
  state <- [t \in Task |-> LifeState(t)],
  announced <- told,
  owed <- {t \in Task : poller[t] = "announcing"},
  promise <- waiter,
  shutdown <- isDisposing

\* TaskManager keeps the promises of TaskLifecycle to the callers of submit,
\* waitForCompletion, delete and onTerminalTask, and to those of the previous
\* process the weaker ones.
ImplementsLifecycle == Life!Spec

\* Every execution ends, however many tasks are submitted, cancelled or deleted
\* around it: no slot is lost and nobody waits for ever behind a queue.
ExecutionsEnd ==
  \A t \in Task : exec[t] = "starting" ~> exec[t] = "done"

\* Every waitForCompletion is answered even if its own timeout never fires, unless
\* the poller ends the task.
WaitersAreAnswered ==
  \A t \in Task :
    waiter[t] = "waiting" ~> (waiter[t] # "waiting" \/ EndedByPoller(t))

\* What the test "should stop processing when cancelled during execution" of
\* task-manager.test.ts expects of a cancelled task, whenever it is looked at.
CancelIsFinal ==
  [][\A t \in Task : tasks[t] = "cancelled" =>
       tasks'[t] \in {"cancelled", "absent"}]_vars

\* What the comment on isDisposing claims: an execution that dispose aborted
\* does not update what dispose has snapshotted.
SnapshotsStand ==
  [][\A t \in Task : isDisposing /\ signal[t] = "aborted" =>
       stored'[t] = stored[t]]_vars
=============================================================================
