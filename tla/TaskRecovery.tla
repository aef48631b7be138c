----------------------------- MODULE TaskRecovery -----------------------------
(***************************************************************************)
(* How media tasks survive a crash: TaskManager's storage and recovery     *)
(* info (agent/src/task/task-manager.ts and sqlite-task-storage.ts under   *)
(* packages/neko-agent/packages/) and MediaTaskExecutor, which polls the   *)
(* jobs of an earlier process (platform/src/media/media-task-executor.ts). *)
(*                                                                         *)
(* An execution gives the provider a job and saves its id as recovery      *)
(* info.  After a crash the start-up polls the jobs it has the ids of, and *)
(* only then resumes the pending tasks: it executes again those without    *)
(* recovery info.  Storage is one FIFO queue of writes that few callers    *)
(* await; a crash loses what is still queued.                              *)
(*                                                                         *)
(* Media tasks are not retried (maxRetries is 0).  The slots are those of  *)
(* TaskManager and are left out, so are dispose, failing saves and tasks   *)
(* submitted while the process is still starting.                          *)
(***************************************************************************)
EXTENDS Naturals, Sequences

CONSTANTS
  Task,
  MaxJobs,      \* bound: jobs the provider gets for one task
  MaxCrashes    \* bound

ASSUME BoundsAssumption == MaxJobs \in Nat /\ MaxCrashes \in Nat

VARIABLES
  tasks,     \* [Task -> Status]: the map of TaskManager
  disk,      \* [Task -> Status]: the statuses in the storage
  info,      \* [Task -> job]: the recovery info in the storage, or NoJob
  writes,    \* writes the storage has not made yet
  jobs,      \* [Task -> Nat]: jobs the provider was given
  exec,      \* where the execution of each task is
  poll,      \* where the poller of each task is
  deleting,  \* tasks a call of delete is to remove the recovery info of
  phase,     \* where the start-up is
  doing,     \* what the start-up awaits for the task `on`
  on,
  infos,     \* the recovery infos the start-up read; a poller polls its job
  todo,      \* tasks of infos, or of snapshot, that are not dealt with
  snapshot,  \* what loadPending returned
  excused,   \* tasks the user cancelled or deleted, or whose recovery info
             \* could not be read, in this process (for the properties)
  crashes

storeVars == <<disk, info, writes>>
userVars == <<deleting, excused>>
startVars == <<phase, doing, on, infos, todo, snapshot>>
vars == <<tasks, storeVars, jobs, exec, poll, startVars, userVars, crashes>>

Unfinished == {"pending", "running"}
Ended == {"completed", "failed", "cancelled"}
Status == {"absent"} \cup Unfinished \cup Ended
NoJob == 0
Job == 0 .. MaxJobs

\* A call to the provider that goes on after its task was cancelled or timed out
\* is "stopped" until it has the id of the job, and "late" while it saves it.
Executing == {"submitting", "queued", "asking", "saving", "waiting"}
ExecStages == Executing \cup {"none", "stopped", "late"}
PollStages == {"none", "polling", "cleaning", "completing"}
Phases == {"starting", "infos", "recovering", "resuming", "up"}

Nowhere == [t \in Task |-> "none"]
Unknown == [t \in Task |-> "absent"]

Init ==
  /\ tasks = Unknown /\ disk = Unknown
  /\ info = [t \in Task |-> NoJob]
  /\ writes = <<>>
  /\ jobs = [t \in Task |-> 0]
  /\ exec = Nowhere /\ poll = Nowhere
  /\ phase = "starting" /\ doing = "next" /\ on \in Task
  /\ infos = [t \in Task |-> NoJob]
  /\ todo = {}
  /\ snapshot = Unknown
  /\ deleting = {} /\ excused = {}
  /\ crashes = 0

-----------------------------------------------------------------------------
(***************************************************************************)
(* The storage.                                                            *)
(***************************************************************************)

SaveTask(t, status) == [store |-> "task", task |-> t, value |-> status]
SaveInfo(t, job) == [store |-> "info", task |-> t, value |-> job]
DeleteInfo(t) == SaveInfo(t, NoJob)

Queue(ops) == writes' = writes \o ops /\ UNCHANGED <<disk, info>>

Queued(store, T) ==
  \E i \in DOMAIN writes : writes[i].store = store /\ writes[i].task \in T

\* The storage makes the write that has waited longest.
Land ==
  LET op == Head(writes) IN
  /\ writes # <<>>
  /\ writes' = Tail(writes)
  /\ \/ /\ op.store = "task"
        /\ disk' = [disk EXCEPT ![op.task] = op.value]
        /\ UNCHANGED info
     \/ /\ op.store = "info"
        /\ info' = [info EXCEPT ![op.task] = op.value]
        /\ UNCHANGED disk
  /\ UNCHANGED <<tasks, jobs, exec, poll, startVars, userVars, crashes>>

\* Everything in memory is lost, and every write that has not landed.
Crash ==
  /\ crashes < MaxCrashes
  /\ crashes' = crashes + 1
  /\ tasks' = Unknown
  /\ writes' = <<>>
  /\ exec' = Nowhere /\ poll' = Nowhere
  /\ phase' = "starting" /\ doing' = "next"
  /\ infos' = [t \in Task |-> NoJob]
  /\ todo' = {}
  /\ snapshot' = Unknown
  /\ deleting' = {} /\ excused' = {}
  /\ UNCHANGED <<disk, info, jobs, on>>

\* updateTask, of a task that is still in the map, followed by more writes.
Update(t, status, ops) ==
  IF tasks[t] = "absent" THEN UNCHANGED <<tasks, storeVars>>
  ELSE /\ tasks' = [tasks EXCEPT ![t] = status]
       /\ Queue(<<SaveTask(t, status)>> \o ops)

\* A terminal status also takes the recovery info away.
EndTask(t, status) == Update(t, status, <<DeleteInfo(t)>>)

\* updateLifecycle: updateTask without a status, which saves the task and takes
\* the recovery info of an ended one away.
LifecycleWrites(t) ==
  CASE tasks[t] = "absent" -> <<>>
    [] tasks[t] \in Unfinished -> <<SaveTask(t, tasks[t])>>
    [] tasks[t] \in Ended -> <<SaveTask(t, tasks[t]), DeleteInfo(t)>>

-----------------------------------------------------------------------------
(***************************************************************************)
(* TaskManager and the executor of a task.                                 *)
(***************************************************************************)

Submit(t) ==
  /\ phase = "up"
  /\ tasks[t] = "absent" /\ disk[t] = "absent" /\ jobs[t] = 0
  /\ exec[t] = "none" /\ writes = <<>> /\ t \notin deleting
  /\ tasks' = [tasks EXCEPT ![t] = "pending"]
  /\ Queue(<<SaveTask(t, "pending")>>)
  /\ exec' = [exec EXCEPT ![t] = "submitting"]
  /\ UNCHANGED <<jobs, poll, startVars, userVars, crashes>>

\* What becomes of an execution whose signal is aborted: the polling stops, but a
\* request, which is not passed the signal, and the save of its id go on.
Aborted(stage) ==
  CASE stage = "asking" -> "stopped"
    [] stage = "saving" -> "late"
    [] stage = "waiting" -> "none"
    [] OTHER -> stage

\* cancel
Cancel(t) ==
  /\ tasks[t] \in Unfinished
  /\ EndTask(t, "cancelled")
  /\ exec' = [exec EXCEPT ![t] = Aborted(@)]
  /\ excused' = excused \cup {t}
  /\ UNCHANGED <<jobs, poll, startVars, deleting, crashes>>

\* delete: the map and the storage first, the recovery info when that is done.
\* Nobody is told to stop.
Delete(t) ==
  /\ tasks[t] # "absent" /\ t \notin deleting
  /\ tasks' = [tasks EXCEPT ![t] = "absent"]
  /\ Queue(<<SaveTask(t, "absent")>>)
  /\ deleting' = deleting \cup {t}
  /\ excused' = excused \cup {t}
  /\ UNCHANGED <<jobs, exec, poll, startVars, crashes>>

GoOnDeleting(t) ==
  /\ t \in deleting
  /\ ~Queued("task", {t})
  /\ deleting' = deleting \ {t}
  /\ Queue(<<DeleteInfo(t)>>)
  /\ UNCHANGED <<tasks, jobs, exec, poll, startVars, excused, crashes>>

\* submit goes on once the task is saved.
Submitted(t) ==
  /\ exec[t] = "submitting"
  /\ ~Queued("task", {t})
  /\ exec' = [exec EXCEPT ![t] = "queued"]
  /\ UNCHANGED <<tasks, storeVars, jobs, poll, startVars, userVars, crashes>>

\* The execution has its slots.
Start(t) ==
  /\ exec[t] = "queued"
  /\ \/ /\ tasks[t] = "cancelled"
        /\ exec' = [exec EXCEPT ![t] = "none"]
        /\ UNCHANGED <<tasks, storeVars>>
     \/ /\ tasks[t] # "cancelled"
        /\ exec' = [exec EXCEPT ![t] = "asking"]
        /\ Update(t, "running", <<>>)
  /\ UNCHANGED <<jobs, poll, startVars, userVars, crashes>>

\* Mistake: the provider is polled without waiting for the save.
AcceptedUnsaved(t) ==
  /\ exec[t] \in {"asking", "stopped"}
  /\ poll[t] # "completing"
  /\ jobs[t] < MaxJobs
  /\ jobs' = [jobs EXCEPT ![t] = @ + 1]
  /\ Queue(IF tasks[t] = "absent" THEN <<>> ELSE <<SaveInfo(t, jobs'[t])>>)
  /\ exec' = [exec EXCEPT ![t] = IF @ = "asking" THEN "waiting" ELSE "late"]
  /\ UNCHANGED <<tasks, poll, startVars, userVars, crashes>>

\* The provider returns the id of a job, and onExternalTaskId saves it if the
\* task is in the map, whether or not it has ended meanwhile; a poller's last
\* microtasks are over long before.
Accepted(t) ==
  /\ exec[t] \in {"asking", "stopped"}
  /\ poll[t] # "completing"
  /\ jobs[t] < MaxJobs
  /\ jobs' = [jobs EXCEPT ![t] = @ + 1]
  /\ Queue(IF tasks[t] = "absent" THEN <<>> ELSE <<SaveInfo(t, jobs'[t])>>)
  /\ exec' = [exec EXCEPT ![t] = IF @ = "asking" THEN "saving" ELSE "late"]
  /\ UNCHANGED <<tasks, poll, startVars, userVars, crashes>>

\* Mistake: onExternalTaskId only saves the id.
InfoSavedOnly(t) ==
  /\ exec[t] \in {"saving", "late"}
  /\ ~Queued("info", {t})
  /\ exec' = [exec EXCEPT ![t] = IF @ = "saving" THEN "waiting" ELSE "none"]
  /\ UNCHANGED <<tasks, storeVars, jobs, poll, startVars, userVars, crashes>>

\* onExternalTaskId goes on once the id is saved: it reports the lifecycle, which
\* takes the id of an ended task away again.  The polling that follows stops at
\* once if the signal is aborted.
InfoSaved(t) ==
  /\ exec[t] \in {"saving", "late"}
  /\ ~Queued("info", {t})
  /\ Queue(LifecycleWrites(t))
  /\ exec' = [exec EXCEPT ![t] = IF @ = "saving" THEN "waiting" ELSE "none"]
  /\ UNCHANGED <<tasks, jobs, poll, startVars, userVars, crashes>>

\* The call ends: with a result or an error, or without slots.
Finish(t) ==
  /\ exec[t] \in {"queued", "asking", "waiting"}
  /\ \E status \in {"completed", "failed"} :
       /\ exec[t] = "queued" => status = "failed"
       /\ EndTask(t, status)
  /\ exec' = [exec EXCEPT ![t] = "none"]
  /\ UNCHANGED <<jobs, poll, startVars, userVars, crashes>>

\* runProviderCallWithTimeout gives up on a provider that has not answered, or
\* whose answer is being saved, and aborts the signal of the call.
TimeOut(t) ==
  /\ exec[t] \in {"asking", "saving"}
  /\ EndTask(t, "failed")
  /\ exec' = [exec EXCEPT ![t] = Aborted(@)]
  /\ UNCHANGED <<jobs, poll, startVars, userVars, crashes>>

\* The call to the provider fails, or was aborted after all.
Abandon(t) ==
  /\ exec[t] = "stopped"
  /\ exec' = [exec EXCEPT ![t] = "none"]
  /\ UNCHANGED <<tasks, storeVars, jobs, poll, startVars, userVars, crashes>>

Execute(t) ==
  \/ Submitted(t) \/ Start(t) \/ Accepted(t) \/ InfoSaved(t)
  \/ Finish(t) \/ TimeOut(t) \/ Abandon(t)

-----------------------------------------------------------------------------
(***************************************************************************)
(* The poller of a job of an earlier process.                              *)
(***************************************************************************)

\* The job is over, or the poller gives up on it: the lifecycle of the task is
\* updated, which saves the task, and its recovery info is deleted.
PollEnds(t) ==
  /\ poll[t] = "polling"
  /\ poll' = [poll EXCEPT ![t] = "cleaning"]
  /\ Queue(LifecycleWrites(t) \o <<DeleteInfo(t)>>)
  /\ UNCHANGED <<tasks, jobs, exec, startVars, userVars, crashes>>

InfoDeleted(t) ==
  /\ poll[t] = "cleaning"
  /\ ~Queued("info", {t})
  /\ poll' = [poll EXCEPT ![t] = "completing"]
  /\ UNCHANGED <<tasks, storeVars, jobs, exec, startVars, userVars, crashes>>

\* The recovery info is deleted once more; then completeRecoveredTask upserts
\* the task, whatever its status is.
CompleteRecovered(t) ==
  /\ poll[t] = "completing"
  /\ poll' = [poll EXCEPT ![t] = "none"]
  /\ \/ /\ tasks[t] = "absent"
        /\ Queue(<<DeleteInfo(t)>>)
        /\ UNCHANGED tasks
     \/ /\ tasks[t] # "absent"
        /\ \E status \in {"completed", "failed"} :
             /\ tasks' = [tasks EXCEPT ![t] = status]
             /\ Queue(<<DeleteInfo(t), SaveTask(t, status)>>)
  /\ UNCHANGED <<jobs, exec, startVars, userVars, crashes>>

Poll(t) == PollEnds(t) \/ InfoDeleted(t) \/ CompleteRecovered(t)

-----------------------------------------------------------------------------
(***************************************************************************)
(* The start-up: startPlatformTaskManager.                                 *)
(***************************************************************************)

\* initialize
Initialize ==
  /\ phase = "starting"
  /\ phase' = "infos"
  /\ tasks' = disk
  /\ UNCHANGED <<storeVars, jobs, exec, poll, doing, on, infos, todo, snapshot,
                 userVars, crashes>>

\* resumeFromRecovery has the recovery infos.
LoadInfos ==
  /\ phase = "infos"
  /\ ~Queued("info", Task)
  /\ phase' = "recovering"
  /\ infos' = info
  /\ todo' = {t \in Task : info[t] # NoJob}
  /\ UNCHANGED <<tasks, storeVars, jobs, exec, poll, doing, on, snapshot, userVars,
                 crashes>>

\* The start-up turns to a task of its list and awaits something for it.
Turn(t, awaited) ==
  /\ doing = "next" /\ doing' = awaited
  /\ t \in todo /\ todo' = todo \ {t}
  /\ on' = t
  /\ UNCHANGED <<phase, infos, snapshot>>

\* The provider says the job is not over: a poller starts.  It updates the
\* lifecycle of the task first.
StillRunning(t) ==
  /\ phase = "recovering"
  /\ Turn(t, "next")
  /\ poll' = [poll EXCEPT ![t] = "polling"]
  /\ Queue(LifecycleWrites(t))
  /\ UNCHANGED <<tasks, jobs, exec, userVars, crashes>>

\* The provider says the job is over: completeRecoveredTask awaits its save.
AlreadyOver(t) ==
  /\ phase = "recovering"
  /\ Turn(t, "upsert")
  /\ \E status \in {"completed", "failed"} : Update(t, status, <<>>)
  /\ UNCHANGED <<jobs, exec, poll, userVars, crashes>>

\* Mistake: the info is kept for the next start, since the error may pass.
CannotAskNow(t) ==
  /\ phase = "recovering"
  /\ Turn(t, "next")
  /\ UNCHANGED <<tasks, storeVars, jobs, exec, poll, userVars, crashes>>

\* The provider cannot be asked: the info is deleted, and this is awaited.
CannotAsk(t) ==
  /\ phase = "recovering"
  /\ Turn(t, "delete")
  /\ Queue(<<DeleteInfo(t)>>)
  /\ UNCHANGED <<tasks, jobs, exec, poll, userVars, crashes>>

Upserted ==
  /\ doing = "upsert"
  /\ ~Queued("task", {on})
  /\ doing' = "delete"
  /\ Queue(<<DeleteInfo(on)>>)
  /\ UNCHANGED <<tasks, jobs, exec, poll, phase, on, infos, todo, snapshot,
                 userVars, crashes>>

Deleted ==
  /\ doing = "delete"
  /\ ~Queued("info", {on})
  /\ doing' = "next"
  /\ UNCHANGED <<tasks, storeVars, jobs, exec, poll, phase, on, infos, todo,
                 snapshot, userVars, crashes>>

\* resumePendingTasks has what loadPending returns.
LoadPending ==
  /\ phase = "recovering" /\ doing = "next" /\ todo = {}
  /\ ~Queued("task", Task)
  /\ phase' = "resuming"
  /\ todo' = {t \in Task : disk[t] \in Unfinished}
  /\ snapshot' = disk
  /\ UNCHANGED <<tasks, storeVars, jobs, exec, poll, doing, on, infos, userVars,
                 crashes>>

\* A task that was running is saved as pending first.
MarkPending(t) ==
  /\ phase = "resuming"
  /\ snapshot[t] = "running"
  /\ Turn(t, "save")
  /\ Queue(<<SaveTask(t, "pending")>>)
  /\ UNCHANGED <<tasks, jobs, exec, poll, userVars, crashes>>

\* The task of the snapshot goes into the map, and its recovery info is asked
\* for.
Adopt(t) ==
  /\ phase = "resuming"
  /\ \/ snapshot[t] = "pending" /\ Turn(t, "load")
     \/ /\ doing = "save" /\ on = t
        /\ ~Queued("task", {t})
        /\ doing' = "load"
        /\ UNCHANGED <<phase, on, infos, todo, snapshot>>
  /\ tasks' = [tasks EXCEPT ![t] = "pending"]
  /\ UNCHANGED <<storeVars, jobs, exec, poll, userVars, crashes>>

\* A task with recovery info is its poller's, any other is executed.  A load
\* that fails counts as no recovery info.
InfoLoaded ==
  /\ doing = "load"
  /\ ~Queued("info", {on})
  /\ doing' = "next"
  /\ \/ info[on] # NoJob /\ UNCHANGED <<exec, excused>>
     \/ /\ exec' = [exec EXCEPT ![on] = "queued"]
        /\ excused' = IF info[on] = NoJob THEN excused ELSE excused \cup {on}
  /\ UNCHANGED <<tasks, storeVars, jobs, poll, phase, on, infos, todo, snapshot,
                 deleting, crashes>>

\* Mistake: the last task of the list is not waited for.
ResumedEarly ==
  /\ phase = "resuming" /\ todo = {}
  /\ phase' = "up"
  /\ UNCHANGED <<tasks, storeVars, jobs, exec, poll, doing, on, infos, todo,
                 snapshot, userVars, crashes>>

Resumed ==
  /\ phase = "resuming" /\ doing = "next" /\ todo = {}
  /\ phase' = "up"
  /\ UNCHANGED <<tasks, storeVars, jobs, exec, poll, doing, on, infos, todo,
                 snapshot, userVars, crashes>>

StartUp ==
  \/ Initialize \/ LoadInfos \/ LoadPending \/ Resumed
  \/ Upserted \/ Deleted \/ InfoLoaded
  \/ \E t \in Task :
       StillRunning(t) \/ AlreadyOver(t) \/ CannotAsk(t) \/ MarkPending(t) \/ Adopt(t)

Next ==
  \/ Land \/ Crash \/ StartUp
  \/ \E t \in Task : Submit(t) \/ Cancel(t) \/ Delete(t) \/ GoOnDeleting(t)
                   \/ Execute(t) \/ Poll(t)

Spec == Init /\ [][Next]_vars

\* Every await settles, and every call to a provider has a timeout; nothing
\* makes the user submit, cancel or delete.
FairSpec ==
  /\ Spec
  /\ WF_vars(Land) /\ WF_vars(StartUp)
  /\ \A t \in Task :
       WF_vars(Execute(t)) /\ WF_vars(Poll(t)) /\ WF_vars(GoOnDeleting(t))

-----------------------------------------------------------------------------
(***************************************************************************)
(* Properties.                                                             *)
(***************************************************************************)

WriteType == [store : {"task"}, task : Task, value : Status]
               \cup [store : {"info"}, task : Task, value : Job]

TypeOK ==
  /\ tasks \in [Task -> Status] /\ disk \in [Task -> Status]
  /\ jobs \in [Task -> Job] /\ info \in [Task -> Job] /\ infos \in [Task -> Job]
  /\ \A t \in Task : info[t] <= jobs[t] /\ infos[t] <= jobs[t]
  /\ writes \in Seq(WriteType)
  /\ exec \in [Task -> ExecStages] /\ poll \in [Task -> PollStages]
  /\ phase \in Phases
  /\ doing \in {"next", "upsert", "delete", "save", "load"} /\ on \in Task
  /\ todo \subseteq Task /\ snapshot \in [Task -> Status]
  /\ deleting \subseteq Task /\ excused \subseteq Task
  /\ crashes \in 0 .. MaxCrashes
  /\ phase = "starting" => exec = Nowhere /\ poll = Nowhere /\ writes = <<>>
  /\ phase = "up" => doing = "next" /\ todo = {}

\* Once the process is up, an unfinished task is in the hands of an execution
\* or of a poller, wherever the last process died.  resumePendingTasks leaves a
\* task with recovery info alone, so the info must be gone if it was not polled,
\* and a poller that is through with the task must still upsert it.
SomebodyWorks ==
  phase = "up" =>
    \A t \in Task :
      tasks[t] \in Unfinished => exec[t] \in Executing \/ poll[t] # "none"

\* A crash does not lose a job that is waited for: its id is in the storage,
\* not on its way there, and nothing on its way removes it.
CrashFindsJob ==
  \A t \in Task \ excused :
    tasks[t] \in Unfinished =>
      /\ exec[t] = "waiting" => info[t] = jobs[t] /\ ~Queued("info", {t})
      /\ poll[t] = "polling" => info[t] = infos[t] /\ ~Queued("info", {t})

\* Every task ends and leaves no recovery info for the next start to act on, even
\* when the provider answers after the task's timeout: the id that is saved then
\* is taken away again.
TasksSettle ==
  \A t \in Task :
    tasks[t] # "absent" ~>
      \/ tasks[t] \in Ended /\ info[t] = NoJob /\ ~Queued("info", {t})
      \/ t \in excused \/ tasks[t] = "absent"
=============================================================================
