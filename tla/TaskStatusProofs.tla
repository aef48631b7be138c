--------------------------- MODULE TaskStatusProofs ---------------------------
(***************************************************************************)
(* Theorems about what TaskManager says of its tasks: that cancel reaches  *)
(* the executors, that nobody waits for a task in vain but for one that    *)
(* its poller has ended, and that TaskManager implements TaskLifecycle:    *)
(* whatever executors, slots, retries, cancels, deletes, timeouts and      *)
(* dispose do, a submitted task opens once, closes at most once, and its   *)
(* end is announced and answered when it closes and at no other time,      *)
(* while a task of the previous process is promised less.                  *)
(***************************************************************************)
EXTENDS TaskManagerProofs

-----------------------------------------------------------------------------
(***************************************************************************)
(* The inductive invariant.  Until dispose, the status of a task goes with *)
(* the place of its execution, the resumption and the poller.  Always, who *)
(* waits for a task waits for one that somebody will end; from dispose on, *)
(* nobody waits for a submitted task but for a delete.                     *)
(***************************************************************************)

\* Somebody will end task t and answer those who wait for it, or has a poller.
InHand(t) ==
  \/ exec[t] \in Before
  \/ exec[t] \in Running /\ signal[t] = "live"
  \/ resume[t] # "none"
  \/ exec[t] = "none" /\ poller[t] = "polling"

\* A caller waits for task t only while its status can still change, or in vain
\* for one that its poller has ended.
Held(t) ==
  waiter[t] = "waiting" =>
    \/ tasks[t] \in Unfinished /\ InHand(t)
    \/ tasks[t] = "absent" /\ t \in deleting
    \/ EndedByPoller(t)

\* The status of t fits the place of its execution.
InStep(t) ==
  /\ exec[t] = "none" =>
       \/ tasks[t] \in {"absent", "pending", "cancelled"}
       \/ tasks[t] = "running" /\ resume[t] \in {"running", "saving"}
       \/ EndedByPoller(t)
  /\ exec[t] = "none" /\ tasks[t] = "pending" =>
       resume[t] # "none" \/ poller[t] = "polling"
  /\ exec[t] \in Before =>
       tasks[t] \in {"absent", "pending", "cancelled"} \/ EndedByPoller(t)
  /\ exec[t] \in Running =>
       \/ tasks[t] = "absent"
       \/ tasks[t] = "running" /\ t \in registered /\ signal[t] = "live"
       \/ tasks[t] = "cancelled" /\ signal[t] = "aborted"
       \/ EndedByPoller(t)
  /\ exec[t] = "done" => tasks[t] \in Terminal \union {"absent"}

\* All that is left to wait for after dispose is the end of a delete.
Abandoned(t) == t \notin Loaded /\ waiter[t] = "waiting" => tasks[t] = "absent"

Fine(t) ==
  /\ Held(t)
  /\ phase = "up" => InStep(t)
  /\ phase # "up" => Abandoned(t)

StatusInv == \A t \in Task : Fine(t)

\* A step that is not about task u.
Undisturbed(u) ==
  /\ tasks'[u] = tasks[u]
  /\ waiter'[u] = waiter[u]
  /\ signal'[u] = signal[u]
  /\ u \in registered' <=> u \in registered
  /\ u \in deleting' <=> u \in deleting
  /\ resume'[u] = resume[u]
  /\ poller'[u] = poller[u]
  /\ Moves(u)

\* A task that a step does not disturb stays fine.
LEMMA UndisturbedStays ==
  ASSUME NEW u \in Task, Fine(u), Undisturbed(u), phase' = phase
  PROVE  Fine(u)'
<1>1. Held(u)'
  BY DEF Fine, Held, InHand, EndedByPoller, Undisturbed, Moves, Advances,
         Before, Running
<1>2. phase' = "up" => InStep(u)'
  BY DEF Fine, InStep, EndedByPoller, Undisturbed, Moves, Advances, Before,
         Running
<1>3. phase' # "up" => Abandoned(u)'
  BY DEF Fine, Abandoned, Undisturbed
<1> QED  BY <1>1, <1>2, <1>3 DEF Fine

\* Every step about one task leaves the others as they are.
LEMMA OneInStep ==
  ASSUME StatusInv, NEW t \in Task, Fine(t)', phase' = phase,
         \A u \in Task \ {t} : Undisturbed(u)
  PROVE  StatusInv'
<1> SUFFICES ASSUME NEW u \in Task  PROVE Fine(u)'
  BY DEF StatusInv
<1>1. CASE u = t
  BY <1>1
<1>2. CASE u # t
  BY <1>2, UndisturbedStays DEF StatusInv
<1> QED  BY <1>1, <1>2

-----------------------------------------------------------------------------
(***************************************************************************)
(* What the shared parts of the actions do to each task.                   *)
(***************************************************************************)

\* updateTask of one task leaves the others alone, and never answers a caller
\* that waits for a task it does not find.
LEMMA UpdatedTask ==
  ASSUME LifeType, NEW t \in Task, NEW status, UpdateTasks({t}, status)
  PROVE  /\ \A u \in Task \ {t} :
              tasks'[u] = tasks[u] /\ waiter'[u] = waiter[u]
         /\ tasks'[t] = IF tasks[t] = "absent" THEN "absent" ELSE status
         /\ waiter'[t] = IF /\ tasks[t] # "absent" /\ status \in Terminal
                            /\ waiter[t] = "waiting"
                         THEN "resolved" ELSE waiter[t]
BY DEF LifeType, UpdateTasks

\* An execution ends and says how, in the status of its task.
LEMMA EndedInStep ==
  ASSUME StatusInv, LifeType, NEW t \in Task, NEW status \in Terminal,
         UpdateTasks({t}, status),
         registered' = registered \ Unregistered({t}, status),
         signal' = signal, deleting' = deleting, phase' = phase,
         resume' = resume, poller' = poller,
         exec'[t] = "done", \A u \in Task \ {t} : Advances(u)
  PROVE  StatusInv'
<1>1. /\ \A u \in Task \ {t} : tasks'[u] = tasks[u] /\ waiter'[u] = waiter[u]
      /\ tasks'[t] = IF tasks[t] = "absent" THEN "absent" ELSE status
      /\ waiter'[t] = IF tasks[t] # "absent" /\ waiter[t] = "waiting"
                      THEN "resolved" ELSE waiter[t]
  BY UpdatedTask
<1>2. \A u \in Task \ {t} : Undisturbed(u)
  BY <1>1 DEF Undisturbed, Unregistered, Moves
<1>3. waiter'[t] = "waiting" =>
        /\ tasks[t] = "absent" /\ tasks'[t] = "absent"
        /\ waiter[t] = "waiting"
  BY <1>1
<1>4. Held(t) /\ (phase # "up" => Abandoned(t))
  BY DEF StatusInv, Fine
<1>5. Held(t)'
  BY <1>3, <1>4 DEF Held, EndedByPoller, Terminal, Unfinished
<1>6. InStep(t)'
  BY <1>1 DEF InStep, Before, Running
<1>7. Abandoned(t)'
  BY <1>3 DEF Abandoned
<1> QED  BY <1>2, <1>5, <1>6, <1>7, OneInStep DEF Fine

\* An execution ends without a word, about a task that nobody waits for or that
\* another has ended or taken out of the map.
LEMMA SilentInStep ==
  ASSUME StatusInv, NEW t \in Task,
         phase = "up" => tasks[t] \in Terminal \union {"absent"},
         waiter[t] = "waiting" => tasks[t] \notin Unfinished,
         UNCHANGED <<tasks, waiter, registered, signal, deleting, phase, resume,
                     poller>>,
         exec'[t] = "done", \A u \in Task \ {t} : Advances(u)
  PROVE  StatusInv'
<1>1. \A u \in Task \ {t} : Undisturbed(u)
  BY DEF Undisturbed, Moves
<1>2. Held(t) /\ (phase # "up" => Abandoned(t))
  BY DEF StatusInv, Fine
<1>3. Held(t)'
  BY <1>2 DEF Held, EndedByPoller
<1>4. phase' = "up" => InStep(t)'
  BY DEF InStep, Before, Running
<1>5. phase' # "up" => Abandoned(t)'
  BY <1>2 DEF Abandoned
<1> QED  BY <1>1, <1>3, <1>4, <1>5, OneInStep DEF Fine

\* The catch of a task's caller leaves every task as it should be.
LEMMA CaughtInStep ==
  ASSUME StatusInv, LifeType, NEW t \in Task, Catch(t),
         UNCHANGED <<signal, deleting, phase, resume, poller>>,
         exec'[t] = "done", \A u \in Task \ {t} : Advances(u)
  PROVE  StatusInv'
<1>1. /\ UpdateTasks(Reported({t}), "failed") /\ "failed" \in Terminal
      /\ registered' = registered \ Unregistered(Reported({t}), "failed")
  BY DEF Catch, Terminal
<1>2. CASE Reported({t}) = {t}
  BY <1>1, <1>2, EndedInStep
<1>3. CASE Reported({t}) # {t}
  <2>1. Reported({t}) = {} /\ t \notin Loaded /\ phase # "up"
    BY <1>3 DEF Reported, isDisposing
  <2>2. UNCHANGED <<tasks, waiter, registered>>
    BY <1>1, <2>1 DEF UpdateTasks, Unregistered, LifeType
  <2>3. waiter[t] = "waiting" => tasks[t] \notin Unfinished
    BY <2>1 DEF StatusInv, Fine, Abandoned, Unfinished
  <2> QED  BY <2>1, <2>2, <2>3, SilentInStep
<1> QED  BY <1>2, <1>3

\* Who told an executor to stop has cancelled or deleted its task, or its poller
\* has ended it, or the manager shuts down and nobody waits for it.
LEMMA StoppedTask ==
  ASSUME SlotInv, StatusInv, NEW t \in Task, exec[t] \in Running, Stopped(t)
  PROVE  /\ phase = "up" => tasks[t] \in Terminal \union {"absent"}
         /\ waiter[t] = "waiting" => tasks[t] \notin Unfinished
<1>1. Fine(t) /\ (signal[t] = "aborted" \/ tasks[t] = "cancelled")
  BY DEF StatusInv, Stopped
<1>2. phase = "up" => tasks[t] \in Terminal \union {"absent"}
  BY <1>1 DEF Fine, InStep, EndedByPoller, Terminal
<1>3. ASSUME waiter[t] = "waiting", tasks[t] \in Unfinished
      PROVE  FALSE
  <2>1. signal[t] = "aborted"
    BY <1>1, <1>3 DEF Unfinished
  <2>2. InHand(t)
    BY <1>1, <1>3 DEF Fine, Held, EndedByPoller, Unfinished, Terminal
  <2>3. resume[t] # "none"
    BY <2>1, <2>2 DEF InHand, Before, Running
  <2> QED  BY <2>3 DEF SlotInv, Resting, Running
<1> QED  BY <1>2, <1>3

-----------------------------------------------------------------------------
(***************************************************************************)
(* The steps of the executions.                                            *)
(***************************************************************************)

\* executeTask up to the global slot.
LEMMA StartInStep ==
  ASSUME SlotInv, StatusInv, NEW t \in Task, Start(t)
  PROVE  StatusInv'
<1>0. LifeType /\ Slots
  BY DEF SlotInv
<1>1. PICK wt : wt = FirstClients(PoolOf(t).queue,
                       Admissible(PoolOf(t), TypeLimit[TypeOf[t]]))
  OBVIOUS
<1>2. \A u \in wt : u \in Task /\ exec[u] = "waitType"
  <2>1. TypeOf[t] \in Type
    BY OptionsAssumption
  <2>2. TypeSlots(TypeOf[t], PoolOf(t))
    BY <1>0, <2>1 DEF Slots, PoolOf
  <2>3. wt \subseteq TypeWaiters(TypeOf[t])
    BY <1>1, <2>1, <2>2, TypeResized
  <2> QED  BY <2>3 DEF TypeWaiters
<1>3. /\ exec \in [Task -> Stages] /\ exec[t] = "starting"
      /\ UNCHANGED <<signal, deleting, phase, resume, poller>>
  BY <1>0 DEF Slots, Start, startVars
<1>4. CASE ~globalPool.disposed
  <2>1. PICK stage \in {"hasGlobal", "waitGlobal"} : Goto(t, stage, {}, wt)
    BY <1>1, <1>4 DEF Start
  <2>2. exec'[t] = stage /\ \A u \in Task \ {t} : Advances(u)
    BY <1>2, <1>3, <2>1, GoneTo
  <2>3. UNCHANGED <<tasks, waiter, registered>>
    BY <1>4 DEF Start, Return, lifeVars
  <2>4. \A u \in Task : Undisturbed(u)
    BY <1>3, <2>2, <2>3 DEF Undisturbed, Moves, Advances, Before
  <2> QED  BY <1>3, <2>4, UndisturbedStays DEF StatusInv
<1>5. CASE globalPool.disposed
  <2>1. Goto(t, "done", {}, wt) /\ Catch(t)
    BY <1>1, <1>5 DEF Start
  <2>2. exec'[t] = "done" /\ \A u \in Task \ {t} : Advances(u)
    BY <1>2, <1>3, <2>1, GoneTo
  <2> QED  BY <1>0, <1>3, <2>1, <2>2, CaughtInStep
<1> QED  BY <1>4, <1>5

\* The steps of the executions.
LEMMA ProceedInStep ==
  ASSUME SlotInv, StatusInv, NEW t \in Task, Proceed(t)
  PROVE  StatusInv'
<1>0. LifeType /\ Slots /\ exec \in [Task -> Stages] /\ Fine(t)
  BY DEF SlotInv, Slots, StatusInv
<1> USE DEF lifeVars, runVars, poolVars, startVars
<1>1. CASE StartUnregistered(t)
  <2>1. Catch(t) /\ UNCHANGED <<signal, deleting, phase, resume, poller>>
    BY <1>1 DEF StartUnregistered
  <2>2. exec'[t] = "done" /\ \A u \in Task \ {t} : Advances(u)
    BY <1>0, <1>1 DEF StartUnregistered, Advances
  <2> QED  BY <1>0, <2>1, <2>2, CaughtInStep
<1>2. CASE Start(t)
  BY <1>2, StartInStep
<1>3. CASE AcquireType(t) \/ ExecutorThrows(t) \/ BackoffElapses(t)
  <2>1. \A u \in Task : Moves(u)
    BY <1>0, <1>3 DEF AcquireType, ExecutorThrows, BackoffElapses, Moves,
                      Advances, Before, Running
  <2>2. UNCHANGED <<tasks, waiter, signal, registered, deleting, phase, resume,
                    poller>>
    BY <1>3 DEF AcquireType, ExecutorThrows, BackoffElapses
  <2>3. \A u \in Task : Undisturbed(u)
    BY <2>1, <2>2 DEF Undisturbed
  <2> QED  BY <2>2, <2>3, UndisturbedStays DEF StatusInv
<1>4. CASE SkipCancelled(t)
  <2>1. /\ exec[t] \in TypeStages /\ UnwindBoth(t) /\ Return
        /\ tasks[t] \in Terminal /\ tasks[t] \notin Unfinished
        /\ UNCHANGED <<signal, deleting, phase, resume, poller>>
    BY <1>4 DEF SkipCancelled, TypeStages, Terminal, Unfinished
  <2>2. exec'[t] = "done" /\ \A u \in Task \ {t} : Advances(u)
    BY <1>0, <2>1, UnwoundMoves
  <2> QED  BY <2>1, <2>2, SilentInStep DEF Return
<1>5. CASE BeginExecution(t)
  <2>1. /\ exec[t] = "hasType" /\ tasks[t] # "cancelled"
        /\ UpdateTasks({t}, "running") /\ "running" \notin Terminal
        /\ registered' = registered \union {t}
        /\ signal' = [signal EXCEPT ![t] = "live"]
        /\ exec' = [exec EXCEPT ![t] = "executing"]
        /\ UNCHANGED <<deleting, phase, resume, poller>>
    BY <1>5 DEF BeginExecution, Terminal
  <2>2. /\ \A u \in Task \ {t} : tasks'[u] = tasks[u] /\ waiter'[u] = waiter[u]
        /\ tasks'[t] = IF tasks[t] = "absent" THEN "absent" ELSE "running"
        /\ waiter'[t] = waiter[t]
    BY <1>0, <2>1, UpdatedTask
  <2>3. \A u \in Task \ {t} : Undisturbed(u)
    BY <1>0, <2>1, <2>2 DEF Undisturbed, Moves, Advances, LifeType
  <2>4. exec'[t] = "executing" /\ signal'[t] = "live" /\ t \in registered'
    BY <1>0, <2>1 DEF LifeType
  <2>5. tasks'[t] \in {"absent", "running"}
    BY <2>2
  <2>6. InStep(t)'
    BY <2>4, <2>5 DEF InStep, Before, Running
  <2>7. Held(t)'
    <3>1. InHand(t)' /\ (tasks'[t] = "running" => tasks'[t] \in Unfinished)
      BY <2>4 DEF InHand, Running, Unfinished
    <3>2. waiter'[t] = "waiting" /\ tasks'[t] = "absent" => t \in deleting'
      BY <1>0, <2>1, <2>2
         DEF Fine, Held, EndedByPoller, Terminal, Unfinished
    <3> QED  BY <2>5, <3>1, <3>2 DEF Held
  <2>8. phase' # "up" => Abandoned(t)'
    BY <1>0, <2>1, <2>2 DEF Fine, Abandoned
  <2> QED  BY <2>1, <2>3, <2>6, <2>7, <2>8, OneInStep DEF Fine
<1>6. ASSUME NEW status \in {"completed", "failed"}, ExecutorReturns(t, status)
      PROVE  StatusInv'
  <2>1. /\ exec[t] \in TypeStages /\ exec[t] \in Running /\ UnwindBoth(t)
        /\ UNCHANGED <<signal, deleting, phase, resume, poller>>
    BY <1>6 DEF ExecutorReturns, TypeStages, Running
  <2>2. exec'[t] = "done" /\ \A u \in Task \ {t} : Advances(u)
    BY <1>0, <2>1, UnwoundMoves
  <2>3. CASE Stopped(t) /\ Return
    BY <2>1, <2>2, <2>3, StoppedTask, SilentInStep DEF Return
  <2>4. CASE /\ UpdateTasks({t}, status)
             /\ registered' = registered \ Unregistered({t}, status)
    <3>1. status \in Terminal
      BY DEF Terminal
    <3> QED  BY <1>0, <2>1, <2>2, <2>4, <3>1, EndedInStep
  <2> QED  BY <1>6, <2>3, <2>4 DEF ExecutorReturns
<1>7. CASE ExecutorGivesUp(t)
  <2>1. /\ exec[t] \in TypeStages /\ exec[t] \in Running /\ UnwindBoth(t)
        /\ UNCHANGED <<signal, deleting, phase, resume, poller>>
    BY <1>7 DEF ExecutorGivesUp, TypeStages, Running
  <2>2. exec'[t] = "done" /\ \A u \in Task \ {t} : Advances(u)
    BY <1>0, <2>1, UnwoundMoves
  <2>3. CASE Stopped(t) /\ Return
    BY <2>1, <2>2, <2>3, StoppedTask, SilentInStep DEF Return
  <2>4. CASE Catch(t)
    BY <1>0, <2>1, <2>2, <2>4, CaughtInStep
  <2> QED  BY <1>7, <2>3, <2>4 DEF ExecutorGivesUp
<1>8. CASE BackoffAborted(t)
  <2>1. /\ exec[t] \in TypeStages /\ UnwindBoth(t) /\ Catch(t)
        /\ UNCHANGED <<signal, deleting, phase, resume, poller>>
    BY <1>8 DEF BackoffAborted, TypeStages
  <2>2. exec'[t] = "done" /\ \A u \in Task \ {t} : Advances(u)
    BY <1>0, <2>1, UnwoundMoves
  <2> QED  BY <1>0, <2>1, <2>2, CaughtInStep
<1> QED  BY <1>1, <1>2, <1>3, <1>4, <1>5, <1>6, <1>7, <1>8 DEF Proceed

\* A queue timeout rejects an acquire.
LEMMA TimeoutInStep ==
  ASSUME SlotInv, StatusInv, NEW t \in Task, QueueTimesOut(t)
  PROVE  StatusInv'
<1>0. LifeType /\ Slots
  BY DEF SlotInv
<1>1. Catch(t) /\ UNCHANGED <<signal, deleting, phase, resume, poller>>
  BY DEF QueueTimesOut, startVars
<1>2. exec'[t] = "done" /\ \A u \in Task \ {t} : Advances(u)
  <2>1. CASE exec' = [exec EXCEPT ![t] = "done"]
    BY <1>0, <2>1 DEF Slots, Advances
  <2>2. CASE UnwindGlobal(t) /\ exec[t] = "waitType"
    BY <1>0, <2>2, UnwoundMoves
  <2> QED  BY <2>1, <2>2 DEF QueueTimesOut
<1> QED  BY <1>0, <1>1, <1>2, CaughtInStep

-----------------------------------------------------------------------------
(***************************************************************************)
(* The resumption, the pollers, the calls, and dispose.                    *)
(***************************************************************************)

\* The resumption keeps every task in hand.
LEMMA StartUpInStep ==
  ASSUME SlotInv, StatusInv, NEW t \in Task, StartUp(t)
  PROVE  StatusInv'
<1>0. /\ LifeType /\ exec \in [Task -> Stages] /\ Fine(t)
      /\ resume[t] # "none" /\ t \in Loaded /\ exec[t] = "none"
  <2>1. resume[t] # "none"
    BY DEF StartUp, MarkPending, Adopt, Resume
  <2> QED  BY <2>1 DEF SlotInv, Slots, StatusInv, Resting
<1> USE DEF lifeVars, runVars
<1>1. \A u \in Task \ {t} : Undisturbed(u)
  BY <1>0 DEF StartUp, MarkPending, Adopt, Resume, Undisturbed, Moves, Advances,
              LifeType
<1>2. UNCHANGED <<waiter, deleting, poller, phase>>
  BY DEF StartUp, MarkPending, Adopt, Resume
<1>3. Abandoned(t)'
  BY <1>0 DEF Abandoned
<1>4. CASE MarkPending(t) \/ Adopt(t)
  <2>1. /\ exec'[t] = "none" /\ resume'[t] # "none"
        /\ \/ tasks'[t] = tasks[t] /\ resume'[t] = "saving"
           \/ tasks'[t] = "pending"
    BY <1>0, <1>4 DEF MarkPending, Adopt, LifeType
  <2>2. InHand(t)'
    BY <2>1 DEF InHand
  <2>3. phase = "up" => InStep(t)'
    BY <1>0, <1>2, <2>1
       DEF Fine, InStep, EndedByPoller, Before, Running
  <2>4. Held(t)'
    BY <1>0, <1>2, <2>1, <2>2 DEF Fine, Held, EndedByPoller, Unfinished
  <2> QED  BY <1>1, <1>2, <1>3, <2>3, <2>4, OneInStep DEF Fine
<1>5. CASE Resume(t)
  <2>1. /\ tasks' = tasks /\ resume[t] = "asking"
        /\ \/ exec'[t] = "starting"
           \/ exec'[t] = "none" /\ poller[t] = "polling"
    BY <1>0, <1>5 DEF Resume
  <2>2. InHand(t)'
    BY <1>2, <2>1 DEF InHand, Before
  <2>3. phase = "up" => InStep(t)'
    BY <1>0, <1>2, <2>1
       DEF Fine, InStep, EndedByPoller, Before, Running
  <2>4. Held(t)'
    BY <1>0, <1>2, <2>1, <2>2 DEF Fine, Held, EndedByPoller
  <2> QED  BY <1>1, <1>2, <1>3, <2>3, <2>4, OneInStep DEF Fine
<1> QED  BY <1>4, <1>5 DEF StartUp

\* Who waits for a task that its poller ends is left to itself.
LEMMA PollInStep ==
  ASSUME SlotInv, StatusInv, NEW t \in Task, Poll(t)
  PROVE  StatusInv'
<1>0. /\ LifeType /\ exec \in [Task -> Stages] /\ Fine(t)
      /\ t \in Loaded
  <2>1. poller[t] # "none"
    BY DEF Poll, Upsert, UpsertEnds
  <2> QED  BY <2>1 DEF SlotInv, Slots, StatusInv, Resting
<1> USE DEF lifeVars, runVars
<1>1. \A u \in Task \ {t} : Undisturbed(u)
  BY <1>0 DEF Poll, Upsert, UpsertEnds, Undisturbed, Moves, Advances, LifeType
<1>2. UNCHANGED <<waiter, signal, registered, deleting, resume, phase, exec>>
  BY DEF Poll, Upsert, UpsertEnds
<1>3. Abandoned(t)'
  BY <1>0 DEF Abandoned
<1>4. /\ poller'[t] \in {"announcing", "over"}
      /\ \/ tasks'[t] \in {"completed", "failed"}
         \/ /\ tasks'[t] = tasks[t]
            /\ tasks[t] = "absent" \/ poller[t] = "announcing"
  BY <1>0 DEF Poll, Upsert, UpsertEnds, LifeType
<1>5. phase = "up" => InStep(t)'
  BY <1>0, <1>2, <1>4
     DEF Fine, InStep, EndedByPoller, Before, Running, Terminal
<1>6. Held(t)'
  BY <1>0, <1>2, <1>4
     DEF Fine, Held, InHand, EndedByPoller, Terminal, Unfinished
<1> QED  BY <1>1, <1>2, <1>3, <1>5, <1>6, OneInStep DEF Fine

\* The calls of the manager's owner and of the waiters.
LEMMA CallsInStep ==
  ASSUME SlotInv, StatusInv, NEW t \in Task,
         \/ Submit(t) \/ Cancel(t) \/ Delete(t) \/ DeleteEnds(t)
         \/ WaitForCompletion(t) \/ WaiterTimesOut(t)
  PROVE  StatusInv'
<1>0. LifeType /\ exec \in [Task -> Stages] /\ Fine(t) /\ Resting(t)
  BY DEF SlotInv, Slots, StatusInv
<1> USE DEF lifeVars, runVars, poolVars, startVars
<1>1. CASE Submit(t)
  <2>1. \A u \in Task \ {t} : Undisturbed(u)
    BY <1>0, <1>1 DEF Submit, Undisturbed, Moves, Advances, LifeType
  <2>2. exec'[t] = "starting" /\ tasks'[t] = "pending"
        /\ phase = "up" /\ phase' = phase
    BY <1>0, <1>1 DEF Submit, LifeType
  <2>3. InStep(t)' /\ Held(t)'
    BY <2>2 DEF InStep, Held, InHand, Before, Running, Unfinished
  <2> QED  BY <2>1, <2>2, <2>3, OneInStep DEF Fine
<1>2. CASE Cancel(t)
  <2>1. /\ tasks[t] \in Unfinished
        /\ UpdateTasks({t}, "cancelled") /\ "cancelled" \in Terminal
        /\ registered' = registered \ {t}
        /\ signal' = [signal EXCEPT ![t] = IF t \in registered THEN "aborted"
                                           ELSE @]
        /\ UNCHANGED <<exec, deleting, phase, resume, poller>> /\ phase = "up"
    BY <1>2 DEF Cancel, Terminal
  <2>2. /\ \A u \in Task \ {t} : tasks'[u] = tasks[u] /\ waiter'[u] = waiter[u]
        /\ tasks'[t] = IF tasks[t] = "absent" THEN "absent" ELSE "cancelled"
        /\ waiter'[t] = IF tasks[t] # "absent" /\ waiter[t] = "waiting"
                        THEN "resolved" ELSE waiter[t]
    BY <1>0, <2>1, UpdatedTask
  <2>3. \A u \in Task \ {t} : Undisturbed(u)
    BY <1>0, <2>1, <2>2 DEF Undisturbed, Moves, Advances, LifeType
  <2>4. tasks'[t] = "cancelled" /\ waiter'[t] # "waiting"
    BY <2>1, <2>2 DEF Unfinished
  <2>5. exec[t] \in Running => signal'[t] = "aborted"
    BY <1>0, <2>1
       DEF Fine, InStep, EndedByPoller, LifeType, Unfinished, Terminal
  <2>6. InStep(t)' /\ Held(t)'
    BY <1>0, <2>1, <2>4, <2>5 DEF InStep, Held, Terminal, Before, Running
  <2> QED  BY <2>1, <2>3, <2>6, OneInStep DEF Fine
<1>3. CASE Delete(t)
  <2>1. \A u \in Task \ {t} : Undisturbed(u)
    BY <1>3 DEF Delete, Undisturbed, Moves, Advances, LifeType
  <2>2. tasks'[t] = "absent" /\ t \in deleting' /\ phase = "up" /\ phase' = phase
    BY <1>0, <1>3 DEF Delete, LifeType
  <2>3. InStep(t)' /\ Held(t)'
    BY <2>2 DEF InStep, Held
  <2> QED  BY <2>1, <2>2, <2>3, OneInStep DEF Fine
<1>4. CASE DeleteEnds(t) \/ WaiterTimesOut(t)
  <2>1. \A u \in Task \ {t} : Undisturbed(u)
    <3>1. CASE DeleteEnds(t)
      BY <3>1 DEF DeleteEnds, Undisturbed, Moves, Advances, LifeType
    <3>2. CASE WaiterTimesOut(t)
      BY <3>2 DEF WaiterTimesOut, Undisturbed, Moves, Advances, LifeType
    <3> QED  BY <1>4, <3>1, <3>2
  <2>2. waiter'[t] # "waiting"
        /\ UNCHANGED <<tasks, exec, signal, registered, resume, poller, phase>>
    BY <1>0, <1>4 DEF DeleteEnds, WaiterTimesOut, LifeType
  <2>3. Held(t)' /\ Abandoned(t)' /\ (phase = "up" => InStep(t)')
    BY <1>0, <2>2 DEF Fine, InStep, Held, Abandoned, EndedByPoller
  <2> QED  BY <2>1, <2>2, <2>3, OneInStep DEF Fine
<1>5. CASE WaitForCompletion(t)
  <2>1. \A u \in Task \ {t} : Undisturbed(u)
    BY <1>5 DEF WaitForCompletion, Undisturbed, Moves, Advances, LifeType
  <2>2. /\ waiter'[t] = "waiting" => tasks[t] \in Unfinished
        /\ UNCHANGED <<tasks, exec, signal, registered, resume, poller, phase,
                       deleting>>
        /\ phase = "up"
    BY <1>0, <1>5 DEF WaitForCompletion, LifeType, Statuses, Unfinished
  <2>3. tasks[t] \in Unfinished => InHand(t)
    BY <1>0, <2>2 DEF Fine, InStep, InHand, EndedByPoller, Before, Running,
                      Stages, Terminal, Unfinished
  <2>4. InStep(t)'
    BY <1>0, <2>2 DEF Fine, InStep, EndedByPoller
  <2>5. Held(t)'
    BY <2>2, <2>3 DEF Held, InHand
  <2> QED  BY <2>1, <2>2, <2>4, <2>5, OneInStep DEF Fine
<1> QED  BY <1>1, <1>2, <1>3, <1>4, <1>5

\* dispose answers everybody who waits for an unfinished task.
LEMMA DisposeInStep ==
  ASSUME SlotInv, StatusInv, Dispose
  PROVE  StatusInv'
<1> SUFFICES ASSUME NEW t \in Task  PROVE Fine(t)'
  BY DEF StatusInv
<1>0. LifeType /\ Fine(t) /\ Resting(t)
  BY DEF SlotInv, StatusInv
<1>1. /\ phase' = "flushing"
      /\ UNCHANGED <<deleting, poller>>
      /\ waiter'[t] = "waiting" =>
           /\ waiter[t] = "waiting"
           /\ tasks[t] \notin Unfinished /\ tasks'[t] = tasks[t]
  BY <1>0 DEF Dispose, LifeType, startVars, Unfinished
<1>2. Held(t)'
  BY <1>0, <1>1 DEF Fine, Held, EndedByPoller
<1>3. Abandoned(t)'
  BY <1>0, <1>1 DEF Fine, Held, Abandoned, EndedByPoller, Resting
<1> QED  BY <1>1, <1>2, <1>3 DEF Fine

\* Whom the pools reject has failed, or nobody waits for it.
LEMMA DisposeEndsInStep ==
  ASSUME SlotInv, StatusInv, DisposeEnds
  PROVE  StatusInv'
<1> SUFFICES ASSUME NEW t \in Task  PROVE Fine(t)'
  BY DEF StatusInv
<1> DEFINE R == {u \in Task : exec[u] \in {"waitGlobal", "waitType"}}
<1>0. LifeType /\ Fine(t) /\ Resting(t) /\ exec \in [Task -> Stages]
  BY DEF SlotInv, Slots, StatusInv
<1>1. /\ UpdateTasks(Reported(R), "failed") /\ "failed" \in Terminal
      /\ phase = "flushing" /\ phase' = "disposed"
      /\ exec' = [u \in Task |-> IF u \in R THEN "done" ELSE exec[u]]
      /\ UNCHANGED <<signal, deleting, resume, poller>>
  BY DEF DisposeEnds, Terminal, startVars
<1>r. Reported(R) = {u \in R : u \in Loaded}
  BY <1>1 DEF Reported, isDisposing
<1>2. CASE t \in Reported(R)
  <2>1. (tasks[t] = "absent" /\ tasks'[t] = "absent") \/ waiter'[t] # "waiting"
    BY <1>0, <1>1, <1>2 DEF UpdateTasks, LifeType
  <2>2. waiter'[t] = "waiting" => waiter[t] = "waiting"
    BY <1>0, <1>1 DEF UpdateTasks, LifeType
  <2>3. Held(t)' /\ Abandoned(t)'
    BY <1>0, <1>1, <2>1, <2>2
       DEF Fine, Held, Abandoned, EndedByPoller, Terminal, Unfinished
  <2> QED  BY <1>1, <2>3 DEF Fine
<1>3. CASE t \notin Reported(R)
  <2>1. tasks'[t] = tasks[t] /\ waiter'[t] = waiter[t]
    BY <1>0, <1>1, <1>3 DEF UpdateTasks, LifeType
  <2>2. Abandoned(t)'
    BY <1>0, <1>1, <2>1 DEF Fine, Abandoned
  <2>3. CASE t \in R
    <3>1. waiter[t] = "waiting" => tasks[t] = "absent"
      BY <1>0, <1>1, <1>r, <1>3, <2>3 DEF Fine, Abandoned
    <3>2. Held(t)'
      BY <1>0, <1>1, <2>1, <3>1
         DEF Fine, Held, EndedByPoller, Terminal, Unfinished
    <3> QED  BY <1>1, <2>2, <3>2 DEF Fine
  <2>4. CASE t \notin R
    <3>1. exec'[t] = exec[t]
      BY <1>1, <2>4
    <3>2. Held(t)'
      BY <1>0, <1>1, <2>1, <3>1 DEF Fine, Held, InHand, EndedByPoller
    <3> QED  BY <1>1, <2>2, <3>2 DEF Fine
  <2> QED  BY <2>3, <2>4
<1> QED  BY <1>2, <1>3

-----------------------------------------------------------------------------
\* What has just been read from the storage is in the resumption's hands.
LEMMA StatusInvInit == Init => StatusInv
<1> SUFFICES ASSUME Init, NEW t \in Task  PROVE Fine(t)
  BY DEF StatusInv
<1>1. /\ phase = "up" /\ waiter[t] = "none" /\ exec[t] = "none"
      /\ tasks[t] \in Unfinished \union {"absent"}
      /\ tasks[t] # "absent" => resume[t] = tasks[t]
  BY DEF Init
<1>2. InStep(t) /\ Held(t)
  BY <1>1 DEF InStep, Held, Before, Running, Unfinished
<1> QED  BY <1>1, <1>2 DEF Fine

\* Every step keeps the invariant.
LEMMA StatusInvStep == SlotInv /\ StatusInv /\ [Next]_vars => StatusInv'
<1> SUFFICES ASSUME SlotInv, StatusInv, [Next]_vars  PROVE StatusInv'
  OBVIOUS
<1>1. CASE UNCHANGED vars
  BY <1>1 DEF vars, lifeVars, runVars, poolVars, startVars, StatusInv, Fine,
              InStep, Held, InHand, EndedByPoller, Abandoned
<1>2. ASSUME NEW t \in Task, StartUp(t) \/ Poll(t) \/ Proceed(t) \/ QueueTimesOut(t)
      PROVE  StatusInv'
  BY <1>2, StartUpInStep, PollInStep, ProceedInStep, TimeoutInStep
<1>3. ASSUME NEW t \in Task,
             \/ Submit(t) \/ Cancel(t) \/ Delete(t) \/ DeleteEnds(t)
             \/ WaitForCompletion(t) \/ WaiterTimesOut(t)
      PROVE  StatusInv'
  BY <1>3, CallsInStep
<1>4. CASE Dispose \/ DisposeEnds
  BY <1>4, DisposeInStep, DisposeEndsInStep
<1> QED  BY <1>1, <1>2, <1>3, <1>4 DEF Next

\* The invariant holds in every state of the manager.
LEMMA StatusInvariant == Spec => []StatusInv
BY StatusInvInit, StatusInvStep, SlotInvariant, PTL DEF Spec

\* Nobody waits for a task that no execution, resumption, poller or delete will
\* answer for, before dispose or after it; but the waiters of a task that its
\* poller has ended are left to their own timers.
THEOREM NobodyIsStranded == Spec => []NoStrandedWaiter
<1>1. StatusInv => NoStrandedWaiter
  <2> SUFFICES ASSUME StatusInv, NEW t \in Task, waiter[t] = "waiting"
               PROVE  \/ /\ tasks[t] \in Unfinished
                         /\ \/ exec[t] \notin {"none", "done"}
                            \/ resume[t] # "none"
                            \/ poller[t] = "polling"
                      \/ tasks[t] = "absent" /\ t \in deleting
                      \/ EndedByPoller(t)
    BY DEF NoStrandedWaiter
  <2> QED  BY DEF StatusInv, Fine, Held, InHand, Before, Running
<1> QED  BY <1>1, StatusInvariant, PTL

\* Until dispose, cancel finds the live controller of every running task, and
\* an executor that outlives the status of its task was told to stop, unless
\* the task was deleted or ended by its poller.
THEOREM CancelReaches == Spec => []AbortReachesExecutors
<1>1. SlotInv /\ StatusInv => AbortReachesExecutors
  <2> SUFFICES ASSUME SlotInv, StatusInv, phase = "up", NEW t \in Task
               PROVE  /\ tasks[t] = "running" =>
                           \/ /\ t \in registered
                              /\ signal[t] = "live"
                              /\ exec[t] \in {"executing", "backoff"}
                           \/ resume[t] \in {"running", "saving"}
                      /\ /\ exec[t] \in {"executing", "backoff"}
                         /\ tasks[t] \in Terminal
                         => \/ tasks[t] = "cancelled" /\ signal[t] = "aborted"
                            \/ EndedByPoller(t)
    BY DEF AbortReachesExecutors
  <2>1. InStep(t) /\ exec[t] \in Stages
    BY DEF SlotInv, Slots, StatusInv, Fine
  <2>2. tasks[t] = "running" =>
          exec[t] \in Running \/ resume[t] \in {"running", "saving"}
    BY <2>1 DEF InStep, EndedByPoller, Stages, Before, Running, Terminal
  <2>3. ASSUME tasks[t] = "running", exec[t] \in Running
        PROVE  t \in registered /\ signal[t] = "live"
    BY <2>1, <2>3 DEF InStep, EndedByPoller, Terminal
  <2>4. ASSUME exec[t] \in Running, tasks[t] \in Terminal
        PROVE  \/ tasks[t] = "cancelled" /\ signal[t] = "aborted"
               \/ EndedByPoller(t)
    BY <2>1, <2>4 DEF InStep, Terminal
  <2> QED  BY <2>2, <2>3, <2>4 DEF Running
<1> QED  BY <1>1, SlotInvariant, StatusInvariant, PTL

-----------------------------------------------------------------------------
(***************************************************************************)
(* What the refinement needs to know of a submitted task before and after  *)
(* dispose: an execution that has not ended did not yet say how it ended.  *)
(***************************************************************************)

Unsettled(t) == t \notin Loaded =>
  /\ exec[t] = "none" => tasks[t] = "absent"
  /\ exec[t] \notin {"none", "done"} => tasks[t] \notin {"completed", "failed"}

UnsettledInv == \A t \in Task : Unsettled(t)

\* A step that ends an execution, or leaves the status of its task alone.
LEMMA UnsettledSame ==
  ASSUME NEW u \in Task, Unsettled(u), tasks'[u] = tasks[u],
         \/ exec'[u] = exec[u]
         \/ exec[u] # "none" /\ exec'[u] # "none" /\ exec[u] # "done"
  PROVE  Unsettled(u)'
BY DEF Unsettled

\* Whatever else an execution does, it says nothing about its task, or that it
\* runs, or how it ended.
LEMMA StepShape ==
  ASSUME NEW t \in Task, Proceed(t) \/ QueueTimesOut(t), SlotInv
  PROVE  /\ phase' = phase /\ deleting' = deleting /\ poller' = poller
         /\ \/ UNCHANGED lifeVars
            \/ /\ UpdateTasks({t}, "running")
               /\ exec[t] = "hasType" /\ tasks[t] # "cancelled"
            \/ \E S \in SUBSET {t}, status \in Terminal :
                 UpdateTasks(S, status) /\ exec'[t] = "done"
<1>0. Slots /\ exec \in [Task -> Stages]
  BY DEF SlotInv, Slots
<1>1. phase' = phase /\ deleting' = deleting /\ poller' = poller
  BY DEF startVars, Proceed, StartUnregistered, Start, AcquireType, SkipCancelled,
         BeginExecution, ExecutorReturns, ExecutorThrows, ExecutorGivesUp,
         BackoffElapses, BackoffAborted, QueueTimesOut
<1>2. ASSUME Catch(t), exec'[t] = "done"
      PROVE  \E S \in SUBSET {t}, status \in Terminal :
               UpdateTasks(S, status) /\ exec'[t] = "done"
  <2>1. Reported({t}) \in SUBSET {t} /\ "failed" \in Terminal
        /\ UpdateTasks(Reported({t}), "failed")
    BY <1>2 DEF Catch, Reported, Terminal
  <2> QED  BY <1>2, <2>1
<1>3. CASE AcquireType(t) \/ ExecutorThrows(t) \/ BackoffElapses(t)
  BY <1>1, <1>3 DEF AcquireType, ExecutorThrows, BackoffElapses
<1>4. CASE BeginExecution(t)
  BY <1>1, <1>4 DEF BeginExecution
<1>5. CASE StartUnregistered(t)
  <2>1. Catch(t) /\ exec'[t] = "done"
    BY <1>0, <1>5 DEF StartUnregistered
  <2> QED  BY <1>1, <1>2, <2>1
<1>6. CASE Start(t)
  <2>1. CASE Return
    BY <1>1, <2>1 DEF Return
  <2>2. CASE Catch(t) /\ \E wt : Goto(t, "done", {}, wt)
    <3>1. exec'[t] = "done"
      BY <2>2 DEF Goto
    <3> QED  BY <1>1, <1>2, <2>2, <3>1
  <2> QED  BY <1>6, <2>1, <2>2 DEF Start
<1>7. CASE SkipCancelled(t)
  BY <1>1, <1>7 DEF SkipCancelled, Return
<1>8. ASSUME \/ ExecutorGivesUp(t) \/ BackoffAborted(t)
             \/ \E status \in {"completed", "failed"} :
                  ExecutorReturns(t, status)
      PROVE  exec'[t] = "done"
  BY <1>8 DEF ExecutorGivesUp, BackoffAborted, ExecutorReturns, UnwindBoth, Goto
<1>9. CASE ExecutorGivesUp(t)
  BY <1>1, <1>2, <1>8, <1>9 DEF ExecutorGivesUp, Return
<1>10. CASE BackoffAborted(t)
  BY <1>1, <1>2, <1>8, <1>10 DEF BackoffAborted
<1>11. ASSUME NEW status \in {"completed", "failed"}, ExecutorReturns(t, status)
       PROVE  \/ UNCHANGED lifeVars
              \/ \E S \in SUBSET {t}, st \in Terminal :
                   UpdateTasks(S, st) /\ exec'[t] = "done"
  <2>1. CASE Return
    BY <2>1 DEF Return
  <2>2. CASE UpdateTasks({t}, status)
    <3>1. status \in Terminal /\ {t} \in SUBSET {t}
      BY DEF Terminal
    <3> QED  BY <1>8, <1>11, <2>2, <3>1
  <2> QED  BY <1>11, <2>1, <2>2 DEF ExecutorReturns
<1>12. CASE QueueTimesOut(t)
  <2>1. exec'[t] = "done" /\ Catch(t)
    BY <1>0, <1>12 DEF QueueTimesOut, UnwindGlobal, Goto
  <2> QED  BY <1>1, <1>2, <2>1
<1> QED  BY <1>1, <1>3, <1>4, <1>5, <1>6, <1>7, <1>9, <1>10, <1>11, <1>12
         DEF Proceed

\* Every step keeps it.
LEMMA UnsettledStep == SlotInv /\ UnsettledInv /\ [Next]_vars => UnsettledInv'
<1> SUFFICES ASSUME SlotInv, UnsettledInv, [Next]_vars, NEW u \in Task
             PROVE  Unsettled(u)'
  BY DEF UnsettledInv
<1>0. /\ LifeType /\ Slots /\ exec \in [Task -> Stages] /\ Unsettled(u)
      /\ \A t \in Task : Resting(t)
  BY DEF SlotInv, Slots, UnsettledInv
<1> USE DEF lifeVars, runVars
<1>1. ASSUME NEW t \in Task, Proceed(t) \/ QueueTimesOut(t)
      PROVE  Unsettled(u)'
  <2>1. /\ exec[t] \notin {"none", "done"} /\ exec'[t] # "none"
        /\ \A v \in Task \ {t} : Advances(v)
    BY <1>0, <1>1, StagesMove
  <2>2. CASE u # t
    <3>1. tasks'[u] = tasks[u]
      <4>1. CASE UNCHANGED lifeVars
        BY <4>1
      <4>2. CASE \E S \in SUBSET {t} : \E status : UpdateTasks(S, status)
        BY <2>2, <4>2, UpdatedStatus
      <4> QED  BY <1>1, <4>1, <4>2, StepShape
    <3>2. Advances(u)
      BY <2>1, <2>2
    <3> QED  BY <1>0, <3>1, <3>2 DEF Unsettled, Advances, Before
  <2>3. CASE u = t
    <3>1. CASE UNCHANGED lifeVars
      BY <1>0, <2>1, <2>3, <3>1 DEF Unsettled
    <3>2. CASE UpdateTasks({t}, "running")
      <4>1. tasks'[t] \in {tasks[t], "running"}
        BY <3>2, UpdatedStatus
      <4> QED  BY <1>0, <2>1, <2>3, <4>1 DEF Unsettled
    <3>3. CASE exec'[t] = "done"
      BY <2>3, <3>3 DEF Unsettled
    <3> QED  BY <1>1, <3>1, <3>2, <3>3, StepShape
  <2> QED  BY <2>2, <2>3
<1>2. ASSUME NEW t \in Task, Submit(t)  PROVE Unsettled(u)'
  BY <1>0, <1>2 DEF Submit, Unsettled, LifeType
<1>3. ASSUME NEW t \in Task, Cancel(t)  PROVE Unsettled(u)'
  <2>1. UpdateTasks({t}, "cancelled") /\ exec' = exec
    BY <1>3 DEF Cancel
  <2>2. tasks'[u] = IF u = t /\ tasks[u] # "absent" THEN "cancelled" ELSE tasks[u]
    BY <2>1, UpdatedStatus
  <2> QED  BY <1>0, <2>1, <2>2 DEF Unsettled
<1>4. ASSUME NEW t \in Task, Delete(t)  PROVE Unsettled(u)'
  BY <1>0, <1>4 DEF Delete, Unsettled, LifeType
<1>5. ASSUME NEW t \in Task,
             DeleteEnds(t) \/ WaitForCompletion(t) \/ WaiterTimesOut(t)
      PROVE  Unsettled(u)'
  BY <1>0, <1>5 DEF DeleteEnds, WaitForCompletion, WaiterTimesOut, Unsettled
<1>6. CASE Dispose
  BY <1>0, <1>6 DEF Dispose, Unsettled, LifeType, Unfinished
<1>7. CASE DisposeEnds
  <2> DEFINE R == {t \in Task : exec[t] \in {"waitGlobal", "waitType"}}
  <2>1. UpdateTasks(Reported(R), "failed") /\ Reported(R) \subseteq R
    BY <1>7 DEF DisposeEnds, Reported
  <2>2. exec' = [t \in Task |-> IF t \in R THEN "done" ELSE exec[t]]
    BY <1>7 DEF DisposeEnds
  <2>3. CASE u \in R
    BY <2>2, <2>3 DEF Unsettled
  <2>4. CASE u \notin R
    <3>1. tasks'[u] = tasks[u]
      BY <2>1, <2>4, UpdatedStatus
    <3> QED  BY <1>0, <2>2, <2>4, <3>1 DEF Unsettled
  <2> QED  BY <2>3, <2>4
<1>8. CASE UNCHANGED vars
  BY <1>0, <1>8 DEF vars, Unsettled
<1>9. ASSUME NEW t \in Task, StartUp(t) \/ Poll(t)  PROVE Unsettled(u)'
  <2>1. t \in Loaded
    BY <1>0, <1>9 DEF StartUp, MarkPending, Adopt, Resume, Poll, Upsert,
                      UpsertEnds, Resting
  <2>2. u # t => tasks'[u] = tasks[u] /\ exec'[u] = exec[u]
    BY <1>0, <1>9 DEF StartUp, MarkPending, Adopt, Resume, Poll, Upsert,
                      UpsertEnds, LifeType
  <2> QED  BY <1>0, <2>1, <2>2 DEF Unsettled
<1> QED  BY <1>1, <1>2, <1>3, <1>4, <1>5, <1>6, <1>7, <1>8, <1>9 DEF Next

\* It holds in every state of the manager.
LEMMA UnsettledInvariant == Spec => []UnsettledInv
<1>1. Init => UnsettledInv
  BY DEF Init, UnsettledInv, Unsettled
<1> QED  BY <1>1, UnsettledStep, SlotInvariant, PTL DEF Spec

-----------------------------------------------------------------------------
(***************************************************************************)
(* Steps of the lifecycle.                                                 *)
(***************************************************************************)

\* Nobody waits for a submitted task that has ended.
WaitersHope ==
  \A t \in Task \ Loaded : waiter[t] = "waiting" => tasks[t] \notin Terminal

\* The status invariant says as much of the waiters as the refinement needs.
LEMMA HopeHolds ==
  ASSUME SlotInv, StatusInv
  PROVE  WaitersHope
BY DEF SlotInv, Resting, StatusInv, Fine, Held, EndedByPoller, WaitersHope,
       Terminal, Unfinished

\* What a lifecycle sees of each task.
LEMMA LifeStateFacts ==
  ASSUME LifeType, NEW t \in Task
  PROVE  /\ LifeState(t) = "absent" <=>
              tasks[t] = "absent" /\ exec[t] = "none" /\ t \notin Loaded
         /\ LifeState(t) = "removed" <=>
              tasks[t] = "absent" /\ (exec[t] # "none" \/ t \in Loaded)
         /\ LifeState(t) = "closed" <=> tasks[t] \in Terminal
         /\ LifeState(t) = "open" <=> tasks[t] \in Unfinished
BY DEF LifeState, LifeType, Statuses, Terminal, Unfinished

\* An update of tasks to a terminal status closes those that are open, and the
\* recovered ones that are closed once more.
LEMMA UpdateCloses ==
  ASSUME LifeType, WaitersHope, NEW S \in SUBSET Task, NEW status \in Terminal,
         UpdateTasks(S, status), isDisposing' = isDisposing, poller' = poller,
         \A u \in Task : exec'[u] = "none" <=> exec[u] = "none"
  PROVE  [Life!Next]_(Life!vars)
<1> DEFINE C == {u \in S : \/ LifeState(u) = "open"
                           \/ LifeState(u) = "closed" /\ u \in Loaded}
<1>1. \A u \in Task : LifeState(u)' = IF u \in C THEN "closed" ELSE LifeState(u)
  <2> SUFFICES ASSUME NEW u \in Task
               PROVE  LifeState(u)' = IF u \in C THEN "closed" ELSE LifeState(u)
    OBVIOUS
  <2>1. tasks'[u] = IF u \in S /\ tasks[u] # "absent" THEN status ELSE tasks[u]
    BY UpdatedStatus
  <2>2. CASE u \in S /\ tasks[u] # "absent"
    <3>1. LifeState(u)' = "closed"
      BY <2>1, <2>2 DEF LifeState, Terminal
    <3>2. LifeState(u) \in {"closed", "open"}
      BY <2>2 DEF LifeState
    <3> QED  BY <2>2, <3>1, <3>2
  <2>3. CASE ~(u \in S /\ tasks[u] # "absent")
    <3>1. LifeState(u)' = LifeState(u)
      BY <2>1, <2>3 DEF LifeState, Terminal
    <3>2. u \notin C
      BY <2>3 DEF LifeState
    <3> QED  BY <3>1, <3>2
  <2> QED  BY <2>2, <2>3
<1>2. waiter' = [u \in Task |-> IF u \in C /\ waiter[u] = "waiting"
                                THEN "resolved" ELSE waiter[u]]
  <2>1. \A u \in Task : waiter[u] = "waiting" =>
          (u \in S /\ tasks[u] # "absent" <=> u \in C)
    BY DEF WaitersHope, LifeState
  <2> HIDE DEF C
  <2> QED  BY <2>1 DEF UpdateTasks
<1>3. told' = [u \in Task |-> IF /\ u \in C /\ LifeState(u) = "open"
                                 /\ ~isDisposing
                              THEN told[u] + 1 ELSE told[u]]
  <2>1. \A u \in Task :
          (u \in S /\ tasks[u] # "absent" /\ tasks[u] \notin Terminal)
            <=> u \in C /\ LifeState(u) = "open"
    BY DEF LifeState
  <2> HIDE DEF C
  <2> QED  BY <2>1 DEF UpdateTasks
<1>4. /\ [u \in Task |-> LifeState(u)]'
           = [u \in Task |-> IF u \in C THEN "closed" ELSE LifeState(u)]
      /\ C \in SUBSET Task
      /\ \A u \in C : \/ LifeState(u) = "open"
                      \/ LifeState(u) = "closed" /\ u \in Loaded
  BY <1>1
<1>o. {u \in Task : poller[u] = "announcing"}'
        = {u \in Task : poller[u] = "announcing"}
  OBVIOUS
<1> HIDE DEF C
<1>5. CASE C = {}
  <2>1. [u \in Task |-> LifeState(u)]' = [u \in Task |-> LifeState(u)]
    BY <1>4, <1>5
  <2>2. waiter' = waiter /\ told' = told
    BY <1>2, <1>3, <1>5 DEF LifeType
  <2> QED  BY <1>o, <2>1, <2>2 DEF Life!vars
<1>6. CASE C # {}
  <2>1. Life!Close(C)
    BY <1>2, <1>3, <1>4, <1>o, <1>6 DEF Life!Close
  <2> QED  BY <1>4, <2>1 DEF Life!Next
<1> QED  BY <1>5, <1>6

\* A step that changes nothing a caller can see.
LEMMA UnseenStep ==
  ASSUME \A u \in Task : LifeState(u)' = LifeState(u),
         told' = told, waiter' = waiter, isDisposing' = isDisposing,
         poller' = poller
  PROVE  UNCHANGED Life!vars
BY DEF Life!vars

\* Tasks whose end is still to be announced.
Owed == {u \in Task : poller[u] = "announcing"}

\* The steps of an execution close its task, take up one that was closed by its
\* poller, or are not seen.
LEMMA ProceedRefines ==
  ASSUME SlotInv, UnsettledInv, WaitersHope, NEW t \in Task,
         Proceed(t) \/ QueueTimesOut(t)
  PROVE  [Life!Next]_(Life!vars)
<1> DEFINE places == [u \in Task |-> LifeState(u)]
<1>0. LifeType /\ Slots /\ Unsettled(t)
  BY DEF SlotInv, UnsettledInv
<1>1. /\ exec[t] \notin {"none", "done"} /\ exec'[t] # "none"
      /\ \A u \in Task \ {t} : Advances(u)
  BY <1>0, StagesMove
<1>2. \A u \in Task : exec'[u] = "none" <=> exec[u] = "none"
  BY <1>1 DEF Advances, Before
<1>3. isDisposing' = isDisposing /\ poller' = poller /\ Owed' = Owed
  BY StepShape DEF isDisposing, Owed
<1>4. CASE UNCHANGED lifeVars
  <2>1. \A u \in Task : LifeState(u)' = LifeState(u)
    BY <1>2, <1>4 DEF lifeVars, LifeState, Terminal
  <2> QED  BY <1>3, <1>4, <2>1, UnseenStep DEF lifeVars
<1>5. CASE /\ UpdateTasks({t}, "running")
           /\ exec[t] = "hasType" /\ tasks[t] # "cancelled"
  <2>1. "running" \notin Terminal /\ (tasks[t] \in Terminal => t \in Loaded)
    BY <1>0, <1>5 DEF Unsettled, Terminal
  <2>2. \A u \in Task :
          tasks'[u] = IF u = t /\ tasks[u] # "absent" THEN "running"
                      ELSE tasks[u]
    BY <1>5, UpdatedStatus
  <2>3. waiter' = waiter /\ told' = told
    BY <1>0, <1>5, <2>1 DEF UpdateTasks, LifeType
  <2>4. CASE tasks[t] \notin Terminal
    <3>1. \A u \in Task : LifeState(u)' = LifeState(u)
      BY <1>2, <2>1, <2>2, <2>4 DEF LifeState, Terminal
    <3> QED  BY <1>3, <2>3, <3>1, UnseenStep
  <2>5. CASE tasks[t] \in Terminal
    <3>1. LifeState(t) = "closed" /\ LifeState(t)' = "open"
      BY <2>1, <2>2, <2>5 DEF LifeState, Terminal
    <3>2. \A u \in Task \ {t} : LifeState(u)' = LifeState(u)
      BY <1>2, <2>2 DEF LifeState, Terminal
    <3>3. places' = [places EXCEPT ![t] = "open"]
      BY <3>1, <3>2
    <3>4. Life!Reopen(t)
      BY <1>3, <2>1, <2>3, <2>5, <3>1, <3>3 DEF Life!Reopen, Owed
    <3> QED  BY <3>4 DEF Life!Next
  <2> QED  BY <2>4, <2>5
<1>6. CASE \E S \in SUBSET {t}, status \in Terminal : UpdateTasks(S, status)
  <2>1. PICK S \in SUBSET Task, status \in Terminal : UpdateTasks(S, status)
    BY <1>6
  <2> QED  BY <1>0, <1>2, <1>3, <2>1, UpdateCloses
<1> QED  BY <1>4, <1>5, <1>6, StepShape

\* The resumption reopens what was closed or removed meanwhile, or is not seen.
LEMMA StartUpRefines ==
  ASSUME SlotInv, NEW t \in Task, StartUp(t)
  PROVE  [Life!Next]_(Life!vars)
<1> DEFINE places == [u \in Task |-> LifeState(u)]
<1>0. LifeType /\ exec \in [Task -> Stages] /\ t \in Loaded
  BY DEF SlotInv, Slots, Resting, StartUp, MarkPending, Adopt, Resume
<1> USE DEF lifeVars, runVars
<1>1. /\ waiter' = waiter /\ told' = told /\ poller' = poller
      /\ isDisposing' = isDisposing /\ Owed' = Owed
  BY DEF StartUp, MarkPending, Adopt, Resume, isDisposing, Owed
<1>2. \A u \in Task \ {t} : LifeState(u)' = LifeState(u)
  <2>1. \A u \in Task \ {t} : tasks'[u] = tasks[u] /\ exec'[u] = exec[u]
    BY <1>0 DEF StartUp, MarkPending, Adopt, Resume, LifeType
  <2> QED  BY <2>1 DEF LifeState, Terminal
<1>3. CASE MarkPending(t) \/ Resume(t)
  <2>1. LifeState(t)' = LifeState(t)
    BY <1>0, <1>3 DEF MarkPending, Resume, LifeState, Terminal
  <2> QED  BY <1>1, <1>2, <2>1, UnseenStep
<1>4. CASE Adopt(t)
  <2>1. LifeState(t)' = "open"
    BY <1>0, <1>4 DEF Adopt, LifeState, LifeType, Terminal
  <2>2. LifeState(t) \in {"open", "closed", "removed"}
    BY <1>0 DEF LifeState
  <2>3. CASE LifeState(t) = "open"
    BY <1>1, <1>2, <2>1, <2>3, UnseenStep
  <2>4. CASE LifeState(t) \in {"closed", "removed"}
    <3>1. places' = [places EXCEPT ![t] = "open"]
      BY <1>2, <2>1
    <3>2. Life!Reopen(t)
      BY <1>0, <1>1, <2>4, <3>1 DEF Life!Reopen, Owed
    <3> QED  BY <3>2 DEF Life!Next
  <2> QED  BY <2>2, <2>3, <2>4
<1> QED  BY <1>3, <1>4 DEF StartUp

\* A poller closes its task quietly and announces it afterwards.
LEMMA PollRefines ==
  ASSUME SlotInv, NEW t \in Task, Poll(t)
  PROVE  [Life!Next]_(Life!vars)
<1> DEFINE places == [u \in Task |-> LifeState(u)]
<1>0. LifeType /\ t \in Loaded
  BY DEF SlotInv, Resting, Poll, Upsert, UpsertEnds
<1> USE DEF lifeVars, runVars
<1>1. waiter' = waiter /\ isDisposing' = isDisposing /\ exec' = exec
  BY DEF Poll, Upsert, UpsertEnds, isDisposing
<1>2. CASE Upsert(t)
  <2>1. told' = told
    BY <1>2 DEF Upsert
  <2>2. \A u \in Task \ {t} : LifeState(u)' = LifeState(u)
    BY <1>0, <1>1, <1>2 DEF Upsert, LifeType, LifeState, Terminal
  <2>3. CASE tasks[t] \in Unfinished
    <3>1. tasks'[t] \in {"completed", "failed"}
          /\ poller' = [poller EXCEPT ![t] = "announcing"]
      BY <1>0, <1>2, <2>3 DEF Upsert, LifeType, Unfinished
    <3>2. LifeState(t) = "open" /\ LifeState(t)' = "closed"
      BY <2>3, <3>1 DEF LifeState, Terminal, Unfinished
    <3>3. places' = [places EXCEPT ![t] = "closed"]
      BY <2>2, <3>2
    <3>4. Owed' = Owed \union {t}
      BY <1>0, <3>1 DEF Owed, LifeType
    <3>5. Life!CloseQuietly(t)
      BY <1>0, <1>1, <2>1, <3>2, <3>3, <3>4 DEF Life!CloseQuietly, Owed
    <3> QED  BY <3>5 DEF Life!Next
  <2>4. CASE tasks[t] \notin Unfinished
    <3>1. LifeState(t)' = LifeState(t)
      <4>1. tasks[t] \in Terminal \union {"absent"}
        BY <1>0, <2>4 DEF LifeType, Statuses
      <4>2. CASE tasks[t] = "absent"
        <5>1. tasks'[t] = tasks[t]
          BY <1>2, <4>2 DEF Upsert
        <5> QED  BY <1>1, <4>2, <5>1 DEF LifeState, Terminal
      <4>3. CASE tasks[t] \in Terminal
        <5>1. tasks[t] # "absent" /\ tasks[t] \in Statuses
          BY <4>3 DEF Terminal, Statuses
        <5>2. \/ UNCHANGED tasks
              \/ \E status \in {"completed", "failed"} :
                   tasks' = [tasks EXCEPT ![t] = status]
          BY <1>2 DEF Upsert
        <5>3. tasks'[t] \in Terminal
          BY <1>0, <4>3, <5>2 DEF LifeType, Terminal
        <5>4. tasks'[t] # "absent"
          BY <5>3 DEF Terminal
        <5>5. LifeState(t) = "closed"
          BY <4>3, <5>1 DEF LifeState
        <5>6. LifeState(t)' = "closed"
          BY <5>3, <5>4 DEF LifeState
        <5> QED  BY <5>5, <5>6
      <4> QED  BY <4>1, <4>2, <4>3
    <3>2. Owed' = Owed
      BY <1>0, <1>2, <2>4 DEF Upsert, Owed, LifeType
    <3>3. places' = places
      BY <2>2, <3>1
    <3> QED  BY <1>1, <2>1, <3>2, <3>3 DEF Life!vars, Owed
  <2> QED  BY <2>3, <2>4
<1>3. CASE UpsertEnds(t)
  <2>1. places' = places
    BY <1>1, <1>3 DEF UpsertEnds, LifeState, Terminal
  <2>2. t \in Owed /\ Owed' = Owed \ {t}
    BY <1>0, <1>3 DEF UpsertEnds, Owed, LifeType
  <2>3. told' = [told EXCEPT ![t] = IF isDisposing THEN @ ELSE @ + 1]
    BY <1>3 DEF UpsertEnds
  <2>4. Life!Announce(t)
    BY <1>1, <2>1, <2>2, <2>3 DEF Life!Announce, Owed
  <2> QED  BY <2>4 DEF Life!Next
<1> QED  BY <1>2, <1>3 DEF Poll

\* The calls on one task are the calls of the lifecycle.
LEMMA CallRefines ==
  ASSUME SlotInv, UnsettledInv, WaitersHope, NEW t \in Task,
         \/ Submit(t) \/ Cancel(t) \/ Delete(t) \/ DeleteEnds(t)
         \/ WaitForCompletion(t) \/ WaiterTimesOut(t)
  PROVE  [Life!Next]_(Life!vars)
<1>0. LifeType /\ exec \in [Task -> Stages] /\ Unsettled(t)
  BY DEF SlotInv, Slots, UnsettledInv
<1> DEFINE places == [u \in Task |-> LifeState(u)]
<1> USE DEF lifeVars, runVars, startVars
<1>o. poller' = poller /\ Owed' = Owed
  BY DEF Submit, Cancel, Delete, DeleteEnds, WaitForCompletion, WaiterTimesOut,
         Owed
<1>1. CASE Submit(t)
  <2>1. LifeState(t) = "absent" /\ LifeState(t)' = "open"
    BY <1>0, <1>1 DEF Submit, LifeState, LifeType, Terminal
  <2>2. \A u \in Task \ {t} : LifeState(u)' = LifeState(u)
    BY <1>1 DEF Submit, LifeState, Terminal
  <2>3. places' = [places EXCEPT ![t] = "open"]
    BY <2>1, <2>2
  <2>4. /\ isDisposing = FALSE /\ isDisposing' = isDisposing
        /\ told' = told /\ waiter' = waiter
    BY <1>1 DEF Submit, isDisposing
  <2>5. Life!Open(t)
    BY <1>o, <2>1, <2>3, <2>4 DEF Life!Open, Owed
  <2> QED  BY <2>5 DEF Life!Next
<1>2. CASE Cancel(t)
  <2>1. /\ UpdateTasks({t}, "cancelled") /\ "cancelled" \in Terminal
        /\ {t} \in SUBSET Task
        /\ exec' = exec /\ isDisposing' = isDisposing
    BY <1>2 DEF Cancel, Terminal, isDisposing
  <2> QED  BY <1>0, <1>o, <2>1, UpdateCloses
<1>3. CASE Delete(t)
  <2>1. LifeState(t) \in {"open", "closed"}
    BY <1>3 DEF Delete, LifeState
  <2>2. LifeState(t)' = "removed"
    BY <1>0, <1>3 DEF Delete, LifeState, LifeType, Unsettled
  <2>3. \A u \in Task \ {t} : LifeState(u)' = LifeState(u)
    BY <1>3 DEF Delete, LifeState, Terminal
  <2>4. places' = [places EXCEPT ![t] = "removed"]
    BY <2>2, <2>3
  <2>5. /\ isDisposing = FALSE /\ isDisposing' = isDisposing
        /\ told' = told /\ waiter' = waiter
    BY <1>3 DEF Delete, isDisposing
  <2>6. Life!Remove(t)
    BY <1>o, <2>1, <2>4, <2>5 DEF Life!Remove, Owed
  <2> QED  BY <2>6 DEF Life!Next
<1>4. ASSUME UNCHANGED <<tasks, exec, told, phase>>
      PROVE  places' = places /\ told' = told /\ isDisposing' = isDisposing
  BY <1>4 DEF LifeState, Terminal, isDisposing
<1>5. CASE DeleteEnds(t) \/ WaiterTimesOut(t)
  <2>1. places' = places /\ told' = told /\ isDisposing' = isDisposing
    BY <1>4, <1>5 DEF DeleteEnds, WaiterTimesOut
  <2>2. CASE waiter[t] = "waiting"
    <3>1. waiter' = [waiter EXCEPT ![t] = "rejected"]
      BY <1>5, <2>2 DEF DeleteEnds, WaiterTimesOut
    <3>2. Life!Reject(t)
      BY <1>o, <2>1, <2>2, <3>1 DEF Life!Reject, Owed
    <3> QED  BY <3>2 DEF Life!Next
  <2>3. CASE waiter[t] # "waiting"
    <3>1. waiter' = waiter
      BY <1>0, <1>5, <2>3 DEF DeleteEnds, WaiterTimesOut, LifeType
    <3> QED  BY <1>o, <2>1, <3>1 DEF Life!vars, Owed
  <2> QED  BY <2>2, <2>3
<1>6. CASE WaitForCompletion(t)
  <2>1. places' = places /\ told' = told /\ isDisposing' = isDisposing
    BY <1>4, <1>6 DEF WaitForCompletion
  <2>2. LifeState(t) \in {"open", "closed"} /\ waiter[t] = "none"
        /\ (LifeState(t) = "closed" <=> tasks[t] \in Terminal)
    BY <1>6 DEF WaitForCompletion, LifeState
  <2>3. waiter' = [waiter EXCEPT ![t] = IF LifeState(t) = "closed"
                                        THEN "resolved" ELSE "waiting"]
    BY <1>6, <2>2 DEF WaitForCompletion
  <2>4. Life!Wait(t)
    BY <1>o, <2>1, <2>2, <2>3 DEF Life!Wait, Owed
  <2> QED  BY <2>4 DEF Life!Next
<1> QED  BY <1>1, <1>2, <1>3, <1>5, <1>6

\* dispose shuts the lifecycle down: the snapshots keep open tasks open.
LEMMA DisposeRefines ==
  ASSUME LifeType, Dispose
  PROVE  Life!Next
<1> DEFINE places == [u \in Task |-> LifeState(u)]
<1>1. /\ isDisposing = FALSE /\ isDisposing' = TRUE /\ told' = told
      /\ exec' = exec /\ Owed' = Owed
  BY DEF Dispose, isDisposing, startVars, Owed
<1>2. \A u \in Task :
        tasks'[u] = IF tasks[u] \in Unfinished THEN "pending" ELSE tasks[u]
  BY DEF Dispose
<1>3. \A u \in Task : LifeState(u)' = LifeState(u)
  BY <1>1, <1>2 DEF LifeState, Terminal, Unfinished
<1>4. \A u \in Task : tasks[u] \in Unfinished <=> LifeState(u) = "open"
  BY LifeStateFacts
<1>5. waiter' = [u \in Task |->
                   IF LifeState(u) = "open" /\ waiter[u] = "waiting"
                   THEN "rejected" ELSE waiter[u]]
  BY <1>4 DEF Dispose
<1>6. places' = places
  BY <1>3
<1>7. Life!ShutDown
  BY <1>1, <1>5, <1>6 DEF Life!ShutDown, Owed
<1> QED  BY <1>7 DEF Life!Next

\* The pools reject their queues together, after the shutdown.
LEMMA DisposeEndsRefines ==
  ASSUME SlotInv, WaitersHope, DisposeEnds
  PROVE  [Life!Next]_(Life!vars)
<1> DEFINE R == {t \in Task : exec[t] \in {"waitGlobal", "waitType"}}
<1>1. /\ UpdateTasks(Reported(R), "failed") /\ "failed" \in Terminal
      /\ Reported(R) \in SUBSET Task
      /\ isDisposing' = isDisposing /\ poller' = poller
  BY DEF DisposeEnds, Reported, Terminal, isDisposing, startVars
<1>2. \A u \in Task : exec'[u] = "none" <=> exec[u] = "none"
  BY DEF DisposeEnds
<1> QED  BY <1>1, <1>2, UpdateCloses DEF SlotInv

\* The initial states of the manager are initial states of the lifecycle.
LEMMA InitRefines == Init => Life!Init
<1> SUFFICES ASSUME Init  PROVE Life!Init
  OBVIOUS
<1>1. \A u \in Task : LifeState(u) \in {"absent", "open"}
  BY DEF Init, LifeState, Terminal, Unfinished
<1>2. isDisposing = FALSE /\ told = [u \in Task |-> 0]
      /\ waiter = [u \in Task |-> "none"]
      /\ {u \in Task : poller[u] = "announcing"} = {}
  BY DEF Init, isDisposing
<1> QED  BY <1>1, <1>2 DEF Life!Init

\* Every step of the manager is a step of the lifecycle or none at all.
LEMMA NextRefines ==
  SlotInv /\ StatusInv /\ UnsettledInv /\ [Next]_vars =>
    [Life!Next]_(Life!vars)
<1> SUFFICES ASSUME SlotInv, StatusInv, UnsettledInv, [Next]_vars
             PROVE  [Life!Next]_(Life!vars)
  OBVIOUS
<1>0. WaitersHope /\ LifeType
  BY HopeHolds DEF SlotInv
<1>1. CASE UNCHANGED vars
  <2>1. \A u \in Task : LifeState(u)' = LifeState(u)
    BY <1>1 DEF vars, lifeVars, runVars, LifeState, Terminal
  <2>2. told' = told /\ waiter' = waiter /\ isDisposing' = isDisposing
        /\ poller' = poller
    BY <1>1 DEF vars, lifeVars, startVars, isDisposing
  <2> QED  BY <2>1, <2>2, UnseenStep
<1>2. ASSUME NEW t \in Task, Proceed(t) \/ QueueTimesOut(t)
      PROVE  [Life!Next]_(Life!vars)
  BY <1>0, <1>2, ProceedRefines
<1>3. ASSUME NEW t \in Task,
             \/ Submit(t) \/ Cancel(t) \/ Delete(t) \/ DeleteEnds(t)
             \/ WaitForCompletion(t) \/ WaiterTimesOut(t)
      PROVE  [Life!Next]_(Life!vars)
  BY <1>0, <1>3, CallRefines
<1>4. ASSUME NEW t \in Task, StartUp(t) \/ Poll(t)
      PROVE  [Life!Next]_(Life!vars)
  BY <1>4, StartUpRefines, PollRefines
<1>5. CASE Dispose
  BY <1>0, <1>5, DisposeRefines
<1>6. CASE DisposeEnds
  BY <1>0, <1>6, DisposeEndsRefines
<1> QED  BY <1>1, <1>2, <1>3, <1>4, <1>5, <1>6 DEF Next

\* TaskManager keeps the promises of TaskLifecycle: a submitted task closes at
\* most once, is announced exactly when it closes before dispose, and its waiter
\* is resolved by that and by nothing else; a task of the previous process may
\* open again, or be closed by its poller without a word to its waiter.
THEOREM LifecycleIsImplemented == Spec => ImplementsLifecycle
<1>1. Spec => Life!Init
  BY InitRefines, PTL DEF Spec
<1>2. Spec => [][Life!Next]_(Life!vars)
  BY NextRefines, SlotInvariant, StatusInvariant, UnsettledInvariant, PTL
     DEF Spec
<1> QED  BY <1>1, <1>2, PTL DEF ImplementsLifecycle, Life!Spec
=============================================================================
