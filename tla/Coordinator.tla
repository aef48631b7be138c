------------------------------ MODULE Coordinator ------------------------------
(***************************************************************************)
(* The multi-agent workflow behind the coordinate tool: Coordinator and    *)
(* TaskPool of packages/neko-agent/packages/agent/src/subagent/coordinator *)
(* and the part of SubAgentManager they use.                               *)
(*                                                                         *)
(* start() is an async generator.  `at' is where it is suspended: at an    *)
(* event its consumer has not come back from, or at an await.  What it     *)
(* runs between two of those is one action; confirm, cancel and the        *)
(* sub-agents act in between.  The claimed task is the one whose status is *)
(* "claimed": the generator claims one at a time.                          *)
(*                                                                         *)
(* The consumer is the for-await loop of coordinate-tool.ts, which always  *)
(* asks for the next event.                                                *)
(***************************************************************************)
EXTENDS Integers, FiniteSets

CONSTANTS
  Task,                 \* config.tasks
  Deps,                 \* [Task -> SUBSET Task]: task.dependencies
  Priority,             \* [Task -> Int]
  Rank,                 \* [Task -> Nat]: position in config.tasks
  MaxConcurrency        \* config.maxConcurrency

ASSUME TasksAssumption ==
  /\ IsFiniteSet(Task)
  /\ Deps \in [Task -> SUBSET Task]
  /\ Priority \in [Task -> Int]
  /\ Rank \in [Task -> Nat]
  /\ \A t, u \in Task : Rank[t] = Rank[u] => t = u
ASSUME ConcurrencyAssumption == MaxConcurrency \in Nat \ {0}

VARIABLES
  config,      \* requireConfirmation and autoVerify, fixed at construction
  status,      \* TaskPool: status of each task
  workers,     \* _activeWorkers: tasks whose sub-agent is waited for
  agent,       \* SubAgentManager: status of each task's sub-agent
  aborted,     \* sub-agents that cancel reached
  notified,    \* _notifications: how many each task has
  at,          \* where start() is suspended
  phase,       \* _phase
  slots,       \* claims left to the dispatch loop
  gate,        \* the confirmation: "none", "open", "approved" or "denied"
  cancelled    \* _cancelled

poolVars == <<status, workers, notified>>
vars == <<config, poolVars, agent, aborted, at, phase, slots, gate, cancelled>>

Configs == [requireConfirmation : BOOLEAN, autoVerify : BOOLEAN]
Stages == {"created", "planned", "asking", "gate", "entered", "claimed",
           "spawning", "racing", "reported", "verifying", "finished", "returned"}
Ended == {"completed", "failed"}

Claimed == {t \in Task : status[t] = "claimed"}

-----------------------------------------------------------------------------
(***************************************************************************)
(* TaskPool, for the status function f.                                    *)
(***************************************************************************)

\* Mistake: a dependency that failed counts as met.
DependenciesEnded(t, f) == \A d \in Deps[t] : f[d] \in Ended

DependenciesMet(t, f) == \A d \in Deps[t] : f[d] = "completed"

Ready(f) == {t \in Task : f[t] = "pending" /\ DependenciesMet(t, f)}

\* The ready task of the highest priority, the first such in config.tasks.
NextReady(f) ==
  CHOOSE t \in Ready(f) : \A u \in Ready(f) :
    \/ Priority[t] > Priority[u]
    \/ Priority[t] = Priority[u] /\ Rank[t] <= Rank[u]

AllDone(f) == Task # {} /\ \A t \in Task : f[t] \in Ended

Active(f) == {t \in Task : f[t] \in {"claimed", "running"}}

-----------------------------------------------------------------------------
(***************************************************************************)
(* executePhase, from one suspension to the next.  Each operator is given  *)
(* the status and the workers at that point.                               *)
(***************************************************************************)

GoTo(stage) == at' = stage /\ UNCHANGED <<phase, slots>>

Claim(f, n) ==
  /\ status' = [f EXCEPT ![NextReady(f)] = "claimed"]
  /\ slots' = n - 1
  /\ at' = "claimed"
  /\ UNCHANGED phase

\* The end of executePhase and what start() does after it.
Leave(f) ==
  /\ status' = f
  /\ UNCHANGED slots
  /\ \/ cancelled /\ at' = "returned" /\ UNCHANGED phase
     \/ ~cancelled /\ config.autoVerify /\ at' = "verifying" /\ phase' = "verify"
     \/ ~cancelled /\ ~config.autoVerify /\ at' = "finished" /\ phase' = "done"

\* Mistake: the loop ends as soon as no worker is active.
DispatchOnceIdle(f, w, n) ==
  \/ n > 0 /\ Ready(f) # {} /\ Claim(f, n)
  \/ /\ n = 0 \/ Ready(f) = {}
     /\ \/ w # {} /\ status' = f /\ GoTo("racing")
        \/ w = {} /\ Leave(f)

\* Mistake: the dispatch loop does not count its claims.
DispatchAllReady(f, w, n) ==
  \/ Ready(f) # {} /\ Claim(f, n)
  \/ /\ Ready(f) = {}
     /\ \/ w # {} /\ status' = f /\ GoTo("racing")
        \/ w = {} /\ Leave(f)

\* The dispatch loop with n claims left, and the tests after it.  When every
\* claim ended in a failed spawn the outer loop starts over.
Dispatch(f, w, n) ==
  \/ n > 0 /\ Ready(f) # {} /\ Claim(f, n)
  \/ /\ n = 0 \/ Ready(f) = {}
     /\ \/ w # {} /\ status' = f /\ GoTo("racing")
        \/ w = {} /\ (Ready(f) = {} \/ cancelled) /\ Leave(f)
        \/ w = {} /\ Ready(f) # {} /\ ~cancelled /\ Claim(f, MaxConcurrency)

\* Mistake: the slots in use are not subtracted.
FreeSlotsOfNone(f) == MaxConcurrency

FreeSlots(f) ==
  IF Cardinality(Active(f)) < MaxConcurrency
  THEN MaxConcurrency - Cardinality(Active(f)) ELSE 0

\* The head of the outer loop.
Loop(f, w) ==
  \/ (AllDone(f) \/ cancelled) /\ Leave(f)
  \/ ~AllDone(f) /\ ~cancelled /\ Dispatch(f, w, FreeSlots(f))

-----------------------------------------------------------------------------
Init ==
  /\ config \in Configs
  /\ status = [t \in Task |-> "pending"]
  /\ workers = {}
  /\ agent = [t \in Task |-> "none"]
  /\ aborted = {}
  /\ notified = [t \in Task |-> 0]
  /\ at = "created"
  /\ phase = "plan"
  /\ slots = 0
  /\ gate = "none"
  /\ cancelled = FALSE

\* The first next() announces the plan.
Plan ==
  /\ at = "created"
  /\ GoTo("planned")
  /\ UNCHANGED <<config, poolVars, agent, aborted, gate, cancelled>>

EnterExecute == at' = "entered" /\ phase' = "execute" /\ UNCHANGED slots

AfterPlan ==
  /\ at = "planned"
  /\ UNCHANGED <<config, poolVars, agent, aborted, cancelled>>
  /\ \/ cancelled /\ GoTo("returned") /\ UNCHANGED gate
     \/ /\ ~cancelled /\ config.requireConfirmation
        /\ at' = "asking" /\ phase' = "confirm" /\ gate' = "open"
        /\ UNCHANGED slots
     \/ ~cancelled /\ ~config.requireConfirmation /\ EnterExecute /\ UNCHANGED gate

AwaitConfirmation ==
  /\ at = "asking"
  /\ GoTo("gate")
  /\ UNCHANGED <<config, poolVars, agent, aborted, gate, cancelled>>

\* Mistake: the generator goes on when the gate opens, whatever the answer.
PassGateAnyway ==
  /\ at = "gate"
  /\ gate \in {"approved", "denied"}
  /\ EnterExecute
  /\ UNCHANGED <<config, poolVars, agent, aborted, gate, cancelled>>

PassGate ==
  /\ at = "gate"
  /\ gate \in {"approved", "denied"}
  /\ \/ gate = "approved" /\ ~cancelled /\ EnterExecute
     \/ /\ gate = "denied" \/ cancelled
        /\ at' = "finished" /\ phase' = "done" /\ UNCHANGED slots
  /\ UNCHANGED <<config, poolVars, agent, aborted, gate, cancelled>>

Execute ==
  /\ at = "entered"
  /\ Loop(status, workers)
  /\ UNCHANGED <<config, workers, notified, agent, aborted, gate, cancelled>>

\* dispatchTask up to its await: the sub-agent runs when spawn returns.
Spawn(t) ==
  /\ at = "claimed"
  /\ t \in Claimed
  /\ agent' = [agent EXCEPT ![t] = "running"]
  /\ GoTo("spawning")
  /\ UNCHANGED <<config, poolVars, aborted, gate, cancelled>>

\* Mistake: a failed spawn is not added to the notifications.
SpawnFailsSilently(t) ==
  /\ at = "claimed"
  /\ t \in Claimed
  /\ Dispatch([status EXCEPT ![t] = "failed"], workers, slots)
  /\ UNCHANGED <<config, workers, notified, agent, aborted, gate, cancelled>>

\* spawn throws: a limit of SubAgentManager is reached.
SpawnFails(t) ==
  /\ at = "claimed"
  /\ t \in Claimed
  /\ notified' = [notified EXCEPT ![t] = @ + 1]
  /\ Dispatch([status EXCEPT ![t] = "failed"], workers, slots)
  /\ UNCHANGED <<config, workers, agent, aborted, gate, cancelled>>

\* dispatchTask after its await, and on to the next claim or wait.
Register(t) ==
  /\ at = "spawning"
  /\ t \in Claimed
  /\ workers' = workers \union {t}
  /\ Dispatch([status EXCEPT ![t] = "running"], workers', slots)
  /\ UNCHANGED <<config, notified, agent, aborted, gate, cancelled>>

\* waitForAnyCompletion: some worker that has ended wins the race.
RaceSettles(t) ==
  /\ at = "racing"
  /\ t \in workers
  /\ agent[t] \in Ended
  /\ status' = [status EXCEPT ![t] = agent[t]]
  /\ notified' = [notified EXCEPT ![t] = @ + 1]
  /\ workers' = workers \ {t}
  /\ GoTo("reported")
  /\ UNCHANGED <<config, agent, aborted, gate, cancelled>>

\* Mistake: the loop goes on when the wait has failed.
RaceTimesOutAndLoops ==
  /\ at = "racing"
  /\ \A t \in workers : agent[t] = "running"
  /\ Loop(status, workers)
  /\ UNCHANGED <<config, workers, notified, agent, aborted, gate, cancelled>>

\* getResult rejects before any worker has ended: the loop is left, the workers
\* stay as they are.
RaceTimesOut ==
  /\ at = "racing"
  /\ \A t \in workers : agent[t] = "running"
  /\ Leave(status)
  /\ UNCHANGED <<config, workers, notified, agent, aborted, gate, cancelled>>

AfterReport ==
  /\ at = "reported"
  /\ Loop(status, workers)
  /\ UNCHANGED <<config, workers, notified, agent, aborted, gate, cancelled>>

\* verifyPhase announces what failed, and changes nothing.
Verify ==
  /\ at = "verifying"
  /\ at' = "finished" /\ phase' = "done"
  /\ UNCHANGED <<config, poolVars, agent, aborted, slots, gate, cancelled>>

Return ==
  /\ at = "finished"
  /\ GoTo("returned")
  /\ UNCHANGED <<config, poolVars, agent, aborted, gate, cancelled>>

-----------------------------------------------------------------------------
Confirm(answer) ==
  /\ gate = "open"
  /\ gate' = answer
  /\ UNCHANGED <<config, poolVars, agent, aborted, at, phase, slots, cancelled>>

\* cancel reaches the workers that are in the map and still run.
Cancel ==
  /\ cancelled' = TRUE
  /\ aborted' = aborted \union {t \in workers : agent[t] = "running"}
  /\ gate' = IF gate = "open" THEN "denied" ELSE gate
  /\ UNCHANGED <<config, poolVars, agent, at, phase, slots>>

\* executeSubAgent settles; SubAgentManager reports a cancelled sub-agent as
\* one that did not complete.
AgentEnds(t, outcome) ==
  /\ agent[t] = "running"
  /\ agent' = [agent EXCEPT ![t] = outcome]
  /\ UNCHANGED <<config, poolVars, aborted, at, phase, slots, gate, cancelled>>

\* The steps of start().
Advance ==
  \/ Plan \/ AfterPlan \/ AwaitConfirmation \/ PassGate \/ Execute
  \/ \E t \in Task : Spawn(t) \/ SpawnFails(t) \/ Register(t) \/ RaceSettles(t)
  \/ RaceTimesOut \/ AfterReport \/ Verify \/ Return

Next ==
  \/ Advance
  \/ \E answer \in {"approved", "denied"} : Confirm(answer)
  \/ Cancel
  \/ \E t \in Task, outcome \in Ended : AgentEnds(t, outcome)

Spec == Init /\ [][Next]_vars

\* The consumer asks for the next event, spawn answers and the timers of
\* getResult fire.  Nothing is assumed of sub-agents, users or callers of cancel.
FairSpec == Spec /\ WF_vars(Advance)

-----------------------------------------------------------------------------
\* Type invariant of the task pool, the sub-agents and the generator.
TypeOK ==
  /\ config \in Configs
  /\ status \in [Task -> {"pending", "claimed", "running"} \union Ended]
  /\ workers \subseteq Task
  /\ agent \in [Task -> {"none", "running"} \union Ended]
  /\ aborted \subseteq Task
  /\ notified \in [Task -> Nat]
  /\ at \in Stages
  /\ phase \in {"plan", "confirm", "execute", "verify", "done"}
  /\ slots \in 0..MaxConcurrency
  /\ gate \in {"none", "open", "approved", "denied"}
  /\ cancelled \in BOOLEAN

\* "a task won't start until its dependencies complete", with failures, failed
\* spawns and several workers ending in any order.
DependenciesFirst ==
  \A t \in Task : status[t] # "pending" =>
    \A d \in Deps[t] : status[d] = "completed"

\* No more sub-agents of this coordinator run than max_concurrency, counting
\* those nobody waits for any more.
WorkersWithinLimit ==
  Cardinality({t \in Task : agent[t] = "running"} \union Active(status))
    <= MaxConcurrency

\* The pool, the map of workers and SubAgentManager tell the same story: what is
\* running is in the map, what has ended ended as its sub-agent did and was
\* notified once, and a sub-agent that runs is waited for or being registered.
BooksAgree ==
  \A t \in Task :
    /\ status[t] = "running" <=> t \in workers
    /\ status[t] = "completed" => agent[t] = "completed"
    /\ status[t] = "failed" => agent[t] \in {"none", "failed"}
    /\ agent[t] = "running" => t \in workers \union Claimed
    /\ notified[t] = IF status[t] \in Ended THEN 1 ELSE 0

\* A workflow that was neither cancelled nor denied and waits for no worker any
\* more ends only when nothing that could still be done is left.
NothingReadyIsLeft ==
  at \in {"verifying", "finished", "returned"} /\ ~cancelled /\ gate # "denied"
    /\ workers = {} => Ready(status) = {}

\* Nobody is put to work before the plan is approved, or after cancel has
\* answered the confirmation.
ApprovedBeforeWork ==
  config.requireConfirmation /\ gate # "approved" => \A t \in Task : agent[t] = "none"

\* Once it executes, start() comes to its end even if a sub-agent never does.
ExecutionEnds == at = "entered" ~> at = "returned"

\* "Cancel the coordinator and all workers" (types.ts): when start() has
\* returned after cancel, the sub-agents that still run were told to stop.
CancelReachesWorkers ==
  cancelled /\ at = "returned" =>
    \A t \in Task : agent[t] = "running" => t \in aborted
=============================================================================
