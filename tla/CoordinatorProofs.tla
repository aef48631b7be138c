--------------------------- MODULE CoordinatorProofs ---------------------------
(***************************************************************************)
(* Proofs about Coordinator: its safety invariants, for any dependencies,  *)
(* priorities and number of workers.                                       *)
(***************************************************************************)
EXTENDS Coordinator, TLAPS, FiniteSetTheorems, WellFoundedInduction

Statuses == {"pending", "claimed", "running"} \union Ended
Phases == {"plan", "confirm", "execute", "verify", "done"}
Claiming == {"claimed", "spawning"}
BeforeWork == {"created", "planned", "asking", "gate"}

(***************************************************************************)
(* The inductive invariant adds where the generator may be while a task is *)
(* claimed, and before anything is, and that the claims still to be made   *)
(* fit beside the tasks that are active.                                   *)
(***************************************************************************)
AllPending == \A t \in Task : status[t] = "pending"

ClaimInv ==
  /\ \A t, u \in Claimed : t = u
  /\ Claimed # {} <=> at \in Claiming
  /\ \A t \in Claimed : agent[t] = "none" <=> at = "claimed"
  /\ \A t \in Task : status[t] = "pending" => agent[t] = "none"

StageInv ==
  /\ at \in BeforeWork \union {"entered"} => AllPending
  /\ config.requireConfirmation /\ gate # "approved" =>
       at \in BeforeWork \union {"finished", "returned"} /\ AllPending

LimitInv ==
  Cardinality(Active(status)) + (IF at \in Claiming THEN slots ELSE 0)
    <= MaxConcurrency

CoordInv ==
  /\ TypeOK
  /\ DependenciesFirst
  /\ BooksAgree
  /\ ClaimInv
  /\ StageInv
  /\ LimitInv

-----------------------------------------------------------------------------
\* What "higher priority, and earlier in the list" means.
Before(t, u) ==
  \/ Priority[t] > Priority[u]
  \/ Priority[t] = Priority[u] /\ Rank[t] <= Rank[u]

\* A non-empty set of tasks has a task that goes before all the others: the
\* sets of tasks before a given one are well-founded under inclusion.
LEMMA FirstTask ==
  ASSUME NEW S \in SUBSET Task, S # {}
  PROVE  \E t \in S : \A u \in S : Before(t, u)
<1> DEFINE above(t) == {u \in S : ~Before(t, u)}
           cones == {above(t) : t \in S}
<1>1. IsWellFoundedOn(StrictSubsetOrdering(Task), SUBSET Task)
  BY TasksAssumption, FS_StrictSubsetOrderingWellFounded, FS_FiniteSubsetsOfFinite
<1>2. cones \subseteq SUBSET Task /\ cones # {}
  OBVIOUS
<1>3. PICK C \in cones : \A D \in cones : <<D, C>> \notin StrictSubsetOrdering(Task)
  <2> HIDE DEF cones
  <2> QED  BY <1>1, <1>2, WFMin
<1>4. PICK t \in S : C = above(t)
  BY <1>3
<1>5. above(t) = {}
  <2> SUFFICES ASSUME NEW u \in above(t)  PROVE FALSE
    OBVIOUS
  <2>1. u \in S /\ ~Before(t, u)
    OBVIOUS
  <2>2. u \notin above(u)
    BY TasksAssumption DEF Before
  <2>3. above(u) \subseteq above(t)
    BY <2>1, TasksAssumption DEF Before
  <2>4. above(u) \in cones /\ above(u) # above(t)
    BY <2>1, <2>2
  <2>5. <<above(u), above(t)>> \in StrictSubsetOrdering(Task)
    BY <2>3, <2>4, <1>2 DEF StrictSubsetOrdering
  <2> QED  BY <2>4, <2>5, <1>3, <1>4
<1> QED  BY <1>5

\* The dispatch loop claims a task that is ready.
LEMMA NextReadyIsReady ==
  ASSUME NEW f, Ready(f) # {}
  PROVE  NextReady(f) \in Ready(f)
<1>1. Ready(f) \in SUBSET Task
  BY DEF Ready
<1>2. \E t \in Ready(f) : \A u \in Ready(f) : Before(t, u)
  BY <1>1, FirstTask
<1> QED  BY <1>2 DEF NextReady, Before

\* Sets of tasks are finite, and one more task counts one more.
LEMMA TaskSets ==
  /\ \A S \in SUBSET Task : IsFiniteSet(S) /\ Cardinality(S) \in Nat
  /\ \A S, T \in SUBSET Task : S \subseteq T => Cardinality(S) <= Cardinality(T)
  /\ \A S \in SUBSET Task : \A t \in Task :
       t \notin S => Cardinality(S \union {t}) = Cardinality(S) + 1
<1>1. \A S \in SUBSET Task : IsFiniteSet(S) /\ Cardinality(S) \in Nat
  BY TasksAssumption, FS_Subset, FS_CardinalityType
<1>2. ASSUME NEW S \in SUBSET Task, NEW T \in SUBSET Task, S \subseteq T
      PROVE  Cardinality(S) <= Cardinality(T)
  BY <1>1, <1>2, FS_Subset
<1>3. ASSUME NEW S \in SUBSET Task, NEW t \in Task, t \notin S
      PROVE  Cardinality(S \union {t}) = Cardinality(S) + 1
  BY <1>1, <1>3, FS_AddElement
<1> QED  BY <1>1, <1>2, <1>3

-----------------------------------------------------------------------------
(***************************************************************************)
(* executePhase, from one suspension to the next.                          *)
(***************************************************************************)

\* The pool and the workers when no task is claimed.
Quiet(f, w) ==
  /\ f \in [Task -> Statuses]
  /\ w \in SUBSET Task
  /\ \A t \in Task : f[t] = "running" <=> t \in w
  /\ \A t \in Task : f[t] # "claimed"
  /\ \A t \in Task : f[t] # "pending" => \A d \in Deps[t] : f[d] = "completed"

\* The generator claims a task, or it waits or ends with the pool as it was.
MovedOn(f) ==
  \/ \E t \in Ready(f) :
       /\ status' = [f EXCEPT ![t] = "claimed"]
       /\ at' = "claimed"
       /\ slots' \in 0..MaxConcurrency
       /\ Cardinality(Active(f)) + 1 + slots' <= MaxConcurrency
       /\ phase' = phase
  \/ /\ status' = f
     /\ slots' = slots
     /\ at' \in {"racing", "verifying", "finished", "returned"}
     /\ phase' \in Phases

\* Leaving executePhase leaves the pool alone.
LEMMA LeaveMoves ==
  ASSUME NEW f, phase \in Phases, Leave(f)  PROVE MovedOn(f)
BY DEF Leave, MovedOn, Phases

\* A claim takes a ready task and one of the n slots left.
LEMMA ClaimMoves ==
  ASSUME NEW f \in [Task -> Statuses], NEW n \in 1..MaxConcurrency,
         Ready(f) # {}, Cardinality(Active(f)) + n <= MaxConcurrency, Claim(f, n)
  PROVE  MovedOn(f)
<1>1. NextReady(f) \in Ready(f)
  BY NextReadyIsReady
<1>2. Cardinality(Active(f)) \in Nat
  BY TaskSets DEF Active
<1>3. /\ slots' \in 0..MaxConcurrency
      /\ Cardinality(Active(f)) + 1 + slots' <= MaxConcurrency
  BY <1>2, ConcurrencyAssumption DEF Claim
<1> QED  BY <1>1, <1>3 DEF Claim, MovedOn

\* The dispatch loop and the tests after it make such a move.
LEMMA DispatchMoves ==
  ASSUME NEW f, NEW w, Quiet(f, w), phase \in Phases,
         NEW n \in 0..MaxConcurrency,
         Cardinality(Active(f)) + n <= MaxConcurrency, Dispatch(f, w, n)
  PROVE  MovedOn(f)
<1>1. f \in [Task -> Statuses]
  BY DEF Quiet
<1>2. CASE n > 0 /\ Ready(f) # {} /\ Claim(f, n)
  BY <1>1, <1>2, ClaimMoves
<1>3. CASE w # {} /\ status' = f /\ GoTo("racing")
  BY <1>3 DEF GoTo, MovedOn
<1>4. CASE Leave(f)
  BY <1>4, LeaveMoves
<1>5. CASE w = {} /\ Ready(f) # {} /\ Claim(f, MaxConcurrency)
  <2>1. Active(f) = {}
    BY <1>5 DEF Quiet, Active
  <2>2. Cardinality(Active(f)) = 0
    BY <2>1, FS_EmptySet
  <2>3. MaxConcurrency \in 1..MaxConcurrency
    BY ConcurrencyAssumption
  <2> QED  BY <1>1, <1>5, <2>2, <2>3, ClaimMoves
<1> QED  BY <1>2, <1>3, <1>4, <1>5 DEF Dispatch

\* So does the outer loop, from its head.
LEMMA LoopMoves ==
  ASSUME NEW f, NEW w, Quiet(f, w), phase \in Phases,
         Cardinality(Active(f)) <= MaxConcurrency, Loop(f, w)
  PROVE  MovedOn(f)
<1>1. Cardinality(Active(f)) \in Nat
  BY TaskSets DEF Active
<1>2. /\ FreeSlots(f) \in 0..MaxConcurrency
      /\ Cardinality(Active(f)) + FreeSlots(f) <= MaxConcurrency
  BY <1>1, ConcurrencyAssumption DEF FreeSlots
<1>3. Leave(f) \/ Dispatch(f, w, FreeSlots(f))
  BY DEF Loop
<1> QED  BY <1>2, <1>3, LeaveMoves, DispatchMoves

\* The invariant holds where executePhase stops, given the sub-agents and the
\* notifications that go with the pool.
LEMMA MovedInv ==
  ASSUME NEW f, Quiet(f, workers'), MovedOn(f),
         Cardinality(Active(f)) <= MaxConcurrency,
         config' \in Configs, slots \in 0..MaxConcurrency,
         agent' \in [Task -> {"none", "running"} \union Ended],
         aborted' \in SUBSET Task,
         gate' \in {"none", "open", "approved", "denied"},
         cancelled' \in BOOLEAN,
         notified' = [t \in Task |-> IF f[t] \in Ended THEN 1 ELSE 0],
         config'.requireConfirmation => gate' = "approved",
         \A t \in Task : /\ f[t] = "pending" => agent'[t] = "none"
                         /\ f[t] = "completed" => agent'[t] = "completed"
                         /\ f[t] = "failed" => agent'[t] \in {"none", "failed"}
                         /\ agent'[t] = "running" => t \in workers',
         phase \in Phases
  PROVE  CoordInv'
<1>f. /\ f \in [Task -> Statuses]
      /\ workers' \in SUBSET Task
      /\ \A t \in Task : f[t] = "running" <=> t \in workers'
      /\ \A t \in Task : f[t] # "claimed"
      /\ \A t \in Task : f[t] # "pending" => \A d \in Deps[t] : f[d] = "completed"
  BY DEF Quiet
<1>n. Cardinality(Active(f)) \in Nat
  BY TaskSets DEF Active
<1>1. CASE /\ status' = f
           /\ slots' = slots
           /\ at' \in {"racing", "verifying", "finished", "returned"}
           /\ phase' \in Phases
  <2>1. TypeOK'
    BY <1>1, <1>f DEF TypeOK, Statuses, Phases, Stages
  <2>2. DependenciesFirst'
    BY <1>1, <1>f DEF DependenciesFirst
  <2>3. BooksAgree'
    BY <1>1, <1>f DEF BooksAgree, Ended
  <2>4. ClaimInv'
    BY <1>1, <1>f DEF ClaimInv, Claimed, Claiming
  <2>5. StageInv'
    BY <1>1 DEF StageInv, BeforeWork
  <2>6. LimitInv'
    BY <1>1, <1>n, ConcurrencyAssumption DEF LimitInv, Active, Claiming
  <2> QED  BY <2>1, <2>2, <2>3, <2>4, <2>5, <2>6 DEF CoordInv
<1>2. CASE \E t \in Ready(f) :
             /\ status' = [f EXCEPT ![t] = "claimed"]
             /\ at' = "claimed"
             /\ slots' \in 0..MaxConcurrency
             /\ Cardinality(Active(f)) + 1 + slots' <= MaxConcurrency
             /\ phase' = phase
  <2>0. PICK t \in Ready(f) :
             /\ status' = [f EXCEPT ![t] = "claimed"]
             /\ at' = "claimed"
             /\ slots' \in 0..MaxConcurrency
             /\ Cardinality(Active(f)) + 1 + slots' <= MaxConcurrency
             /\ phase' = phase
    BY <1>2
  <2>t. t \in Task /\ f[t] = "pending" /\ \A d \in Deps[t] : f[d] = "completed"
    BY DEF Ready, DependenciesMet
  <2>s. \A u \in Task : status'[u] = IF u = t THEN "claimed" ELSE f[u]
    BY <2>0, <1>f
  <2>1. TypeOK'
    <3>1. status' \in [Task -> Statuses]
      BY <2>0, <2>t, <1>f DEF Statuses
    <3> QED  BY <3>1, <2>0, <1>f DEF TypeOK, Statuses, Phases, Stages
  <2>2. DependenciesFirst'
    <3> SUFFICES ASSUME NEW u \in Task, status'[u] # "pending", NEW d \in Deps[u]
                 PROVE  status'[d] = "completed"
      BY DEF DependenciesFirst
    <3>1. d \in Task
      BY TasksAssumption
    <3>2. f[d] = "completed"
      BY <2>s, <2>t, <1>f
    <3> QED  BY <3>1, <3>2, <2>s, <2>t
  <2>3. BooksAgree'
    BY <2>s, <2>t, <1>f DEF BooksAgree, Ended
  <2>4. ClaimInv'
    BY <2>0, <2>s, <2>t, <1>f DEF ClaimInv, Claimed, Claiming
  <2>5. StageInv'
    BY <2>0 DEF StageInv, BeforeWork
  <2>6. LimitInv'
    <3>1. Active(status)' = Active(f) \union {t}
      BY <2>s, <2>t DEF Active
    <3>2. t \notin Active(f) /\ Active(f) \in SUBSET Task
      BY <2>t DEF Active
    <3>3. Cardinality(Active(status)') = Cardinality(Active(f)) + 1
      BY <3>1, <3>2, <2>t, TaskSets
    <3> QED  BY <3>3, <2>0, <1>n, ConcurrencyAssumption DEF LimitInv, Claiming
  <2> QED  BY <2>1, <2>2, <2>3, <2>4, <2>5, <2>6 DEF CoordInv
<1> QED  BY <1>1, <1>2 DEF MovedOn

-----------------------------------------------------------------------------
\* A new coordinator satisfies the invariant.
LEMMA CoordInit == Init => CoordInv
<1> SUFFICES ASSUME Init  PROVE CoordInv
  OBVIOUS
<1>1. TypeOK
  <2>1. 0 \in 0..MaxConcurrency
    BY ConcurrencyAssumption
  <2>2. /\ status \in [Task -> {"pending", "claimed", "running"} \union Ended]
        /\ agent \in [Task -> {"none", "running"} \union Ended]
        /\ notified \in [Task -> Nat]
    BY DEF Init
  <2> QED  BY <2>1, <2>2 DEF Init, TypeOK, Stages
<1>2. DependenciesFirst /\ BooksAgree /\ ClaimInv /\ StageInv
  BY DEF Init, DependenciesFirst, BooksAgree, ClaimInv, StageInv, AllPending,
     Claimed, Claiming, BeforeWork, Ended
<1>3. Active(status) = {}
  BY DEF Init, Active
<1>4. LimitInv
  BY <1>3, FS_EmptySet, ConcurrencyAssumption DEF Init, LimitInv, Claiming
<1> QED  BY <1>1, <1>2, <1>4 DEF CoordInv

\* Where no task is claimed the pool is quiet.
LEMMA QuietPool ==
  ASSUME CoordInv, at \notin Claiming
  PROVE  /\ Quiet(status, workers)
         /\ Cardinality(Active(status)) <= MaxConcurrency
         /\ notified = [t \in Task |-> IF status[t] \in Ended THEN 1 ELSE 0]
<1>1. Claimed = {}
  BY DEF CoordInv, ClaimInv
<1>2. Quiet(status, workers)
  BY <1>1 DEF CoordInv, TypeOK, BooksAgree, DependenciesFirst, Claimed, Quiet,
     Statuses
<1>3. Cardinality(Active(status)) \in Nat
  BY TaskSets DEF Active
<1>4. Cardinality(Active(status)) <= MaxConcurrency
  BY <1>3, ConcurrencyAssumption DEF CoordInv, LimitInv
<1>5. notified = [t \in Task |-> IF status[t] \in Ended THEN 1 ELSE 0]
  BY DEF CoordInv, TypeOK, BooksAgree
<1> QED  BY <1>2, <1>4, <1>5

\* A step that leaves the pool alone, moves between stages at which no task is
\* claimed or stays where it is.
LEMMA PoolKept ==
  ASSUME CoordInv,
         UNCHANGED <<poolVars, slots, config>>,
         at' \in Stages, at' \in Claiming <=> at \in Claiming,
         at' = "claimed" <=> at = "claimed",
         at' \in BeforeWork \union {"entered"} => at \in BeforeWork \union {"entered"},
         phase' \in Phases, aborted' \in SUBSET Task, cancelled' \in BOOLEAN,
         gate' \in {"none", "open", "approved", "denied"},
         gate = "approved" => gate' = "approved" \/ at' \in BeforeWork,
         config.requireConfirmation /\ gate' # "approved" =>
           at' \in BeforeWork \union {"finished", "returned"},
         agent' \in [Task -> {"none", "running"} \union Ended],
         \A t \in Task : \/ agent'[t] = agent[t]
                         \/ agent[t] = "running" /\ agent'[t] \in Ended
  PROVE  CoordInv'
<1> USE DEF poolVars
<1>1. TypeOK'
  BY DEF CoordInv, TypeOK, Phases
<1>2. DependenciesFirst'
  BY DEF CoordInv, DependenciesFirst
<1>3. BooksAgree'
  BY DEF CoordInv, BooksAgree, Claimed, Ended
<1>4. ClaimInv'
  <2>1. Claimed' = Claimed /\ Claimed \subseteq Task
    BY DEF Claimed
  <2>2. \A t \in Task : agent'[t] = "none" <=> agent[t] = "none"
    BY DEF Ended
  <2> QED  BY <2>1, <2>2 DEF CoordInv, ClaimInv
<1>5. StageInv'
  <2>1. AllPending' <=> AllPending
    BY DEF AllPending
  <2> QED  BY <2>1 DEF CoordInv, StageInv
<1>6. LimitInv'
  BY DEF CoordInv, LimitInv, Active
<1> QED  BY <1>1, <1>2, <1>3, <1>4, <1>5, <1>6 DEF CoordInv

\* Every step of start(), and every call and ending around it, keeps the
\* invariant.
LEMMA CoordStep == CoordInv /\ [Next]_vars => CoordInv'
<1> SUFFICES ASSUME CoordInv, [Next]_vars  PROVE CoordInv'
  OBVIOUS
<1> USE DEF poolVars
<1>t. /\ config \in Configs
      /\ status \in [Task -> Statuses]
      /\ workers \in SUBSET Task
      /\ agent \in [Task -> {"none", "running"} \union Ended]
      /\ aborted \in SUBSET Task
      /\ notified \in [Task -> Nat]
      /\ at \in Stages
      /\ phase \in Phases
      /\ slots \in 0..MaxConcurrency
      /\ gate \in {"none", "open", "approved", "denied"}
      /\ cancelled \in BOOLEAN
  BY DEF CoordInv, TypeOK, Statuses, Phases
\* What a task's status says of its sub-agent.
<1>b. \A t \in Task : /\ status[t] = "pending" => agent[t] = "none"
                      /\ status[t] = "completed" => agent[t] = "completed"
                      /\ status[t] = "failed" => agent[t] \in {"none", "failed"}
                      /\ agent[t] = "running" => t \in workers \union Claimed
  BY DEF CoordInv, BooksAgree, ClaimInv
\* Past the confirmation, an answer that was required was given.
<1>g. at \notin BeforeWork \union {"finished", "returned"} =>
        (config.requireConfirmation => gate = "approved")
  BY DEF CoordInv, StageInv
<1>1. CASE UNCHANGED vars
  BY <1>1, <1>t, <1>g, PoolKept DEF vars, CoordInv, StageInv
<1>2. CASE Plan \/ AwaitConfirmation
  BY <1>2, <1>t, PoolKept
     DEF Plan, AwaitConfirmation, GoTo, Stages, Claiming, BeforeWork
<1>3. CASE AfterPlan
  <2>1. /\ at = "planned" /\ UNCHANGED <<config, poolVars, agent, aborted, cancelled, slots>>
        /\ at' \in {"returned", "asking", "entered"}
        /\ phase' \in Phases
    BY <1>3, <1>t DEF AfterPlan, EnterExecute, GoTo, Phases
  <2>2. /\ at' \in Stages /\ at' \notin Claiming /\ at \notin Claiming
        /\ at' # "claimed" /\ at # "claimed"
        /\ at \in BeforeWork
    BY <2>1 DEF Stages, Claiming, BeforeWork
  <2>3. gate' \in {"none", "open", "approved", "denied"}
    BY <1>3, <1>t DEF AfterPlan
  <2>4. CASE cancelled
    BY <2>4, <2>1, <2>2, <2>3, <1>3, <1>t, PoolKept
       DEF AfterPlan, GoTo, CoordInv, StageInv, BeforeWork
  <2>5. CASE ~cancelled
    BY <2>5, <2>1, <2>2, <2>3, <1>3, <1>t, PoolKept
       DEF AfterPlan, EnterExecute, GoTo, CoordInv, StageInv, BeforeWork
  <2> QED  BY <2>4, <2>5
<1>4. CASE PassGate
  BY <1>4, <1>t, PoolKept
     DEF PassGate, EnterExecute, Stages, Phases, Claiming, BeforeWork
<1>5. CASE Verify \/ Return
  BY <1>5, <1>t, <1>g, PoolKept
     DEF Verify, Return, GoTo, Stages, Phases, Claiming, BeforeWork
<1>6. ASSUME NEW answer \in {"approved", "denied"}, Confirm(answer)
      PROVE  CoordInv'
  BY <1>6, <1>t, PoolKept DEF Confirm, CoordInv, StageInv
<1>7. CASE Cancel
  BY <1>7, <1>t, PoolKept DEF Cancel, CoordInv, StageInv
<1>8. ASSUME NEW t \in Task, NEW outcome \in Ended, AgentEnds(t, outcome)
      PROVE  CoordInv'
  BY <1>8, <1>t, PoolKept DEF AgentEnds, CoordInv, StageInv
\* The loop is entered, or left, where no task is claimed.
<1>9. CASE Execute \/ AfterReport \/ RaceTimesOut
  <2>1. /\ at \in {"entered", "reported", "racing"}
        /\ UNCHANGED <<workers, notified, agent, aborted, gate, cancelled, config>>
        /\ Loop(status, workers) \/ Leave(status)
    BY <1>9 DEF Execute, AfterReport, RaceTimesOut
  <2>2. at \notin Claiming
    BY <2>1 DEF Claiming
  <2>3. /\ Quiet(status, workers)
        /\ Cardinality(Active(status)) <= MaxConcurrency
        /\ notified = [t \in Task |-> IF status[t] \in Ended THEN 1 ELSE 0]
    BY <2>2, QuietPool
  <2>4. MovedOn(status)
    BY <2>1, <2>3, <1>t, LoopMoves, LeaveMoves
  <2>5. Claimed = {} /\ (config.requireConfirmation => gate = "approved")
    BY <2>1, <2>2, <1>g DEF CoordInv, ClaimInv, BeforeWork
  <2>6. Quiet(status, workers')
    BY <2>1, <2>3
  <2> QED  BY <2>1, <2>3, <2>4, <2>5, <2>6, <1>t, <1>b, MovedInv
<1>10. ASSUME NEW t \in Task, Spawn(t)  PROVE CoordInv'
  <2>1. /\ at = "claimed" /\ at' = "spawning" /\ t \in Claimed
        /\ agent' = [agent EXCEPT ![t] = "running"]
        /\ UNCHANGED <<config, poolVars, aborted, phase, slots, gate, cancelled>>
    BY <1>10 DEF Spawn, GoTo
  <2>2. /\ \A u \in Task : agent'[u] = IF u = t THEN "running" ELSE agent[u]
        /\ agent' \in [Task -> {"none", "running"} \union Ended]
    BY <2>1, <1>t
  <2>3. Claimed' = {t}
    BY <2>1 DEF Claimed, CoordInv, ClaimInv
  <2>4. TypeOK'
    BY <2>1, <2>2 DEF CoordInv, TypeOK, Stages
  <2>5. DependenciesFirst'
    BY <2>1 DEF CoordInv, DependenciesFirst
  <2>6. BooksAgree'
    BY <2>1, <2>2, <2>3 DEF CoordInv, BooksAgree, Claimed
  <2>7. ClaimInv'
    BY <2>1, <2>2, <2>3 DEF CoordInv, ClaimInv, Claimed, Claiming
  <2>8. StageInv'
    BY <2>1 DEF CoordInv, StageInv, BeforeWork
  <2>9. LimitInv'
    BY <2>1 DEF CoordInv, LimitInv, Active, Claiming
  <2> QED  BY <2>4, <2>5, <2>6, <2>7, <2>8, <2>9 DEF CoordInv
<1>11. ASSUME NEW t \in Task, SpawnFails(t) \/ Register(t)  PROVE CoordInv'
  <2> DEFINE running == Register(t)
             f == [status EXCEPT ![t] = IF running THEN "running" ELSE "failed"]
  <2>1. /\ at \in Claiming /\ t \in Claimed
        /\ workers' = IF running THEN workers \union {t} ELSE workers
        /\ notified' = IF running THEN notified
                       ELSE [notified EXCEPT ![t] = @ + 1]
        /\ Dispatch(f, workers', slots)
        /\ UNCHANGED <<config, agent, aborted, gate, cancelled>>
    BY <1>11 DEF SpawnFails, Register, Claiming
  <2>2. /\ status[t] = "claimed"
        /\ \A u \in Task : status[u] = "claimed" => u = t
        /\ ~running => agent[t] = "none"
    BY <2>1, <1>11 DEF CoordInv, ClaimInv, Claimed, SpawnFails
  <2>3. \A u \in Task :
          f[u] = IF u = t THEN IF running THEN "running" ELSE "failed" ELSE status[u]
    BY <1>t
  <2>4. f \in [Task -> Statuses]
    BY <1>t DEF Statuses, Ended
  <2>5. Quiet(f, workers')
    <3>1. workers' \in SUBSET Task
      BY <2>1, <1>t
    <3>2. \A u \in Task : f[u] = "running" <=> u \in workers'
      BY <2>1, <2>2, <2>3 DEF CoordInv, BooksAgree
    <3>3. \A u \in Task : f[u] # "claimed"
      BY <2>2, <2>3
    <3>4. ASSUME NEW u \in Task, f[u] # "pending", NEW e \in Deps[u]
          PROVE  f[e] = "completed"
      <4>1. e \in Task /\ status[u] # "pending"
        BY <3>4, <2>2, <2>3, TasksAssumption
      <4>2. status[e] = "completed"
        BY <4>1 DEF CoordInv, DependenciesFirst
      <4> QED  BY <4>1, <4>2, <2>2, <2>3
    <3> HIDE DEF f
    <3> QED  BY <2>4, <3>1, <3>2, <3>3, <3>4 DEF Quiet
  <2>6. Active(f) \subseteq Active(status) /\ Active(status) \in SUBSET Task
    BY <2>2, <2>3 DEF Active
  <2>7. /\ Cardinality(Active(f)) \in Nat /\ Cardinality(Active(status)) \in Nat
        /\ Cardinality(Active(f)) <= Cardinality(Active(status))
    BY <2>6, TaskSets
  <2>8. /\ Cardinality(Active(f)) + slots <= MaxConcurrency
        /\ Cardinality(Active(f)) <= MaxConcurrency
    BY <2>1, <2>7, <1>t, ConcurrencyAssumption DEF CoordInv, LimitInv
  <2>9. MovedOn(f)
    <3> HIDE DEF f
    <3> QED  BY <2>1, <2>5, <2>8, <1>t, DispatchMoves
  <2>10. notified' = [u \in Task |-> IF f[u] \in Ended THEN 1 ELSE 0]
    <3>1. \A u \in Task : notified[u] = IF status[u] \in Ended THEN 1 ELSE 0
      BY DEF CoordInv, BooksAgree
    <3>2. notified[t] = 0
      BY <3>1, <2>2 DEF Ended
    <3>3. notified' \in [Task -> Nat]
      BY <2>1, <3>2, <1>t
    <3>4. \A u \in Task : notified'[u] = IF f[u] \in Ended THEN 1 ELSE 0
      BY <3>1, <3>2, <2>1, <2>2, <2>3, <1>t DEF Ended
    <3> HIDE DEF f
    <3> QED  BY <3>3, <3>4
  <2>11. \A u \in Task : /\ f[u] = "pending" => agent'[u] = "none"
                         /\ f[u] = "completed" => agent'[u] = "completed"
                         /\ f[u] = "failed" => agent'[u] \in {"none", "failed"}
                         /\ agent'[u] = "running" => u \in workers'
    <3> TAKE u \in Task
    <3>1. CASE u = t
      BY <3>1, <2>1, <2>2, <2>3
    <3>2. CASE u # t
      BY <3>2, <2>1, <2>2, <2>3, <1>b DEF Claimed
    <3> QED  BY <3>1, <3>2
  <2>12. config'.requireConfirmation => gate' = "approved"
    BY <2>1, <1>g DEF Claiming, BeforeWork
  <2> HIDE DEF f
  <2> QED  BY <2>1, <2>5, <2>8, <2>9, <2>10, <2>11, <2>12, <1>t, MovedInv
<1>12. ASSUME NEW t \in Task, RaceSettles(t)  PROVE CoordInv'
  <2>1. /\ at = "racing" /\ at' = "reported"
        /\ t \in workers /\ agent[t] \in Ended
        /\ status' = [status EXCEPT ![t] = agent[t]]
        /\ notified' = [notified EXCEPT ![t] = @ + 1]
        /\ workers' = workers \ {t}
        /\ UNCHANGED <<config, agent, aborted, phase, slots, gate, cancelled>>
    BY <1>12 DEF RaceSettles, GoTo
  <2>2. /\ \A u \in Task : status'[u] = IF u = t THEN agent[t] ELSE status[u]
        /\ status[t] = "running"
        /\ Claimed = {}
    BY <2>1, <1>t DEF CoordInv, BooksAgree, ClaimInv, Claiming
  <2>3. /\ notified[t] = 0
        /\ \A u \in Task : notified'[u] = IF u = t THEN 1 ELSE notified[u]
    BY <2>1, <2>2, <1>t DEF CoordInv, BooksAgree, Ended
  <2>4. TypeOK'
    <3>1. status' \in [Task -> {"pending", "claimed", "running"} \union Ended]
      BY <2>1, <1>t DEF Statuses
    <3>2. notified' \in [Task -> Nat]
      BY <2>1, <2>3, <1>t
    <3> QED  BY <2>1, <3>1, <3>2 DEF CoordInv, TypeOK, Stages
  <2>5. DependenciesFirst'
    <3> SUFFICES ASSUME NEW u \in Task, status'[u] # "pending", NEW e \in Deps[u]
                 PROVE  status'[e] = "completed"
      BY <2>1 DEF DependenciesFirst
    <3>1. e \in Task /\ status[u] # "pending"
      BY <2>2, TasksAssumption
    <3>2. status[e] = "completed"
      BY <3>1 DEF CoordInv, DependenciesFirst
    <3> QED  BY <3>1, <3>2, <2>2
  <2>6. Claimed' = {}
    BY <2>1, <2>2 DEF Claimed, Ended
  <2>7. BooksAgree'
    <3> SUFFICES ASSUME NEW u \in Task
                 PROVE  /\ status'[u] = "running" <=> u \in workers'
                        /\ status'[u] = "completed" => agent'[u] = "completed"
                        /\ status'[u] = "failed" => agent'[u] \in {"none", "failed"}
                        /\ agent'[u] = "running" => u \in workers' \union Claimed'
                        /\ notified'[u] = IF status'[u] \in Ended THEN 1 ELSE 0
      BY DEF BooksAgree
    <3>1. CASE u = t
      BY <3>1, <2>1, <2>2, <2>3 DEF Ended
    <3>2. CASE u # t
      BY <3>2, <2>1, <2>2, <2>3 DEF CoordInv, BooksAgree
    <3> QED  BY <3>1, <3>2
  <2>8. ClaimInv'
    BY <2>1, <2>2, <2>6 DEF CoordInv, ClaimInv, Claiming, Ended
  <2>9. StageInv'
    BY <2>1, <1>g DEF StageInv, BeforeWork
  <2>10. LimitInv'
    <3>1. Active(status)' \subseteq Active(status) /\ Active(status) \in SUBSET Task
      BY <2>1, <2>2 DEF Active, Ended
    <3>2. /\ Cardinality(Active(status)') \in Nat
          /\ Cardinality(Active(status)) \in Nat
          /\ Cardinality(Active(status)') <= Cardinality(Active(status))
      BY <3>1, TaskSets
    <3> QED  BY <2>1, <3>2, ConcurrencyAssumption DEF CoordInv, LimitInv, Claiming
  <2> QED  BY <2>4, <2>5, <2>7, <2>8, <2>9, <2>10 DEF CoordInv
<1> QED
  BY <1>1, <1>2, <1>3, <1>4, <1>5, <1>6, <1>7, <1>8, <1>9, <1>10, <1>11, <1>12
     DEF Next, Advance

\* The invariant holds in every state of the workflow.
LEMMA CoordInvariant == Spec => []CoordInv
BY CoordInit, CoordStep, PTL DEF Spec

\* The pool, the sub-agents and the generator always have their types.
THEOREM TypeCorrect == Spec => []TypeOK
BY CoordInvariant, PTL DEF CoordInv

\* No task starts before all it depends on is completed, whatever fails.
THEOREM DependenciesComeFirst == Spec => []DependenciesFirst
BY CoordInvariant, PTL DEF CoordInv

\* The pool, the workers and the sub-agents agree, and no task is reported twice.
THEOREM BooksAlwaysAgree == Spec => []BooksAgree
BY CoordInvariant, PTL DEF CoordInv

\* No more sub-agents run than the configuration allows.
THEOREM WorkersStayWithinLimit == Spec => []WorkersWithinLimit
<1>1. CoordInv => WorkersWithinLimit
  <2> SUFFICES ASSUME CoordInv  PROVE WorkersWithinLimit
    OBVIOUS
  <2>1. {t \in Task : agent[t] = "running"} \union Active(status) = Active(status)
    BY DEF CoordInv, BooksAgree, Active, Claimed
  <2>2. Cardinality(Active(status)) \in Nat
    BY TaskSets DEF Active
  <2>3. Cardinality(Active(status)) <= MaxConcurrency
    BY <2>2, ConcurrencyAssumption DEF CoordInv, LimitInv, TypeOK
  <2> QED  BY <2>1, <2>3 DEF WorkersWithinLimit
<1> QED  BY <1>1, CoordInvariant, PTL

\* No sub-agent runs before a plan that needs approval is approved.
THEOREM WorkIsApproved == Spec => []ApprovedBeforeWork
<1>1. CoordInv => ApprovedBeforeWork
  BY DEF CoordInv, StageInv, ClaimInv, AllPending, ApprovedBeforeWork
<1> QED  BY <1>1, CoordInvariant, PTL

-----------------------------------------------------------------------------
(***************************************************************************)
(* What is left when a workflow ends.  The invariant adds that a race has  *)
(* runners: a race that fails leaves the loop with workers in the map.     *)
(***************************************************************************)
Over == {"verifying", "finished", "returned"}

EndInv == (at = "racing" => workers # {}) /\ NothingReadyIsLeft

\* Where executePhase stops with the pool f and the workers w.
Stopped(f, w) ==
  /\ at' = "racing" => w # {}
  /\ at' \in Over => status' = f /\ (cancelled \/ w # {} \/ Ready(f) = {})

\* The dispatch loop races only for workers and leaves only when it is done.
LEMMA DispatchStops ==
  ASSUME NEW f, NEW w, NEW n, Dispatch(f, w, n)  PROVE Stopped(f, w)
BY DEF Dispatch, Claim, Leave, GoTo, Stopped, Over

\* So does the outer loop: a pool that is all done has nothing ready.
LEMMA LoopStops ==
  ASSUME NEW f, NEW w, Loop(f, w)  PROVE Stopped(f, w)
<1>1. CASE (AllDone(f) \/ cancelled) /\ Leave(f)
  <2>1. AllDone(f) => Ready(f) = {}
    BY DEF AllDone, Ready, Ended
  <2> QED  BY <1>1, <2>1 DEF Leave, Stopped
<1>2. CASE Dispatch(f, w, FreeSlots(f))
  BY <1>2, DispatchStops
<1> QED  BY <1>1, <1>2 DEF Loop

\* It is true of the next state, the confirmation and cancel being left alone.
LEMMA StoppedInv ==
  ASSUME NEW f, Stopped(f, workers'), UNCHANGED cancelled  PROVE EndInv'
<1>1. at' = "racing" => workers' # {}
  BY DEF Stopped
<1>2. NothingReadyIsLeft'
  <2> SUFFICES ASSUME at' \in Over, ~cancelled', workers' = {}
               PROVE  Ready(status') = {}
    BY DEF NothingReadyIsLeft, Over
  <2> QED  BY DEF Stopped
<1> QED  BY <1>1, <1>2 DEF EndInv

\* Steps that keep the pool and do not end the workflow, or end one that had
\* ended, keep it: nobody takes back a cancel or a denial.
LEMMA EndKept ==
  ASSUME EndInv, UNCHANGED <<status, workers>>,
         at' = "racing" => at = "racing",
         at' \in Over => at \in Over \/ cancelled \/ gate = "denied",
         cancelled => cancelled',
         at' \in Over /\ gate = "denied" => gate' = "denied"
  PROVE  EndInv'
<1>1. Ready(status)' = Ready(status)
  BY DEF Ready, DependenciesMet
<1> QED  BY <1>1 DEF EndInv, NothingReadyIsLeft, Over

\* Every step keeps it.
LEMMA EndStep == EndInv /\ [Next]_vars => EndInv'
<1> SUFFICES ASSUME EndInv, [Next]_vars  PROVE EndInv'
  OBVIOUS
<1> USE DEF poolVars
<1>1. CASE UNCHANGED vars
  BY <1>1, EndKept DEF vars
<1>2. CASE Plan \/ AwaitConfirmation \/ AfterPlan \/ PassGate
  BY <1>2, EndKept DEF Plan, AwaitConfirmation, AfterPlan, PassGate, GoTo,
     EnterExecute, Over
<1>3. CASE Verify \/ Return
  BY <1>3, EndKept DEF Verify, Return, GoTo, Over
<1>4. ASSUME NEW answer \in {"approved", "denied"}, Confirm(answer)
      PROVE  EndInv'
  BY <1>4, EndKept DEF Confirm
<1>5. CASE Cancel
  BY <1>5, EndKept DEF Cancel
<1>6. ASSUME NEW t \in Task, NEW outcome \in Ended, AgentEnds(t, outcome)
      PROVE  EndInv'
  BY <1>6, EndKept DEF AgentEnds
<1>7. ASSUME NEW t \in Task, Spawn(t) \/ RaceSettles(t)  PROVE EndInv'
  <2>1. at' \notin Over /\ at' # "racing"
    BY <1>7 DEF Spawn, RaceSettles, GoTo, Over
  <2> QED  BY <2>1 DEF EndInv, NothingReadyIsLeft, Over
<1>8. CASE Execute \/ AfterReport
  BY <1>8, LoopStops, StoppedInv DEF Execute, AfterReport
<1>9. ASSUME NEW t \in Task, SpawnFails(t)  PROVE EndInv'
  BY <1>9, DispatchStops, StoppedInv DEF SpawnFails
<1>10. ASSUME NEW t \in Task, Register(t)  PROVE EndInv'
  BY <1>10, DispatchStops, StoppedInv DEF Register
\* The wait is given up while its workers stay in the map.
<1>11. CASE RaceTimesOut
  BY <1>11 DEF RaceTimesOut, Leave, EndInv, NothingReadyIsLeft
<1> QED
  BY <1>1, <1>2, <1>3, <1>4, <1>5, <1>6, <1>7, <1>8, <1>9, <1>10, <1>11
     DEF Next, Advance

\* A workflow that was not cancelled or denied ends only when every task that
\* could be done is done, or while a worker it gave up on still runs.
THEOREM NothingReadyIsForgotten == Spec => []NothingReadyIsLeft
<1>1. Init => EndInv
  BY DEF Init, EndInv, NothingReadyIsLeft
<1>2. EndInv => NothingReadyIsLeft
  BY DEF EndInv
<1> QED  BY <1>1, <1>2, EndStep, PTL DEF Spec
=============================================================================
