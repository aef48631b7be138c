-------------------------- MODULE TaskManagerProofs --------------------------
(***************************************************************************)
(* Theorems about TaskManager, for any finite set of tasks, any types,     *)
(* priorities, retry counts and limits.                                    *)
(***************************************************************************)
EXTENDS TaskManager, PoolOpsProofs

USE TaskAssumption, OptionsAssumption, LimitsAssumption

-----------------------------------------------------------------------------
(***************************************************************************)
(* Types of everything but the executions and the pools.                   *)
(***************************************************************************)

LifeType ==
  /\ tasks \in [Task -> Statuses]
  /\ stored \in [Task -> Statuses]
  /\ retries \in [Task -> Nat]
  /\ signal \in [Task -> {"none", "live", "aborted"}]
  /\ registered \subseteq Task
  /\ waiter \in [Task -> {"none", "waiting", "resolved", "rejected"}]
  /\ told \in [Task -> Nat]
  /\ deleting \subseteq Task
  /\ phase \in {"up", "flushing", "disposed"}
  /\ resume \in [Task -> Resumption]
  /\ poller \in [Task -> {"none", "polling", "announcing", "over"}]

\* updateTask keeps the types of the maps it writes.
LEMMA UpdateTasksType ==
  ASSUME LifeType, NEW S \in SUBSET Task, NEW status \in Statuses,
         UpdateTasks(S, status)
  PROVE  /\ tasks' \in [Task -> Statuses]
         /\ stored' \in [Task -> Statuses]
         /\ waiter' \in [Task -> {"none", "waiting", "resolved", "rejected"}]
         /\ told' \in [Task -> Nat]
BY DEF LifeType, UpdateTasks

\* The callers' catch keeps the types of the maps.
LEMMA CatchType ==
  ASSUME LifeType, NEW t \in Task, Catch(t)
  PROVE  /\ tasks' \in [Task -> Statuses]
         /\ stored' \in [Task -> Statuses]
         /\ waiter' \in [Task -> {"none", "waiting", "resolved", "rejected"}]
         /\ told' \in [Task -> Nat]
         /\ registered' \subseteq Task
<1>1. Reported({t}) \in SUBSET Task /\ "failed" \in Statuses
  BY DEF Reported, Statuses, Terminal
<1>2. UpdateTasks(Reported({t}), "failed") /\ registered' \subseteq registered
  BY DEF Catch
<1> QED  BY <1>1, <1>2, UpdateTasksType DEF LifeType

\* Every step keeps the types of everything but the pools.
LEMMA LifeTypeStep == LifeType /\ [Next]_vars => LifeType'
<1> SUFFICES ASSUME LifeType, [Next]_vars  PROVE LifeType'
  OBVIOUS
<1> USE DEF lifeVars, runVars, poolVars, startVars
<1>s. /\ "pending" \in Statuses /\ "absent" \in Statuses
      /\ {"running", "cancelled", "failed", "completed"} \subseteq Statuses
  BY DEF Statuses, Terminal, Unfinished
<1>1. ASSUME NEW t \in Task, Submit(t)  PROVE LifeType'
  BY <1>1, <1>s DEF Submit, LifeType
<1>2. ASSUME NEW t \in Task, StartUnregistered(t)  PROVE LifeType'
  <2>1. Catch(t)
    BY <1>2 DEF StartUnregistered
  <2> QED  BY <1>2, <2>1, CatchType DEF StartUnregistered, LifeType
<1>3. ASSUME NEW t \in Task, Start(t)  PROVE LifeType'
  <2>1. CASE Return
    BY <1>3, <2>1 DEF Start, Return, LifeType
  <2>2. CASE Catch(t)
    BY <1>3, <2>2, CatchType DEF Start, LifeType
  <2> QED  BY <1>3, <2>1, <2>2 DEF Start
<1>4. ASSUME NEW t \in Task, AcquireType(t)  PROVE LifeType'
  BY <1>4 DEF AcquireType, LifeType
<1>5. ASSUME NEW t \in Task, SkipCancelled(t)  PROVE LifeType'
  BY <1>5 DEF SkipCancelled, Return, LifeType
<1>6. ASSUME NEW t \in Task, BeginExecution(t)  PROVE LifeType'
  <2>1. UpdateTasks({t}, "running") /\ {t} \in SUBSET Task
    BY <1>6 DEF BeginExecution
  <2>2. "running" \in Statuses
    BY <1>s
  <2>3. /\ tasks' \in [Task -> Statuses]
        /\ stored' \in [Task -> Statuses]
        /\ waiter' \in [Task -> {"none", "waiting", "resolved", "rejected"}]
        /\ told' \in [Task -> Nat]
    BY <2>1, <2>2, UpdateTasksType
  <2> QED  BY <1>6, <2>3 DEF BeginExecution, LifeType
<1>7. ASSUME NEW t \in Task, NEW status \in {"completed", "failed"},
             ExecutorReturns(t, status)
      PROVE  LifeType'
  <2>1. CASE Return
    BY <1>7, <2>1 DEF ExecutorReturns, Return, LifeType
  <2>2. CASE UpdateTasks({t}, status)
              /\ registered' = registered \ Unregistered({t}, status)
    <3>1. {t} \in SUBSET Task /\ status \in Statuses
      BY <1>s
    <3>2. /\ tasks' \in [Task -> Statuses]
          /\ stored' \in [Task -> Statuses]
          /\ waiter' \in [Task -> {"none", "waiting", "resolved", "rejected"}]
          /\ told' \in [Task -> Nat]
      BY <2>2, <3>1, UpdateTasksType
    <3> QED  BY <1>7, <2>2, <3>2 DEF ExecutorReturns, LifeType
  <2> QED  BY <1>7, <2>1, <2>2 DEF ExecutorReturns
<1>8. ASSUME NEW t \in Task, ExecutorThrows(t)  PROVE LifeType'
  BY <1>8 DEF ExecutorThrows, LifeType
<1>9. ASSUME NEW t \in Task, ExecutorGivesUp(t)  PROVE LifeType'
  <2>1. CASE Return /\ UNCHANGED retries
    BY <1>9, <2>1 DEF ExecutorGivesUp, Return, LifeType
  <2>2. CASE Catch(t) /\ retries' = [retries EXCEPT ![t] = @ + 1]
    BY <1>9, <2>2, CatchType DEF ExecutorGivesUp, LifeType
  <2> QED  BY <1>9, <2>1, <2>2 DEF ExecutorGivesUp
<1>10. ASSUME NEW t \in Task, BackoffElapses(t)  PROVE LifeType'
  BY <1>10 DEF BackoffElapses, LifeType
<1>11. ASSUME NEW t \in Task, BackoffAborted(t)  PROVE LifeType'
  <2>1. Catch(t)
    BY <1>11 DEF BackoffAborted
  <2> QED  BY <1>11, <2>1, CatchType DEF BackoffAborted, LifeType
<1>12. ASSUME NEW t \in Task, QueueTimesOut(t)  PROVE LifeType'
  <2>1. Catch(t)
    BY <1>12 DEF QueueTimesOut
  <2> QED  BY <1>12, <2>1, CatchType DEF QueueTimesOut, LifeType
<1>13. ASSUME NEW t \in Task, Cancel(t)  PROVE LifeType'
  <2>1. UpdateTasks({t}, "cancelled") /\ {t} \in SUBSET Task
        /\ "cancelled" \in Statuses
    BY <1>13, <1>s DEF Cancel
  <2>2. /\ tasks' \in [Task -> Statuses]
        /\ stored' \in [Task -> Statuses]
        /\ waiter' \in [Task -> {"none", "waiting", "resolved", "rejected"}]
        /\ told' \in [Task -> Nat]
    BY <2>1, UpdateTasksType
  <2> QED  BY <1>13, <2>2 DEF Cancel, LifeType
<1>14. ASSUME NEW t \in Task, Delete(t)  PROVE LifeType'
  BY <1>14, <1>s DEF Delete, LifeType
<1>15. ASSUME NEW t \in Task, DeleteEnds(t)  PROVE LifeType'
  BY <1>15 DEF DeleteEnds, LifeType
<1>16. ASSUME NEW t \in Task, WaitForCompletion(t)  PROVE LifeType'
  BY <1>16 DEF WaitForCompletion, LifeType
<1>17. ASSUME NEW t \in Task, WaiterTimesOut(t)  PROVE LifeType'
  BY <1>17 DEF WaiterTimesOut, LifeType
<1>18. CASE Dispose
  BY <1>18, <1>s DEF Dispose, LifeType
<1>19. CASE DisposeEnds
  <2>1. PICK rejected \in SUBSET Task :
          UpdateTasks(Reported(rejected), "failed")
    <3> DEFINE R == {t \in Task : exec[t] \in {"waitGlobal", "waitType"}}
    <3>1. UpdateTasks(Reported(R), "failed") /\ R \in SUBSET Task
      BY <1>19 DEF DisposeEnds
    <3> HIDE DEF R
    <3> QED  BY <3>1
  <2>2. Reported(rejected) \in SUBSET Task /\ "failed" \in Statuses
    BY <1>s DEF Reported
  <2>3. /\ tasks' \in [Task -> Statuses]
        /\ stored' \in [Task -> Statuses]
        /\ waiter' \in [Task -> {"none", "waiting", "resolved", "rejected"}]
        /\ told' \in [Task -> Nat]
    BY <2>1, <2>2, UpdateTasksType
  <2>4. /\ registered' = {} /\ phase' = "disposed"
        /\ UNCHANGED <<retries, signal, deleting, startVars>>
    BY <1>19 DEF DisposeEnds
  <2> QED  BY <2>3, <2>4 DEF LifeType
<1>20. CASE UNCHANGED vars
  BY <1>20 DEF vars, LifeType
<1>21. ASSUME NEW t \in Task, StartUp(t)  PROVE LifeType'
  BY <1>21, <1>s DEF StartUp, MarkPending, Adopt, Resume, LifeType, Resumption
<1>22. ASSUME NEW t \in Task, Poll(t)  PROVE LifeType'
  <2>1. CASE Upsert(t)
    BY <1>s, <2>1 DEF Upsert, LifeType
  <2>2. CASE UpsertEnds(t)
    BY <2>2 DEF UpsertEnds, LifeType
  <2> QED  BY <1>22, <2>1, <2>2 DEF Poll
<1> QED  BY <1>1, <1>2, <1>3, <1>4, <1>5, <1>6, <1>7, <1>8, <1>9, <1>10,
            <1>11, <1>12, <1>13, <1>14, <1>15, <1>16, <1>17, <1>18, <1>19,
            <1>20, <1>21, <1>22 DEF Next, Proceed

-----------------------------------------------------------------------------
(***************************************************************************)
(* The inductive invariant of the slots: each pool queues exactly the      *)
(* executions that wait for it, counts exactly those that hold it, and     *)
(* never counts more than its limit.  The queues stay exact for ever; the  *)
(* type pools' counters only until dispose replaces the pools under the    *)
(* executions that hold slots of the old ones.                             *)
(***************************************************************************)

GlobalStages == {"hasGlobal", "waitType", "hasType", "executing", "backoff"}
TypeStages == {"hasType", "executing", "backoff"}

GlobalSlots(pool) ==
  /\ pool \in PoolType(Task, Int)
  /\ Queues(pool, GlobalWaiters)
  /\ pool.running = Cardinality(GlobalHolders)
  /\ pool.maxConcurrent = MaxConcurrent
  /\ pool.running <= MaxConcurrent

TypeSlots(type, pool) ==
  /\ pool \in PoolType(Task, Int)
  /\ Queues(pool, TypeWaiters(type))
  /\ phase # "disposed" =>
       /\ pool.running = Cardinality(TypeHolders(type))
       /\ pool.maxConcurrent = TypeLimit[type]
       /\ pool.running <= TypeLimit[type]

Slots ==
  /\ exec \in [Task -> Stages]
  /\ GlobalSlots(globalPool)
  /\ typePools = [type \in Type |-> typePools[type]]
  /\ \A type \in Type : TypeSlots(type, typePools[type])

\* Counting sets of tasks.
LEMMA TaskSetsAreFinite ==
  \A S \in SUBSET Task : IsFiniteSet(S) /\ Cardinality(S) \in Nat
BY FS_Subset, FS_CardinalityType

\* Cardinalities of disjoint sets of tasks add up.
LEMMA JoinedTasks ==
  ASSUME NEW S \in SUBSET Task, NEW T \in SUBSET Task, S \cap T = {}
  PROVE  Cardinality(S \union T) = Cardinality(S) + Cardinality(T)
<1>1. /\ IsFiniteSet(S) /\ IsFiniteSet(T)
      /\ Cardinality(S) \in Nat /\ Cardinality(T) \in Nat
  BY TaskSetsAreFinite
<1>2. Cardinality(S \union T)
        = Cardinality(S) + Cardinality(T) - Cardinality(S \cap T)
  BY <1>1, FS_Union
<1>3. Cardinality(S \cap T) = 0
  BY FS_EmptySet
<1> QED  BY <1>1, <1>2, <1>3

\* One task more, or one less, changes a cardinality by one.
LEMMA OneTask ==
  ASSUME NEW S \in SUBSET Task, NEW t \in Task
  PROVE  /\ t \notin S => Cardinality(S \union {t}) = Cardinality(S) + 1
         /\ t \in S => /\ Cardinality(S \ {t}) = Cardinality(S) - 1
                       /\ Cardinality(S) > 0
<1>1. IsFiniteSet(S) /\ Cardinality(S) \in Nat
  BY TaskSetsAreFinite
<1>2. t \notin S => Cardinality(S \union {t}) = Cardinality(S) + 1
  BY <1>1, FS_AddElement
<1>3. ASSUME t \in S
      PROVE  Cardinality(S \ {t}) = Cardinality(S) - 1 /\ Cardinality(S) > 0
  <2>1. Cardinality(S) # 0
    BY <1>1, <1>3, FS_EmptySet
  <2>2. Cardinality(S \ {t}) = Cardinality(S) - 1
    BY <1>1, <1>3, FS_RemoveElement
  <2> QED  BY <1>1, <2>1, <2>2
<1> QED  BY <1>2, <1>3

\* Where the executions are after one of them moved and two sets of waiters
\* were let go on.
LEMMA Moved ==
  ASSUME exec \in [Task -> Stages],
         NEW t \in Task, NEW stage \in Stages,
         NEW wg \in SUBSET GlobalWaiters,
         NEW wt \in SUBSET TypeWaiters(TypeOf[t]),
         t \notin wg, t \notin wt,
         Goto(t, stage, wg, wt)
  PROVE  /\ exec' \in [Task -> Stages]
         /\ GlobalHolders' = (GlobalHolders \ {t}) \union wg
                \union (IF stage \in GlobalStages THEN {t} ELSE {})
         /\ GlobalWaiters' = (GlobalWaiters \ (wg \union {t}))
                \union (IF stage = "waitGlobal" THEN {t} ELSE {})
         /\ TypeHolders(TypeOf[t])' = (TypeHolders(TypeOf[t]) \ {t}) \union wt
                \union (IF stage \in TypeStages THEN {t} ELSE {})
         /\ TypeWaiters(TypeOf[t])' = (TypeWaiters(TypeOf[t]) \ (wt \union {t}))
                \union (IF stage = "waitType" THEN {t} ELSE {})
         /\ \A type \in Type : type # TypeOf[t] =>
              /\ TypeHolders(type)' = TypeHolders(type)
              /\ TypeWaiters(type)' = TypeWaiters(type)
<1>1. exec' = [u \in Task |-> IF u = t THEN stage
                              ELSE IF u \in wg THEN "hasGlobal"
                              ELSE IF u \in wt THEN "hasType"
                              ELSE exec[u]]
  BY DEF Goto
<1>2. \A u \in wg : u \in Task /\ exec[u] = "waitGlobal"
  BY DEF GlobalWaiters
<1>3. \A u \in wt : u \in Task /\ exec[u] = "waitType" /\ TypeOf[u] = TypeOf[t]
  BY DEF TypeWaiters
<1>4. exec' \in [Task -> Stages]
  BY <1>1 DEF Stages
<1>5. GlobalHolders' = (GlobalHolders \ {t}) \union wg
                \union (IF stage \in GlobalStages THEN {t} ELSE {})
  BY <1>1, <1>2, <1>3 DEF GlobalHolders, GlobalStages
<1>6. GlobalWaiters' = (GlobalWaiters \ (wg \union {t}))
                \union (IF stage = "waitGlobal" THEN {t} ELSE {})
  BY <1>1, <1>2, <1>3 DEF GlobalWaiters
<1>7. TypeHolders(TypeOf[t])' = (TypeHolders(TypeOf[t]) \ {t}) \union wt
                \union (IF stage \in TypeStages THEN {t} ELSE {})
  BY <1>1, <1>2, <1>3 DEF TypeHolders, TypeStages
<1>8. TypeWaiters(TypeOf[t])' = (TypeWaiters(TypeOf[t]) \ (wt \union {t}))
                \union (IF stage = "waitType" THEN {t} ELSE {})
  BY <1>1, <1>2, <1>3 DEF TypeWaiters
<1>9. ASSUME NEW type \in Type, type # TypeOf[t]
      PROVE  /\ TypeHolders(type)' = TypeHolders(type)
             /\ TypeWaiters(type)' = TypeWaiters(type)
  BY <1>1, <1>2, <1>3, <1>9 DEF TypeHolders, TypeWaiters
<1> QED  BY <1>4, <1>5, <1>6, <1>7, <1>8, <1>9

\* A released slot of the global pool: execution t gives it back, the first
\* waiter takes it.
LEMMA GlobalReleased ==
  ASSUME NEW t \in GlobalHolders, GlobalSlots(globalPool)
  PROVE  LET p == Released(globalPool)
         IN  /\ p \in PoolType(Task, Int)
             /\ p.maxConcurrent = MaxConcurrent /\ p.running <= MaxConcurrent
             /\ Woken(globalPool) \subseteq GlobalWaiters
             /\ Queues(p, GlobalWaiters \ Woken(globalPool))
             /\ p.running =
                  Cardinality((GlobalHolders \ {t}) \union Woken(globalPool))
<1>1. PICK F : F = Woken(globalPool)
  OBVIOUS
<1>2. PICK p : p = Released(globalPool)
  OBVIOUS
<1>3. globalPool \in PoolType(Task, Int) /\ Queues(globalPool, GlobalWaiters)
  BY DEF GlobalSlots
<1>4. /\ p \in PoolType(Task, Int)
      /\ p.maxConcurrent = globalPool.maxConcurrent
      /\ Queues(p, GlobalWaiters \ F)
      /\ F \subseteq GlobalWaiters /\ IsFiniteSet(F)
      /\ globalPool.running > 0 =>
           /\ p.running = globalPool.running - 1 + Cardinality(F)
           /\ p.running <= globalPool.running
  BY <1>1, <1>2, <1>3, ReleaseQueues DEF Woken
<1>5. /\ GlobalHolders \in SUBSET Task /\ t \in Task
      /\ GlobalHolders \ {t} \in SUBSET Task /\ F \in SUBSET Task
      /\ (GlobalHolders \ {t}) \cap F = {}
  BY <1>4 DEF GlobalHolders, GlobalWaiters
<1>6. /\ Cardinality(GlobalHolders \ {t}) = Cardinality(GlobalHolders) - 1
      /\ Cardinality(GlobalHolders) > 0
  BY <1>5, OneTask
<1>7. Cardinality((GlobalHolders \ {t}) \union F)
        = Cardinality(GlobalHolders \ {t}) + Cardinality(F)
  BY <1>5, JoinedTasks
<1>8. /\ globalPool.running = Cardinality(GlobalHolders)
      /\ globalPool.maxConcurrent = MaxConcurrent
      /\ globalPool.running <= MaxConcurrent
      /\ globalPool.running \in Nat /\ p.running \in Nat
  BY <1>3, <1>4 DEF GlobalSlots, PoolType
<1> QED  BY <1>1, <1>2, <1>4, <1>6, <1>7, <1>8

\* The same for the pool of a type.
LEMMA TypeReleased ==
  ASSUME NEW type \in Type, NEW t \in TypeHolders(type), NEW pool,
         TypeSlots(type, pool)
  PROVE  LET p == Released(pool)
         IN  /\ p \in PoolType(Task, Int)
             /\ Woken(pool) \subseteq TypeWaiters(type)
             /\ Queues(p, TypeWaiters(type) \ Woken(pool))
             /\ phase # "disposed" =>
                  /\ p.maxConcurrent = TypeLimit[type]
                  /\ p.running <= TypeLimit[type]
                  /\ p.running =
                       Cardinality((TypeHolders(type) \ {t}) \union Woken(pool))
<1>1. PICK F : F = Woken(pool)
  OBVIOUS
<1>2. PICK p : p = Released(pool)
  OBVIOUS
<1>3. pool \in PoolType(Task, Int) /\ Queues(pool, TypeWaiters(type))
  BY DEF TypeSlots
<1>4. /\ p \in PoolType(Task, Int)
      /\ p.maxConcurrent = pool.maxConcurrent
      /\ Queues(p, TypeWaiters(type) \ F)
      /\ F \subseteq TypeWaiters(type) /\ IsFiniteSet(F)
      /\ pool.running > 0 =>
           /\ p.running = pool.running - 1 + Cardinality(F)
           /\ p.running <= pool.running
  BY <1>1, <1>2, <1>3, ReleaseQueues DEF Woken
<1>5. ASSUME phase # "disposed"
      PROVE  /\ p.maxConcurrent = TypeLimit[type]
             /\ p.running <= TypeLimit[type]
             /\ p.running = Cardinality((TypeHolders(type) \ {t}) \union F)
  <2> DEFINE H == TypeHolders(type)
  <2>1. /\ H \in SUBSET Task /\ t \in Task /\ t \in H
        /\ H \ {t} \in SUBSET Task /\ F \in SUBSET Task
        /\ (H \ {t}) \cap F = {}
    BY <1>4 DEF TypeHolders, TypeWaiters
  <2> HIDE DEF H
  <2>2. Cardinality(H \ {t}) = Cardinality(H) - 1 /\ Cardinality(H) > 0
    BY <2>1, OneTask
  <2>3. Cardinality((H \ {t}) \union F) = Cardinality(H \ {t}) + Cardinality(F)
    BY <2>1, JoinedTasks
  <2>4. /\ pool.running = Cardinality(H)
        /\ pool.maxConcurrent = TypeLimit[type]
        /\ pool.running <= TypeLimit[type]
        /\ pool.running \in Nat /\ p.running \in Nat /\ TypeLimit[type] \in Nat
    BY <1>3, <1>4, <1>5 DEF TypeSlots, PoolType, H
  <2> QED  BY <1>4, <2>2, <2>3, <2>4 DEF H
<1> QED  BY <1>1, <1>2, <1>4, <1>5

\* A type whose pool, holders and waiters do not change stays in step.
LEMMA TypePoolKept ==
  ASSUME Slots, NEW type \in Type,
         TypeHolders(type)' = TypeHolders(type),
         TypeWaiters(type)' = TypeWaiters(type),
         typePools'[type] = typePools[type],
         phase' # "disposed" => phase # "disposed"
  PROVE  TypeSlots(type, typePools[type])'
BY DEF Slots, TypeSlots

\* An execution unwinds through both of its finally blocks.
LEMMA BothUnwound ==
  ASSUME Slots, NEW t \in Task, exec[t] \in TypeStages, UnwindBoth(t),
         phase' = phase
  PROVE  Slots'
<1> DEFINE wg == Woken(globalPool)
           pool == typePools[TypeOf[t]]
           wt == Woken(pool)
           type0 == TypeOf[t]
<1>1. /\ t \in GlobalHolders /\ t \in TypeHolders(type0) /\ type0 \in Type
      /\ GlobalSlots(globalPool) /\ TypeSlots(type0, pool)
      /\ exec \in [Task -> Stages]
      /\ typePools = [type \in Type |-> typePools[type]]
  BY DEF Slots, GlobalHolders, TypeHolders, TypeStages
<1>2. /\ globalPool' = Released(globalPool)
      /\ typePools' = [typePools EXCEPT ![type0] = Released(pool)]
      /\ Goto(t, "done", wg, wt)
  BY DEF UnwindBoth, PoolOf
<1> HIDE DEF wg, wt, pool, type0
<1>3. /\ wg \subseteq GlobalWaiters
      /\ globalPool' \in PoolType(Task, Int)
      /\ globalPool'.maxConcurrent = MaxConcurrent
      /\ globalPool'.running <= MaxConcurrent
      /\ Queues(globalPool', GlobalWaiters \ wg)
      /\ globalPool'.running = Cardinality((GlobalHolders \ {t}) \union wg)
  BY <1>1, <1>2, GlobalReleased DEF wg
<1>4. /\ wt \subseteq TypeWaiters(type0)
      /\ Released(pool) \in PoolType(Task, Int)
      /\ Queues(Released(pool), TypeWaiters(type0) \ wt)
      /\ phase # "disposed" =>
           /\ Released(pool).maxConcurrent = TypeLimit[type0]
           /\ Released(pool).running <= TypeLimit[type0]
           /\ Released(pool).running =
                Cardinality((TypeHolders(type0) \ {t}) \union wt)
  BY <1>1, TypeReleased DEF wt
<1>5. t \notin wg /\ t \notin wt /\ t \notin GlobalWaiters
      /\ t \notin TypeWaiters(type0)
  BY <1>3, <1>4 DEF GlobalWaiters, TypeWaiters, TypeStages
<1>6. /\ exec' \in [Task -> Stages]
      /\ GlobalHolders' = (GlobalHolders \ {t}) \union wg
      /\ GlobalWaiters' = GlobalWaiters \ wg
      /\ TypeHolders(type0)' = (TypeHolders(type0) \ {t}) \union wt
      /\ TypeWaiters(type0)' = TypeWaiters(type0) \ wt
      /\ \A type \in Type : type # type0 =>
           /\ TypeHolders(type)' = TypeHolders(type)
           /\ TypeWaiters(type)' = TypeWaiters(type)
  <2>1. "done" \in Stages /\ "done" \notin GlobalStages /\ "done" \notin TypeStages
    BY DEF Stages, GlobalStages, TypeStages
  <2>2. wg \in SUBSET GlobalWaiters /\ wt \in SUBSET TypeWaiters(TypeOf[t])
    BY <1>3, <1>4 DEF type0
  <2>3. PICK stage : stage = "done"
    OBVIOUS
  <2>4. /\ exec' \in [Task -> Stages]
        /\ GlobalHolders' = (GlobalHolders \ {t}) \union wg
               \union (IF stage \in GlobalStages THEN {t} ELSE {})
        /\ GlobalWaiters' = (GlobalWaiters \ (wg \union {t}))
               \union (IF stage = "waitGlobal" THEN {t} ELSE {})
        /\ TypeHolders(TypeOf[t])' = (TypeHolders(TypeOf[t]) \ {t}) \union wt
               \union (IF stage \in TypeStages THEN {t} ELSE {})
        /\ TypeWaiters(TypeOf[t])' = (TypeWaiters(TypeOf[t]) \ (wt \union {t}))
               \union (IF stage = "waitType" THEN {t} ELSE {})
        /\ \A type \in Type : type # TypeOf[t] =>
             /\ TypeHolders(type)' = TypeHolders(type)
             /\ TypeWaiters(type)' = TypeWaiters(type)
    BY <1>1, <1>2, <1>5, <2>1, <2>2, <2>3, Moved
  <2> QED  BY <1>5, <2>1, <2>3, <2>4 DEF type0
<1>7. GlobalSlots(globalPool)'
  BY <1>3, <1>6 DEF GlobalSlots
<1>8. ASSUME NEW type \in Type  PROVE TypeSlots(type, typePools[type])'
  <2>1. CASE type = type0
    <3>1. typePools'[type] = Released(pool)
      BY <1>1, <1>2, <2>1
    <3> QED  BY <1>4, <1>6, <2>1, <3>1 DEF TypeSlots
  <2>2. CASE type # type0
    <3>1. typePools'[type] = typePools[type]
      BY <1>1, <1>2, <2>2
    <3> QED  BY <1>6, <2>2, <3>1, TypePoolKept
  <2> QED  BY <2>1, <2>2
<1>9. typePools' = [type \in Type |-> typePools'[type]]
  BY <1>1, <1>2
<1> QED  BY <1>6, <1>7, <1>8, <1>9 DEF Slots

\* Executions that keep their slots and their place in the queues.
LEMMA SlotsKept ==
  ASSUME Slots, exec' \in [Task -> Stages],
         GlobalHolders' = GlobalHolders, GlobalWaiters' = GlobalWaiters,
         \A type \in Type : /\ TypeHolders(type)' = TypeHolders(type)
                            /\ TypeWaiters(type)' = TypeWaiters(type),
         UNCHANGED poolVars,
         phase' # "disposed" => phase # "disposed"
  PROVE  Slots'
<1>1. globalPool' = globalPool /\ typePools' = typePools
  BY DEF poolVars
<1>2. GlobalSlots(globalPool)'
  BY <1>1 DEF Slots, GlobalSlots
<1>3. \A type \in Type : TypeSlots(type, typePools[type])'
  BY <1>1, TypePoolKept
<1> QED  BY <1>1, <1>2, <1>3 DEF Slots

\* One execution moves on without passing a pool.
LEMMA MovedAside ==
  ASSUME Slots, NEW t \in Task, NEW stage \in Stages,
         exec' = [exec EXCEPT ![t] = stage],
         exec[t] \notin {"waitGlobal", "waitType"},
         stage \notin {"waitGlobal", "waitType"},
         exec[t] \in GlobalStages <=> stage \in GlobalStages,
         exec[t] \in TypeStages <=> stage \in TypeStages,
         UNCHANGED poolVars, phase' = phase
  PROVE  Slots'
<1>1. exec \in [Task -> Stages]
  BY DEF Slots
<1>2. exec' \in [Task -> Stages]
  BY <1>1
<1>3. GlobalHolders' = GlobalHolders /\ GlobalWaiters' = GlobalWaiters
  BY <1>1 DEF GlobalHolders, GlobalWaiters, GlobalStages
<1>4. ASSUME NEW type \in Type
      PROVE  /\ TypeHolders(type)' = TypeHolders(type)
             /\ TypeWaiters(type)' = TypeWaiters(type)
  BY <1>1 DEF TypeHolders, TypeWaiters, TypeStages
<1> QED  BY <1>2, <1>3, <1>4, SlotsKept

\* No execution moves.
LEMMA NobodyMoved ==
  ASSUME Slots, exec' = exec, UNCHANGED poolVars,
         phase' # "disposed" => phase # "disposed"
  PROVE  Slots'
<1>1. exec' \in [Task -> Stages]
  BY DEF Slots
<1>2. /\ GlobalHolders' = GlobalHolders /\ GlobalWaiters' = GlobalWaiters
      /\ \A type \in Type : /\ TypeHolders(type)' = TypeHolders(type)
                            /\ TypeWaiters(type)' = TypeWaiters(type)
  BY DEF GlobalHolders, GlobalWaiters, TypeHolders, TypeWaiters
<1> QED  BY <1>1, <1>2, SlotsKept

\* What acquire does for an execution that does not wait for the pool yet.
LEMMA AcquiredByTask ==
  ASSUME NEW pool \in PoolType(Task, Int), NEW entry \in EntryType(Task, Int),
         NEW W, Queues(pool, W), entry.client \notin W
  PROVE  LET next == Acquired(pool, entry)
         IN  /\ next \in PoolType(Task, Int)
             /\ next.maxConcurrent = pool.maxConcurrent
             /\ HasCapacity(pool) =>
                  Queues(next, W) /\ next.running = pool.running + 1
             /\ ~HasCapacity(pool) =>
                  /\ Queues(next, W \union {entry.client})
                  /\ next.running = pool.running
<1>1. PICK P : P = Int
  OBVIOUS
<1>2. PICK next : next = Acquired(pool, entry)
  OBVIOUS
<1>3. P \in SUBSET Int /\ pool \in PoolType(Task, P)
      /\ entry \in EntryType(Task, P) /\ entry.client \notin W
  BY <1>1
<1>4. NoDuplicates(pool.queue) /\ Clients(pool.queue) = W
  BY DEF Queues
<1>5. CASE HasCapacity(pool)
  <2>1. next = Taken(pool)
    BY <1>2, <1>5 DEF Acquired
  <2>2. next \in PoolType(Task, Int)
    BY <2>1, TakenType
  <2>3. /\ next.queue = pool.queue /\ next.running = pool.running + 1
        /\ next.maxConcurrent = pool.maxConcurrent
    BY <2>1 DEF Taken, PoolType
  <2> QED  BY <1>2, <1>4, <1>5, <2>2, <2>3 DEF Queues
<1>6. CASE ~HasCapacity(pool)
  <2>1. next = Enqueued(pool, entry)
    BY <1>2, <1>6 DEF Acquired
  <2>2. next \in PoolType(Task, P)
    BY ONLY <1>3, <2>1, EnqueuedType
  <2>3. entry.client \notin Clients(pool.queue)
    BY <1>3, <1>4
  <2>4. /\ Clients(next.queue) = Clients(pool.queue) \union {entry.client}
        /\ NoDuplicates(next.queue)
    BY ONLY <1>3, <1>4, <2>1, <2>3, EnqueuedClients
  <2>5. /\ next.running = pool.running
        /\ next.maxConcurrent = pool.maxConcurrent
    BY <2>1 DEF Enqueued, PoolType
  <2> QED  BY <1>1, <1>2, <1>4, <1>6, <2>2, <2>4, <2>5 DEF Queues
<1> QED  BY <1>5, <1>6

\* The pool of a type takes or queues an execution that has the global slot.
LEMMA TypeSlotAcquired ==
  ASSUME Slots, NEW t \in Task, AcquireType(t)
  PROVE  Slots'
<1> DEFINE type0 == TypeOf[t]
           pool == typePools[type0]
           stage == IF HasCapacity(pool) THEN "hasType" ELSE "waitType"
<1>0. PICK next : next = Acquired(pool, Entry(t, Priority[t]))
  OBVIOUS
<1>1. /\ exec \in [Task -> Stages] /\ type0 \in Type
      /\ GlobalSlots(globalPool) /\ TypeSlots(type0, pool)
      /\ typePools = [type \in Type |-> typePools[type]]
  BY DEF Slots
<1>2. /\ exec[t] = "hasGlobal" /\ exec' = [exec EXCEPT ![t] = stage]
      /\ typePools' = [typePools EXCEPT ![type0] = next]
      /\ globalPool' = globalPool /\ phase' = phase
  BY <1>0 DEF AcquireType, PoolOf
<1>4. /\ t \notin TypeWaiters(type0) /\ t \notin TypeHolders(type0)
      /\ stage \in {"hasType", "waitType"} /\ stage \in Stages
  BY <1>2 DEF TypeWaiters, TypeHolders, Stages
<1> HIDE DEF type0
<1>5. /\ next \in PoolType(Task, Int)
      /\ next.maxConcurrent = pool.maxConcurrent
      /\ HasCapacity(pool) =>
           /\ Queues(next, TypeWaiters(type0))
           /\ next.running = pool.running + 1
      /\ ~HasCapacity(pool) =>
           /\ Queues(next, TypeWaiters(type0) \union {t})
           /\ next.running = pool.running
  <2>1. pool \in PoolType(Task, Int) /\ Queues(pool, TypeWaiters(type0))
    BY <1>1 DEF TypeSlots
  <2>2. PICK W : W = TypeWaiters(type0)
    OBVIOUS
  <2>3. PICK q : q = pool
    OBVIOUS
  <2>4. PICK entry : entry = Entry(t, Priority[t])
    OBVIOUS
  <2>5. /\ q \in PoolType(Task, Int) /\ Queues(q, W) /\ entry.client \notin W
        /\ next = Acquired(q, entry) /\ entry \in EntryType(Task, Int)
        /\ entry.client = t
    BY <1>0, <1>4, <2>1, <2>2, <2>3, <2>4 DEF Entry, EntryType
  <2>6. /\ next \in PoolType(Task, Int)
        /\ next.maxConcurrent = q.maxConcurrent
    BY ONLY <2>5, AcquiredByTask
  <2>7. HasCapacity(q) => Queues(next, W) /\ next.running = q.running + 1
    BY ONLY <2>5, AcquiredByTask
  <2>8. ~HasCapacity(q) =>
          Queues(next, W \union {t}) /\ next.running = q.running
    BY ONLY <2>5, AcquiredByTask
  <2> QED  BY <2>2, <2>3, <2>6, <2>7, <2>8
<1>6. exec' \in [Task -> Stages]
  BY <1>1, <1>2, <1>4
<1>7. GlobalHolders' = GlobalHolders /\ GlobalWaiters' = GlobalWaiters
  BY <1>1, <1>2, <1>4 DEF GlobalHolders, GlobalWaiters
<1>8. /\ HasCapacity(pool) =>
           /\ TypeHolders(type0)' = TypeHolders(type0) \union {t}
           /\ TypeWaiters(type0)' = TypeWaiters(type0)
      /\ ~HasCapacity(pool) =>
           /\ TypeHolders(type0)' = TypeHolders(type0)
           /\ TypeWaiters(type0)' = TypeWaiters(type0) \union {t}
  BY <1>1, <1>2 DEF TypeHolders, TypeWaiters, type0
<1>9. \A type \in Type : type # type0 =>
        /\ TypeHolders(type)' = TypeHolders(type)
        /\ TypeWaiters(type)' = TypeWaiters(type)
  BY <1>1, <1>2, <1>4 DEF TypeHolders, TypeWaiters, type0
<1>10. GlobalSlots(globalPool)'
  BY <1>1, <1>2, <1>7 DEF GlobalSlots
<1>11. ASSUME NEW type \in Type  PROVE TypeSlots(type, typePools[type])'
  <2>1. CASE type # type0
    <3>1. typePools'[type] = typePools[type]
      BY <1>1, <1>2, <2>1
    <3> QED  BY <1>2, <1>9, <2>1, <3>1, TypePoolKept
  <2>2. CASE type = type0
    <3>1. typePools'[type0] = next
      BY <1>1, <1>2
    <3>2. TypeHolders(type0) \in SUBSET Task
      BY DEF TypeHolders
    <3>3. Cardinality(TypeHolders(type0) \union {t})
            = Cardinality(TypeHolders(type0)) + 1
      BY <1>4, <3>2, OneTask
    <3>4. pool.running \in Nat /\ pool.maxConcurrent \in Nat
      BY <1>1 DEF TypeSlots, PoolType
    <3>5. Queues(next, TypeWaiters(type0)')
      BY <1>5, <1>8
    <3>6. phase # "disposed" =>
            /\ next.running = Cardinality(TypeHolders(type0)')
            /\ next.maxConcurrent = TypeLimit[type0]
            /\ next.running <= TypeLimit[type0]
      <4>1. /\ HasCapacity(pool) <=> pool.running < pool.maxConcurrent
            /\ phase # "disposed" =>
                 /\ pool.running = Cardinality(TypeHolders(type0))
                 /\ pool.maxConcurrent = TypeLimit[type0]
                 /\ pool.running <= TypeLimit[type0]
        BY <1>1 DEF TypeSlots, HasCapacity
      <4> HIDE DEF pool
      <4>2. CASE HasCapacity(pool)
        <5>1. Cardinality(TypeHolders(type0)')
                = Cardinality(TypeHolders(type0)) + 1
          BY <1>8, <3>3, <4>2
        <5>2. next.running = pool.running + 1
          BY <1>5, <4>2
        <5> QED  BY <1>5, <3>4, <4>1, <4>2, <5>1, <5>2
      <4>3. CASE ~HasCapacity(pool)
        BY <1>5, <1>8, <3>4, <4>1, <4>3
      <4> QED  BY <4>2, <4>3
    <3> QED  BY <1>2, <1>5, <2>2, <3>1, <3>5, <3>6 DEF TypeSlots
  <2> QED  BY <2>1, <2>2
<1>12. typePools' = [type \in Type |-> typePools'[type]]
  BY <1>1, <1>2
<1> QED  BY <1>6, <1>10, <1>11, <1>12 DEF Slots

\* The pool of a type takes over the limit its configuration asks for.
LEMMA TypeResized ==
  ASSUME NEW type \in Type, NEW pool, TypeSlots(type, pool)
  PROVE  LET p == Resized(pool, TypeLimit[type])
             F == FirstClients(pool.queue, Admissible(pool, TypeLimit[type]))
         IN  /\ p \in PoolType(Task, Int)
             /\ F \subseteq TypeWaiters(type)
             /\ Queues(p, TypeWaiters(type) \ F)
             /\ phase # "disposed" =>
                  /\ p.maxConcurrent = TypeLimit[type]
                  /\ p.running <= TypeLimit[type]
                  /\ p.running = Cardinality(TypeHolders(type) \union F)
<1>1. PICK limit : limit = TypeLimit[type]
  OBVIOUS
<1>2. PICK F : F = FirstClients(pool.queue, Admissible(pool, limit))
  OBVIOUS
<1>3. PICK p : p = Resized(pool, limit)
  OBVIOUS
<1>4. /\ pool \in PoolType(Task, Int) /\ Queues(pool, TypeWaiters(type))
      /\ limit \in Nat \ {0}
  BY <1>1 DEF TypeSlots
<1>5. /\ p \in PoolType(Task, Int)
      /\ p.maxConcurrent = limit
      /\ Queues(p, TypeWaiters(type) \ F)
      /\ F \subseteq TypeWaiters(type) /\ IsFiniteSet(F)
      /\ p.running = pool.running + Cardinality(F)
      /\ pool.running <= limit => p.running <= limit
  BY <1>2, <1>3, <1>4, ResizeQueues
<1>6. Cardinality(TypeHolders(type) \union F)
        = Cardinality(TypeHolders(type)) + Cardinality(F)
  <2>1. /\ TypeHolders(type) \in SUBSET Task /\ F \in SUBSET Task
        /\ TypeHolders(type) \cap F = {}
    BY <1>5 DEF TypeHolders, TypeWaiters
  <2> QED  BY <2>1, JoinedTasks
<1>7. phase # "disposed" =>
        pool.running = Cardinality(TypeHolders(type)) /\ pool.running <= limit
  BY <1>1 DEF TypeSlots
<1> QED  BY <1>1, <1>2, <1>3, <1>5, <1>6, <1>7

\* executeTask up to the global slot.
LEMMA Started ==
  ASSUME Slots, NEW t \in Task, Start(t)
  PROVE  Slots'
<1> DEFINE type0 == TypeOf[t]
           pool == typePools[type0]
<1>1. PICK wt : wt = FirstClients(pool.queue, Admissible(pool, TypeLimit[type0]))
  OBVIOUS
<1>2. PICK resized : resized = Resized(pool, TypeLimit[type0])
  OBVIOUS
<1>3. PICK next : next = Acquired(globalPool, Entry(t, Priority[t]))
  OBVIOUS
<1>4. PICK stage : stage = IF globalPool.disposed THEN "done"
                           ELSE IF HasCapacity(globalPool)
                           THEN "hasGlobal" ELSE "waitGlobal"
  OBVIOUS
<1>5. /\ exec \in [Task -> Stages] /\ type0 \in Type
      /\ GlobalSlots(globalPool) /\ TypeSlots(type0, pool)
      /\ typePools = [type \in Type |-> typePools[type]]
  BY DEF Slots
<1>6. /\ exec[t] = "starting" /\ phase' = phase
      /\ typePools' = [typePools EXCEPT ![type0] = resized]
  BY <1>2 DEF Start, PoolOf
<1>7. Goto(t, stage, {}, wt)
  BY <1>1, <1>4 DEF Start, PoolOf
<1>8. globalPool' = IF globalPool.disposed THEN globalPool ELSE next
  BY <1>3 DEF Start
<1>9. /\ resized \in PoolType(Task, Int)
      /\ wt \subseteq TypeWaiters(type0)
      /\ Queues(resized, TypeWaiters(type0) \ wt)
      /\ phase # "disposed" =>
           /\ resized.maxConcurrent = TypeLimit[type0]
           /\ resized.running <= TypeLimit[type0]
           /\ resized.running = Cardinality(TypeHolders(type0) \union wt)
  <2> HIDE DEF pool, type0
  <2> QED  BY <1>1, <1>2, <1>5, TypeResized
<1> HIDE DEF pool, type0
<1>10. /\ t \notin GlobalHolders /\ t \notin GlobalWaiters
       /\ t \notin TypeHolders(type0) /\ t \notin TypeWaiters(type0)
       /\ t \notin wt
  BY <1>6, <1>9 DEF GlobalHolders, GlobalWaiters, TypeHolders, TypeWaiters
<1>11. /\ stage \in Stages /\ stage \in {"done", "hasGlobal", "waitGlobal"}
       /\ stage \notin TypeStages /\ stage # "waitType"
       /\ stage \in GlobalStages <=> stage = "hasGlobal"
  BY <1>4 DEF Stages, TypeStages, GlobalStages
<1>12. /\ exec' \in [Task -> Stages]
       /\ GlobalHolders' = GlobalHolders
              \union (IF stage = "hasGlobal" THEN {t} ELSE {})
       /\ GlobalWaiters' = GlobalWaiters
              \union (IF stage = "waitGlobal" THEN {t} ELSE {})
       /\ TypeHolders(type0)' = TypeHolders(type0) \union wt
       /\ TypeWaiters(type0)' = TypeWaiters(type0) \ wt
       /\ \A type \in Type : type # type0 =>
            /\ TypeHolders(type)' = TypeHolders(type)
            /\ TypeWaiters(type)' = TypeWaiters(type)
  <2>1. {} \in SUBSET GlobalWaiters /\ wt \in SUBSET TypeWaiters(TypeOf[t])
    BY <1>9 DEF type0
  <2>2. PICK wg : wg = {}
    OBVIOUS
  <2>3. wg \in SUBSET GlobalWaiters /\ t \notin wg /\ Goto(t, stage, wg, wt)
    BY <1>7, <2>2
  <2>4. /\ exec' \in [Task -> Stages]
        /\ GlobalHolders' = (GlobalHolders \ {t}) \union wg
               \union (IF stage \in GlobalStages THEN {t} ELSE {})
        /\ GlobalWaiters' = (GlobalWaiters \ (wg \union {t}))
               \union (IF stage = "waitGlobal" THEN {t} ELSE {})
        /\ TypeHolders(TypeOf[t])' = (TypeHolders(TypeOf[t]) \ {t}) \union wt
               \union (IF stage \in TypeStages THEN {t} ELSE {})
        /\ TypeWaiters(TypeOf[t])' = (TypeWaiters(TypeOf[t]) \ (wt \union {t}))
               \union (IF stage = "waitType" THEN {t} ELSE {})
        /\ \A type \in Type : type # TypeOf[t] =>
             /\ TypeHolders(type)' = TypeHolders(type)
             /\ TypeWaiters(type)' = TypeWaiters(type)
    BY <1>5, <1>10, <1>11, <2>1, <2>3, Moved
  <2> QED  BY <1>10, <1>11, <2>2, <2>4 DEF type0
<1>13. GlobalSlots(globalPool)'
  <2>1. CASE globalPool.disposed
    <3>1. /\ GlobalHolders' = GlobalHolders /\ GlobalWaiters' = GlobalWaiters
          /\ globalPool' = globalPool
      BY <1>4, <1>8, <1>12, <2>1
    <3> QED  BY <1>5, <3>1 DEF GlobalSlots
  <2>2. CASE ~globalPool.disposed
    <3>1. PICK entry : entry = Entry(t, Priority[t])
      OBVIOUS
    <3>2. /\ globalPool \in PoolType(Task, Int)
          /\ Queues(globalPool, GlobalWaiters)
          /\ entry \in EntryType(Task, Int)
          /\ entry.client = t /\ entry.client \notin GlobalWaiters
          /\ next = Acquired(globalPool, entry)
      BY <1>3, <1>5, <1>10, <3>1 DEF GlobalSlots, Entry, EntryType
    <3>3. /\ next \in PoolType(Task, Int)
          /\ next.maxConcurrent = globalPool.maxConcurrent
      BY ONLY <3>2, AcquiredByTask
    <3>4. HasCapacity(globalPool) =>
            /\ Queues(next, GlobalWaiters)
            /\ next.running = globalPool.running + 1
      BY ONLY <3>2, AcquiredByTask
    <3>5. ~HasCapacity(globalPool) =>
            /\ Queues(next, GlobalWaiters \union {t})
            /\ next.running = globalPool.running
      BY ONLY <3>2, AcquiredByTask
    <3>6. GlobalHolders \in SUBSET Task
      BY DEF GlobalHolders
    <3>7. Cardinality(GlobalHolders \union {t}) = Cardinality(GlobalHolders) + 1
      BY <1>10, <3>6, OneTask
    <3>8. /\ globalPool.running \in Nat
          /\ globalPool.running = Cardinality(GlobalHolders)
          /\ globalPool.maxConcurrent = MaxConcurrent
          /\ globalPool.running <= MaxConcurrent
          /\ globalPool' = next
          /\ HasCapacity(globalPool) <=> globalPool.running < MaxConcurrent
      BY <1>5, <1>8, <2>2 DEF GlobalSlots, PoolType, HasCapacity
    <3>9. CASE HasCapacity(globalPool)
      <4>1. /\ GlobalHolders' = GlobalHolders \union {t}
            /\ GlobalWaiters' = GlobalWaiters
        BY <1>4, <1>12, <2>2, <3>9
      <4>2. next.running = Cardinality(GlobalHolders')
        BY <3>4, <3>7, <3>8, <3>9, <4>1
      <4> QED  BY <3>3, <3>4, <3>8, <3>9, <4>1, <4>2 DEF GlobalSlots
    <3>10. CASE ~HasCapacity(globalPool)
      <4>1. /\ GlobalHolders' = GlobalHolders
            /\ GlobalWaiters' = GlobalWaiters \union {t}
        BY <1>4, <1>12, <2>2, <3>10
      <4>2. next.running = Cardinality(GlobalHolders')
        BY <3>5, <3>8, <3>10, <4>1
      <4> QED  BY <3>3, <3>5, <3>8, <3>10, <4>1, <4>2 DEF GlobalSlots
    <3> QED  BY <3>9, <3>10
  <2> QED  BY <2>1, <2>2
<1>14. ASSUME NEW type \in Type  PROVE TypeSlots(type, typePools[type])'
  <2>1. CASE type = type0
    <3>1. typePools'[type] = resized
      BY <1>5, <1>6, <2>1
    <3> QED  BY <1>6, <1>9, <1>12, <2>1, <3>1 DEF TypeSlots
  <2>2. CASE type # type0
    <3>1. typePools'[type] = typePools[type]
      BY <1>5, <1>6, <2>2
    <3> QED  BY <1>6, <1>12, <2>2, <3>1, TypePoolKept
  <2> QED  BY <2>1, <2>2
<1>15. typePools' = [type \in Type |-> typePools'[type]]
  BY <1>5, <1>6
<1> QED  BY <1>12, <1>13, <1>14, <1>15 DEF Slots

\* A queue timeout, in either queue.
LEMMA TimedOutOfGlobal ==
  ASSUME Slots, NEW t \in Task, exec[t] = "waitGlobal",
         globalPool' = RemovedFromQueue(globalPool, t),
         exec' = [exec EXCEPT ![t] = "done"],
         typePools' = typePools, phase' = phase
  PROVE  Slots'
<1>1. /\ exec \in [Task -> Stages] /\ GlobalSlots(globalPool)
      /\ globalPool \in PoolType(Task, Int)
      /\ Queues(globalPool, GlobalWaiters)
  BY DEF Slots, GlobalSlots
<1>2. /\ exec' \in [Task -> Stages]
      /\ GlobalHolders' = GlobalHolders
      /\ GlobalWaiters' = GlobalWaiters \ {t}
  BY <1>1 DEF Stages, GlobalHolders, GlobalWaiters
<1>3. ASSUME NEW type \in Type
      PROVE  /\ TypeHolders(type)' = TypeHolders(type)
             /\ TypeWaiters(type)' = TypeWaiters(type)
  BY <1>1 DEF TypeHolders, TypeWaiters
<1>4. /\ globalPool' \in PoolType(Task, Int)
      /\ globalPool'.maxConcurrent = globalPool.maxConcurrent
      /\ globalPool'.running = globalPool.running
      /\ Queues(globalPool', GlobalWaiters \ {t})
  BY <1>1, RemoveQueues
<1>5. GlobalSlots(globalPool)'
  BY <1>1, <1>2, <1>4 DEF GlobalSlots
<1>6. \A type \in Type : TypeSlots(type, typePools[type])'
  BY <1>3, TypePoolKept
<1> QED  BY <1>2, <1>5, <1>6 DEF Slots

\* A timeout in the queue of a type gives the global slot back.
LEMMA TimedOutOfType ==
  ASSUME Slots, NEW t \in Task, exec[t] = "waitType",
         typePools' = [typePools EXCEPT ![TypeOf[t]] = RemovedFromQueue(@, t)],
         UnwindGlobal(t), phase' = phase
  PROVE  Slots'
<1> DEFINE type0 == TypeOf[t]
           pool == typePools[type0]
           wg == Woken(globalPool)
<1>1. PICK next : next = RemovedFromQueue(pool, t)
  OBVIOUS
<1>2. /\ exec \in [Task -> Stages] /\ type0 \in Type
      /\ GlobalSlots(globalPool) /\ TypeSlots(type0, pool)
      /\ typePools = [type \in Type |-> typePools[type]]
      /\ t \in GlobalHolders
  BY DEF Slots, GlobalHolders
<1>3. /\ typePools' = [typePools EXCEPT ![type0] = next]
      /\ globalPool' = Released(globalPool)
      /\ Goto(t, "done", wg, {})
  BY <1>1 DEF UnwindGlobal
<1> HIDE DEF pool, type0, wg
<1>4. /\ next \in PoolType(Task, Int)
      /\ next.maxConcurrent = pool.maxConcurrent
      /\ next.running = pool.running
      /\ Queues(next, TypeWaiters(type0) \ {t})
  <2>1. pool \in PoolType(Task, Int) /\ Queues(pool, TypeWaiters(type0))
    BY <1>2 DEF TypeSlots
  <2> QED  BY <1>1, <2>1, RemoveQueues
<1>5. /\ wg \subseteq GlobalWaiters
      /\ globalPool' \in PoolType(Task, Int)
      /\ globalPool'.maxConcurrent = MaxConcurrent
      /\ globalPool'.running <= MaxConcurrent
      /\ Queues(globalPool', GlobalWaiters \ wg)
      /\ globalPool'.running = Cardinality((GlobalHolders \ {t}) \union wg)
  BY <1>2, <1>3, GlobalReleased DEF wg
<1>6. /\ exec' \in [Task -> Stages]
      /\ GlobalHolders' = (GlobalHolders \ {t}) \union wg
      /\ GlobalWaiters' = GlobalWaiters \ wg
      /\ TypeHolders(type0)' = TypeHolders(type0)
      /\ TypeWaiters(type0)' = TypeWaiters(type0) \ {t}
      /\ \A type \in Type : type # type0 =>
           /\ TypeHolders(type)' = TypeHolders(type)
           /\ TypeWaiters(type)' = TypeWaiters(type)
  <2>1. PICK stage : stage = "done"
    OBVIOUS
  <2>2. PICK wt : wt = {}
    OBVIOUS
  <2>3. /\ stage \in Stages /\ stage \notin GlobalStages /\ stage \notin TypeStages
        /\ stage # "waitGlobal" /\ stage # "waitType"
        /\ wg \in SUBSET GlobalWaiters /\ wt \in SUBSET TypeWaiters(TypeOf[t])
        /\ t \notin wg /\ t \notin wt /\ Goto(t, stage, wg, wt)
        /\ t \notin GlobalWaiters /\ t \notin TypeHolders(type0)
    BY <1>3, <1>5, <2>1, <2>2
       DEF Stages, GlobalStages, TypeStages, GlobalWaiters, TypeHolders
  <2>4. /\ exec' \in [Task -> Stages]
        /\ GlobalHolders' = (GlobalHolders \ {t}) \union wg
               \union (IF stage \in GlobalStages THEN {t} ELSE {})
        /\ GlobalWaiters' = (GlobalWaiters \ (wg \union {t}))
               \union (IF stage = "waitGlobal" THEN {t} ELSE {})
        /\ TypeHolders(TypeOf[t])' = (TypeHolders(TypeOf[t]) \ {t}) \union wt
               \union (IF stage \in TypeStages THEN {t} ELSE {})
        /\ TypeWaiters(TypeOf[t])' = (TypeWaiters(TypeOf[t]) \ (wt \union {t}))
               \union (IF stage = "waitType" THEN {t} ELSE {})
        /\ \A type \in Type : type # TypeOf[t] =>
             /\ TypeHolders(type)' = TypeHolders(type)
             /\ TypeWaiters(type)' = TypeWaiters(type)
    BY <1>2, <2>3, Moved
  <2> QED  BY <2>2, <2>3, <2>4 DEF type0
<1>7. GlobalSlots(globalPool)'
  BY <1>5, <1>6 DEF GlobalSlots
<1>8. ASSUME NEW type \in Type  PROVE TypeSlots(type, typePools[type])'
  <2>1. CASE type = type0
    <3>1. typePools'[type] = next
      BY <1>2, <1>3, <2>1
    <3> QED  BY <1>2, <1>4, <1>6, <2>1, <3>1 DEF TypeSlots
  <2>2. CASE type # type0
    <3>1. typePools'[type] = typePools[type]
      BY <1>2, <1>3, <2>2
    <3> QED  BY <1>6, <2>2, <3>1, TypePoolKept
  <2> QED  BY <2>1, <2>2
<1>9. typePools' = [type \in Type |-> typePools'[type]]
  BY <1>2, <1>3
<1> QED  BY <1>6, <1>7, <1>8, <1>9 DEF Slots

\* The end of dispose: the queues are empty, and the executions that waited
\* for the pool of their type give their global slots back.
LEMMA PoolsDisposed ==
  ASSUME Slots, DisposeEnds
  PROVE  Slots'
<1> DEFINE gone == {t \in Task : exec[t] \in {"waitGlobal", "waitType"}}
           holders == {t \in gone : exec[t] = "waitType"}
<1>1. /\ exec \in [Task -> Stages] /\ GlobalSlots(globalPool)
      /\ globalPool \in PoolType(Task, Int)
      /\ globalPool.running = Cardinality(GlobalHolders)
      /\ globalPool.maxConcurrent = MaxConcurrent
      /\ globalPool.running <= MaxConcurrent
  BY DEF Slots, GlobalSlots
<1>2. /\ phase' = "disposed"
      /\ exec' = [t \in Task |-> IF t \in gone THEN "done" ELSE exec[t]]
      /\ globalPool' = [Disposed(globalPool) EXCEPT
                          !.running = @ - Cardinality(holders)]
      /\ typePools' = [type \in Type |-> NewPool(DefaultTypeLimit)]
  BY DEF DisposeEnds
<1>3. /\ exec' \in [Task -> Stages]
      /\ GlobalWaiters' = {} /\ \A type \in Type : TypeWaiters(type)' = {}
      /\ GlobalHolders' = GlobalHolders \ holders
      /\ holders \subseteq GlobalHolders
  BY <1>1, <1>2 DEF Stages, GlobalWaiters, TypeWaiters, GlobalHolders
<1>4. /\ GlobalHolders \in SUBSET Task /\ holders \in SUBSET Task
      /\ GlobalHolders \ holders \in SUBSET Task
  BY DEF GlobalHolders
<1> HIDE DEF holders, gone
<1>5. /\ Cardinality(GlobalHolders)
           = Cardinality(GlobalHolders \ holders) + Cardinality(holders)
      /\ Cardinality(holders) \in Nat
      /\ Cardinality(GlobalHolders \ holders) \in Nat
  <2>1. /\ (GlobalHolders \ holders) \cap holders = {}
        /\ (GlobalHolders \ holders) \union holders = GlobalHolders
    BY <1>3
  <2> QED  BY <1>4, <2>1, JoinedTasks, TaskSetsAreFinite
<1>6. Disposed(globalPool) \in PoolType(Task, Int)
      /\ Disposed(globalPool).queue = <<>>
      /\ Disposed(globalPool).running = globalPool.running
      /\ Disposed(globalPool).maxConcurrent = MaxConcurrent
  <2>1. Disposed(globalPool) \in PoolType(Task, Int)
    BY <1>1, EmptiedType
  <2> QED  BY <1>1, <2>1 DEF Disposed, PoolType
<1>7. PICK p : p = Disposed(globalPool)
  OBVIOUS
<1>8. /\ globalPool'.queue = <<>>
      /\ globalPool'.running = Cardinality(GlobalHolders \ holders)
      /\ globalPool'.maxConcurrent = MaxConcurrent
      /\ globalPool' \in PoolType(Task, Int)
  <2>1. globalPool' = [p EXCEPT !.running = @ - Cardinality(holders)]
    BY <1>2, <1>7
  <2>2. p \in PoolType(Task, Int) /\ p.queue = <<>>
        /\ p.running = Cardinality(GlobalHolders)
        /\ p.maxConcurrent = MaxConcurrent
    BY <1>1, <1>6, <1>7
  <2>3. p.running - Cardinality(holders) = Cardinality(GlobalHolders \ holders)
    BY <1>5, <2>2
  <2>4. /\ globalPool'.queue = p.queue
        /\ globalPool'.running = p.running - Cardinality(holders)
        /\ globalPool'.maxConcurrent = p.maxConcurrent
    BY <2>1, <2>2 DEF PoolType
  <2>5. globalPool' \in PoolType(Task, Int)
    BY <1>5, <2>1, <2>2, <2>3 DEF PoolType
  <2> QED  BY <2>2, <2>3, <2>4, <2>5
<1>9. Queues(globalPool', {})
  BY <1>8 DEF Queues, Clients, NoDuplicates
<1>10. GlobalSlots(globalPool)'
  BY <1>1, <1>3, <1>5, <1>8, <1>9 DEF GlobalSlots
<1>11. ASSUME NEW type \in Type  PROVE TypeSlots(type, typePools[type])'
  <2>1. typePools'[type] = NewPool(DefaultTypeLimit)
    BY <1>2
  <2>2. /\ NewPool(DefaultTypeLimit) \in PoolType(Task, Int)
        /\ Queues(NewPool(DefaultTypeLimit), {})
    BY NewPoolType, NewPoolQueues
  <2> QED  BY <1>2, <1>3, <2>1, <2>2 DEF TypeSlots
<1> QED  BY <1>2, <1>3, <1>10, <1>11 DEF Slots

-----------------------------------------------------------------------------
(***************************************************************************)
(* Which executions a step moves, and that what the resumption has not     *)
(* come to has none.                                                       *)
(***************************************************************************)

Before == {"starting", "waitGlobal", "hasGlobal", "waitType", "hasType"}
Running == {"executing", "backoff"}

\* A step that moves the execution of u at most from one wait to the next.
Advances(u) ==
  \/ exec'[u] = exec[u]
  \/ exec[u] \in Before /\ exec'[u] \in Before

\* The same, or from one attempt to the next.
Moves(u) ==
  \/ Advances(u)
  \/ exec[u] \in Running /\ exec'[u] \in Running

\* Only t goes to another stage; who is woken moves on to the next wait.
LEMMA GoneTo ==
  ASSUME exec \in [Task -> Stages], NEW t \in Task, NEW stage,
         NEW wg, wg \subseteq GlobalWaiters,
         NEW wt, \A u \in wt : u \in Task /\ exec[u] = "waitType",
         Goto(t, stage, wg, wt)
  PROVE  exec'[t] = stage /\ \A u \in Task \ {t} : Advances(u)
BY DEF Goto, Advances, Before, GlobalWaiters

\* The finally blocks move nobody but t and the executions they wake.
LEMMA UnwoundMoves ==
  ASSUME Slots, NEW t \in Task,
         \/ UnwindBoth(t) /\ exec[t] \in TypeStages
         \/ UnwindGlobal(t) /\ exec[t] = "waitType"
  PROVE  exec'[t] = "done" /\ \A u \in Task \ {t} : Advances(u)
<1>1. PICK wg : wg = Woken(globalPool)
  OBVIOUS
<1>2. PICK wt : wt = Woken(PoolOf(t))
  OBVIOUS
<1>3. exec \in [Task -> Stages] /\ t \in GlobalHolders
      /\ GlobalSlots(globalPool)
  BY DEF Slots, GlobalHolders, TypeStages
<1>4. wg \subseteq GlobalWaiters
  BY <1>1, <1>3, GlobalReleased
<1>5. CASE UnwindBoth(t) /\ exec[t] \in TypeStages
  <2>0. TypeOf[t] \in Type /\ t \in TypeHolders(TypeOf[t])
    BY <1>5, OptionsAssumption DEF TypeHolders, TypeStages
  <2>1. TypeSlots(TypeOf[t], PoolOf(t))
    BY <2>0 DEF Slots, PoolOf
  <2>2. wt \subseteq TypeWaiters(TypeOf[t])
    BY <1>2, <2>0, <2>1, TypeReleased
  <2>3. \A u \in wt : u \in Task /\ exec[u] = "waitType"
    BY <2>2 DEF TypeWaiters
  <2>4. Goto(t, "done", wg, wt)
    BY <1>1, <1>2, <1>5 DEF UnwindBoth
  <2> QED  BY <1>3, <1>4, <2>3, <2>4, GoneTo
<1>6. CASE UnwindGlobal(t)
  <2>1. Goto(t, "done", wg, {})
    BY <1>1, <1>6 DEF UnwindGlobal
  <2>2. PICK none : none = {}
    OBVIOUS
  <2>3. \A u \in none : u \in Task /\ exec[u] = "waitType"
    BY <2>2
  <2>4. Goto(t, "done", wg, none)
    BY <2>1, <2>2
  <2> QED  BY <1>3, <1>4, <2>3, <2>4, GoneTo
<1> QED  BY <1>5, <1>6

\* What a step of the executions, or a queue timeout, does to the stages.
LEMMA StagesMove ==
  ASSUME Slots, NEW t \in Task, Proceed(t) \/ QueueTimesOut(t)
  PROVE  /\ exec[t] \notin {"none", "done"} /\ exec'[t] # "none"
         /\ \A u \in Task \ {t} : Advances(u)
<1>0. exec \in [Task -> Stages]
  BY DEF Slots
<1>1. CASE \/ StartUnregistered(t) \/ AcquireType(t) \/ BeginExecution(t)
           \/ ExecutorThrows(t) \/ BackoffElapses(t)
  BY <1>0, <1>1 DEF StartUnregistered, AcquireType, BeginExecution,
                    ExecutorThrows, BackoffElapses, Advances
<1>2. CASE \/ SkipCancelled(t) \/ ExecutorGivesUp(t) \/ BackoffAborted(t)
           \/ \E status \in {"completed", "failed"} : ExecutorReturns(t, status)
  <2>1. UnwindBoth(t) /\ exec[t] \in TypeStages
    BY <1>2 DEF SkipCancelled, ExecutorGivesUp, BackoffAborted,
                ExecutorReturns, TypeStages
  <2> QED  BY <1>0, <2>1, UnwoundMoves DEF TypeStages
<1>3. CASE QueueTimesOut(t)
  <2>1. CASE exec[t] = "waitGlobal" /\ exec' = [exec EXCEPT ![t] = "done"]
    BY <1>0, <2>1 DEF Advances
  <2>2. CASE exec[t] = "waitType" /\ UnwindGlobal(t)
    BY <1>0, <2>2, UnwoundMoves
  <2> QED  BY <1>3, <2>1, <2>2 DEF QueueTimesOut
<1>4. CASE Start(t)
  <2>1. PICK wt : wt = FirstClients(PoolOf(t).queue,
                         Admissible(PoolOf(t), TypeLimit[TypeOf[t]]))
    OBVIOUS
  <2>2. TypeOf[t] \in Type
    BY OptionsAssumption
  <2>3. TypeSlots(TypeOf[t], PoolOf(t))
    BY <1>0, <2>2 DEF Slots, PoolOf
  <2>4. wt \subseteq TypeWaiters(TypeOf[t])
    BY <2>1, <2>2, <2>3, TypeResized
  <2>5. \A u \in wt : u \in Task /\ exec[u] = "waitType"
    BY <2>4 DEF TypeWaiters
  <2>6. PICK stage \in {"hasGlobal", "waitGlobal", "done"} :
          Goto(t, stage, {}, wt)
    BY <1>4, <2>1 DEF Start
  <2>7. exec'[t] = stage /\ \A u \in Task \ {t} : Advances(u)
    BY <1>0, <2>5, <2>6, GoneTo
  <2>8. exec[t] = "starting"
    BY <1>4 DEF Start
  <2> QED  BY <2>6, <2>7, <2>8
<1> QED  BY <1>1, <1>2, <1>3, <1>4 DEF Proceed

\* What the resumption has in hand is not executed yet, and only tasks of the
\* previous process have a poller.
Resting(t) ==
  /\ resume[t] # "none" => t \in Loaded /\ exec[t] = "none"
  /\ poller[t] # "none" => t \in Loaded

SlotInv == LifeType /\ Slots /\ \A t \in Task : Resting(t)

\* Every step keeps it.
LEMMA RestingStep ==
  ASSUME SlotInv, Next, NEW u \in Task
  PROVE  Resting(u)'
<1>0. /\ LifeType /\ Slots /\ exec \in [Task -> Stages] /\ Resting(u)
  BY DEF SlotInv, Slots
<1> USE DEF lifeVars, runVars, startVars
<1>1. ASSUME NEW t \in Task, Proceed(t) \/ QueueTimesOut(t)
      PROVE  Resting(u)'
  <2>1. resume' = resume /\ poller' = poller
    BY <1>1 DEF Proceed, StartUnregistered, Start, AcquireType, SkipCancelled,
         BeginExecution, ExecutorReturns, ExecutorThrows, ExecutorGivesUp,
         BackoffElapses, BackoffAborted, QueueTimesOut
  <2>2. /\ exec[t] # "none"
        /\ \A v \in Task \ {t} : Advances(v)
    BY <1>0, <1>1, StagesMove
  <2>3. exec[u] = "none" => exec'[u] = "none"
    BY <2>2 DEF Advances, Before
  <2> QED  BY <1>0, <2>1, <2>3 DEF Resting
<1>2. ASSUME NEW t \in Task, Submit(t)  PROVE Resting(u)'
  BY <1>0, <1>2 DEF Submit, Resting
<1>3. ASSUME NEW t \in Task, StartUp(t)  PROVE Resting(u)'
  BY <1>0, <1>3 DEF StartUp, MarkPending, Adopt, Resume, Resting, LifeType
<1>4. ASSUME NEW t \in Task, Poll(t)  PROVE Resting(u)'
  <2>1. exec' = exec /\ resume' = resume
        /\ (poller'[u] # "none" => poller[u] # "none")
    BY <1>0, <1>4 DEF Poll, Upsert, UpsertEnds, LifeType
  <2> QED  BY <1>0, <2>1 DEF Resting
<1>5. ASSUME NEW t \in Task, Cancel(t) \/ Delete(t) \/ DeleteEnds(t)
                              \/ WaitForCompletion(t) \/ WaiterTimesOut(t)
      PROVE  Resting(u)'
  BY <1>0, <1>5 DEF Cancel, Delete, DeleteEnds, WaitForCompletion,
                    WaiterTimesOut, Resting
<1>6. CASE Dispose \/ DisposeEnds
  <2>1. resume' = resume /\ poller' = poller
        /\ (exec[u] = "none" => exec'[u] = "none")
    BY <1>0, <1>6 DEF Dispose, DisposeEnds
  <2> QED  BY <1>0, <2>1 DEF Resting
<1> QED  BY <1>1, <1>2, <1>3, <1>4, <1>5, <1>6 DEF Next

-----------------------------------------------------------------------------
\* When the resumption begins no slot is taken and nobody queues.
LEMMA SlotInvInit == Init => SlotInv
<1> SUFFICES ASSUME Init  PROVE SlotInv
  OBVIOUS
<1>1. LifeType
  <2>1. /\ Unfinished \union {"absent"} \subseteq Statuses
        /\ Unfinished \union {"none"} \subseteq Resumption
    BY DEF Statuses, Resumption
  <2>2. tasks \in [Task -> Unfinished \union {"absent"}]
        /\ \A t \in Task : tasks[t] = "absent" <=> t \notin Loaded
    BY DEF Init
  <2>3. resume \in [Task -> Resumption]
    BY <2>1, <2>2 DEF Init
  <2> QED  BY <2>1, <2>2, <2>3 DEF Init, LifeType
<1>2. \A t \in Task : exec[t] = "none"
  BY DEF Init
<1>3. /\ GlobalHolders = {} /\ GlobalWaiters = {}
      /\ \A type \in Type : TypeHolders(type) = {} /\ TypeWaiters(type) = {}
  BY <1>2 DEF GlobalHolders, GlobalWaiters, TypeHolders, TypeWaiters
<1>4. Cardinality({}) = 0
  BY FS_EmptySet
<1>5. GlobalSlots(globalPool)
  <2>1. /\ globalPool = NewPool(MaxConcurrent)
        /\ NewPool(MaxConcurrent) \in PoolType(Task, Int)
        /\ Queues(NewPool(MaxConcurrent), {})
    BY NewPoolType, NewPoolQueues DEF Init
  <2> QED  BY <1>3, <1>4, <2>1 DEF GlobalSlots, NewPool
<1>6. ASSUME NEW type \in Type  PROVE TypeSlots(type, typePools[type])
  <2>1. /\ typePools[type] = NewPool(TypeLimit[type])
        /\ NewPool(TypeLimit[type]) \in PoolType(Task, Int)
        /\ Queues(NewPool(TypeLimit[type]), {})
    BY NewPoolType, NewPoolQueues DEF Init
  <2>2. /\ typePools[type].running = 0
        /\ typePools[type].maxConcurrent = TypeLimit[type]
    BY <2>1 DEF NewPool
  <2>3. TypeHolders(type) = {} /\ TypeWaiters(type) = {}
    BY <1>3
  <2>4. TypeLimit[type] \in Nat
    BY LimitsAssumption
  <2> HIDE DEF TypeHolders, TypeWaiters
  <2> QED  BY <1>4, <2>1, <2>2, <2>3, <2>4 DEF TypeSlots
<1>7. /\ exec \in [Task -> Stages]
      /\ typePools = [type \in Type |-> typePools[type]]
  BY DEF Init, Stages
<1>8. ASSUME NEW t \in Task  PROVE Resting(t)
  BY DEF Init, Resting
<1> QED  BY <1>1, <1>5, <1>6, <1>7, <1>8 DEF SlotInv, Slots

\* Every step of the manager and of its callers keeps the invariant.
LEMMA SlotInvStep == SlotInv /\ [Next]_vars => SlotInv'
<1>r. ASSUME SlotInv, [Next]_vars, NEW u \in Task  PROVE Resting(u)'
  <2>1. CASE UNCHANGED vars
    BY <1>r, <2>1 DEF vars, runVars, startVars, SlotInv, Resting
  <2> QED  BY <1>r, <2>1, RestingStep
<1> SUFFICES ASSUME SlotInv, [Next]_vars  PROVE Slots'
  BY <1>r, LifeTypeStep DEF SlotInv
<1>0. Slots /\ exec \in [Task -> Stages]
  BY DEF SlotInv, Slots
<1>s. {"none", "starting", "hasType", "executing", "backoff", "done"}
        \subseteq Stages
  BY DEF Stages
<1> USE DEF lifeVars, runVars, startVars
<1>1. ASSUME NEW t \in Task, Submit(t)  PROVE Slots'
  BY <1>0, <1>1, <1>s, MovedAside DEF Submit, GlobalStages, TypeStages
<1>2. ASSUME NEW t \in Task, StartUnregistered(t)  PROVE Slots'
  BY <1>0, <1>2, <1>s, MovedAside
     DEF StartUnregistered, GlobalStages, TypeStages
<1>3. ASSUME NEW t \in Task, Start(t)  PROVE Slots'
  BY <1>0, <1>3, Started
<1>4. ASSUME NEW t \in Task, AcquireType(t)  PROVE Slots'
  BY <1>0, <1>4, TypeSlotAcquired
<1>5. ASSUME NEW t \in Task, SkipCancelled(t)  PROVE Slots'
  BY <1>0, <1>5, BothUnwound DEF SkipCancelled, TypeStages
<1>6. ASSUME NEW t \in Task, BeginExecution(t)  PROVE Slots'
  BY <1>0, <1>6, <1>s, MovedAside DEF BeginExecution, GlobalStages, TypeStages
<1>7. ASSUME NEW t \in Task, NEW status \in {"completed", "failed"},
             ExecutorReturns(t, status)
      PROVE  Slots'
  BY <1>0, <1>7, BothUnwound DEF ExecutorReturns, TypeStages
<1>8. ASSUME NEW t \in Task, ExecutorThrows(t)  PROVE Slots'
  BY <1>0, <1>8, <1>s, MovedAside DEF ExecutorThrows, GlobalStages, TypeStages
<1>9. ASSUME NEW t \in Task, ExecutorGivesUp(t)  PROVE Slots'
  BY <1>0, <1>9, BothUnwound DEF ExecutorGivesUp, TypeStages
<1>10. ASSUME NEW t \in Task, BackoffElapses(t)  PROVE Slots'
  BY <1>0, <1>10, <1>s, MovedAside DEF BackoffElapses, GlobalStages, TypeStages
<1>11. ASSUME NEW t \in Task, BackoffAborted(t)  PROVE Slots'
  BY <1>0, <1>11, BothUnwound DEF BackoffAborted, TypeStages
<1>12. ASSUME NEW t \in Task, QueueTimesOut(t)  PROVE Slots'
  <2>1. CASE /\ exec[t] = "waitGlobal"
             /\ globalPool' = RemovedFromQueue(globalPool, t)
             /\ exec' = [exec EXCEPT ![t] = "done"]
             /\ UNCHANGED typePools
    BY <1>0, <1>12, <2>1, TimedOutOfGlobal DEF QueueTimesOut
  <2>2. CASE /\ exec[t] = "waitType"
             /\ typePools' = [typePools EXCEPT
                                ![TypeOf[t]] = RemovedFromQueue(@, t)]
             /\ UnwindGlobal(t)
    BY <1>0, <1>12, <2>2, TimedOutOfType DEF QueueTimesOut
  <2> QED  BY <1>12, <2>1, <2>2 DEF QueueTimesOut
<1>13. ASSUME NEW t \in Task, Cancel(t) \/ Delete(t) \/ DeleteEnds(t)
                              \/ WaitForCompletion(t) \/ WaiterTimesOut(t)
       PROVE  Slots'
  <2>1. exec' = exec /\ phase' = phase /\ UNCHANGED poolVars
    BY <1>13 DEF Cancel, Delete, DeleteEnds, WaitForCompletion, WaiterTimesOut
  <2> QED  BY <1>0, <2>1, NobodyMoved
<1>14. CASE Dispose
  <2>1. exec' = exec /\ phase = "up" /\ UNCHANGED poolVars
    BY <1>14 DEF Dispose
  <2> QED  BY <1>0, <2>1, NobodyMoved
<1>15. CASE DisposeEnds
  BY <1>0, <1>15, PoolsDisposed
<1>16. CASE UNCHANGED vars
  <2>1. exec' = exec /\ phase' = phase /\ UNCHANGED poolVars
    BY <1>16 DEF vars
  <2> QED  BY <1>0, <2>1, NobodyMoved
<1>17. ASSUME NEW t \in Task, MarkPending(t) \/ Adopt(t) \/ Poll(t)
       PROVE  Slots'
  <2>1. exec' = exec /\ phase' = phase /\ UNCHANGED poolVars
    BY <1>17 DEF MarkPending, Adopt, Poll, Upsert, UpsertEnds
  <2> QED  BY <1>0, <2>1, NobodyMoved
<1>18. ASSUME NEW t \in Task, Resume(t)  PROVE Slots'
  <2>1. phase' = phase /\ UNCHANGED poolVars /\ exec[t] = "none"
    BY <1>18 DEF Resume, SlotInv, Resting
  <2>2. CASE exec' = exec
    BY <1>0, <2>1, <2>2, NobodyMoved
  <2>3. CASE exec' = [exec EXCEPT ![t] = "starting"]
    BY <1>0, <1>s, <2>1, <2>3, MovedAside DEF GlobalStages, TypeStages
  <2> QED  BY <1>18, <2>2, <2>3 DEF Resume
<1> QED  BY <1>1, <1>2, <1>3, <1>4, <1>5, <1>6, <1>7, <1>8, <1>9, <1>10,
            <1>11, <1>12, <1>13, <1>14, <1>15, <1>16, <1>17, <1>18
         DEF Next, Proceed, StartUp

\* The slots stay in step with the executions.
THEOREM SlotInvariant == Spec => []SlotInv
BY SlotInvInit, SlotInvStep, PTL DEF Spec

\* The maps, the executions and the pools always have their types; that the
\* global counter survives dispose as a natural number takes the invariant.
THEOREM TypeCorrect == Spec => []TypeOK
<1>1. SlotInv => TypeOK
  <2> SUFFICES ASSUME SlotInv  PROVE TypeOK
    OBVIOUS
  <2>1. LifeType /\ Slots
    BY DEF SlotInv
  <2>2. globalPool \in PoolType(Task, Int) /\ exec \in [Task -> Stages]
    BY <2>1 DEF Slots, GlobalSlots
  <2>3. typePools \in [Type -> PoolType(Task, Int)]
    BY <2>1 DEF Slots, TypeSlots
  <2> QED  BY <2>1, <2>2, <2>3 DEF LifeType, TypeOK
<1> QED  BY <1>1, SlotInvariant, PTL

\* No slot leaks and none is handed out twice, whichever of return, throw,
\* cancel, retry, timeout and dispose ends an execution.
THEOREM SlotsAreExact == Spec => []SlotsMatchExecutions
<1>1. SlotInv => SlotsMatchExecutions
  BY DEF SlotInv, Slots, GlobalSlots, TypeSlots, Queues, SlotsMatchExecutions
<1> QED  BY <1>1, SlotInvariant, PTL

\* The concurrency options bound the executors that run or sleep.
THEOREM LimitsHold == Spec => []ConcurrencyLimitsHold
<1>1. SlotInv => ConcurrencyLimitsHold
  BY DEF SlotInv, Slots, GlobalSlots, TypeSlots, ConcurrencyLimitsHold
<1> QED  BY <1>1, SlotInvariant, PTL

\* What updateTask does to the status of a task.
LEMMA UpdatedStatus ==
  ASSUME NEW S, NEW status, UpdateTasks(S, status), NEW u \in Task
  PROVE  tasks'[u] = IF u \in S /\ tasks[u] # "absent" THEN status ELSE tasks[u]
BY DEF UpdateTasks

\* A cancelled task is not handed to an executor and does not become unfinished
\* again, but by the resumption that had read it before: then it is put back.
THEOREM CancelledStaysAway == Spec => CancelledNeverRestarts
<1> DEFINE May(t) ==
             /\ exec'[t] = "executing" => exec[t] = "executing"
             /\ \/ tasks'[t] \in {"cancelled", "absent"}
                \/ tasks'[t] = "failed" /\ exec'[t] = "done"
                \/ tasks'[t] \in {"completed", "failed"} /\ poller[t] = "polling"
                \/ /\ tasks'[t] = "pending"
                   /\ resume[t] \in {"pending", "saving"}
                   /\ resume'[t] = "asking"
           Stays == \A t \in Task : tasks[t] = "cancelled" => May(t)
<1>1. SlotInv /\ [Next]_vars => [Stays]_vars
  <2> SUFFICES ASSUME SlotInv, Next, NEW t \in Task, tasks[t] = "cancelled"
               PROVE  May(t)
    BY DEF Stays
  <2>0. exec \in [Task -> Stages] /\ LifeType /\ Slots
    BY DEF SlotInv, Slots
  <2> USE DEF lifeVars, runVars
  <2>k. ASSUME tasks'[t] = "cancelled", exec'[t] = "executing" => exec[t] = "executing"
        PROVE  May(t)
    BY <2>k
  <2>1. ASSUME NEW u \in Task, Proceed(u) \/ QueueTimesOut(u)
        PROVE  May(t)
    <3>1. exec'[t] = "executing" => exec[t] = "executing"
      <4>1. CASE t # u
        <5>1. Advances(t)
          BY <2>0, <2>1, <4>1, StagesMove
        <5> QED  BY <5>1 DEF Advances, Before
      <4>2. CASE t = u
        <5>1. CASE BeginExecution(u) \/ BackoffElapses(u)
          BY <4>2, <5>1 DEF BeginExecution, BackoffElapses
        <5>2. CASE StartUnregistered(u) \/ AcquireType(u) \/ ExecutorThrows(u)
          BY <2>0, <4>2, <5>2 DEF StartUnregistered, AcquireType, ExecutorThrows
        <5>3. CASE Start(u)
          BY <4>2, <5>3 DEF Start, Goto
        <5>4. CASE \/ SkipCancelled(u) \/ ExecutorGivesUp(u) \/ BackoffAborted(u)
                   \/ \E status \in {"completed", "failed"} :
                        ExecutorReturns(u, status)
          BY <4>2, <5>4 DEF SkipCancelled, ExecutorGivesUp, BackoffAborted,
                            ExecutorReturns, UnwindBoth, Goto
        <5>5. CASE QueueTimesOut(u)
          BY <2>0, <4>2, <5>5 DEF QueueTimesOut, UnwindGlobal, Goto
        <5> QED  BY <2>1, <5>1, <5>2, <5>3, <5>4, <5>5 DEF Proceed
      <4> QED  BY <4>1, <4>2
    <3>2. CASE Catch(u) /\ exec'[u] = "done"
      <4>1. UpdateTasks(Reported({u}), "failed") /\ Reported({u}) \subseteq {u}
        BY <3>2 DEF Catch, Reported
      <4>2. tasks'[t] = "cancelled" \/ (t = u /\ tasks'[t] = "failed")
        BY <4>1, UpdatedStatus
      <4> QED  BY <3>1, <3>2, <4>2
    <3>3. CASE Return
      BY <2>k, <3>1, <3>3 DEF Return
    <3>4. CASE \E status : UpdateTasks({u}, status) /\ tasks[u] # "cancelled"
      <4>1. tasks'[t] = "cancelled"
        BY <3>4, UpdatedStatus
      <4> QED  BY <2>k, <3>1, <4>1
    <3>5. CASE AcquireType(u) \/ ExecutorThrows(u) \/ BackoffElapses(u)
      BY <2>k, <3>1, <3>5 DEF AcquireType, ExecutorThrows, BackoffElapses
    <3>6. CASE \/ StartUnregistered(u) \/ BackoffAborted(u) \/ QueueTimesOut(u)
               \/ ExecutorGivesUp(u) \/ Start(u)
      <4>1. Return \/ (Catch(u) /\ exec'[u] = "done")
        BY <2>0, <3>6 DEF StartUnregistered, BackoffAborted, QueueTimesOut,
           ExecutorGivesUp, Start, UnwindBoth, UnwindGlobal, Goto
      <4> QED  BY <3>2, <3>3, <4>1
    <3>7. CASE BeginExecution(u) \/ SkipCancelled(u)
      BY <3>3, <3>4, <3>7 DEF BeginExecution, SkipCancelled
    <3>8. ASSUME NEW status \in {"completed", "failed"}, ExecutorReturns(u, status)
          PROVE  May(t)
      BY <3>3, <3>4, <3>8 DEF ExecutorReturns, Stopped
    <3> QED  BY <2>1, <3>5, <3>6, <3>7, <3>8 DEF Proceed
  <2>2. ASSUME NEW u \in Task, Submit(u)  PROVE May(t)
    BY <2>0, <2>2 DEF Submit, LifeType
  <2>3. ASSUME NEW u \in Task, StartUp(u)  PROVE May(t)
    <3>1. CASE MarkPending(u)
      BY <2>k, <3>1 DEF MarkPending
    <3>2. CASE Adopt(u)
      BY <2>0, <2>k, <3>2 DEF Adopt, LifeType
    <3>3. CASE Resume(u)
      BY <2>0, <2>k, <3>3 DEF Resume
    <3> QED  BY <2>3, <3>1, <3>2, <3>3 DEF StartUp
  <2>4. ASSUME NEW u \in Task, Poll(u)  PROVE May(t)
    <3>1. exec' = exec
      BY <2>4 DEF Poll, Upsert, UpsertEnds
    <3>2. CASE tasks' = tasks
      BY <2>k, <3>1, <3>2
    <3>3. CASE /\ poller[u] = "polling"
               /\ \E status \in {"completed", "failed"} :
                    tasks' = [tasks EXCEPT ![u] = status]
      BY <2>0, <3>1, <3>3 DEF LifeType
    <3> QED  BY <2>4, <3>2, <3>3 DEF Poll, Upsert, UpsertEnds
  <2>5. ASSUME NEW u \in Task, Cancel(u) \/ Delete(u) \/ DeleteEnds(u)
                               \/ WaitForCompletion(u) \/ WaiterTimesOut(u)
        PROVE  May(t)
    <3>1. exec' = exec
      BY <2>5 DEF Cancel, Delete, DeleteEnds, WaitForCompletion, WaiterTimesOut
    <3>2. tasks'[t] \in {"cancelled", "absent"}
      <4>1. CASE Cancel(u)
        <5>1. UpdateTasks({u}, "cancelled")
          BY <4>1 DEF Cancel
        <5> QED  BY <5>1, UpdatedStatus
      <4>2. CASE Delete(u)
        BY <2>0, <4>2 DEF Delete, LifeType
      <4>3. CASE DeleteEnds(u) \/ WaitForCompletion(u) \/ WaiterTimesOut(u)
        BY <4>3 DEF DeleteEnds, WaitForCompletion, WaiterTimesOut
      <4> QED  BY <2>5, <4>1, <4>2, <4>3
    <3> QED  BY <3>1, <3>2
  <2>6. CASE Dispose
    BY <2>0, <2>k, <2>6 DEF Dispose, LifeType, Unfinished
  <2>7. CASE DisposeEnds
    <3> DEFINE R == {u \in Task : exec[u] \in {"waitGlobal", "waitType"}}
    <3>1. UpdateTasks(Reported(R), "failed") /\ Reported(R) \subseteq R
      BY <2>7 DEF DisposeEnds, Reported
    <3>2. exec' = [u \in Task |-> IF u \in R THEN "done" ELSE exec[u]]
      BY <2>7 DEF DisposeEnds
    <3> HIDE DEF R
    <3>3. tasks'[t] = "cancelled" \/ (t \in R /\ tasks'[t] = "failed")
      BY <3>1, UpdatedStatus
    <3> QED  BY <3>2, <3>3
  <2> QED  BY <2>1, <2>2, <2>3, <2>4, <2>5, <2>6, <2>7 DEF Next
<1> HIDE DEF Stays
<1>2. Spec => [][Stays]_vars
  BY <1>1, SlotInvariant, PTL DEF Spec
<1> QED  BY <1>2 DEF CancelledNeverRestarts, Stays, May
=============================================================================
