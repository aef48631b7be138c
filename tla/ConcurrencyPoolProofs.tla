------------------------ MODULE ConcurrencyPoolProofs ------------------------
(***************************************************************************)
(* Theorems about ConcurrencyPool, for any finite set of calls, any        *)
(* integer priorities and any limits.                                      *)
(***************************************************************************)
EXTENDS ConcurrencyPool, PoolOpsProofs

USE ClientAssumption, PrioritiesAssumption, LimitsAssumption,
    QueueTimeoutAssumption

(***************************************************************************)
(* Type correctness.                                                       *)
(***************************************************************************)

\* A new pool and callers that have not called have their types.
LEMMA TypeInit == Init => TypeOK
<1> SUFFICES ASSUME Init  PROVE TypeOK
  OBVIOUS
<1>1. pool \in PoolType(Client, Priorities)
  BY NewPoolType DEF Init
<1> QED  BY <1>1 DEF Init, TypeOK, Outcomes

\* Every operation keeps the types.
LEMMA TypeStep == TypeOK /\ [Next]_vars => TypeOK'
<1> SUFFICES ASSUME TypeOK, [Next]_vars  PROVE TypeOK'
  OBVIOUS
<1> DEFINE PT == PoolType(Client, Priorities)
<1>0. /\ pool \in PT
      /\ caller \in [Client -> Outcomes]
      /\ timers \subseteq Client
      /\ enqueuedAt \in [Client -> Nat]
      /\ clock \in Nat /\ totalAcquired \in Nat /\ totalTimeouts \in Nat
  BY DEF TypeOK
<1> HIDE DEF PT
<1>1. ASSUME NEW c \in Client, AcquireRefused(c)  PROVE TypeOK'
  BY <1>0, <1>1 DEF AcquireRefused, Move, TypeOK, Outcomes, PT
<1>2. ASSUME NEW c \in Client, AcquireAtOnce(c)  PROVE TypeOK'
  <2>1. pool' \in PT
    BY <1>0, <1>2, TakenType DEF AcquireAtOnce, PT
  <2> QED  BY <1>0, <1>2, <2>1 DEF AcquireAtOnce, Move, TypeOK, Outcomes, PT
<1>3. ASSUME NEW c \in Client, NEW p \in Priorities, AcquireQueued(c, p)
      PROVE  TypeOK'
  <2>1. Entry(c, p) \in EntryType(Client, Priorities)
    BY DEF Entry, EntryType
  <2>2. pool' \in PT
    BY <1>0, <1>3, <2>1, EnqueuedType DEF AcquireQueued, PT
  <2> QED  BY <1>0, <1>3, <2>2 DEF AcquireQueued, Move, TypeOK, Outcomes, PT
<1>4. ASSUME NEW c \in Client, Release(c)  PROVE TypeOK'
  <2>1. pool' \in PT
    BY <1>0, <1>4, ReleasedType DEF Release, PT
  <2>2. WokenByRelease(pool) \in Nat
    BY DEF WokenByRelease
  <2> QED  BY <1>0, <1>4, <2>1, <2>2 DEF Release, TypeOK, Outcomes, PT
<1>5. ASSUME NEW c \in Client, QueueTimesOut(c)  PROVE TypeOK'
  <2>1. pool' \in PT
    BY <1>0, <1>5, RemovedType DEF QueueTimesOut, PT
  <2> QED  BY <1>0, <1>5, <2>1 DEF QueueTimesOut, TypeOK, Outcomes, PT
<1>6. ASSUME NEW limit \in Limits, SetMaxConcurrent(limit)  PROVE TypeOK'
  <2>1. pool' \in PT
    BY <1>0, <1>6, ResizedType DEF SetMaxConcurrent, PT
  <2>2. Admissible(pool, limit) \in Nat
    <3>1. pool.queue \in Seq(EntryType(Client, Priorities))
      BY <1>0 DEF PT, PoolType
    <3> QED  BY <1>0, <3>1, AdmissibleInRange, LenProperties DEF PT
  <2> QED  BY <1>0, <1>6, <2>1, <2>2
           DEF SetMaxConcurrent, Move, TypeOK, Outcomes, PT
<1>7. CASE ClearQueue
  <2>1. pool' \in PT
    BY <1>0, <1>7, EmptiedType DEF ClearQueue, PT
  <2> QED  BY <1>0, <1>7, <2>1 DEF ClearQueue, Move, TypeOK, Outcomes, PT
<1>8. CASE Dispose
  <2>1. pool' \in PT
    BY <1>0, <1>8, EmptiedType DEF Dispose, PT
  <2> QED  BY <1>0, <1>8, <2>1 DEF Dispose, Move, TypeOK, Outcomes, PT
<1>9. CASE UNCHANGED vars
  BY <1>0, <1>9 DEF vars, TypeOK, PT
<1> QED  BY <1>1, <1>2, <1>3, <1>4, <1>5, <1>6, <1>7, <1>8, <1>9 DEF Next

\* The pool's fields, its callers and its counters always have their types.
THEOREM TypeCorrect == Spec => []TypeOK
BY TypeInit, TypeStep, PTL DEF Spec

(***************************************************************************)
(* The inductive invariant.  That nobody waits while a slot is free is     *)
(* inductive with the types; the counters need the queue to hold exactly   *)
(* the waiters, since a wake-up of n entries must move n different calls.  *)
(***************************************************************************)

PoolInv ==
  /\ TypeOK
  /\ QueueHoldsTheWaiters
  /\ CountersMatchCallers
  /\ NoIdleSlotWhileQueued
  /\ pool.disposed => pool.queue = <<>>

\* Sets of calls are finite, as Client is.
LEMMA SubsetsAreFinite ==
  \A S \in SUBSET Client : IsFiniteSet(S) /\ Cardinality(S) \in Nat
BY FS_Subset, FS_CardinalityType

\* Cardinalities add up when n calls that were not in S join it.
LEMMA JoinedCardinality ==
  ASSUME NEW S \in SUBSET Client, NEW T \in SUBSET Client, S \cap T = {}
  PROVE  Cardinality(S \union T) = Cardinality(S) + Cardinality(T)
<1>1. /\ IsFiniteSet(S) /\ IsFiniteSet(T)
      /\ Cardinality(S) \in Nat /\ Cardinality(T) \in Nat
  BY SubsetsAreFinite
<1>2. Cardinality(S \union T)
        = Cardinality(S) + Cardinality(T) - Cardinality(S \cap T)
  BY <1>1, FS_Union
<1>3. Cardinality(S \cap T) = 0
  BY FS_EmptySet
<1> QED  BY <1>1, <1>2, <1>3

\* One call moves from `holding' to `released' and the calls W join the
\* holders.
LEMMA SwappedCardinality ==
  ASSUME NEW S \in SUBSET Client, NEW c \in S, NEW W \in SUBSET Client,
         S \cap W = {}
  PROVE  Cardinality((S \ {c}) \union W)
           = Cardinality(S) - 1 + Cardinality(W)
<1>1. IsFiniteSet(S) /\ Cardinality(S) \in Nat /\ Cardinality(W) \in Nat
  BY SubsetsAreFinite
<1>2. Cardinality(S \ {c}) = Cardinality(S) - 1
  BY <1>1, FS_RemoveElement
<1>3. Cardinality((S \ {c}) \union W) = Cardinality(S \ {c}) + Cardinality(W)
  BY JoinedCardinality
<1> QED  BY <1>1, <1>2, <1>3

\* One call counts for one.
LEMMA OneCall ==
  ASSUME NEW c \in Client  PROVE Cardinality({c}) = 1
BY FS_Singleton

\* Admitting the first n waiters keeps the queue and the calls in step.
LEMMA FirstWaiters ==
  ASSUME PoolInv, NEW n \in 0..Len(pool.queue)
  PROVE  LET W == FirstClients(pool.queue, n)
         IN  /\ W \subseteq Queued /\ W \in SUBSET Client
             /\ Cardinality(W) = n
             /\ Holders \cap W = {} /\ Served \cap W = {}
             /\ \A c \in W : caller[c] = "queued"
<1> DEFINE W == FirstClients(pool.queue, n)
<1>1. /\ pool \in PoolType(Client, Priorities) /\ NoDuplicates(pool.queue)
      /\ Clients(pool.queue) = Queued
  BY DEF PoolInv, TypeOK, QueueHoldsTheWaiters
<1>2. W \subseteq Queued
  BY <1>1, AdmittedClients
<1>3. Len(pool.queue) \in Nat
  BY <1>1, LenProperties DEF PoolType
<1>4. n \in Nat /\ \A i \in 1..n : i \in 1..Len(pool.queue)
  BY <1>3
<1>5. Cardinality(W) = n
  BY <1>1, <1>4, FirstClientsCounted DEF NoDuplicates
<1> QED  BY <1>2, <1>5 DEF Queued, Holders, Served

\* A new pool satisfies the invariant.
LEMMA PoolInvInit == Init => PoolInv
<1> SUFFICES ASSUME Init  PROVE PoolInv
  OBVIOUS
<1>1. TypeOK
  BY TypeInit
<1>2. pool.queue = <<>> /\ pool.running = 0 /\ pool.disposed = FALSE
  BY DEF Init, NewPool
<1>3. \A c \in Client : caller[c] = "idle"
  BY DEF Init
<1>4. QueueHoldsTheWaiters
  BY <1>2, <1>3 DEF QueueHoldsTheWaiters, Clients, Queued, NoDuplicates, Init
<1>5. CountersMatchCallers
  <2>1. Holders = {} /\ TimedOut = {} /\ Served = {}
    BY <1>3 DEF Holders, TimedOut, Served
  <2> QED  BY <1>2, <2>1, FS_EmptySet DEF CountersMatchCallers, Init
<1>6. NoIdleSlotWhileQueued
  BY <1>2 DEF NoIdleSlotWhileQueued
<1> QED  BY <1>1, <1>2, <1>4, <1>5, <1>6 DEF PoolInv

\* Every operation of the pool keeps the invariant.
LEMMA PoolInvStep == PoolInv /\ [Next]_vars => PoolInv'
<1> SUFFICES ASSUME PoolInv, [Next]_vars  PROVE PoolInv'
  OBVIOUS
<1>t. TypeOK'
  BY TypeStep DEF PoolInv
<1> DEFINE E == EntryType(Client, Priorities)
           q == pool.queue
<1>a. /\ pool \in PoolType(Client, Priorities)
      /\ caller \in [Client -> Outcomes]
      /\ pool.running \in Nat /\ pool.maxConcurrent \in Nat
      /\ q \in Seq(E) /\ Len(q) \in Nat
      /\ (q # <<>> => Len(q) > 0)
  BY LenProperties, EmptySeq DEF PoolInv, TypeOK, PoolType
<1>b. /\ Clients(q) = Queued /\ NoDuplicates(q)
      /\ pool.running = Cardinality(Holders)
      /\ totalAcquired = Cardinality(Served)
      /\ totalTimeouts = Cardinality(TimedOut)
      /\ (q # <<>> => pool.running >= pool.maxConcurrent)
      /\ timers = IF QueueTimeout THEN Queued ELSE {}
      /\ (pool.disposed => q = <<>>)
  BY <1>a DEF PoolInv, QueueHoldsTheWaiters, CountersMatchCallers,
       NoIdleSlotWhileQueued, HasCapacity
<1>c. /\ Cardinality(Holders) \in Nat /\ Cardinality(Served) \in Nat
      /\ Cardinality(TimedOut) \in Nat
      /\ Holders \in SUBSET Client /\ Served \in SUBSET Client
      /\ TimedOut \in SUBSET Client
  BY SubsetsAreFinite DEF Holders, Served, TimedOut
<1>d. <<>> \in Seq(E) /\ Clients(<<>>) = {} /\ NoDuplicates(<<>>)
  BY DEF Clients, NoDuplicates
<1> HIDE DEF q, E
<1>1. ASSUME NEW c \in Client, AcquireRefused(c)  PROVE PoolInv'
  <2>1. /\ pool' = pool /\ timers' = timers
        /\ totalAcquired' = totalAcquired /\ totalTimeouts' = totalTimeouts
        /\ Queued' = Queued /\ Holders' = Holders
        /\ Served' = Served /\ TimedOut' = TimedOut
    BY <1>1, <1>a DEF AcquireRefused, Move, Queued, Holders, Served, TimedOut
  <2> QED  BY <1>t, <2>1 DEF PoolInv, QueueHoldsTheWaiters,
             CountersMatchCallers, NoIdleSlotWhileQueued
<1>2. ASSUME NEW c \in Client, AcquireAtOnce(c)  PROVE PoolInv'
  <2>1. /\ Queued' = Queued /\ TimedOut' = TimedOut
        /\ Holders' = Holders \union {c} /\ Holders \cap {c} = {}
        /\ Served' = Served \union {c} /\ Served \cap {c} = {}
    BY <1>2, <1>a DEF AcquireAtOnce, Move, Queued, Holders, Served, TimedOut
  <2>2. /\ Cardinality(Holders') = Cardinality(Holders) + 1
        /\ Cardinality(Served') = Cardinality(Served) + 1
    BY <1>c, <2>1, JoinedCardinality, OneCall
  <2>3. /\ pool'.queue = q /\ pool'.running = pool.running + 1
        /\ pool'.maxConcurrent = pool.maxConcurrent
        /\ pool'.disposed = pool.disposed
        /\ timers' = timers /\ totalTimeouts' = totalTimeouts
        /\ totalAcquired' = totalAcquired + 1
    BY <1>2, <1>a DEF AcquireAtOnce, Taken, PoolType, q
  <2>4. q = <<>>
    BY <1>2, <1>a, <1>b DEF AcquireAtOnce, HasCapacity
  <2> QED  BY <1>t, <1>b, <2>1, <2>2, <2>3, <2>4
           DEF PoolInv, QueueHoldsTheWaiters, CountersMatchCallers,
               NoIdleSlotWhileQueued
<1>3. ASSUME NEW c \in Client, NEW p \in Priorities, AcquireQueued(c, p)
      PROVE  PoolInv'
  <2> DEFINE e == Entry(c, p)
  <2>1. /\ Queued' = Queued \union {c} /\ TimedOut' = TimedOut
        /\ Holders' = Holders /\ Served' = Served /\ c \notin Queued
    BY <1>3, <1>a DEF AcquireQueued, Move, Queued, Holders, Served, TimedOut
  <2>2. e \in EntryType(Client, Priorities) /\ e.client = c
    BY DEF Entry, EntryType
  <2>3. /\ Clients(pool'.queue) = Clients(q) \union {c}
        /\ NoDuplicates(pool'.queue)
    <3>1. pool' = Enqueued(pool, e)
      BY <1>3 DEF AcquireQueued
    <3>2. NoDuplicates(pool.queue) /\ e.client \notin Clients(pool.queue)
      BY <1>b, <2>1, <2>2 DEF q
    <3> HIDE DEF e
    <3>3. /\ Clients(Enqueued(pool, e).queue) = Clients(pool.queue) \union {e.client}
          /\ NoDuplicates(Enqueued(pool, e).queue)
      <4>1. pool \in PoolType(Client, Priorities) /\ Priorities \in SUBSET Int
        BY <1>a, PrioritiesAssumption
      <4> QED  BY <2>2, <3>2, <4>1, EnqueuedClients
    <3> QED  BY <2>2, <3>1, <3>3 DEF q
  <2>4. /\ pool'.running = pool.running /\ ~pool'.disposed
        /\ pool'.maxConcurrent = pool.maxConcurrent
        /\ timers' = IF QueueTimeout THEN timers \union {c} ELSE timers
        /\ totalAcquired' = totalAcquired /\ totalTimeouts' = totalTimeouts
        /\ ~(pool.running < pool.maxConcurrent)
    BY <1>3, <1>a DEF AcquireQueued, Enqueued, PoolType, HasCapacity
  <2> QED  BY <1>t, <1>b, <2>1, <2>3, <2>4
           DEF PoolInv, QueueHoldsTheWaiters, CountersMatchCallers,
               NoIdleSlotWhileQueued, HasCapacity
<1>4. ASSUME NEW c \in Client, Release(c)  PROVE PoolInv'
  <2> DEFINE n == WokenByRelease(pool)
             W == FirstClients(pool.queue, n)
  <2>1. pool.running > 0
    <3>1. Holders # {}
      BY <1>4 DEF Release, Holders
    <3>2. IsFiniteSet(Holders)
      BY <1>c, SubsetsAreFinite
    <3> QED  BY <1>b, <1>c, <3>1, <3>2, FS_EmptySet
  <2>2. n \in 0..Len(pool.queue) /\ n \in Nat
    BY <1>a, AdmissibleInRange DEF WokenByRelease
  <2>3. n = IF q # <<>> THEN 1 ELSE 0
    BY <2>1 DEF WokenByRelease, q
  <2> HIDE DEF n
  <2>4. /\ W \subseteq Queued /\ W \in SUBSET Client /\ Cardinality(W) = n
        /\ Holders \cap W = {} /\ Served \cap W = {}
        /\ \A d \in W : caller[d] = "queued"
    BY <2>2, FirstWaiters
  <2>5. Clients(pool'.queue) = Clients(q) \ W /\ NoDuplicates(pool'.queue)
    BY <1>4, <1>a, <1>b, <2>1, ReleasedClients DEF Release, q, n
  <2>7. Len(pool'.queue) = Len(q) - n
    BY <1>4, <1>a, <1>b, <2>1, ReleasedClients DEF Release, q, n
  <2>8. /\ pool'.running = pool.running - 1 + n
        /\ pool'.maxConcurrent = pool.maxConcurrent
        /\ pool'.disposed = pool.disposed
    BY <1>4, <1>a, <1>b, <2>1, ReleasedClients DEF Release, q, n
  <2>9. /\ timers' = timers \ W /\ totalTimeouts' = totalTimeouts
        /\ totalAcquired' = totalAcquired + n
        /\ caller[c] = "holding"
        /\ caller' = [d \in Client |-> IF d = c THEN "released"
                                        ELSE IF d \in W THEN "holding"
                                        ELSE caller[d]]
    BY <1>4 DEF Release, n
  <2> HIDE DEF W
  <2>10. /\ Queued' = Queued \ W /\ TimedOut' = TimedOut
         /\ Holders' = (Holders \ {c}) \union W
         /\ Served' = Served \union W
         /\ c \in Holders
    BY <2>4, <2>9 DEF Queued, Holders, Served, TimedOut
  <2>11. /\ Cardinality(Holders') = Cardinality(Holders) - 1 + n
         /\ Cardinality(Served') = Cardinality(Served) + n
    BY <1>c, <2>4, <2>10, SwappedCardinality, JoinedCardinality
  <2>12. pool'.queue # <<>> => ~HasCapacity(pool)'
    <3> SUFFICES ASSUME pool'.queue # <<>>
                 PROVE  ~(pool'.running < pool'.maxConcurrent)
      BY DEF HasCapacity
    <3>1. q # <<>>
      <4>1. pool'.queue \in Seq(E)
        BY <1>t DEF TypeOK, PoolType, E
      <4>2. Len(pool'.queue) > 0
        BY <4>1, EmptySeq, LenProperties
      <4> QED  BY <1>a, <2>2, <2>3, <2>7, <4>2
    <3> QED  BY <1>a, <1>b, <2>3, <2>8, <3>1
  <2>13. pool'.disposed => pool'.queue = <<>>
    <3> SUFFICES ASSUME pool.disposed  PROVE pool'.queue = <<>>
      BY <2>8
    <3>1. q = <<>> /\ n = 0
      BY <1>b, <2>3
    <3>2. pool'.queue \in Seq(E) /\ Len(pool'.queue) = 0
      BY <1>t, <2>7, <3>1 DEF TypeOK, PoolType, E
    <3> QED  BY <3>2, EmptySeq
  <2>14. (timers = IF QueueTimeout THEN Queued ELSE {})'
    BY <1>b, <2>9, <2>10
  <2>15. QueueHoldsTheWaiters' /\ NoIdleSlotWhileQueued'
    BY <1>b, <2>5, <2>10, <2>12, <2>14 DEF QueueHoldsTheWaiters, NoIdleSlotWhileQueued
  <2>16. CountersMatchCallers'
    BY <1>b, <2>8, <2>9, <2>10, <2>11 DEF CountersMatchCallers
  <2> QED  BY <1>t, <2>13, <2>14, <2>15, <2>16 DEF PoolInv
<1>5. ASSUME NEW limit \in Limits, SetMaxConcurrent(limit)  PROVE PoolInv'
  <2> DEFINE n == Admissible(pool, limit)
             W == FirstClients(pool.queue, n)
  <2>1. limit \in Nat /\ n \in 0..Len(pool.queue) /\ n \in Nat
    BY <1>a, AdmissibleInRange DEF q
  <2>2. /\ n = Len(q) \/ pool.running + n >= limit
        /\ q = <<>> => n = 0
    BY <1>a, <2>1 DEF Admissible, q
  <2>3. /\ W \subseteq Queued /\ W \in SUBSET Client /\ Cardinality(W) = n
        /\ Holders \cap W = {} /\ Served \cap W = {}
        /\ \A d \in W : caller[d] = "queued"
    BY <2>1, FirstWaiters
  <2>4. Clients(pool'.queue) = Clients(q) \ W /\ NoDuplicates(pool'.queue)
    <3>1. /\ Clients(Resized(pool, limit).queue) = Clients(pool.queue) \ W
          /\ NoDuplicates(Resized(pool, limit).queue)
      <4>1. limit \in Nat \ {0} /\ NoDuplicates(pool.queue)
        BY <1>b DEF q
      <4> QED  BY <1>a, <4>1, ResizedClients
    <3> QED  BY <1>5, <3>1 DEF SetMaxConcurrent, q
  <2>5. Len(pool'.queue) = Len(q) - n
    BY <1>5, <1>a, <1>b, ResizedClients DEF SetMaxConcurrent, q
  <2>7. /\ pool'.running = pool.running + n
        /\ pool'.maxConcurrent = limit
        /\ pool'.disposed = pool.disposed
    BY <1>5, <1>a, <1>b, ResizedClients DEF SetMaxConcurrent, q
  <2>8. /\ timers' = timers \ W /\ totalTimeouts' = totalTimeouts
        /\ totalAcquired' = totalAcquired + n
        /\ caller' = [d \in Client |-> IF d \in W THEN "holding" ELSE caller[d]]
    BY <1>5 DEF SetMaxConcurrent, Move
  <2> HIDE DEF n, W
  <2>9. /\ Queued' = Queued \ W /\ TimedOut' = TimedOut
        /\ Holders' = Holders \union W /\ Served' = Served \union W
    BY <2>3, <2>8 DEF Queued, Holders, Served, TimedOut
  <2>10. /\ Cardinality(Holders') = Cardinality(Holders) + n
         /\ Cardinality(Served') = Cardinality(Served) + n
    BY <1>c, <2>3, <2>9, JoinedCardinality
  <2>11. pool'.queue # <<>> => Len(pool'.queue) > 0
    <3>1. pool'.queue \in Seq(E)
      BY <1>t DEF TypeOK, PoolType, E
    <3> QED  BY <3>1, EmptySeq, LenProperties
  <2>12. pool'.queue # <<>> => ~HasCapacity(pool)'
    BY <1>a, <2>1, <2>2, <2>5, <2>7, <2>11 DEF HasCapacity
  <2>13. pool'.disposed => pool'.queue = <<>>
    <3> SUFFICES ASSUME pool.disposed  PROVE pool'.queue = <<>>
      BY <2>5, <2>7
    <3>1. q = <<>> /\ n = 0 /\ Len(q) = 0
      BY <1>b, <2>2, EmptySeq
    <3>2. Len(pool'.queue) = 0
      BY <2>5, <3>1
    <3> QED  BY <2>11, <3>2
  <2>14. (timers = IF QueueTimeout THEN Queued ELSE {})'
    BY <1>b, <2>8, <2>9
  <2>15. QueueHoldsTheWaiters' /\ NoIdleSlotWhileQueued'
    BY <1>b, <2>4, <2>7, <2>9, <2>12, <2>14
       DEF QueueHoldsTheWaiters, NoIdleSlotWhileQueued
  <2>16. CountersMatchCallers'
    BY <1>b, <2>5, <2>7, <2>8, <2>9, <2>10 DEF CountersMatchCallers
  <2> QED  BY <1>t, <2>13, <2>14, <2>15, <2>16 DEF PoolInv
<1>6. ASSUME NEW c \in Client, QueueTimesOut(c)  PROVE PoolInv'
  <2>1. c \in Queued /\ caller[c] = "queued"
    BY <1>6, <1>b DEF QueueTimesOut, Queued
  <2>2. /\ Clients(pool'.queue) = Clients(q) \ {c}
        /\ NoDuplicates(pool'.queue)
        /\ q = <<>> => pool'.queue = <<>>
    <3>1. pool' = RemovedFromQueue(pool, c)
      BY <1>6 DEF QueueTimesOut
    <3> QED  BY <1>a, <1>b, <3>1, RemovedClients DEF q
  <2>3. /\ pool'.running = pool.running
        /\ pool'.maxConcurrent = pool.maxConcurrent
        /\ pool'.disposed = pool.disposed
    BY <1>6, <1>a DEF QueueTimesOut, RemovedFromQueue, PoolType
  <2>4. /\ Queued' = Queued \ {c} /\ Holders' = Holders /\ Served' = Served
        /\ TimedOut' = TimedOut \union {c} /\ TimedOut \cap {c} = {}
    BY <1>6, <1>a, <2>1
       DEF QueueTimesOut, Queued, Holders, Served, TimedOut
  <2>5. Cardinality(TimedOut') = Cardinality(TimedOut) + 1
    BY <1>c, <2>4, JoinedCardinality, OneCall
  <2>6. /\ timers' = timers \ {c} /\ totalAcquired' = totalAcquired
        /\ totalTimeouts' = totalTimeouts + 1
    BY <1>6 DEF QueueTimesOut
  <2> QED  BY <1>t, <1>a, <1>b, <2>2, <2>3, <2>4, <2>5, <2>6
           DEF PoolInv, QueueHoldsTheWaiters, CountersMatchCallers,
               NoIdleSlotWhileQueued, HasCapacity
<1>7. CASE ClearQueue \/ Dispose
  <2>1. /\ pool'.queue = <<>> /\ pool'.running = pool.running
        /\ timers' = timers \ Queued /\ totalAcquired' = totalAcquired
        /\ totalTimeouts' = totalTimeouts
        /\ caller' = [d \in Client |-> IF d \in Queued THEN "rejected"
                                       ELSE caller[d]]
    BY <1>7, <1>a, <1>b
       DEF ClearQueue, Dispose, Cleared, Disposed, Move, PoolType, q
  <2>2. /\ Queued' = {} /\ Holders' = Holders /\ Served' = Served
        /\ TimedOut' = TimedOut
    BY <2>1 DEF Queued, Holders, Served, TimedOut
  <2> QED  BY <1>t, <1>b, <1>d, <2>1, <2>2
           DEF PoolInv, QueueHoldsTheWaiters, CountersMatchCallers,
               NoIdleSlotWhileQueued
<1>8. CASE UNCHANGED vars
  BY <1>t, <1>8 DEF vars, PoolInv, QueueHoldsTheWaiters, CountersMatchCallers,
     NoIdleSlotWhileQueued, HasCapacity,
     Queued, Holders, Served, TimedOut
<1> QED  BY <1>1, <1>2, <1>3, <1>4, <1>5, <1>6, <1>7, <1>8 DEF Next

\* The invariant holds in every state of the pool.
LEMMA PoolInvariant == Spec => []PoolInv
BY PoolInvInit, PoolInvStep, PTL DEF Spec

\* The queue has one entry, and one timer is armed, for each call that waits and
\* none for any other.
THEOREM WaitersAreQueued == Spec => []QueueHoldsTheWaiters
BY PoolInvariant, PTL DEF PoolInv

\* No slot leaks and none is handed out twice, whatever limits are set, calls
\* time out and clients overtake each other.
THEOREM SlotsAreCounted == Spec => []CountersMatchCallers
BY PoolInvariant, PTL DEF PoolInv

\* Nobody waits while a slot is free.
THEOREM SlotsAreNotWasted == Spec => []NoIdleSlotWhileQueued
BY PoolInvariant, PTL DEF PoolInv

-----------------------------------------------------------------------------
(***************************************************************************)
(* A lowered limit.                                                        *)
(***************************************************************************)

\* No step of a well-typed pool adds to an excess.
LEMMA NoFurtherStep ==
  TypeOK /\ [Next]_vars =>
    (pool'.running > pool'.maxConcurrent => pool'.running <= pool.running)
<1> SUFFICES ASSUME TypeOK, [Next]_vars, pool'.running > pool'.maxConcurrent
             PROVE  pool'.running <= pool.running
  OBVIOUS
<1>0. /\ pool \in PoolType(Client, Priorities)
      /\ pool.running \in Nat /\ pool.maxConcurrent \in Nat
      /\ pool.queue \in Seq(EntryType(Client, Priorities))
      /\ Len(pool.queue) \in Nat
  BY LenProperties DEF TypeOK, PoolType
<1>1. ASSUME NEW c \in Client, AcquireAtOnce(c)  PROVE pool'.running <= pool.running
  BY <1>0, <1>1 DEF AcquireAtOnce, HasCapacity, Taken, PoolType
<1>2. ASSUME NEW c \in Client, NEW p \in Priorities, AcquireQueued(c, p)
      PROVE  pool'.running <= pool.running
  BY <1>0, <1>2 DEF AcquireQueued, Enqueued, PoolType
<1>3. ASSUME NEW c \in Client, Release(c)  PROVE pool'.running <= pool.running
  BY <1>0, <1>3 DEF Release, Released, Admitted, WokenByRelease, PoolType
<1>4. ASSUME NEW limit \in Limits, SetMaxConcurrent(limit)
      PROVE  pool'.running <= pool.running
  <2>1. limit \in Nat
    BY LimitsAssumption
  <2>2. Admissible(pool, limit) = 0 \/ pool.running + Admissible(pool, limit) <= limit
    BY <1>0, <2>1 DEF Admissible
  <2>3. Admissible(pool, limit) \in Nat
    BY <1>0, <2>1, AdmissibleInRange
  <2>4. /\ pool'.maxConcurrent = limit
        /\ pool'.running = pool.running + Admissible(pool, limit)
    <3> HIDE DEF Admissible
    <3> QED  BY <1>0, <1>4 DEF SetMaxConcurrent, Resized, Admitted, PoolType
  <2> QED  BY <1>0, <2>1, <2>2, <2>3, <2>4
<1>5. ASSUME NEW c \in Client, QueueTimesOut(c)  PROVE pool'.running <= pool.running
  BY <1>0, <1>5 DEF QueueTimesOut, RemovedFromQueue, PoolType
<1>6. ASSUME UNCHANGED pool \/ ClearQueue \/ Dispose
      PROVE  pool'.running <= pool.running
  <2>1. pool' = pool \/ pool' = Cleared(pool) \/ pool' = Disposed(pool)
    BY <1>6 DEF ClearQueue, Dispose
  <2>2. Cleared(pool).running = pool.running /\ Disposed(pool).running = pool.running
    BY <1>0 DEF Cleared, Disposed, PoolType
  <2>3. pool'.running = pool.running
    BY <2>1, <2>2
  <2> QED  BY <1>0, <2>3
<1> QED  BY <1>1, <1>2, <1>3, <1>4, <1>5, <1>6 DEF Next, vars, AcquireRefused

\* While more operations run than a lowered limit allows, their number never
\* grows.
THEOREM ExcessNeverGrows == Spec => NeverFurtherOverLimit
<1>1. TypeOK /\ [Next]_vars =>
        [pool'.running > pool'.maxConcurrent => pool'.running <= pool.running]_vars
  BY NoFurtherStep
<1> QED  BY <1>1, TypeCorrect, PTL DEF Spec, NeverFurtherOverLimit

-----------------------------------------------------------------------------
(***************************************************************************)
(* The order of the queue, where no priority is below the default.         *)
(***************************************************************************)

\* One entry goes before another: by priority, then by arrival.
Before(a, b, since) ==
  \/ a.priority > b.priority
  \/ a.priority = b.priority /\ since[a.client] < since[b.client]

OrderedBy(q, since) ==
  \A i, j \in 1..Len(q) : i < j => Before(q[i], q[j], since)

\* Dropping the head of a queue leaves it ordered.
LEMMA OrderedAfterDrop ==
  ASSUME NEW S, NEW q \in Seq(S), NEW n \in 0..Len(q), NEW since,
         OrderedBy(q, since)
  PROVE  OrderedBy(SubSeq(q, n + 1, Len(q)), since)
<1> DEFINE r == SubSeq(q, n + 1, Len(q))
<1>1. /\ Len(q) \in Nat /\ Len(r) = Len(q) - n
      /\ \A i \in 1..(Len(q) - n) : r[i] = q[n + i]
  BY DropProperties, LenProperties
<1> HIDE DEF r
<1>2. OrderedBy(r, since)
  <2> SUFFICES ASSUME NEW i \in 1..Len(r), NEW j \in 1..Len(r), i < j
               PROVE  Before(r[i], r[j], since)
    BY DEF OrderedBy
  <2>1. /\ n + i \in 1..Len(q) /\ n + j \in 1..Len(q) /\ n + i < n + j
        /\ r[i] = q[n + i] /\ r[j] = q[n + j]
    BY <1>1
  <2> QED  BY <2>1 DEF OrderedBy
<1> QED  BY <1>2 DEF r

\* Removing an entry leaves a queue ordered.
LEMMA OrderedAfterRemoval ==
  ASSUME NEW S, NEW q \in Seq(S), NEW k \in 1..Len(q), NEW since,
         OrderedBy(q, since)
  PROVE  OrderedBy(RemoveAt(q, k), since)
<1> DEFINE r == RemoveAt(q, k)
           old(i) == IF i < k THEN i ELSE i + 1
<1>1. /\ Len(q) \in Nat /\ Len(r) = Len(q) - 1
      /\ \A i \in 1..(Len(q) - 1) : r[i] = q[old(i)]
  BY RemoveAtProperties, LenProperties
<1> HIDE DEF r
<1>2. OrderedBy(r, since)
  <2> SUFFICES ASSUME NEW i \in 1..Len(r), NEW j \in 1..Len(r), i < j
               PROVE  Before(r[i], r[j], since)
    BY DEF OrderedBy
  <2>1. old(i) \in 1..Len(q) /\ old(j) \in 1..Len(q) /\ old(i) < old(j)
    BY <1>1
  <2>2. r[i] = q[old(i)] /\ r[j] = q[old(j)]
    BY <1>1
  <2> HIDE DEF old
  <2> QED  BY <2>1, <2>2 DEF OrderedBy
<1> QED  BY <1>2 DEF r

\* An ordered queue has nobody of a higher or equal priority behind the
\* insertion index, and nobody of a lower one before it.
LEMMA InsertionIndexSplits ==
  ASSUME NEW q \in Seq(EntryType(Client, Priorities)), NEW p \in Priorities,
         NEW since, OrderedBy(q, since), Priorities \subseteq Nat
  PROVE  LET k == InsertionIndex(q, p)
         IN  /\ k \in 1..(Len(q) + 1)
             /\ \A i \in 1..Len(q) :
                  IF i < k THEN q[i].priority >= p ELSE q[i].priority < p
<1> DEFINE k == InsertionIndex(q, p)
           lower == {i \in 1..Len(q) : q[i].priority < p}
<1>1. /\ Len(q) \in Nat
      /\ \A i \in 1..Len(q) : q[i].priority \in Nat
  <2>1. \A i \in 1..Len(q) : q[i] \in EntryType(Client, Priorities)
    BY ElementOfSeq
  <2> QED  BY <2>1, LenProperties DEF EntryType
<1>2. k \in 1..(Len(q) + 1)
  BY InsertionIndexInRange, PrioritiesAssumption
<1>3. CASE lower = {}
  BY <1>1, <1>2, <1>3 DEF InsertionIndex
<1>4. CASE lower # {}
  <2>1. p # 0
    BY <1>1, <1>4
  <2>2. k \in lower /\ \A j \in lower : k <= j
    <3>1. PICK m \in lower : \A j \in lower : m <= j
      <4> DEFINE R == OpToRel(<, Nat)
      <4>1. lower \subseteq Nat
        BY <1>1
      <4> HIDE DEF R, lower
      <4>2. IsWellFoundedOn(R, Nat)
        BY NatLessThanWellFounded DEF R
      <4>3. PICK m \in lower : \A j \in lower : ~(<<j, m>> \in R)
        BY <1>4, <4>1, <4>2, WFMin
      <4>4. \A j \in lower : j \in Nat /\ m \in Nat /\ ~(j < m)
        BY <4>1, <4>3 DEF R, OpToRel
      <4> QED  BY <4>4
    <3>2. k = CHOOSE i \in lower : \A j \in lower : i <= j
      BY <1>4, <2>1 DEF InsertionIndex
    <3> HIDE DEF k, lower
    <3> QED  BY <3>1, <3>2
  <2>3. ASSUME NEW i \in 1..Len(q), i < k  PROVE q[i].priority >= p
    BY <1>1, <1>2, <2>2, <2>3, PrioritiesAssumption
  <2>4. ASSUME NEW i \in 1..Len(q), ~(i < k)  PROVE q[i].priority < p
    <3>1. k \in 1..Len(q) /\ q[k].priority < p
      BY <2>2
    <3>2. i = k \/ k < i
      BY <1>2, <2>4
    <3>3. k < i => Before(q[k], q[i], since)
      BY <3>1 DEF OrderedBy
    <3> HIDE DEF k
    <3>4. k < i => q[i].priority <= q[k].priority
      BY <1>1, <3>1, <3>3 DEF Before
    <3> QED  BY <1>1, <3>1, <3>2, <3>4
  <2> QED  BY <1>2, <2>3, <2>4
<1> QED  BY <1>3, <1>4

\* A newcomer that arrives after all others leaves an ordered queue ordered.
LEMMA OrderedAfterInsertion ==
  ASSUME NEW q \in Seq(EntryType(Client, Priorities)), NEW since,
         NEW e \in EntryType(Client, Priorities),
         Priorities \subseteq Nat, OrderedBy(q, since),
         \A i \in 1..Len(q) : since[q[i].client] < since[e.client]
  PROVE  OrderedBy(InsertAt(q, InsertionIndex(q, e.priority), e), since)
<1> DEFINE k == InsertionIndex(q, e.priority)
           r == InsertAt(q, k, e)
<1>1. e.priority \in Priorities /\ Len(q) \in Nat
  BY LenProperties DEF EntryType
<1>2. /\ k \in 1..(Len(q) + 1)
      /\ \A i \in 1..Len(q) :
           IF i < k THEN q[i].priority >= e.priority ELSE q[i].priority < e.priority
  BY <1>1, InsertionIndexSplits
<1> HIDE DEF k
<1>3. /\ Len(r) = Len(q) + 1
      /\ \A i \in 1..(Len(q) + 1) :
           r[i] = IF i < k THEN q[i] ELSE IF i = k THEN e ELSE q[i - 1]
  BY <1>2, InsertAtProperties
<1> HIDE DEF r
<1>4. OrderedBy(r, since)
  <2> SUFFICES ASSUME NEW i \in 1..Len(r), NEW j \in 1..Len(r), i < j
               PROVE  Before(r[i], r[j], since)
    BY DEF OrderedBy
  <2>0. \A m \in 1..Len(q) : q[m].priority \in Nat
    <3>1. \A m \in 1..Len(q) : q[m] \in EntryType(Client, Priorities)
      BY ElementOfSeq
    <3> QED  BY <3>1 DEF EntryType
  <2>1. CASE i = k
    <3>1. r[i] = e /\ r[j] = q[j - 1] /\ j - 1 \in 1..Len(q) /\ ~(j - 1 < k)
      BY <1>1, <1>2, <1>3, <2>1
    <3> QED  BY <1>1, <1>2, <2>0, <3>1 DEF Before
  <2>2. CASE j = k
    <3>1. r[j] = e /\ r[i] = q[i] /\ i \in 1..Len(q) /\ i < k
      BY <1>1, <1>2, <1>3, <2>2
    <3>2. q[i].priority >= e.priority /\ since[q[i].client] < since[e.client]
      BY <1>2, <3>1
    <3>3. q[i].priority \in Nat /\ e.priority \in Nat
      BY <1>1, <2>0, <3>1
    <3>4. q[i].priority > e.priority \/ q[i].priority = e.priority
      BY <3>2, <3>3
    <3>5. Before(q[i], e, since)
      BY <3>2, <3>4 DEF Before
    <3> QED  BY <3>1, <3>5
  <2>3. CASE i # k /\ j # k
    <3>1. PICK a \in 1..Len(q) : r[i] = q[a] /\ a = IF i < k THEN i ELSE i - 1
      BY <1>1, <1>2, <1>3, <2>3
    <3>2. PICK b \in 1..Len(q) : r[j] = q[b] /\ b = IF j < k THEN j ELSE j - 1
      BY <1>1, <1>2, <1>3, <2>3
    <3>3. a < b
      BY <1>1, <1>2, <1>3, <2>3, <3>1, <3>2
    <3> QED  BY <3>1, <3>2, <3>3 DEF OrderedBy
  <2> QED  BY <2>1, <2>2, <2>3
<1> QED  BY <1>4 DEF r, k

\* The queue is ordered and every arrival is behind the clock.
OrderInv ==
  /\ OrderedBy(pool.queue, enqueuedAt)
  /\ \A c \in Client : enqueuedAt[c] <= clock

\* Without negative priorities every operation keeps the order.
LEMMA OrderStep ==
  ASSUME Priorities \subseteq Nat
  PROVE  PoolInv /\ OrderInv /\ [Next]_vars => OrderInv'
<1> SUFFICES ASSUME PoolInv, OrderInv, [Next]_vars  PROVE OrderInv'
  OBVIOUS
<1> DEFINE E == EntryType(Client, Priorities)
<1>0. /\ pool \in PoolType(Client, Priorities)
      /\ pool.queue \in Seq(E) /\ Len(pool.queue) \in Nat
      /\ \A i \in 1..Len(pool.queue) : pool.queue[i] \in E
      /\ enqueuedAt \in [Client -> Nat] /\ clock \in Nat
      /\ Clients(pool.queue) = Queued
  BY LenProperties, ElementOfSeq DEF PoolInv, TypeOK, PoolType, QueueHoldsTheWaiters
<1>o. OrderedBy(pool.queue, enqueuedAt) /\ \A c \in Client : enqueuedAt[c] <= clock
  BY DEF OrderInv
<1> HIDE DEF E
<1>1. ASSUME NEW q, OrderedBy(q, enqueuedAt), pool'.queue = q,
             UNCHANGED <<enqueuedAt, clock>>
      PROVE  OrderInv'
  BY <1>1, <1>o DEF OrderInv, OrderedBy, Before
<1>2. ASSUME NEW c \in Client, NEW p \in Priorities, AcquireQueued(c, p)
      PROVE  OrderInv'
  <2> DEFINE e == Entry(c, p)
             q == pool.queue
             k == InsertionIndex(q, p)
  <2>1. e \in E /\ e.client = c /\ e.priority = p
    BY DEF Entry, EntryType, E
  <2>2. c \notin Clients(q)
    BY <1>2, <1>0 DEF AcquireQueued, Queued
  <2>3. /\ pool' = Enqueued(pool, e) /\ clock' = clock + 1
        /\ enqueuedAt' = [enqueuedAt EXCEPT ![c] = clock + 1]
    BY <1>2 DEF AcquireQueued
  <2>4. \A i \in 1..Len(q) : q[i].client \in Client /\ q[i].client # c
    BY <1>0, <2>2 DEF Clients, E, EntryType
  <2>5. \A d \in Client : enqueuedAt'[d] = IF d = c THEN clock + 1 ELSE enqueuedAt[d]
    BY <1>0, <2>3
  <2>6. \A i \in 1..Len(q) : /\ enqueuedAt'[q[i].client] = enqueuedAt[q[i].client]
                             /\ enqueuedAt'[q[i].client] < enqueuedAt'[c]
    BY <1>0, <1>o, <2>4, <2>5
  <2>7. pool'.queue = InsertAt(q, k, e)
    BY <1>0, <2>1, <2>3 DEF Enqueued, PoolType
  <2> HIDE DEF e, q, k
  <2>8. OrderedBy(q, enqueuedAt')
    BY <1>o, <2>6 DEF OrderedBy, Before, q
  <2>9. OrderedBy(InsertAt(q, k, e), enqueuedAt')
    <3>1. PICK since : since = enqueuedAt'
      OBVIOUS
    <3>2. /\ OrderedBy(q, since) /\ q \in Seq(EntryType(Client, Priorities))
          /\ e \in EntryType(Client, Priorities)
          /\ \A i \in 1..Len(q) : since[q[i].client] < since[e.client]
      BY <1>0, <2>1, <2>6, <2>8, <3>1 DEF E, q
    <3>3. OrderedBy(InsertAt(q, InsertionIndex(q, e.priority), e), since)
      BY <3>2, OrderedAfterInsertion
    <3> QED  BY <2>1, <3>1, <3>3 DEF k
  <2>10. \A d \in Client : enqueuedAt'[d] <= clock'
    BY <1>0, <1>o, <2>3, <2>5
  <2>11. OrderedBy(pool'.queue, enqueuedAt')
    BY <2>7, <2>9
  <2> QED  BY <2>10, <2>11 DEF OrderInv, OrderedBy, Before
<1>3. ASSUME NEW n \in 0..Len(pool.queue),
             pool'.queue = SubSeq(pool.queue, n + 1, Len(pool.queue)),
             UNCHANGED <<enqueuedAt, clock>>
      PROVE  OrderInv'
  BY <1>0, <1>o, <1>1, <1>3, OrderedAfterDrop
<1>4. ASSUME NEW c \in Client, Release(c)  PROVE OrderInv'
  <2> DEFINE n == WokenByRelease(pool)
  <2>1. n \in 0..Len(pool.queue)
    BY <1>0, AdmissibleInRange
  <2>2. CASE pool.running <= 0
    BY <1>0, <1>1, <1>4, <1>o, <2>2 DEF Release, Released
  <2>3. CASE ~(pool.running <= 0)
    <3>1. pool'.queue = SubSeq(pool.queue, n + 1, Len(pool.queue))
      <4> HIDE DEF n
      <4>1. pool' = Admitted([pool EXCEPT !.running = @ - 1], n)
        BY <1>4, <2>3 DEF Release, Released, n
      <4> QED  BY <1>0, <4>1 DEF Admitted, PoolType
    <3> QED  BY <1>3, <1>4, <2>1, <3>1 DEF Release
  <2> QED  BY <2>2, <2>3
<1>5. ASSUME NEW limit \in Limits, SetMaxConcurrent(limit)  PROVE OrderInv'
  <2> DEFINE n == Admissible(pool, limit)
  <2>1. n \in 0..Len(pool.queue)
    BY <1>0, AdmissibleInRange, LimitsAssumption
  <2>2. pool'.queue = SubSeq(pool.queue, n + 1, Len(pool.queue))
    <3>1. pool' = Resized(pool, limit)
      BY <1>5 DEF SetMaxConcurrent
    <3> HIDE DEF n
    <3>2. pool' = [Admitted(pool, n) EXCEPT !.maxConcurrent = limit]
      BY <3>1 DEF Resized, n
    <3> QED  BY <1>0, <3>2 DEF Admitted, PoolType
  <2> QED  BY <1>3, <1>5, <2>1, <2>2 DEF SetMaxConcurrent
<1>6. ASSUME NEW c \in Client, QueueTimesOut(c)  PROVE OrderInv'
  <2>1. CASE c \notin Clients(pool.queue)
    BY <1>1, <1>6, <1>o, <2>1 DEF QueueTimesOut, RemovedFromQueue
  <2>2. CASE c \in Clients(pool.queue)
    <3> DEFINE k == CHOOSE i \in 1..Len(pool.queue) : pool.queue[i].client = c
    <3>1. k \in 1..Len(pool.queue)
      BY <2>2 DEF Clients
    <3>2. pool'.queue = RemoveAt(pool.queue, k)
      BY <1>0, <1>6, <2>2 DEF QueueTimesOut, RemovedFromQueue, PoolType
    <3> HIDE DEF k
    <3>3. OrderedBy(RemoveAt(pool.queue, k), enqueuedAt)
      BY <1>0, <1>o, <3>1, OrderedAfterRemoval
    <3> QED  BY <1>1, <1>6, <3>2, <3>3 DEF QueueTimesOut
  <2> QED  BY <2>1, <2>2
<1>7. ASSUME ClearQueue \/ Dispose  PROVE OrderInv'
  <2>1. pool' = Cleared(pool) \/ pool' = Disposed(pool)
    BY <1>7 DEF ClearQueue, Dispose
  <2>2. Cleared(pool).queue = <<>> /\ Disposed(pool).queue = <<>>
    BY <1>0 DEF Cleared, Disposed, PoolType
  <2>3. pool'.queue = <<>> /\ UNCHANGED <<enqueuedAt, clock>>
    BY <1>7, <2>1, <2>2 DEF ClearQueue, Dispose
  <2>4. OrderedBy(<<>>, enqueuedAt)
    BY DEF OrderedBy
  <2> QED  BY <1>1, <2>3, <2>4
<1>8. ASSUME UNCHANGED <<pool, enqueuedAt, clock>>  PROVE OrderInv'
  BY <1>1, <1>8, <1>o
<1>9. ASSUME NEW c \in Client, AcquireAtOnce(c)  PROVE OrderInv'
  BY <1>0, <1>1, <1>9, <1>o DEF AcquireAtOnce, Taken, PoolType
<1> QED  BY <1>2, <1>4, <1>5, <1>6, <1>7, <1>8, <1>9
         DEF Next, vars, AcquireRefused

\* Where no caller has a priority below the default one, waiters are served by
\* priority and then in the order they came.
THEOREM QueueStaysOrdered ==
  ASSUME Priorities \subseteq Nat
  PROVE  Spec => []QueueOrdered
<1>1. Init => OrderInv
  <2> SUFFICES ASSUME Init  PROVE OrderInv
    OBVIOUS
  <2>1. pool.queue = <<>> /\ \A c \in Client : enqueuedAt[c] <= clock
    BY DEF Init, NewPool
  <2> QED  BY <2>1 DEF OrderInv, OrderedBy
<1>2. PoolInv /\ OrderInv /\ [Next]_vars => OrderInv'
  BY OrderStep
<1>3. OrderInv => QueueOrdered
  BY DEF OrderInv, OrderedBy, Before, QueueOrdered
<1> QED  BY <1>1, <1>2, <1>3, PoolInvariant, PTL DEF Spec
=============================================================================
