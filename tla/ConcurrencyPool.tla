--------------------------- MODULE ConcurrencyPool ---------------------------
(***************************************************************************)
(* The semaphore every task runs under: ConcurrencyPool of                 *)
(* packages/neko-types/src/core/concurrency-pool.ts.                       *)
(*                                                                         *)
(* Each client makes one acquire call (or one tryAcquire that succeeds)    *)
(* and, when it is admitted, one release, as run() does in its finally.    *)
(* `caller' is where that call stands.  `timers' holds the queue timeouts  *)
(* that are armed and not cleared: a timer that fires does its work        *)
(* whether or not the client is still queued, so a forgotten clearTimeout  *)
(* would show.  `enqueuedAt' is the entry's timestamp, on a logical clock. *)
(***************************************************************************)
EXTENDS PoolOps, FiniteSets

CONSTANTS
  Client,       \* the acquire calls
  Priorities,   \* the priorities callers pass
  Limits,       \* the values given to setMaxConcurrent
  QueueTimeout  \* TRUE when queueTimeout > 0

ASSUME ClientAssumption == IsFiniteSet(Client)
ASSUME PrioritiesAssumption == Priorities \subseteq Int
ASSUME LimitsAssumption == Limits \subseteq Nat \ {0}
ASSUME QueueTimeoutAssumption == QueueTimeout \in BOOLEAN

VARIABLES
  pool,           \* the pool's own fields
  caller,         \* where each client's acquire call stands
  timers,         \* clients whose queue timeout is armed
  enqueuedAt,     \* when each client was queued; 0 if it never was
  clock,          \* number of clients queued so far
  totalAcquired,
  totalTimeouts

vars == <<pool, caller, timers, enqueuedAt, clock, totalAcquired, totalTimeouts>>

Outcomes == {"idle", "queued", "holding", "released", "timedOut", "rejected"}

Holders == {c \in Client : caller[c] = "holding"}
Queued == {c \in Client : caller[c] = "queued"}
Served == {c \in Client : caller[c] \in {"holding", "released"}}
TimedOut == {c \in Client : caller[c] = "timedOut"}

\* Each client of S moves to state s.
Move(S, s) == caller' = [c \in Client |-> IF c \in S THEN s ELSE caller[c]]

-----------------------------------------------------------------------------
Init ==
  /\ \E limit \in Limits : pool = NewPool(limit)
  /\ caller = [c \in Client |-> "idle"]
  /\ timers = {}
  /\ enqueuedAt = [c \in Client |-> 0]
  /\ clock = 0
  /\ totalAcquired = 0
  /\ totalTimeouts = 0

AcquireRefused(c) ==
  /\ caller[c] = "idle"
  /\ pool.disposed
  /\ Move({c}, "rejected")
  /\ UNCHANGED <<pool, timers, enqueuedAt, clock, totalAcquired, totalTimeouts>>

\* The fast path of acquire, and a tryAcquire that returns true.
AcquireAtOnce(c) ==
  /\ caller[c] = "idle"
  /\ ~pool.disposed
  /\ HasCapacity(pool)
  /\ pool' = Taken(pool)
  /\ Move({c}, "holding")
  /\ totalAcquired' = totalAcquired + 1
  /\ UNCHANGED <<timers, enqueuedAt, clock, totalTimeouts>>

AcquireQueued(c, priority) ==
  /\ caller[c] = "idle"
  /\ ~pool.disposed
  /\ ~HasCapacity(pool)
  /\ pool' = Enqueued(pool, Entry(c, priority))
  /\ Move({c}, "queued")
  /\ timers' = IF QueueTimeout THEN timers \union {c} ELSE timers
  /\ clock' = clock + 1
  /\ enqueuedAt' = [enqueuedAt EXCEPT ![c] = clock + 1]
  /\ UNCHANGED <<totalAcquired, totalTimeouts>>

\* The head of the queue, if there is one, takes the released slot.
Release(c) ==
  LET n == WokenByRelease(pool)
      woken == FirstClients(pool.queue, n)
  IN
  /\ caller[c] = "holding"
  /\ pool' = Released(pool)
  /\ caller' = [d \in Client |-> IF d = c THEN "released"
                                 ELSE IF d \in woken THEN "holding"
                                 ELSE caller[d]]
  /\ timers' = timers \ woken
  /\ totalAcquired' = totalAcquired + n
  /\ UNCHANGED <<enqueuedAt, clock, totalTimeouts>>

SetMaxConcurrent(limit) ==
  LET n == Admissible(pool, limit)
      woken == FirstClients(pool.queue, n)
  IN
  /\ pool' = Resized(pool, limit)
  /\ Move(woken, "holding")
  /\ timers' = timers \ woken
  /\ totalAcquired' = totalAcquired + n
  /\ UNCHANGED <<enqueuedAt, clock, totalTimeouts>>

\* The timer callback; rejecting a promise that is settled changes nothing.
QueueTimesOut(c) ==
  /\ c \in timers
  /\ timers' = timers \ {c}
  /\ pool' = RemovedFromQueue(pool, c)
  /\ totalTimeouts' = totalTimeouts + 1
  /\ caller' = IF caller[c] = "queued"
               THEN [caller EXCEPT ![c] = "timedOut"]
               ELSE caller
  /\ UNCHANGED <<enqueuedAt, clock, totalAcquired>>

ClearQueue ==
  /\ pool.queue # <<>>
  /\ pool' = Cleared(pool)
  /\ Move(Clients(pool.queue), "rejected")
  /\ timers' = timers \ Clients(pool.queue)
  /\ UNCHANGED <<enqueuedAt, clock, totalAcquired, totalTimeouts>>

Dispose ==
  /\ ~pool.disposed
  /\ pool' = Disposed(pool)
  /\ Move(Clients(pool.queue), "rejected")
  /\ timers' = timers \ Clients(pool.queue)
  /\ UNCHANGED <<enqueuedAt, clock, totalAcquired, totalTimeouts>>

Next ==
  \/ \E c \in Client :
       \/ AcquireRefused(c)
       \/ AcquireAtOnce(c)
       \/ \E priority \in Priorities : AcquireQueued(c, priority)
       \/ Release(c)
       \/ QueueTimesOut(c)
  \/ \E limit \in Limits : SetMaxConcurrent(limit)
  \/ ClearQueue
  \/ Dispose

Spec == Init /\ [][Next]_vars

\* run() releases in a finally block, so an admitted operation that ends
\* gives its slot back; operations are assumed to end.
FairSpec == Spec /\ \A c \in Client : WF_vars(Release(c))

-----------------------------------------------------------------------------
\* Type invariant of the pool's fields, its callers and its counters.
TypeOK ==
  /\ pool \in PoolType(Client, Priorities)
  /\ caller \in [Client -> Outcomes]
  /\ timers \subseteq Client
  /\ enqueuedAt \in [Client -> Nat]
  /\ clock \in Nat
  /\ totalAcquired \in Nat
  /\ totalTimeouts \in Nat

\* Every call that waits has exactly one queue entry and, where there is a queue
\* timeout, one armed timer, and no other call has either: no waiter is lost or
\* woken twice, and no timer fires for a call that was admitted or cleared.
QueueHoldsTheWaiters ==
  /\ Clients(pool.queue) = Queued
  /\ NoDuplicates(pool.queue)
  /\ timers = IF QueueTimeout THEN Queued ELSE {}

\* The counters agree with the calls they count, across grants made by
\* acquire, by release and by setMaxConcurrent and across timeouts: no slot
\* leaks and none is handed out twice.
CountersMatchCallers ==
  /\ pool.running = Cardinality(Holders)
  /\ totalAcquired = Cardinality(Served)
  /\ totalTimeouts = Cardinality(TimedOut)

\* Nobody waits while a slot is free: acquire may take the fast path without
\* looking at the queue because a non-empty queue means a full pool.
NoIdleSlotWhileQueued ==
  pool.queue # <<>> => ~HasCapacity(pool)

\* "Insert by priority (higher priority first)", first come first served among
\* equals, whatever order calls, wake-ups and timeouts come in.
QueueOrdered ==
  \A i, j \in 1..Len(pool.queue) :
    i < j =>
      LET a == pool.queue[i]
          b == pool.queue[j]
      IN  \/ a.priority > b.priority
          \/ /\ a.priority = b.priority
             /\ enqueuedAt[a.client] < enqueuedAt[b.client]

\* While the pool runs more than a lowered limit allows, it never grows.
NeverFurtherOverLimit ==
  [][pool'.running > pool'.maxConcurrent => pool'.running <= pool.running]_vars

\* Every call that waits is settled in the end, although callers with a higher
\* priority may overtake it.
WaitersAreSettled ==
  \A c \in Client : caller[c] = "queued" ~> caller[c] # "queued"
=============================================================================
