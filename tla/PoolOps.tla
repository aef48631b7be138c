------------------------------- MODULE PoolOps -------------------------------
(***************************************************************************)
(* The state of one ConcurrencyPool and what each of its methods does to   *)
(* it (packages/neko-types/src/core/concurrency-pool.ts).  ConcurrencyPool *)
(* drives one pool; TaskManager drives two of them.                        *)
(*                                                                         *)
(* A pool is a record of its counter, its limit, its queue and its         *)
(* disposed flag.  A queue entry names the client whose promise it settles *)
(* and the priority the client asked for.                                  *)
(*                                                                         *)
(* Here and in the other modules a definition whose comment starts with    *)
(* "Mistake" is a plausible bug in the definition after it; no action uses *)
(* it.  The README says which property catches which.                      *)
(***************************************************************************)
EXTENDS Integers, SequencesExt

NewPool(limit) ==
  [running |-> 0, maxConcurrent |-> limit, queue |-> <<>>, disposed |-> FALSE]

\* Mistake: the comparison admits one too many.
HasCapacityAtLimit(pool) == pool.running <= pool.maxConcurrent

HasCapacity(pool) == pool.running < pool.maxConcurrent

\* The entries of a queue, and the pools, for given clients and priorities.
EntryType(C, P) == [client : C, priority : P]
PoolType(C, P) ==
  [running : Nat, maxConcurrent : Nat \ {0}, queue : Seq(EntryType(C, P)),
   disposed : BOOLEAN]

Entry(client, priority) == [client |-> client, priority |-> priority]

\* The clients of a queue, or of its first n entries.
Clients(queue) == {queue[i].client : i \in 1..Len(queue)}
FirstClients(queue, n) == {queue[i].client : i \in 1..n}

\* No client has two entries.
NoDuplicates(queue) ==
  \A i, j \in 1..Len(queue) : queue[i].client = queue[j].client => i = j

\* Mistake: newcomers go before their equals.
InsertionIndexBeforeEquals(queue, priority) ==
  LET notHigher == {i \in 1..Len(queue) : queue[i].priority <= priority}
  IN  IF notHigher = {}
      THEN Len(queue) + 1
      ELSE CHOOSE i \in notHigher : \A j \in notHigher : i <= j

\* Index at which acquire inserts: the end for the default priority, else
\* before the first entry of a lower priority.
InsertionIndex(queue, priority) ==
  LET lower == {i \in 1..Len(queue) : queue[i].priority < priority}
  IN  IF priority = 0 \/ lower = {}
      THEN Len(queue) + 1
      ELSE CHOOSE i \in lower : \A j \in lower : i <= j

Enqueued(pool, entry) ==
  [pool EXCEPT !.queue =
     InsertAt(@, InsertionIndex(@, entry.priority), entry)]

Taken(pool) == [pool EXCEPT !.running = @ + 1]

\* acquire on a pool that is not disposed: a free slot is taken at once,
\* whatever the queue holds; otherwise the caller is queued.
Acquired(pool, entry) ==
  IF HasCapacity(pool) THEN Taken(pool) ELSE Enqueued(pool, entry)

\* Mistake: `if' for `while' in setMaxConcurrent.
AdmissibleOnce(pool, limit) ==
  IF pool.running < limit /\ pool.queue # <<>> THEN 1 ELSE 0

\* How many queued clients a wake-up loop admits when the limit is `limit'.
Admissible(pool, limit) ==
  LET free == limit - pool.running
  IN  IF free <= 0 THEN 0
      ELSE IF free < Len(pool.queue) THEN free ELSE Len(pool.queue)

\* Mistake: a queued entry's resolve does not count the slot it takes.
AdmittedUncounted(pool, n) ==
  [pool EXCEPT !.queue = SubSeq(@, n + 1, Len(@))]

\* The first n queued clients leave the queue and take a slot each.
Admitted(pool, n) ==
  [pool EXCEPT !.running = @ + n,
               !.queue = SubSeq(@, n + 1, Len(@))]

\* Mistake: capacity is looked at before the slot is given back.
WokenIfCapacity(pool) ==
  IF HasCapacity(pool) /\ pool.queue # <<>> THEN 1 ELSE 0

\* release wakes the head of the queue without looking at the limit.
WokenByRelease(pool) ==
  IF pool.running > 0 /\ pool.queue # <<>> THEN 1 ELSE 0

\* Mistake: run releases in its catch block and again in its finally block.
ReleasedTwice(pool) ==
  Admitted([pool EXCEPT !.running = @ - 2], WokenByRelease(pool))

Released(pool) ==
  IF pool.running <= 0
  THEN pool
  ELSE Admitted([pool EXCEPT !.running = @ - 1], WokenByRelease(pool))

Resized(pool, limit) ==
  [Admitted(pool, Admissible(pool, limit)) EXCEPT !.maxConcurrent = limit]

\* Mistake: the timer rejects the call and leaves its entry behind.
KeptInQueue(pool, client) == pool

\* removeFromQueue: nothing happens when the client has left the queue.
RemovedFromQueue(pool, client) ==
  IF client \notin Clients(pool.queue)
  THEN pool
  ELSE [pool EXCEPT !.queue =
          RemoveAt(@, CHOOSE i \in 1..Len(@) : @[i].client = client)]

Cleared(pool) == [pool EXCEPT !.queue = <<>>]

Disposed(pool) == [pool EXCEPT !.queue = <<>>, !.disposed = TRUE]
=============================================================================
