---------------------------- MODULE PoolOpsProofs ----------------------------
(***************************************************************************)
(* What the methods of a pool do to its queue and its counter, for any     *)
(* clients and any integer priorities.                                     *)
(***************************************************************************)
EXTENDS PoolOps, TLAPS, SequenceTheorems, FiniteSetTheorems

\* The insertion index lies in the queue or just behind it.
LEMMA InsertionIndexInRange ==
  ASSUME NEW C, NEW P \in SUBSET Int,
         NEW q \in Seq(EntryType(C, P)), NEW priority \in P
  PROVE  InsertionIndex(q, priority) \in 1..(Len(q) + 1)
<1> DEFINE lower == {i \in 1..Len(q) : q[i].priority < priority}
<1>1. Len(q) \in Nat
  BY LenProperties
<1>2. CASE priority = 0 \/ lower = {}
  BY <1>1, <1>2 DEF InsertionIndex
<1>3. CASE ~(priority = 0 \/ lower = {})
  <2>1. lower \subseteq Nat /\ lower # {}
    BY <1>1, <1>3
  <2>2. PICK m \in lower : \A j \in lower : m <= j
    <3> DEFINE R == OpToRel(<, Nat)
    <3> HIDE DEF R, lower
    <3>1. IsWellFoundedOn(R, Nat)
      BY NatLessThanWellFounded DEF R
    <3>2. PICK m \in lower : \A j \in lower : ~(<<j, m>> \in R)
      BY <2>1, <3>1, WFMin
    <3>3. \A j \in lower : j \in Nat /\ m \in Nat /\ ~(j < m)
      BY <2>1, <3>2 DEF R, OpToRel
    <3> QED  BY <3>3
  <2>3. (CHOOSE i \in lower : \A j \in lower : i <= j) \in lower
    BY <2>2
  <2> QED  BY <1>1, <1>3, <2>3 DEF InsertionIndex
<1> QED  BY <1>2, <1>3

\* Inserting keeps the other entries and their order.
LEMMA InsertAtProperties ==
  ASSUME NEW S, NEW q \in Seq(S), NEW e \in S, NEW k \in 1..(Len(q) + 1)
  PROVE  /\ InsertAt(q, k, e) \in Seq(S)
         /\ Len(InsertAt(q, k, e)) = Len(q) + 1
         /\ \A i \in 1..(Len(q) + 1) :
              InsertAt(q, k, e)[i] = IF i < k THEN q[i]
                                     ELSE IF i = k THEN e ELSE q[i - 1]
<1> DEFINE a == SubSeq(q, 1, k - 1)
           b == SubSeq(q, k, Len(q))
<1>1. Len(q) \in Nat /\ \A i \in 1..Len(q) : q[i] \in S
  BY LenProperties, ElementOfSeq
<1>2. a \in Seq(S) /\ Len(a) = k - 1 /\ \A i \in 1..(k - 1) : a[i] = q[i]
  BY <1>1, SubSeqProperties
<1>3. /\ b \in Seq(S) /\ Len(b) = Len(q) - k + 1
      /\ \A i \in 1..(Len(q) - k + 1) : b[i] = q[k + i - 1]
  BY <1>1, SubSeqProperties
<1>4. <<e>> \in Seq(S) /\ Len(<<e>>) = 1 /\ <<e>>[1] = e
  OBVIOUS
<1>5. /\ a \o <<e>> \in Seq(S) /\ Len(a \o <<e>>) = k
      /\ \A i \in 1..k : (a \o <<e>>)[i] = IF i < k THEN q[i] ELSE e
  BY <1>2, <1>4, ConcatProperties
<1> DEFINE c == a \o <<e>>
<1>6. InsertAt(q, k, e) = c \o b
  BY DEF InsertAt
<1> HIDE DEF a, b, c
<1>7. /\ c \o b \in Seq(S)
      /\ Len(c \o b) = Len(c) + Len(b)
      /\ \A i \in 1..(Len(c) + Len(b)) :
           (c \o b)[i] = IF i <= Len(c) THEN c[i] ELSE b[i - Len(c)]
  <2>1. b \in Seq(S) /\ c \in Seq(S)
    BY <1>3, <1>5 DEF c
  <2> QED  BY ONLY <2>1, ConcatProperties
<1>8. /\ Len(c) = k /\ \A i \in 1..k : c[i] = IF i < k THEN q[i] ELSE e
      /\ Len(b) = Len(q) - k + 1
  BY <1>3, <1>5 DEF c
<1>9. \A i \in 1..(Len(q) + 1) : i > k => b[i - k] = q[i - 1]
  BY <1>1, <1>3
<1> QED  BY <1>1, <1>6, <1>7, <1>8, <1>9

\* Removing keeps the other entries and their order.
LEMMA RemoveAtProperties ==
  ASSUME NEW S, NEW q \in Seq(S), NEW k \in 1..Len(q)
  PROVE  /\ RemoveAt(q, k) \in Seq(S)
         /\ Len(RemoveAt(q, k)) = Len(q) - 1
         /\ \A i \in 1..(Len(q) - 1) :
              RemoveAt(q, k)[i] = IF i < k THEN q[i] ELSE q[i + 1]
<1> DEFINE a == SubSeq(q, 1, k - 1)
           b == SubSeq(q, k + 1, Len(q))
<1>1. Len(q) \in Nat /\ \A i \in 1..Len(q) : q[i] \in S
  BY LenProperties, ElementOfSeq
<1>2. a \in Seq(S) /\ Len(a) = k - 1 /\ \A i \in 1..(k - 1) : a[i] = q[i]
  BY <1>1, SubSeqProperties
<1>3. /\ b \in Seq(S) /\ Len(b) = Len(q) - k
      /\ \A i \in 1..(Len(q) - k) : b[i] = q[k + i]
  BY <1>1, SubSeqProperties
<1>4. RemoveAt(q, k) = a \o b
  BY DEF RemoveAt
<1> HIDE DEF a, b
<1>5. /\ a \o b \in Seq(S)
      /\ Len(a \o b) = Len(a) + Len(b)
      /\ \A i \in 1..(Len(a) + Len(b)) :
           (a \o b)[i] = IF i <= Len(a) THEN a[i] ELSE b[i - Len(a)]
  <2>1. a \in Seq(S) /\ b \in Seq(S)
    BY <1>2, <1>3
  <2> QED  BY ONLY <2>1, ConcatProperties
<1>6. \A i \in 1..(Len(q) - 1) : i >= k => b[i - (k - 1)] = q[i + 1]
  BY <1>1, <1>3
<1> QED  BY <1>1, <1>2, <1>3, <1>4, <1>5, <1>6

\* Dropping the first n entries keeps the rest and their order.
LEMMA DropProperties ==
  ASSUME NEW S, NEW q \in Seq(S), NEW n \in 0..Len(q)
  PROVE  /\ SubSeq(q, n + 1, Len(q)) \in Seq(S)
         /\ Len(SubSeq(q, n + 1, Len(q))) = Len(q) - n
         /\ \A i \in 1..(Len(q) - n) : SubSeq(q, n + 1, Len(q))[i] = q[n + i]
<1>1. Len(q) \in Nat /\ \A i \in 1..Len(q) : q[i] \in S
  BY LenProperties, ElementOfSeq
<1> QED  BY <1>1, SubSeqProperties

\* The first n entries of a queue without duplicates name n clients.
LEMMA FirstClientsCounted ==
  ASSUME NEW q, NEW n \in Nat,
         \A i, j \in 1..n : q[i].client = q[j].client => i = j
  PROVE  /\ IsFiniteSet(FirstClients(q, n))
         /\ Cardinality(FirstClients(q, n)) = n
<1> DEFINE f == [i \in 1..n |-> q[i].client]
           T == FirstClients(q, n)
<1>1. f \in Bijection(1..n, T)
  BY DEF Bijection, Injection, Surjection, IsInjective, FirstClients
<1>2. ExistsBijection(1..n, T)
  BY <1>1 DEF ExistsBijection
<1> QED  BY <1>2, FS_CountingElements, FS_NatBijection

\* How many waiters a wake-up admits.
LEMMA AdmissibleInRange ==
  ASSUME NEW C, NEW P, NEW pool \in PoolType(C, P), NEW limit \in Nat
  PROVE  /\ Admissible(pool, limit) \in 0..Len(pool.queue)
         /\ WokenByRelease(pool) \in 0..Len(pool.queue)
<1>1. pool.running \in Nat /\ pool.queue \in Seq(EntryType(C, P))
  BY DEF PoolType
<1>2. Len(pool.queue) \in Nat /\ (pool.queue # <<>> => Len(pool.queue) > 0)
  BY <1>1, EmptySeq, LenProperties
<1> QED  BY <1>1, <1>2 DEF Admissible, WokenByRelease

-----------------------------------------------------------------------------
(***************************************************************************)
(* Each method leaves a well-typed pool.                                   *)
(***************************************************************************)

\* The fast path of acquire keeps the type of the pool.
LEMMA TakenType ==
  ASSUME NEW C, NEW P, NEW pool \in PoolType(C, P)
  PROVE  Taken(pool) \in PoolType(C, P)
BY DEF Taken, PoolType

\* So does the queue branch of acquire.
LEMMA EnqueuedType ==
  ASSUME NEW C, NEW P \in SUBSET Int, NEW pool \in PoolType(C, P),
         NEW entry \in EntryType(C, P)
  PROVE  Enqueued(pool, entry) \in PoolType(C, P)
<1> DEFINE k == InsertionIndex(pool.queue, entry.priority)
<1>1. pool.queue \in Seq(EntryType(C, P)) /\ entry.priority \in P
  BY DEF PoolType, EntryType
<1>2. k \in 1..(Len(pool.queue) + 1)
  BY <1>1, InsertionIndexInRange
<1>3. InsertAt(pool.queue, k, entry) \in Seq(EntryType(C, P))
  BY <1>1, <1>2, InsertAtProperties
<1> QED  BY <1>3 DEF Enqueued, PoolType

\* So does taking the head of the queue.
LEMMA AdmittedType ==
  ASSUME NEW C, NEW P, NEW pool \in PoolType(C, P),
         NEW n \in 0..Len(pool.queue)
  PROVE  Admitted(pool, n) \in PoolType(C, P)
<1>1. pool.queue \in Seq(EntryType(C, P)) /\ n \in Nat
  BY LenProperties DEF PoolType
<1>2. SubSeq(pool.queue, n + 1, Len(pool.queue)) \in Seq(EntryType(C, P))
  BY <1>1, DropProperties
<1> DEFINE more == [pool EXCEPT !.running = @ + n]
<1>3. more \in PoolType(C, P) /\ more.queue = pool.queue
  BY <1>1 DEF PoolType
<1>4. Admitted(pool, n) = [more EXCEPT !.queue = SubSeq(@, n + 1, Len(@))]
  BY DEF Admitted, PoolType
<1> HIDE DEF more
<1> QED  BY <1>2, <1>3, <1>4 DEF PoolType

\* So does release.
LEMMA ReleasedType ==
  ASSUME NEW C, NEW P, NEW pool \in PoolType(C, P)
  PROVE  Released(pool) \in PoolType(C, P)
<1> DEFINE less == [pool EXCEPT !.running = @ - 1]
           n == WokenByRelease(pool)
<1>1. CASE pool.running <= 0
  BY <1>1 DEF Released
<1>2. CASE ~(pool.running <= 0)
  <2>1. less \in PoolType(C, P) /\ less.queue = pool.queue
    BY <1>2 DEF PoolType
  <2>2. n \in 0..Len(less.queue)
    BY <2>1, AdmissibleInRange
  <2>3. Admitted(less, n) \in PoolType(C, P)
    BY <2>1, <2>2, AdmittedType
  <2> QED  BY <1>2, <2>3 DEF Released
<1> QED  BY <1>1, <1>2

\* So does setMaxConcurrent.
LEMMA ResizedType ==
  ASSUME NEW C, NEW P, NEW pool \in PoolType(C, P), NEW limit \in Nat \ {0}
  PROVE  Resized(pool, limit) \in PoolType(C, P)
<1>1. Admitted(pool, Admissible(pool, limit)) \in PoolType(C, P)
  BY AdmissibleInRange, AdmittedType
<1> QED  BY <1>1 DEF Resized, PoolType

\* So does the removal of an entry that timed out.
LEMMA RemovedType ==
  ASSUME NEW C, NEW P, NEW pool \in PoolType(C, P), NEW c
  PROVE  RemovedFromQueue(pool, c) \in PoolType(C, P)
<1> DEFINE q == pool.queue
           k == CHOOSE i \in 1..Len(q) : q[i].client = c
<1>1. CASE c \notin Clients(q)
  BY <1>1 DEF RemovedFromQueue
<1>2. CASE c \in Clients(q)
  <2>1. q \in Seq(EntryType(C, P))
    BY DEF PoolType
  <2>2. k \in 1..Len(q)
    BY <1>2 DEF Clients
  <2>3. RemoveAt(q, k) \in Seq(EntryType(C, P))
    BY <2>1, <2>2, RemoveAtProperties
  <2> QED  BY <1>2, <2>3 DEF RemovedFromQueue, PoolType
<1> QED  BY <1>1, <1>2

\* So do clearQueue and dispose.
LEMMA EmptiedType ==
  ASSUME NEW C, NEW P, NEW pool \in PoolType(C, P)
  PROVE  Cleared(pool) \in PoolType(C, P) /\ Disposed(pool) \in PoolType(C, P)
<1>1. <<>> \in Seq(EntryType(C, P))
  BY EmptySeq
<1>2. Cleared(pool) \in PoolType(C, P)
  BY <1>1 DEF Cleared, PoolType
<1>3. Disposed(pool) = [Cleared(pool) EXCEPT !.disposed = TRUE]
  BY DEF Cleared, Disposed, PoolType
<1> QED  BY <1>2, <1>3 DEF PoolType

\* A new pool has the type of one.
LEMMA NewPoolType ==
  ASSUME NEW C, NEW P, NEW limit \in Nat \ {0}
  PROVE  NewPool(limit) \in PoolType(C, P)
BY DEF NewPool, PoolType

-----------------------------------------------------------------------------
(***************************************************************************)
(* Each method's effect on who is queued.                                  *)
(***************************************************************************)

\* A priority insertion adds one entry and loses none.
LEMMA EnqueuedClients ==
  ASSUME NEW C, NEW P \in SUBSET Int, NEW pool \in PoolType(C, P),
         NEW entry \in EntryType(C, P),
         NoDuplicates(pool.queue), entry.client \notin Clients(pool.queue)
  PROVE  LET q == Enqueued(pool, entry).queue
         IN  /\ Clients(q) = Clients(pool.queue) \union {entry.client}
             /\ NoDuplicates(q)
             /\ q # <<>>
<1> DEFINE old == pool.queue
           k == InsertionIndex(old, entry.priority)
           q == Enqueued(pool, entry).queue
<1>1. old \in Seq(EntryType(C, P)) /\ entry.priority \in P /\ Len(old) \in Nat
  BY LenProperties DEF PoolType, EntryType
<1>2. k \in 1..(Len(old) + 1)
  BY <1>1, InsertionIndexInRange
<1>3. q = InsertAt(old, k, entry)
  BY DEF Enqueued, PoolType
<1> HIDE DEF k, q
<1>4. /\ Len(q) = Len(old) + 1
      /\ \A i \in 1..(Len(old) + 1) :
           q[i] = IF i < k THEN old[i] ELSE IF i = k THEN entry ELSE old[i - 1]
  <2>1. /\ old \in Seq(EntryType(C, P)) /\ entry \in EntryType(C, P)
        /\ k \in 1..(Len(old) + 1)
    BY <1>1, <1>2
  <2> DEFINE E == EntryType(C, P)
  <2>2. old \in Seq(E) /\ entry \in E
    BY <2>1
  <2> HIDE DEF E, old
  <2>3. /\ Len(InsertAt(old, k, entry)) = Len(old) + 1
        /\ \A i \in 1..(Len(old) + 1) :
             InsertAt(old, k, entry)[i] =
               IF i < k THEN old[i] ELSE IF i = k THEN entry ELSE old[i - 1]
    BY ONLY <2>1, <2>2, InsertAtProperties, SMTT(30)
  <2> QED  BY ONLY <1>3, <2>3
<1>5. Clients(q) = Clients(old) \union {entry.client}
  <2>1. ASSUME NEW i \in 1..Len(old)
        PROVE  \E j \in 1..Len(q) : q[j] = old[i]
    <3>1. CASE i < k
      BY <1>1, <1>2, <1>4, <2>1, <3>1
    <3>2. CASE ~(i < k)
      <4>1. q[i + 1] = old[i] /\ i + 1 \in 1..Len(q)
        BY <1>1, <1>2, <1>4, <2>1, <3>2
      <4> QED  BY <4>1
    <3> QED  BY <3>1, <3>2
  <2>2. ASSUME NEW i \in 1..Len(q)
        PROVE  q[i] = entry \/ \E j \in 1..Len(old) : q[i] = old[j]
    <3>1. CASE i < k
      BY <1>1, <1>2, <1>4, <2>2, <3>1
    <3>2. CASE i > k
      <4>1. q[i] = old[i - 1] /\ i - 1 \in 1..Len(old)
        BY <1>1, <1>2, <1>4, <2>2, <3>2
      <4> QED  BY <4>1
    <3> QED  BY <1>1, <1>2, <1>4, <2>2, <3>1, <3>2
  <2>3. q[k] = entry /\ k \in 1..Len(q)
    BY <1>1, <1>2, <1>4
  <2>4. Clients(q) \subseteq Clients(old) \union {entry.client}
    BY <2>2 DEF Clients
  <2>5. Clients(old) \subseteq Clients(q)
    BY <2>1 DEF Clients
  <2>6. entry.client \in Clients(q)
    BY <2>3 DEF Clients
  <2> QED  BY <2>4, <2>5, <2>6
<1>6. NoDuplicates(q)
  <2> SUFFICES ASSUME NEW i \in 1..Len(q), NEW j \in 1..Len(q), i < j,
                      q[i].client = q[j].client
               PROVE  FALSE
    BY <1>1, <1>4 DEF NoDuplicates
  <2>1. \A m, n \in 1..Len(old) : m < n => old[m].client # old[n].client
    BY <1>1 DEF NoDuplicates
  <2>2. \A m \in 1..Len(old) : old[m].client # entry.client
    BY DEF Clients
  <2> DEFINE from(m) == IF m < k THEN m ELSE m - 1
  <2>3. \A m \in 1..Len(q) : m # k => from(m) \in 1..Len(old) /\ q[m] = old[from(m)]
    BY <1>1, <1>2, <1>4
  <2>4. q[k] = entry
    BY <1>1, <1>2, <1>4
  <2>5. CASE i # k /\ j # k
    <3>1. from(i) < from(j)
      BY <1>1, <1>2, <1>4, <2>5
    <3> QED  BY <2>1, <2>3, <2>5, <3>1
  <2>6. CASE i = k \/ j = k
    BY <2>2, <2>3, <2>4, <2>6
  <2> QED  BY <2>5, <2>6
<1>7. q # <<>>
  BY <1>1, <1>4
<1> QED  BY <1>5, <1>6, <1>7 DEF q

\* Taking the first n entries removes those and no other.
LEMMA AdmittedClients ==
  ASSUME NEW C, NEW P, NEW pool \in PoolType(C, P),
         NEW n \in 0..Len(pool.queue), NoDuplicates(pool.queue)
  PROVE  /\ Clients(Admitted(pool, n).queue)
              = Clients(pool.queue) \ FirstClients(pool.queue, n)
         /\ NoDuplicates(Admitted(pool, n).queue)
         /\ Len(Admitted(pool, n).queue) = Len(pool.queue) - n
         /\ FirstClients(pool.queue, n) \subseteq Clients(pool.queue)
<1> DEFINE old == pool.queue
           q == Admitted(pool, n).queue
<1>1. old \in Seq(EntryType(C, P)) /\ Len(old) \in Nat
  BY LenProperties DEF PoolType
<1>2. q = SubSeq(old, n + 1, Len(old))
  BY DEF Admitted, PoolType
<1> HIDE DEF q
<1>3. Len(q) = Len(old) - n /\ \A i \in 1..(Len(old) - n) : q[i] = old[n + i]
  BY <1>1, <1>2, DropProperties
<1>4. FirstClients(old, n) \subseteq Clients(old)
  BY <1>1 DEF FirstClients, Clients
<1>5. ASSUME NEW i \in 1..Len(q)
      PROVE  q[i].client \in Clients(old) \ FirstClients(old, n)
  <2>1. q[i] = old[n + i] /\ n + i \in 1..Len(old) /\ n + i \notin 1..n
    BY <1>1, <1>3, <1>5
  <2>2. \A j \in 1..n : j \in 1..Len(old) /\ j # n + i
    BY <1>1, <2>1
  <2> QED  BY <2>1, <2>2 DEF NoDuplicates, Clients, FirstClients
<1>6. ASSUME NEW c \in Clients(old) \ FirstClients(old, n)
      PROVE  c \in Clients(q)
  <2>1. PICK i \in 1..Len(old) : old[i].client = c
    BY <1>6 DEF Clients
  <2>2. i > n
    BY <1>1, <1>6, <2>1 DEF FirstClients
  <2>3. i - n \in 1..Len(q) /\ q[i - n] = old[i]
    BY <1>1, <1>3, <2>2
  <2> QED  BY <2>1, <2>3 DEF Clients
<1>7. NoDuplicates(q)
  <2> SUFFICES ASSUME NEW i \in 1..Len(q), NEW j \in 1..Len(q),
                      q[i].client = q[j].client
               PROVE  i = j
    BY DEF NoDuplicates
  <2>1. /\ q[i] = old[n + i] /\ n + i \in 1..Len(old)
        /\ q[j] = old[n + j] /\ n + j \in 1..Len(old)
    BY <1>1, <1>3
  <2>2. n + i = n + j
    BY <2>1 DEF NoDuplicates
  <2> QED  BY <1>1, <1>3, <2>2
<1> QED  BY <1>3, <1>4, <1>5, <1>6, <1>7 DEF q, Clients

\* A timeout removes the entry of its own call only.
LEMMA RemovedClients ==
  ASSUME NEW C, NEW P, NEW pool \in PoolType(C, P), NEW c,
         NoDuplicates(pool.queue)
  PROVE  LET q == RemovedFromQueue(pool, c).queue
         IN  /\ Clients(q) = Clients(pool.queue) \ {c}
             /\ NoDuplicates(q)
             /\ pool.queue = <<>> => q = <<>>
<1> DEFINE old == pool.queue
           q == RemovedFromQueue(pool, c).queue
           k == CHOOSE i \in 1..Len(old) : old[i].client = c
<1>1. old \in Seq(EntryType(C, P)) /\ Len(old) \in Nat
  BY LenProperties DEF PoolType
<1>2. CASE c \notin Clients(old)
  BY <1>2 DEF RemovedFromQueue
<1>3. CASE c \in Clients(old)
  <2>1. k \in 1..Len(old) /\ old[k].client = c
    BY <1>3 DEF Clients
  <2>2. q = RemoveAt(old, k)
    BY <1>3 DEF RemovedFromQueue, PoolType
  <2> HIDE DEF k, q
  <2>3. /\ Len(q) = Len(old) - 1
        /\ \A i \in 1..(Len(old) - 1) :
             q[i] = IF i < k THEN old[i] ELSE old[i + 1]
    BY <1>1, <2>1, <2>2, RemoveAtProperties
  <2>4. ASSUME NEW i \in 1..Len(q)
        PROVE  \E j \in 1..Len(old) : j # k /\ q[i] = old[j]
    <3>1. CASE i < k
      BY <1>1, <2>1, <2>3, <2>4, <3>1
    <3>2. CASE ~(i < k)
      <4>1. q[i] = old[i + 1] /\ i + 1 \in 1..Len(old) /\ i + 1 # k
        BY <1>1, <2>1, <2>3, <2>4, <3>2
      <4> QED  BY <4>1
    <3> QED  BY <3>1, <3>2
  <2>5. ASSUME NEW j \in 1..Len(old), j # k
        PROVE  \E i \in 1..Len(q) : q[i] = old[j]
    <3>1. CASE j < k
      BY <1>1, <2>1, <2>3, <2>5, <3>1
    <3>2. CASE j > k
      <4>1. q[j - 1] = old[j] /\ j - 1 \in 1..Len(q)
        BY <1>1, <2>1, <2>3, <2>5, <3>2
      <4> QED  BY <4>1
    <3> QED  BY <1>1, <2>1, <2>5, <3>1, <3>2
  <2>6. Clients(q) = Clients(old) \ {c}
    <3>1. Clients(q) \subseteq Clients(old)
      BY <2>4 DEF Clients
    <3>2. c \notin Clients(q)
      <4>1. \A j \in 1..Len(old) : j # k => old[j].client # c
        BY <2>1 DEF NoDuplicates
      <4> QED  BY <2>4, <4>1 DEF Clients
    <3>3. \A j \in 1..Len(old) : old[j].client # c => old[j].client \in Clients(q)
      BY <2>1, <2>5 DEF Clients
    <3>4. Clients(old) \ {c} \subseteq Clients(q)
      BY <3>3 DEF Clients
    <3> QED  BY <3>1, <3>2, <3>4
  <2>7. NoDuplicates(q)
    <3> SUFFICES ASSUME NEW i \in 1..Len(q), NEW j \in 1..Len(q), i < j,
                        q[i].client = q[j].client
                 PROVE  FALSE
      BY <1>1, <2>3 DEF NoDuplicates
    <3>1. \A m, n \in 1..Len(old) : m < n => old[m].client # old[n].client
      BY <1>1 DEF NoDuplicates
    <3> DEFINE K == IF i < k THEN i ELSE i + 1
               L == IF j < k THEN j ELSE j + 1
    <3>2. K \in 1..Len(old) /\ L \in 1..Len(old) /\ K < L
      BY <1>1, <2>1, <2>3
    <3>3. q[i] = old[K] /\ q[j] = old[L]
      BY <1>1, <2>1, <2>3
    <3> QED  BY <3>1, <3>2, <3>3
  <2>8. old # <<>>
    BY <2>1
  <2> QED  BY <2>6, <2>7, <2>8 DEF q
<1> QED  BY <1>2, <1>3

\* release takes at most the head of the queue, which gets the slot.
LEMMA ReleasedClients ==
  ASSUME NEW C, NEW P, NEW pool \in PoolType(C, P),
         NoDuplicates(pool.queue), pool.running > 0
  PROVE  LET m == WokenByRelease(pool)
         IN  /\ Clients(Released(pool).queue)
                  = Clients(pool.queue) \ FirstClients(pool.queue, m)
             /\ NoDuplicates(Released(pool).queue)
             /\ Len(Released(pool).queue) = Len(pool.queue) - m
             /\ Released(pool).running = pool.running - 1 + m
             /\ Released(pool).maxConcurrent = pool.maxConcurrent
             /\ Released(pool).disposed = pool.disposed
<1>1. PICK less : less = [pool EXCEPT !.running = @ - 1]
  OBVIOUS
<1>2. PICK m : m = WokenByRelease(pool)
  OBVIOUS
<1>3. /\ less \in PoolType(C, P) /\ less.queue = pool.queue
      /\ less.running = pool.running - 1
      /\ less.maxConcurrent = pool.maxConcurrent
      /\ less.disposed = pool.disposed
  BY <1>1 DEF PoolType
<1>4. m \in 0..Len(less.queue) /\ NoDuplicates(less.queue)
  BY <1>2, <1>3, AdmissibleInRange
<1>5. Released(pool) = Admitted(less, m)
  BY <1>1, <1>2 DEF Released, PoolType
<1>6. /\ Clients(Admitted(less, m).queue)
           = Clients(less.queue) \ FirstClients(less.queue, m)
      /\ NoDuplicates(Admitted(less, m).queue)
  BY <1>3, <1>4, AdmittedClients
<1>8. Len(Admitted(less, m).queue) = Len(less.queue) - m
  BY <1>3, <1>4, AdmittedClients
<1>7. /\ Admitted(less, m).running = less.running + m
      /\ Admitted(less, m).maxConcurrent = less.maxConcurrent
      /\ Admitted(less, m).disposed = less.disposed
  BY <1>3 DEF Admitted, PoolType
<1> QED  BY <1>2, <1>3, <1>5, <1>6, <1>7, <1>8

\* setMaxConcurrent takes as many entries as it hands out slots.
LEMMA ResizedClients ==
  ASSUME NEW C, NEW P, NEW pool \in PoolType(C, P),
         NEW limit \in Nat \ {0}, NoDuplicates(pool.queue)
  PROVE  LET m == Admissible(pool, limit)
         IN  /\ Clients(Resized(pool, limit).queue)
                  = Clients(pool.queue) \ FirstClients(pool.queue, m)
             /\ NoDuplicates(Resized(pool, limit).queue)
             /\ Len(Resized(pool, limit).queue) = Len(pool.queue) - m
             /\ Resized(pool, limit).running = pool.running + m
             /\ Resized(pool, limit).maxConcurrent = limit
             /\ Resized(pool, limit).disposed = pool.disposed
<1>1. PICK m : m = Admissible(pool, limit)
  OBVIOUS
<1>2. m \in 0..Len(pool.queue)
  BY <1>1, AdmissibleInRange
<1>3. /\ Clients(Admitted(pool, m).queue)
           = Clients(pool.queue) \ FirstClients(pool.queue, m)
      /\ NoDuplicates(Admitted(pool, m).queue)
  BY <1>2, AdmittedClients
<1>6. Len(Admitted(pool, m).queue) = Len(pool.queue) - m
  BY <1>2, AdmittedClients
<1>4. /\ Admitted(pool, m) \in PoolType(C, P)
      /\ Admitted(pool, m).running = pool.running + m
      /\ Admitted(pool, m).disposed = pool.disposed
  BY <1>2, AdmittedType DEF Admitted, PoolType
<1>5. /\ Resized(pool, limit).queue = Admitted(pool, m).queue
      /\ Resized(pool, limit).running = Admitted(pool, m).running
      /\ Resized(pool, limit).maxConcurrent = limit
      /\ Resized(pool, limit).disposed = Admitted(pool, m).disposed
  BY <1>1, <1>4 DEF Resized, PoolType
<1> QED  BY <1>1, <1>3, <1>4, <1>5, <1>6

-----------------------------------------------------------------------------
(***************************************************************************)
(* The same for a user of the pool that keeps track of the clients W it    *)
(* has queued, whatever the counter says.                                  *)
(***************************************************************************)

Queues(pool, W) == Clients(pool.queue) = W /\ NoDuplicates(pool.queue)

\* The first n clients of the queue are n different ones of those queued.
LEMMA FirstOfQueue ==
  ASSUME NEW C, NEW P, NEW pool \in PoolType(C, P), NEW W, Queues(pool, W),
         NEW n \in 0..Len(pool.queue)
  PROVE  LET F == FirstClients(pool.queue, n)
         IN  F \subseteq W /\ IsFiniteSet(F) /\ Cardinality(F) = n
<1>1. NoDuplicates(pool.queue) /\ Len(pool.queue) \in Nat
  BY LenProperties DEF Queues, PoolType
<1>2. FirstClients(pool.queue, n) \subseteq W
  BY <1>1, AdmittedClients DEF Queues
<1>3. n \in Nat /\ \A i \in 1..n : i \in 1..Len(pool.queue)
  BY <1>1
<1> QED  BY <1>1, <1>2, <1>3, FirstClientsCounted DEF NoDuplicates

\* release, seen from the callers: those it wakes leave the set that waits.
LEMMA ReleaseQueues ==
  ASSUME NEW C, NEW P, NEW pool \in PoolType(C, P), NEW W, Queues(pool, W)
  PROVE  LET p == Released(pool)
             F == FirstClients(pool.queue, WokenByRelease(pool))
         IN  /\ p \in PoolType(C, P)
             /\ p.maxConcurrent = pool.maxConcurrent
             /\ Queues(p, W \ F)
             /\ F \subseteq W /\ IsFiniteSet(F)
             /\ pool.running > 0 =>
                  /\ p.running = pool.running - 1 + Cardinality(F)
                  /\ p.running <= pool.running
<1>1. WokenByRelease(pool) \in 0..Len(pool.queue)
  BY AdmissibleInRange
<1>2. PICK F : F = FirstClients(pool.queue, WokenByRelease(pool))
  OBVIOUS
<1>3. F \subseteq W /\ IsFiniteSet(F) /\ Cardinality(F) = WokenByRelease(pool)
  BY <1>1, <1>2, FirstOfQueue
<1>4. Released(pool) \in PoolType(C, P)
  BY ReleasedType
<1>5. CASE pool.running > 0
  <2>1. /\ Clients(Released(pool).queue) = Clients(pool.queue) \ F
        /\ NoDuplicates(Released(pool).queue)
    BY <1>2, <1>5, ReleasedClients DEF Queues
  <2>2. /\ Released(pool).running = pool.running - 1 + WokenByRelease(pool)
        /\ Released(pool).maxConcurrent = pool.maxConcurrent
    BY <1>5, ReleasedClients DEF Queues
  <2>3. pool.running \in Nat /\ WokenByRelease(pool) \in 0..1
    BY DEF PoolType, WokenByRelease
  <2>4. Queues(Released(pool), W \ F)
    BY <2>1 DEF Queues
  <2> QED  BY <1>2, <1>3, <1>4, <2>2, <2>3, <2>4
<1>6. CASE ~(pool.running > 0)
  <2>1. pool.running <= 0 /\ WokenByRelease(pool) = 0
    BY <1>6 DEF PoolType, WokenByRelease
  <2>2. F = {} /\ Released(pool) = pool
    BY <1>2, <2>1 DEF FirstClients, Released
  <2>3. W \ F = W
    BY <2>2
  <2> QED  BY <1>2, <1>3, <1>4, <1>6, <2>2, <2>3
<1> QED  BY <1>5, <1>6

\* setMaxConcurrent, seen from the callers.
LEMMA ResizeQueues ==
  ASSUME NEW C, NEW P, NEW pool \in PoolType(C, P), NEW W, Queues(pool, W),
         NEW limit \in Nat \ {0}
  PROVE  LET p == Resized(pool, limit)
             F == FirstClients(pool.queue, Admissible(pool, limit))
         IN  /\ p \in PoolType(C, P)
             /\ p.maxConcurrent = limit
             /\ Queues(p, W \ F)
             /\ F \subseteq W /\ IsFiniteSet(F)
             /\ p.running = pool.running + Cardinality(F)
             /\ pool.running <= limit => p.running <= limit
<1>1. Admissible(pool, limit) \in 0..Len(pool.queue)
  BY AdmissibleInRange
<1>2. PICK F : F = FirstClients(pool.queue, Admissible(pool, limit))
  OBVIOUS
<1>3. F \subseteq W /\ IsFiniteSet(F)
      /\ Cardinality(F) = Admissible(pool, limit)
  BY <1>1, <1>2, FirstOfQueue
<1>4. Resized(pool, limit) \in PoolType(C, P)
  BY ResizedType
<1>5. /\ Clients(Resized(pool, limit).queue) = Clients(pool.queue) \ F
      /\ NoDuplicates(Resized(pool, limit).queue)
  BY <1>2, ResizedClients DEF Queues
<1>6. /\ Resized(pool, limit).running = pool.running + Admissible(pool, limit)
      /\ Resized(pool, limit).maxConcurrent = limit
  BY ResizedClients DEF Queues
<1>7. pool.running <= limit => pool.running + Admissible(pool, limit) <= limit
  <2>1. pool.running \in Nat /\ Len(pool.queue) \in Nat
    BY LenProperties DEF PoolType
  <2> QED  BY <2>1 DEF Admissible
<1>8. Queues(Resized(pool, limit), W \ F)
  BY <1>5 DEF Queues
<1> QED  BY <1>2, <1>3, <1>4, <1>6, <1>7, <1>8

\* A queue timeout, seen from the callers.
LEMMA RemoveQueues ==
  ASSUME NEW C, NEW P, NEW pool \in PoolType(C, P), NEW W, Queues(pool, W),
         NEW c
  PROVE  LET p == RemovedFromQueue(pool, c)
         IN  /\ p \in PoolType(C, P)
             /\ p.maxConcurrent = pool.maxConcurrent
             /\ p.running = pool.running
             /\ Queues(p, W \ {c})
<1>1. RemovedFromQueue(pool, c) \in PoolType(C, P)
  BY RemovedType
<1>2. /\ Clients(RemovedFromQueue(pool, c).queue) = Clients(pool.queue) \ {c}
      /\ NoDuplicates(RemovedFromQueue(pool, c).queue)
  BY RemovedClients DEF Queues
<1>3. /\ RemovedFromQueue(pool, c).running = pool.running
      /\ RemovedFromQueue(pool, c).maxConcurrent = pool.maxConcurrent
  BY DEF RemovedFromQueue, PoolType
<1> QED  BY <1>1, <1>2, <1>3 DEF Queues

\* Nobody waits for a new pool.
LEMMA NewPoolQueues ==
  ASSUME NEW limit  PROVE Queues(NewPool(limit), {})
BY DEF Queues, NewPool, Clients, NoDuplicates
=============================================================================
