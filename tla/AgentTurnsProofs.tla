--------------------------- MODULE AgentTurnsProofs ---------------------------
(***************************************************************************)
(* Theorems about AgentTurns, for any conversations, messages and limits:  *)
(* a session runs one turn at a time, the runner's flag tells whether an   *)
(* agent is in a turn, messages wait only where a call will look, and each *)
(* is in one place; the pool's records agree and it grows only when it     *)
(* must.                                                                   *)
(*                                                                         *)
(* What the pool evicts, and in which order, does not matter to turns and  *)
(* messages: their proofs use that it evicts idle agents.  The last two    *)
(* sections are about the access order, the limit and the evictions.       *)
(***************************************************************************)
EXTENDS AgentTurns, FunctionTheorems, FiniteSetTheorems, SequenceTheorems,
        WellFoundedInduction, TLAPS

QueueType == [items : Seq(Message), paused : BOOLEAN]

\* The variables the proofs are about, with their types.
Types ==
  /\ pool \in [Conversation -> Agent \cup {None}]
  /\ session \in [Agent -> Sessions]
  /\ running \subseteq Agent
  /\ queue \in [Agent -> QueueType]
  /\ busy \subseteq Sessions
  /\ at \in [Message -> Stages]
  /\ agent \in [Message -> Agent \cup {None}]
  /\ work \in [Message -> Message]
  /\ on \in [Message -> Sessions]
  /\ fate \in [Message -> Fates]

\* A call that is under way holds an agent; a message not sent has no call.
CallsHold ==
  \A m \in Message :
    /\ at[m] # "none" => agent[m] \in Agent
    /\ fate[m] = "unsent" => at[m] = "none"

\* No two conversations share an agent.
PoolInjective == \A c, d \in Pooled : pool[c] = pool[d] => c = d

-----------------------------------------------------------------------------
(***************************************************************************)
(* The operations of a queue and of the pool.                              *)
(***************************************************************************)

\* The operations of a queue keep its type.
LEMMA QueueTypes ==
  ASSUME NEW q \in QueueType
  PROVE  /\ \A m \in Message : Enqueued(q, m) \in QueueType
         /\ \A i \in DOMAIN q.items :
              /\ q.items[i] \in Message
              /\ Taken(q, i) \in Seq(Message)
              /\ Removed(q, i) \in QueueType
              /\ Promoted(q, i) \in QueueType
              /\ Released(q, i) \in QueueType
         /\ Cleared(Paused(q)) = EmptyQueue
<1>0. q.items \in Seq(Message) /\ q.paused \in BOOLEAN /\ q = [items |-> q.items, paused |-> q.paused]
  BY DEF QueueType
<1>1. ASSUME NEW m \in Message  PROVE Enqueued(q, m) \in QueueType
  <2>1. Append(q.items, m) \in Seq(Message)
    BY <1>0, AppendProperties
  <2> QED  BY <2>1 DEF Enqueued, QueueType
<1>2. ASSUME NEW i \in DOMAIN q.items
      PROVE  /\ q.items[i] \in Message /\ Taken(q, i) \in Seq(Message)
             /\ Removed(q, i) \in QueueType
             /\ Promoted(q, i) \in QueueType
             /\ Released(q, i) \in QueueType
  <2>1. i \in 1..Len(q.items) /\ Len(q.items) \in Nat
    BY <1>0, <1>2, LenProperties
  <2>2. q.items[i] \in Message
    BY <1>0, <2>1, ElementOfSeq
  <2>3. Taken(q, i) \in Seq(Message)
    <3>0. \A k \in 1..Len(q.items) : q.items[k] \in Message
      BY <1>0, ElementOfSeq
    <3>1. SubSeq(q.items, 1, i - 1) \in Seq(Message)
      BY <1>0, <2>1, <3>0, SubSeqProperties
    <3>2. SubSeq(q.items, i + 1, Len(q.items)) \in Seq(Message)
      BY <1>0, <2>1, <3>0, SubSeqProperties
    <3>3. SubSeq(q.items, 1, i - 1) \o SubSeq(q.items, i + 1, Len(q.items)) \in Seq(Message)
      BY <3>1, <3>2, ConcatProperties
    <3> QED  BY <3>3 DEF Taken, RemoveAt
  <2>4. <<q.items[i]>> \o Taken(q, i) \in Seq(Message)
    <3>1. <<q.items[i]>> \in Seq(Message)
      BY <2>2
    <3> QED  BY <2>3, <3>1, ConcatProperties
  <2>5. Removed(q, i) \in QueueType
    BY <1>0, <2>3 DEF Removed, QueueType
  <2>6. Promoted(q, i) \in QueueType
    BY <2>4 DEF Promoted, QueueType
  <2>7. Released(q, i) \in QueueType
    BY <2>3 DEF Released, Taken, QueueType
  <2> QED  BY <2>2, <2>3, <2>5, <2>6, <2>7
<1>3. Cleared(Paused(q)) = EmptyQueue
  BY DEF Cleared
<1> QED  BY <1>1, <1>2, <1>3

\* An empty queue has the type.
LEMMA EmptyQueueType == EmptyQueue \in QueueType /\ EmptyQueue.items = <<>> /\ ~EmptyQueue.paused
<1>1. <<>> \in Seq(Message)
  OBVIOUS
<1> QED  BY <1>1 DEF EmptyQueue, QueueType

\* A queue that holds something and is not paused has a next item.
LEMMA SomethingIsNext ==
  ASSUME NEW q \in QueueType, ~q.paused, q.items # <<>>
  PROVE  \E i \in DOMAIN q.items : IsNext(q, i)
<1>0. q.items \in Seq(Message) /\ Len(q.items) \in Nat /\ DOMAIN q.items = 1..Len(q.items)
      /\ Len(q.items) # 0
  BY LenProperties, EmptySeq DEF QueueType
<1>1. CASE Waiting(q) \cap Continuations = {}
  BY <1>0, <1>1 DEF IsNext
<1>2. CASE Waiting(q) \cap Continuations # {}
  <2> DEFINE S == {i \in 1..Len(q.items) : q.items[i] \in Continuations}
             R == OpToRel(<, Nat)
  <2>1. S # {} /\ S \subseteq Nat
    BY <1>0, <1>2 DEF Waiting, ToSet
  <2> HIDE DEF R
  <2>2. IsWellFoundedOn(R, Nat)
    BY NatLessThanWellFounded DEF R
  <2>3. PICK i \in S : \A j \in S : ~(<<j, i>> \in R)
    <3> HIDE DEF S
    <3> QED  BY <2>1, <2>2, WFMin
  <2>4. \A j \in S : ~(j < i)
    BY <2>1, <2>3 DEF R, OpToRel
  <2>5. i \in 1..Len(q.items) /\ q.items[i] \in Continuations
    BY <2>3
  <2>6. \A j \in 1 .. i - 1 : q.items[j] \notin Continuations
    BY <1>0, <2>4, <2>5
  <2> QED  BY <1>0, <1>2, <2>5, <2>6 DEF IsNext
<1> QED  BY <1>1, <1>2

\* What getOrCreateContext does: the agents it starts afresh are the new one,
\* which nobody holds, and idle ones that leave the pool.
LEMMA GetOrCreateEffect ==
  ASSUME Types, PoolInjective, NEW c \in Conversation, GetOrCreate(c)
  PROVE  /\ Wiped(c) \subseteq Agent
         /\ Target(c) \in Agent
         /\ pool' \in [Conversation -> Agent \cup {None}]
         /\ pool'[c] = Target(c)
         /\ \A d \in Conversation :
              pool'[d] # None /\ pool'[d] \notin Wiped(c) => pool'[d] = pool[d]
         /\ \A d \in Conversation :
              pool'[d] \in Wiped(c) => d = c /\ pool[c] = None /\ pool'[d] \notin InUse
         /\ \A d \in Conversation :
              pool[d] \in running => pool'[d] = pool[d] /\ pool[d] \notin Wiped(c)
         /\ \A d, e \in Conversation : pool'[d] = pool'[e] /\ pool'[d] # None => d = e
<1>0. /\ pool \in [Conversation -> Agent \cup {None}]
      /\ None \notin Agent
  BY NamesAssumption DEF Types
<1>1. CASE pool[c] # None
  <2>1. pool' = pool
    BY <1>1 DEF GetOrCreate
  <2>2. Wiped(c) = {} /\ Target(c) = pool[c]
    BY <1>1 DEF Wiped, Target
  <2> QED  BY <1>0, <1>1, <2>1, <2>2 DEF PoolInjective, Pooled
<1>2. CASE pool[c] = None
  <2> DEFINE E == Evicted
             F == Fresh
  <2>1. /\ Agent \ InUse # {}
        /\ pool' = [PoolWithout(E) EXCEPT ![c] = F]
    BY <1>2 DEF GetOrCreate
  <2>2. F \in Agent /\ F \notin InUse
    BY <2>1 DEF Fresh
  <2>3. /\ Wiped(c) = {pool[d] : d \in E} \cup {F}
        /\ Target(c) = F
    BY <1>2 DEF Wiped, Target
  <2>4. E \subseteq Conversation /\ \A d \in E : pool[d] # None /\ pool[d] \notin running
    BY DEF Evicted, Idle, Pooled
  <2> HIDE DEF E, F
  <2>5. \A d \in Conversation :
          pool'[d] = IF d = c THEN F ELSE IF d \in E THEN None ELSE pool[d]
    BY <1>0, <2>1 DEF PoolWithout
  <2>6. pool' \in [Conversation -> Agent \cup {None}]
    BY <1>0, <2>1, <2>2 DEF PoolWithout
  <2>7. \A d \in Conversation : pool[d] \in InUse
    BY DEF InUse
  <2>8. \A d \in Conversation, e \in E :
          d \notin E => pool[d] # pool[e]
    BY <1>0, <2>4 DEF PoolInjective, Pooled
  <2>9. Wiped(c) \subseteq Agent /\ Target(c) \in Agent /\ pool'[c] = Target(c)
    BY <1>0, <2>2, <2>3, <2>4, <2>5
  <2>10. \A d \in Conversation :
           pool'[d] # None /\ pool'[d] \notin Wiped(c) => pool'[d] = pool[d]
    BY <2>3, <2>5
  <2>11. \A d \in Conversation :
           pool'[d] \in Wiped(c) => d = c /\ pool[c] = None /\ pool'[d] \notin InUse
    BY <1>0, <1>2, <2>2, <2>3, <2>5, <2>7, <2>8, <2>9
  <2>12. \A d \in Conversation :
           pool[d] \in running => pool'[d] = pool[d] /\ pool[d] \notin Wiped(c)
    <3> SUFFICES ASSUME NEW d \in Conversation, pool[d] \in running
                 PROVE  pool'[d] = pool[d] /\ pool[d] \notin Wiped(c)
      OBVIOUS
    <3>1. d # c
      BY <1>0, <1>2 DEF Types
    <3>2. \A e \in E : pool[e] # pool[d]
      BY <2>4
    <3>3. d \notin E /\ pool[d] # F
      BY <2>2, <2>7, <3>2
    <3> QED  BY <2>3, <2>5, <3>1, <3>2, <3>3
  <2>13. \A d, e \in Conversation : pool'[d] = pool'[e] /\ pool'[d] # None => d = e
    BY <1>0, <2>2, <2>5, <2>7 DEF PoolInjective, Pooled
  <2> QED  BY <2>6, <2>9, <2>10, <2>11, <2>12, <2>13
<1> QED  BY <1>1, <1>2

\* Disposing agents empties their queues and takes their sessions.
LEMMA DisposedEffect ==
  ASSUME Types, NEW D, Disposed(D)
  PROVE  /\ session' \in [Agent -> Sessions]
         /\ queue' \in [Agent -> QueueType]
         /\ \A a \in Agent :
              /\ session'[a] = IF a \in D THEN None ELSE session[a]
              /\ queue'[a] = IF a \in D THEN EmptyQueue ELSE queue[a]
<1>1. session' \in [Agent -> Sessions]
  BY DEF Disposed, Types, Sessions
<1>2. queue' \in [Agent -> QueueType]
  BY EmptyQueueType DEF Disposed, Types
<1> QED  BY <1>1, <1>2 DEF Disposed

\* A disposed agent's messages are over.
LEMMA FateWithoutType ==
  ASSUME Types, NEW D
  PROVE  /\ FateWithout(D) \in [Message -> Fates]
         /\ \A m \in Message : FateWithout(D)[m] = "unsent" => fate[m] = "unsent"
BY DEF FateWithout, Fates, Types

-----------------------------------------------------------------------------
(***************************************************************************)
(* Types, and what a call holds.                                           *)
(***************************************************************************)

\* The state the other invariants build on.
Held == Types /\ CallsHold /\ PoolInjective

\* A new process has no agents and no calls.
LEMMA HeldInit == Init => Held
<1> SUFFICES ASSUME Init  PROVE Held
  OBVIOUS
<1>1. Types
  BY EmptyQueueType DEF Init, Types, Sessions, Stages, Fates
<1> QED  BY <1>1 DEF Init, Held, CallsHold, PoolInjective, Pooled

\* Every step keeps the types, the calls' agents and the pool's bijection.
LEMMA HeldStep == Held /\ [Next]_vars => Held'
<1> SUFFICES ASSUME Held, [Next]_vars  PROVE Held'
  OBVIOUS
<1>0. Types /\ CallsHold /\ PoolInjective
  BY DEF Held
<1>s. /\ {"none", "configuring", "creating", "preparing", "executing", "leaving", "between"} \subseteq Stages
      /\ {"unsent", "held", "queued", "over"} \subseteq Fates
      /\ Message \subseteq Sessions /\ None \in Sessions
  BY DEF Stages, Fates, Sessions
<1>n. None \notin Agent /\ \A m \in Message : ConversationOf[m] \in Conversation
  BY NamesAssumption
<1>p. ASSUME UNCHANGED pool  PROVE PoolInjective'
  BY <1>0, <1>p DEF PoolInjective, Pooled
<1>c. ASSUME UNCHANGED <<at, agent>>,
             \A m \in Message : fate'[m] = "unsent" => fate[m] = "unsent"
      PROVE  CallsHold'
  BY <1>0, <1>c DEF CallsHold
<1>g. ASSUME NEW c \in Conversation, GetOrCreate(c)
      PROVE  /\ pool' \in [Conversation -> Agent \cup {None}]
             /\ session' \in [Agent -> Sessions]
             /\ queue' \in [Agent -> QueueType]
             /\ PoolInjective' /\ Target(c) \in Agent
  <2>1. Disposed(Wiped(c))
    BY <1>g DEF GetOrCreate
  <2>2. session' \in [Agent -> Sessions] /\ queue' \in [Agent -> QueueType]
    BY <1>0, <2>1, DisposedEffect
  <2>3. \A d, e \in Conversation : pool'[d] = pool'[e] /\ pool'[d] # None => d = e
    BY <1>0, <1>g, GetOrCreateEffect
  <2>4. PoolInjective'
    BY <2>3 DEF PoolInjective, Pooled
  <2>5. /\ pool' \in [Conversation -> Agent \cup {None}]
        /\ Target(c) \in Agent
    BY <1>0, <1>g, GetOrCreateEffect
  <2> QED  BY <2>2, <2>4, <2>5
<1>w. \A c : BusyWithout(Wiped(c)) \subseteq Sessions /\ running \ Wiped(c) \subseteq Agent
  BY <1>0 DEF BusyWithout, Types
<1>q. ASSUME NEW a \in Agent, NEW q \in QueueType, queue' = [queue EXCEPT ![a] = q]
      PROVE  queue' \in [Agent -> QueueType]
  BY <1>0, <1>q DEF Types
<1>1. ASSUME NEW m \in Message, Reject(m)  PROVE Held'
  <2> DEFINE c == ConversationOf[m]
  <2>1. /\ GetOrCreate(c) /\ c \in Conversation
        /\ UNCHANGED callVars
        /\ running' = running \ Wiped(c) /\ busy' = BusyWithout(Wiped(c))
        /\ fate' = [FateWithout(Wiped(c)) EXCEPT ![m] = "over"]
    BY <1>1, <1>n DEF Reject
  <2> HIDE DEF c
  <2>2. fate' \in [Message -> Fates] /\ \A n \in Message : fate'[n] = "unsent" => fate[n] = "unsent"
    BY <1>0, <1>s, <2>1, FateWithoutType
  <2> QED  BY <1>0, <1>c, <1>g, <1>w, <2>1, <2>2 DEF Held, Types, callVars
<1>2. ASSUME NEW m \in Message, Enqueue(m)  PROVE Held'
  <2> DEFINE a == pool[ConversationOf[m]]
  <2>1. a \in Agent
    BY <1>0, <1>2, <1>n DEF Enqueue, Types
  <2>2. queue' = [queue EXCEPT ![a] = Enqueued(queue[a], m)] /\ queue[a] \in QueueType
    BY <1>0, <1>2, <2>1 DEF Enqueue, Types
  <2> HIDE DEF a
  <2>3. queue' \in [Agent -> QueueType]
    BY <1>q, <2>1, <2>2, QueueTypes
  <2> QED  BY <1>0, <1>2, <1>c, <1>p, <1>s, <2>3 DEF Enqueue, Held, Types, callVars
<1>3. ASSUME NEW m \in Message, Send(m)  PROVE Held'
  <2> DEFINE c == ConversationOf[m]
  <2>1. /\ GetOrCreate(c) /\ c \in Conversation
        /\ UNCHANGED <<work, on>>
        /\ running' = running \ Wiped(c) /\ busy' = BusyWithout(Wiped(c))
        /\ fate' = [FateWithout(Wiped(c)) EXCEPT ![m] = "held"]
        /\ agent' = [agent EXCEPT ![m] = Target(c)]
        /\ at' = [at EXCEPT ![m] = "configuring"]
    BY <1>3, <1>n DEF Send
  <2> HIDE DEF c
  <2>2. /\ fate' \in [Message -> Fates] /\ fate'[m] = "held"
        /\ \A n \in Message : fate'[n] = "unsent" => fate[n] = "unsent" /\ n # m
    BY <1>0, <1>s, <2>1, FateWithoutType
  <2>3. Target(c) \in Agent
    BY <1>g, <2>1
  <2>4. CallsHold'
    BY <1>0, <2>1, <2>2, <2>3 DEF CallsHold, Types
  <2> QED  BY <1>0, <1>g, <1>s, <1>w, <2>1, <2>2, <2>3, <2>4 DEF Held, Types
<1>4a. ASSUME NEW m \in Message, Configured(m)  PROVE Held'
  BY <1>0, <1>4a, <1>p, <1>s DEF Configured, Held, Types, CallsHold, poolVars
<1>4. ASSUME NEW m \in Message, SessionReady(m)  PROVE Held'
  BY <1>0, <1>4, <1>p, <1>s DEF SessionReady, Held, Types, CallsHold, poolVars
<1>5. ASSUME NEW m \in Message, Begin(m)  PROVE Held'
  <2> DEFINE c == ConversationOf[m]
  <2>0. agent[m] \in Agent /\ session[agent[m]] \in Sessions
    BY <1>0, <1>5 DEF Begin, CallsHold, Types
  <2>1. /\ GetOrCreate(c) /\ c \in Conversation /\ at[m] = "preparing"
        /\ UNCHANGED <<agent, work>>
        /\ \E s \in {"between", "leaving", "executing"} : at' = [at EXCEPT ![m] = s]
        /\ on' = on \/ on' = [on EXCEPT ![m] = session[agent[m]]]
        /\ \/ fate' = FateWithout(Wiped(c))
           \/ fate' = [FateWithout(Wiped(c)) EXCEPT ![work[m]] = "over"]
        /\ running' \subseteq (running \ Wiped(c)) \cup {agent[m]}
        /\ busy' \subseteq BusyWithout(Wiped(c)) \cup {session[agent[m]]}
    BY <1>5, <1>n DEF Begin
  <2> HIDE DEF c
  <2>2. /\ fate' \in [Message -> Fates]
        /\ \A n \in Message : fate'[n] = "unsent" => fate[n] = "unsent"
    BY <1>0, <1>s, <2>1, FateWithoutType DEF Types
  <2>3. CallsHold'
    BY <1>0, <2>1, <2>2 DEF CallsHold, Types
  <2>4. running' \subseteq Agent /\ busy' \subseteq Sessions
    BY <1>w, <2>0, <2>1
  <2>5. /\ at' \in [Message -> Stages] /\ on' \in [Message -> Sessions]
        /\ agent' \in [Message -> Agent \cup {None}] /\ work' \in [Message -> Message]
    BY <1>0, <1>s, <2>0, <2>1 DEF Types
  <2>6. /\ pool' \in [Conversation -> Agent \cup {None}]
        /\ session' \in [Agent -> Sessions]
        /\ queue' \in [Agent -> QueueType]
        /\ PoolInjective'
    BY <1>g, <2>1
  <2> QED  BY <2>2, <2>3, <2>4, <2>5, <2>6 DEF Held, Types
<1>6. ASSUME NEW m \in Message, SessionEnds(m)  PROVE Held'
  BY <1>0, <1>6, <1>p, <1>s DEF SessionEnds, Held, Types, CallsHold, poolVars
<1>7. ASSUME NEW m \in Message, RunnerEnds(m)  PROVE Held'
  BY <1>0, <1>7, <1>p, <1>s DEF RunnerEnds, Held, Types, CallsHold, poolVars
<1>8. ASSUME NEW m \in Message, NextMessage(m)  PROVE Held'
  <2>0. agent[m] \in Agent /\ queue[agent[m]] \in QueueType
    BY <1>0, <1>8 DEF NextMessage, CallsHold, Types
  <2>1. CASE /\ at' = [at EXCEPT ![m] = "none"]
             /\ agent' = [agent EXCEPT ![m] = None]
             /\ work' = [work EXCEPT ![m] = m]
             /\ UNCHANGED <<queue, fate>>
    <3>1. UNCHANGED <<poolVars, session, running, busy, on>>
      BY <1>8 DEF NextMessage
    <3>2. CallsHold'
      BY <1>0, <2>1 DEF CallsHold, Types
    <3> QED  BY <1>0, <1>p, <1>s, <2>1, <3>1, <3>2 DEF Held, Types, poolVars
  <2>2. CASE \E i \in DOMAIN queue[agent[m]].items :
               /\ work' = [work EXCEPT ![m] = queue[agent[m]].items[i]]
               /\ queue' = [queue EXCEPT ![agent[m]] = Released(queue[agent[m]], i)]
               /\ fate' = [fate EXCEPT ![queue[agent[m]].items[i]] = "held"]
               /\ at' = [at EXCEPT ![m] = "preparing"]
               /\ UNCHANGED agent
    <3>1. PICK i \in DOMAIN queue[agent[m]].items :
            /\ work' = [work EXCEPT ![m] = queue[agent[m]].items[i]]
            /\ queue' = [queue EXCEPT ![agent[m]] = Released(queue[agent[m]], i)]
            /\ fate' = [fate EXCEPT ![queue[agent[m]].items[i]] = "held"]
            /\ at' = [at EXCEPT ![m] = "preparing"]
            /\ UNCHANGED agent
      BY <2>2
    <3>2. /\ queue[agent[m]].items[i] \in Message
          /\ Released(queue[agent[m]], i) \in QueueType
      BY <2>0, QueueTypes
    <3>3. queue' \in [Agent -> QueueType]
      BY <1>q, <2>0, <3>1, <3>2
    <3>4. UNCHANGED <<poolVars, session, running, busy, on>> /\ at[m] = "between"
      BY <1>8 DEF NextMessage
    <3> QED  BY <1>0, <1>p, <1>s, <3>1, <3>2, <3>3, <3>4 DEF Held, Types, CallsHold, poolVars
  <2> QED  BY <1>8, <2>1, <2>2 DEF NextMessage
<1>9. ASSUME NEW m \in Message, Fail(m)  PROVE Held'
  <2>1. fate' \in [Message -> Fates] /\ \A n \in Message : fate'[n] = "unsent" => fate[n] = "unsent"
    BY <1>0, <1>9, <1>s DEF Fail, Types
  <2>2. /\ at' = [at EXCEPT ![m] = "none"] /\ agent' = [agent EXCEPT ![m] = None]
        /\ work' = [work EXCEPT ![m] = m] /\ on' = [on EXCEPT ![m] = None]
        /\ busy' \subseteq busy /\ running' \subseteq running
        /\ UNCHANGED <<pool, session, queue>>
    BY <1>9 DEF Fail, poolVars
  <2>3. CallsHold'
    BY <1>0, <2>1, <2>2 DEF CallsHold, Types
  <2> QED  BY <1>0, <1>p, <1>s, <2>1, <2>2, <2>3 DEF Held, Types
<1>10. ASSUME NEW c \in Conversation, Open(c)  PROVE Held'
  <2>1. fate' \in [Message -> Fates] /\ \A n \in Message : fate'[n] = "unsent" => fate[n] = "unsent"
    BY <1>0, <1>10, FateWithoutType DEF Open
  <2>2. /\ GetOrCreate(c) /\ UNCHANGED callVars
        /\ running' = running \ Wiped(c) /\ busy' = BusyWithout(Wiped(c))
    BY <1>10 DEF Open
  <2> QED  BY <1>0, <1>c, <1>g, <1>w, <2>1, <2>2 DEF Held, Types, callVars
<1>11. ASSUME NEW c \in Conversation, ClearPending(c) \/ Promote(c) \/ RemoveItem(c)
       PROVE  Held'
  <2> DEFINE a == pool[c]
  <2>1. a \in Agent /\ queue[a] \in QueueType
    BY <1>0, <1>11 DEF ClearPending, Promote, RemoveItem, Types
  <2>2. queue' \in [Agent -> QueueType]
    <3>1. CASE ClearPending(c)
      <4>1. queue' = [queue EXCEPT ![a] = Cleared(Paused(queue[a]))]
        BY <3>1 DEF ClearPending
      <4> QED  BY <1>q, <2>1, <4>1, QueueTypes, EmptyQueueType
    <3>2. CASE Promote(c)
      <4>1. PICK i \in DOMAIN queue[a].items : queue' = [queue EXCEPT ![a] = Promoted(queue[a], i)]
        BY <3>2 DEF Promote
      <4> QED  BY <1>q, <2>1, <4>1, QueueTypes
    <3>3. CASE RemoveItem(c)
      <4>1. PICK i \in DOMAIN queue[a].items : queue' = [queue EXCEPT ![a] = Removed(queue[a], i)]
        BY <3>3 DEF RemoveItem
      <4> QED  BY <1>q, <2>1, <4>1, QueueTypes
    <3> QED  BY <1>11, <3>1, <3>2, <3>3
  <2>3. /\ fate' \in [Message -> Fates]
        /\ \A n \in Message : fate'[n] = "unsent" => fate[n] = "unsent"
    BY <1>0, <1>11, <1>s DEF ClearPending, Promote, RemoveItem, Types
  <2>4. UNCHANGED <<pool, session, running, busy, callVars>>
    BY <1>11 DEF ClearPending, Promote, RemoveItem
  <2> QED  BY <1>0, <1>c, <1>p, <2>2, <2>3, <2>4 DEF Held, Types, callVars
<1>12. ASSUME NEW c \in Conversation, RemoveConversation(c)  PROVE Held'
  <2>1. /\ pool' = PoolWithout({c}) /\ Disposed({pool[c]})
        /\ running' = running \ {pool[c]} /\ busy' = BusyWithout({pool[c]})
        /\ fate' = FateWithout({pool[c]}) /\ UNCHANGED callVars
    BY <1>12 DEF RemoveConversation
  <2>2. session' \in [Agent -> Sessions] /\ queue' \in [Agent -> QueueType]
    BY <1>0, <2>1, DisposedEffect
  <2>3. /\ fate' \in [Message -> Fates]
        /\ \A n \in Message : fate'[n] = "unsent" => fate[n] = "unsent"
    BY <1>0, <2>1, FateWithoutType
  <2>4. pool' \in [Conversation -> Agent \cup {None}] /\ PoolInjective'
    BY <1>0, <2>1 DEF PoolWithout, PoolInjective, Pooled, Types
  <2>5. running' \subseteq Agent /\ busy' \subseteq Sessions
    BY <1>0, <2>1 DEF BusyWithout, Types
  <2> QED  BY <1>0, <1>c, <2>1, <2>2, <2>3, <2>4, <2>5 DEF Held, Types, callVars
<1>13. CASE UNCHANGED vars
  BY <1>0, <1>13, <1>p, <1>c DEF Held, Types, vars, poolVars, agentVars, callVars
<1> QED  BY <1>1, <1>2, <1>3, <1>4a, <1>4, <1>5, <1>6, <1>7, <1>8, <1>9, <1>10, <1>11,
            <1>12, <1>13 DEF Next, Arrive, Proceed, Command

-----------------------------------------------------------------------------
(***************************************************************************)
(* One turn at a time in a session.  The session of a turn is marked busy, *)
(* or no runner has it any longer, so that no other call can enter it.     *)
(***************************************************************************)

Guarded ==
  \A m \in Message : at[m] = "executing" =>
    /\ on[m] # None
    /\ on[m] \in busy \/ \A a \in Agent : session[a] # on[m]

\* A session that is still to be created is nobody's.
NewSessionsUnused ==
  \A m \in Message : fate[m] = "unsent" \/ at[m] \in {"configuring", "creating"} =>
    /\ \A a \in Agent : session[a] # m
    /\ \A n \in Message : at[n] = "executing" => on[n] # m

\* No two runners share a session.
SessionsApart ==
  \A a, b \in Agent : session[a] = session[b] /\ session[a] # None => a = b

SessionInv == Guarded /\ NewSessionsUnused /\ SessionsApart /\ OneTurnPerSession

\* A new process has no sessions.
LEMMA SessionInvInit == Init => SessionInv
BY NamesAssumption
   DEF Init, SessionInv, Guarded, NewSessionsUnused, SessionsApart, OneTurnPerSession

\* Disposing agents frees only sessions that no runner has afterwards.
LEMMA GuardedAfterDispose ==
  ASSUME Held, SessionInv, NEW D \in SUBSET Agent, Disposed(D),
         BusyWithout(D) \subseteq busy'
  PROVE  /\ \A m \in Message : at[m] = "executing" =>
              on[m] \in busy' \/ \A a \in Agent : session'[a] # on[m]
         /\ SessionsApart'
         /\ \A a \in Agent : session'[a] \in {None, session[a]}
<1>1. \A a \in Agent : session'[a] = IF a \in D THEN None ELSE session[a]
  BY DisposedEffect DEF Held
<1>2. \A a, b \in Agent : session[a] = session[b] /\ session[a] # None => a = b
  BY DEF SessionInv, SessionsApart
<1>3. SessionsApart'
  BY <1>1, <1>2 DEF SessionsApart
<1>4. ASSUME NEW m \in Message, at[m] = "executing", on[m] \notin busy',
             NEW a \in Agent, session'[a] = on[m]
      PROVE  FALSE
  <2>1. on[m] # None /\ (on[m] \in busy \/ session[a] # on[m])
    BY <1>4 DEF SessionInv, Guarded
  <2>2. a \notin D /\ session[a] = on[m] /\ on[m] \in busy
    BY <1>1, <1>4, <2>1
  <2>3. PICK b \in D : session[b] = on[m]
    BY <1>4, <2>2 DEF BusyWithout
  <2>4. b \in Agent
    OBVIOUS
  <2> QED  BY <1>2, <2>1, <2>2, <2>3, <2>4
<1> QED  BY <1>1, <1>3, <1>4

\* Every step keeps the guard of every session.
LEMMA SessionInvStep == Held /\ SessionInv /\ [Next]_vars => SessionInv'
<1> SUFFICES ASSUME Held, SessionInv, [Next]_vars  PROVE SessionInv'
  OBVIOUS
<1>0. /\ Types /\ CallsHold /\ PoolInjective
      /\ Guarded /\ NewSessionsUnused /\ SessionsApart /\ OneTurnPerSession
  BY DEF Held, SessionInv
<1>n. None \notin Message /\ \A m \in Message : ConversationOf[m] \in Conversation
  BY NamesAssumption
<1>d. ASSUME NEW D \in SUBSET Agent, Disposed(D), BusyWithout(D) \subseteq busy',
             UNCHANGED on,
             \A m \in Message : at'[m] = "executing" => at[m] = "executing",
             \A m \in Message : /\ fate'[m] = "unsent" => fate[m] = "unsent"
                                /\ at'[m] \in {"configuring", "creating"} => at[m] \in {"configuring", "creating"} \/ fate[m] = "unsent"
      PROVE  SessionInv'
  <2>1. Guarded' /\ SessionsApart'
    BY <1>0, <1>d, GuardedAfterDispose DEF Guarded
  <2>2. NewSessionsUnused'
    <3>1. \A a \in Agent : session'[a] \in {None, session[a]}
      BY <1>d, GuardedAfterDispose
    <3> SUFFICES ASSUME NEW n \in Message, fate'[n] = "unsent" \/ at'[n] \in {"configuring", "creating"}
                 PROVE  /\ \A a \in Agent : session'[a] # n
                        /\ \A k \in Message : at'[k] = "executing" => on'[k] # n
      BY DEF NewSessionsUnused
    <3>2. fate[n] = "unsent" \/ at[n] \in {"configuring", "creating"}
      BY <1>d
    <3>3. /\ \A a \in Agent : session[a] # n
          /\ \A k \in Message : at[k] = "executing" => on[k] # n
      BY <1>0, <3>2 DEF NewSessionsUnused
    <3> QED  BY <1>d, <1>n, <3>1, <3>3
  <2>3. OneTurnPerSession'
    BY <1>0, <1>d DEF OneTurnPerSession
  <2> QED  BY <2>1, <2>2, <2>3 DEF SessionInv
<1>u. ASSUME UNCHANGED <<session, on>>,
             \A m \in Message :
               /\ at'[m] = "executing" => at[m] = "executing" /\ (on[m] \in busy => on[m] \in busy')
               /\ fate'[m] = "unsent" => fate[m] = "unsent"
               /\ at'[m] \in {"configuring", "creating"} => at[m] \in {"configuring", "creating"}
      PROVE  SessionInv'
  BY <1>0, <1>u
     DEF SessionInv, Guarded, NewSessionsUnused, SessionsApart, OneTurnPerSession
<1>e. ASSUME NEW m \in Message, UNCHANGED session, on' = [on EXCEPT ![m] = None],
             NEW s, s \notin {"configuring", "creating", "executing"}, at' = [at EXCEPT ![m] = s],
             busy' = busy \ (IF at[m] = "executing" THEN {on[m]} ELSE {}),
             \A n \in Message : fate'[n] = "unsent" => fate[n] = "unsent"
      PROVE  SessionInv'
  <2>1. \A n \in Message : at'[n] = "executing" => n # m /\ at[n] = "executing" /\ on'[n] = on[n]
    BY <1>0, <1>e DEF Types
  <2>2. \A n \in Message : at'[n] \in {"configuring", "creating"} => at[n] \in {"configuring", "creating"}
    BY <1>0, <1>e DEF Types
  <2>3. \A n \in Message : at'[n] = "executing" /\ on[n] \in busy => on[n] \in busy'
    BY <1>0, <1>e, <2>1 DEF OneTurnPerSession
  <2>4. Guarded'
    BY <1>0, <1>e, <2>1, <2>3 DEF Guarded
  <2>5. NewSessionsUnused'
    BY <1>0, <1>e, <2>1, <2>2 DEF NewSessionsUnused
  <2>6. OneTurnPerSession'
    BY <1>0, <2>1 DEF OneTurnPerSession
  <2>7. SessionsApart'
    BY <1>0, <1>e DEF SessionsApart
  <2> QED  BY <2>4, <2>5, <2>6, <2>7 DEF SessionInv
<1>1. ASSUME NEW m \in Message, Reject(m)  PROVE SessionInv'
  <2> DEFINE c == ConversationOf[m]
             W == Wiped(c)
  <2>1. /\ GetOrCreate(c) /\ c \in Conversation /\ UNCHANGED callVars
        /\ busy' = BusyWithout(W) /\ fate' = [FateWithout(W) EXCEPT ![m] = "over"]
    BY <1>1, <1>n DEF Reject
  <2>2. W \in SUBSET Agent /\ Disposed(W)
    BY <1>0, <2>1, GetOrCreateEffect DEF GetOrCreate
  <2> HIDE DEF c, W
  <2>3. \A n \in Message : fate'[n] = "unsent" => fate[n] = "unsent"
    BY <1>0, <2>1, FateWithoutType
  <2> QED  BY <1>d, <2>1, <2>2, <2>3 DEF callVars
<1>2. ASSUME NEW m \in Message, Enqueue(m)  PROVE SessionInv'
  <2>1. \A n \in Message : fate'[n] = "unsent" => fate[n] = "unsent"
    BY <1>0, <1>2 DEF Enqueue, Types
  <2> QED  BY <1>2, <1>u, <2>1 DEF Enqueue, callVars
<1>3. ASSUME NEW m \in Message, Send(m)  PROVE SessionInv'
  <2> DEFINE c == ConversationOf[m]
             W == Wiped(c)
  <2>1. /\ GetOrCreate(c) /\ c \in Conversation /\ UNCHANGED <<work, on>>
        /\ busy' = BusyWithout(W) /\ fate' = [FateWithout(W) EXCEPT ![m] = "held"]
        /\ fate[m] = "unsent"
        /\ at' = [at EXCEPT ![m] = "configuring"]
    BY <1>3, <1>n DEF Send
  <2>2. W \in SUBSET Agent /\ Disposed(W)
    BY <1>0, <2>1, GetOrCreateEffect DEF GetOrCreate
  <2> HIDE DEF c, W
  <2>3. \A n \in Message :
          /\ fate'[n] = "unsent" => fate[n] = "unsent"
          /\ at'[n] \in {"configuring", "creating"} => at[n] \in {"configuring", "creating"} \/ fate[n] = "unsent"
    BY <1>0, <2>1, FateWithoutType DEF Types
  <2>4. \A n \in Message : at'[n] = "executing" => at[n] = "executing"
    BY <1>0, <2>1 DEF Types
  <2> QED  BY <1>d, <2>1, <2>2, <2>3, <2>4
<1>4a. ASSUME NEW m \in Message, Configured(m)  PROVE SessionInv'
  <2>1. \A n \in Message :
          /\ at'[n] = "executing" => at[n] = "executing"
          /\ at'[n] \in {"configuring", "creating"} => at[n] \in {"configuring", "creating"}
    BY <1>0, <1>4a DEF Configured, Types
  <2> QED  BY <1>4a, <1>u, <2>1 DEF Configured
<1>4. ASSUME NEW m \in Message, SessionReady(m)  PROVE SessionInv'
  <2>1. /\ at[m] = "creating" /\ agent[m] \in Agent
        /\ session' = [session EXCEPT ![agent[m]] = m]
        /\ at' = [at EXCEPT ![m] = "preparing"]
        /\ UNCHANGED <<busy, on, fate>>
    BY <1>0, <1>4 DEF SessionReady, CallsHold
  <2>2. \A n \in Message : /\ at'[n] = "executing" => at[n] = "executing"
                           /\ at'[n] \in {"configuring", "creating"} => at[n] \in {"configuring", "creating"} /\ n # m
                           /\ fate[n] = "unsent" => n # m
    BY <1>0, <2>1 DEF Types, CallsHold
  <2>3. \A a \in Agent : session'[a] = IF a = agent[m] THEN m ELSE session[a]
    BY <1>0, <2>1 DEF Types
  <2>4. Guarded'
    BY <1>0, <2>1, <2>2, <2>3 DEF Guarded, NewSessionsUnused
  <2>5. NewSessionsUnused'
    <3> SUFFICES ASSUME NEW n \in Message, fate'[n] = "unsent" \/ at'[n] \in {"configuring", "creating"}
                 PROVE  /\ \A a \in Agent : session'[a] # n
                        /\ \A k \in Message : at'[k] = "executing" => on'[k] # n
      BY DEF NewSessionsUnused
    <3>2. n # m /\ (fate[n] = "unsent" \/ at[n] \in {"configuring", "creating"})
      BY <2>1, <2>2
    <3>3. /\ \A a \in Agent : session[a] # n
          /\ \A k \in Message : at[k] = "executing" => on[k] # n
      BY <1>0, <3>2 DEF NewSessionsUnused
    <3> QED  BY <2>1, <2>2, <2>3, <3>2, <3>3
  <2>6. SessionsApart'
    BY <1>0, <2>1, <2>3 DEF SessionsApart, NewSessionsUnused
  <2>7. OneTurnPerSession'
    BY <1>0, <2>1, <2>2 DEF OneTurnPerSession
  <2> QED  BY <2>4, <2>5, <2>6, <2>7 DEF SessionInv
<1>5. ASSUME NEW m \in Message, Begin(m)  PROVE SessionInv'
  <2> DEFINE c == ConversationOf[m]
             W == Wiped(c)
             s == session[agent[m]]
  <2>1. /\ GetOrCreate(c) /\ c \in Conversation /\ at[m] = "preparing"
        /\ \/ fate' = FateWithout(W)
           \/ fate' = [FateWithout(W) EXCEPT ![work[m]] = "over"]
    BY <1>5, <1>n DEF Begin
  <2>2. W \in SUBSET Agent /\ Disposed(W)
    BY <1>0, <2>1, GetOrCreateEffect DEF GetOrCreate
  <2>3. \A n \in Message : fate'[n] = "unsent" => fate[n] = "unsent"
    <3> HIDE DEF W
    <3> QED  BY <1>0, <2>1, FateWithoutType DEF Types
  <2>4. CASE /\ UNCHANGED on /\ busy' = BusyWithout(W)
             /\ \E stage \in {"between", "leaving"} : at' = [at EXCEPT ![m] = stage]
    <3> HIDE DEF W
    <3>1. \A n \in Message : /\ at'[n] = "executing" => at[n] = "executing"
                             /\ at'[n] \in {"configuring", "creating"} => at[n] \in {"configuring", "creating"}
      BY <1>0, <2>4 DEF Types
    <3> QED  BY <1>d, <2>2, <2>3, <2>4, <3>1
  <2>5. CASE /\ s # None /\ s \notin busy
             /\ at' = [at EXCEPT ![m] = "executing"]
             /\ on' = [on EXCEPT ![m] = s]
             /\ busy' = BusyWithout(W) \cup {s}
    <3>0. agent[m] \in Agent
      BY <1>0, <2>1 DEF CallsHold
    <3>1. \A n \in Message : n # m =>
            /\ at'[n] = at[n] /\ on'[n] = on[n]
            /\ at[n] = "executing" => on[n] # s
      BY <1>0, <2>5, <3>0 DEF Types, Guarded
    <3>2. at'[m] = "executing" /\ on'[m] = s /\ s \in busy'
      BY <1>0, <2>5 DEF Types
    <3>3. /\ \A n \in Message : at[n] = "executing" =>
                on[n] \in busy' \/ \A a \in Agent : session'[a] # on[n]
          /\ SessionsApart'
          /\ \A a \in Agent : session'[a] \in {None, session[a]}
      <4> HIDE DEF W, s
      <4>1. BusyWithout(W) \subseteq busy'
        BY <2>5
      <4> QED  BY <2>2, <4>1, GuardedAfterDispose
    <3>4. Guarded'
      BY <1>0, <2>5, <3>1, <3>2, <3>3 DEF Guarded
    <3>5. NewSessionsUnused'
      <4> SUFFICES ASSUME NEW n \in Message, fate'[n] = "unsent" \/ at'[n] \in {"configuring", "creating"}
                   PROVE  /\ \A a \in Agent : session'[a] # n
                          /\ \A k \in Message : at'[k] = "executing" => on'[k] # n
        BY DEF NewSessionsUnused
      <4>1. n # m \/ fate[n] = "unsent"
        BY <2>3, <3>2
      <4>2. fate[n] = "unsent" \/ at[n] \in {"configuring", "creating"}
        BY <2>3, <3>1, <4>1
      <4>3. /\ \A a \in Agent : session[a] # n
            /\ \A k \in Message : at[k] = "executing" => on[k] # n
        BY <1>0, <4>2 DEF NewSessionsUnused
      <4> QED  BY <1>n, <3>0, <3>1, <3>2, <3>3, <4>3
    <3>6. OneTurnPerSession'
      BY <1>0, <3>1, <3>2 DEF OneTurnPerSession
    <3> QED  BY <3>3, <3>4, <3>5, <3>6 DEF SessionInv
  <2> QED  BY <1>5, <2>4, <2>5 DEF Begin, RunnerFree, SessionFree
<1>6. ASSUME NEW m \in Message, SessionEnds(m)  PROVE SessionInv'
  <2>1. /\ UNCHANGED session /\ on' = [on EXCEPT ![m] = None]
        /\ at[m] = "executing" /\ at' = [at EXCEPT ![m] = "leaving"]
        /\ busy' = busy \ {on[m]} /\ fate' = [fate EXCEPT ![work[m]] = "over"]
    BY <1>6 DEF SessionEnds
  <2>2. \A n \in Message : fate'[n] = "unsent" => fate[n] = "unsent"
    BY <1>0, <2>1 DEF Types
  <2> QED  BY <1>e, <2>1, <2>2
<1>7. ASSUME NEW m \in Message, RunnerEnds(m)  PROVE SessionInv'
  <2>1. \A n \in Message : /\ at'[n] = "executing" => at[n] = "executing"
                           /\ at'[n] \in {"configuring", "creating"} => at[n] \in {"configuring", "creating"}
    BY <1>0, <1>7 DEF RunnerEnds, Types
  <2> QED  BY <1>7, <1>u, <2>1 DEF RunnerEnds
<1>8. ASSUME NEW m \in Message, NextMessage(m)  PROVE SessionInv'
  <2>1. \A n \in Message : /\ at'[n] = "executing" => at[n] = "executing"
                           /\ at'[n] \in {"configuring", "creating"} => at[n] \in {"configuring", "creating"}
    BY <1>0, <1>8 DEF NextMessage, Types
  <2>2. \A n \in Message : fate'[n] = "unsent" => fate[n] = "unsent"
    BY <1>0, <1>8 DEF NextMessage, Types
  <2>3. UNCHANGED <<session, busy, on>>
    BY <1>8 DEF NextMessage
  <2> QED  BY <1>u, <2>1, <2>2, <2>3
<1>9. ASSUME NEW m \in Message, Fail(m)  PROVE SessionInv'
  <2>1. /\ UNCHANGED session /\ on' = [on EXCEPT ![m] = None]
        /\ at' = [at EXCEPT ![m] = "none"]
        /\ busy' = busy \ (IF at[m] = "executing" THEN {on[m]} ELSE {})
    BY <1>9 DEF Fail
  <2>2. \A n \in Message : fate'[n] = "unsent" => fate[n] = "unsent"
    BY <1>0, <1>9 DEF Fail, Types
  <2> QED  BY <1>e, <2>1, <2>2
<1>10. ASSUME NEW c \in Conversation, Open(c)  PROVE SessionInv'
  <2> DEFINE W == Wiped(c)
  <2>1. /\ GetOrCreate(c) /\ UNCHANGED callVars
        /\ busy' = BusyWithout(W) /\ fate' = FateWithout(W)
    BY <1>10 DEF Open
  <2>2. W \in SUBSET Agent /\ Disposed(W)
    BY <1>0, <2>1, GetOrCreateEffect DEF GetOrCreate
  <2> HIDE DEF W
  <2>3. \A n \in Message : fate'[n] = "unsent" => fate[n] = "unsent"
    BY <1>0, <2>1, FateWithoutType
  <2> QED  BY <1>d, <2>1, <2>2, <2>3 DEF callVars
<1>11. ASSUME NEW c \in Conversation, ClearPending(c) \/ Promote(c) \/ RemoveItem(c)
       PROVE  SessionInv'
  <2>1. \A n \in Message : fate'[n] = "unsent" => fate[n] = "unsent"
    BY <1>0, <1>11 DEF ClearPending, Promote, RemoveItem, Types
  <2>2. UNCHANGED <<session, busy, callVars>>
    BY <1>11 DEF ClearPending, Promote, RemoveItem
  <2> QED  BY <1>u, <2>1, <2>2 DEF callVars
<1>12. ASSUME NEW c \in Conversation, RemoveConversation(c)  PROVE SessionInv'
  <2> DEFINE W == {pool[c]}
  <2>1. /\ Disposed(W) /\ UNCHANGED callVars
        /\ busy' = BusyWithout(W) /\ fate' = FateWithout(W) /\ W \in SUBSET Agent
    BY <1>0, <1>12 DEF RemoveConversation, Types
  <2> HIDE DEF W
  <2>2. \A n \in Message : fate'[n] = "unsent" => fate[n] = "unsent"
    BY <1>0, <2>1, FateWithoutType
  <2> QED  BY <1>d, <2>1, <2>2 DEF callVars
<1>13. CASE UNCHANGED vars
  BY <1>13, <1>u DEF vars, agentVars, callVars
<1> QED  BY <1>1, <1>2, <1>3, <1>4a, <1>4, <1>5, <1>6, <1>7, <1>8, <1>9, <1>10, <1>11,
            <1>12, <1>13 DEF Next, Arrive, Proceed, Command

\* No session is ever run by two calls at once, whichever agents are disposed,
\* replaced or given another session meanwhile.
THEOREM SessionsRunOneTurn == Spec => []OneTurnPerSession
<1>1. Init => Held /\ SessionInv
  BY HeldInit, SessionInvInit
<1>2. Held /\ SessionInv /\ [Next]_vars => Held' /\ SessionInv'
  BY HeldStep, SessionInvStep
<1>3. SessionInv => OneTurnPerSession
  BY DEF SessionInv
<1> QED  BY <1>1, <1>2, <1>3, PTL DEF Spec

-----------------------------------------------------------------------------
(***************************************************************************)
(* The flag of a pooled agent's runner: set exactly while one call is in a *)
(* turn of that agent.                                                     *)
(***************************************************************************)

Turns(a) == {m \in InTurn : agent[m] = a}

FlagTells(a) ==
  \/ a \notin running /\ Turns(a) = {}
  \/ a \in running /\ \E m \in Message : Turns(a) = {m}

TurnInv == \A c \in Pooled : FlagTells(pool[c])

\* A new process has no turns.
LEMMA TurnInvInit == Init => TurnInv
BY DEF Init, TurnInv, Pooled

\* The invariant is what the property says with cardinalities.
LEMMA FlagTellsCounted == Held /\ TurnInv => RunnerFlagTells
<1> SUFFICES ASSUME Held, TurnInv, NEW c \in Pooled
             PROVE  Cardinality(Turns(pool[c])) = IF pool[c] \in running THEN 1 ELSE 0
  BY DEF RunnerFlagTells, Turns
<1>1. FlagTells(pool[c])
  BY DEF TurnInv
<1> QED  BY <1>1, FS_EmptySet, FS_Singleton DEF FlagTells

\* Looking a conversation up in the pool leaves the flags right.
LEMMA TurnInvAfterGetOrCreate ==
  ASSUME Held, TurnInv, NEW c \in Conversation, GetOrCreate(c),
         NEW d \in Conversation, pool'[d] # None
  PROVE  \/ pool'[d] \notin Wiped(c) /\ pool'[d] = pool[d] /\ FlagTells(pool[d])
         \/ /\ pool'[d] \in Wiped(c) /\ pool'[d] \notin InUse
            /\ Turns(pool'[d]) = {}
<1>1. pool'[d] \notin Wiped(c) => pool'[d] = pool[d]
  BY GetOrCreateEffect DEF Held
<1>2. pool'[d] \in Wiped(c) => pool'[d] \notin InUse
  BY GetOrCreateEffect DEF Held
<1>3. pool[d] # None => FlagTells(pool[d])
  BY DEF TurnInv, Pooled
<1>4. \A m \in InTurn : agent[m] \in InUse
  BY DEF InTurn, InUse, Active
<1>5. pool'[d] \notin InUse => Turns(pool'[d]) = {}
  BY <1>4 DEF Turns
<1> QED  BY <1>1, <1>2, <1>3, <1>5

\* Every step keeps the flags of the pooled agents right.
LEMMA TurnInvStep == Held /\ TurnInv /\ [Next]_vars => TurnInv'
<1> SUFFICES ASSUME Held, TurnInv, [Next]_vars  PROVE TurnInv'
  OBVIOUS
<1>0. Types /\ CallsHold /\ PoolInjective
  BY DEF Held
<1>n. None \notin Agent /\ \A m \in Message : ConversationOf[m] \in Conversation
  BY NamesAssumption
<1>g. ASSUME NEW c \in Conversation, GetOrCreate(c),
             running' = running \ Wiped(c),
             \A a : Turns(a)' = Turns(a)
      PROVE  TurnInv'
  <2> SUFFICES ASSUME NEW d \in Conversation, pool'[d] # None
               PROVE  FlagTells(pool[d])'
    BY DEF TurnInv, Pooled
  <2>1. CASE pool'[d] \notin Wiped(c) /\ pool'[d] = pool[d] /\ FlagTells(pool[d])
    BY <1>g, <2>1 DEF FlagTells
  <2>2. CASE pool'[d] \in Wiped(c) /\ Turns(pool'[d]) = {}
    BY <1>g, <2>2 DEF FlagTells
  <2> QED  BY <1>g, <2>1, <2>2, TurnInvAfterGetOrCreate
<1>u. ASSUME UNCHANGED <<pool, running>>, \A a : Turns(a)' = Turns(a)
      PROVE  TurnInv'
  BY <1>u DEF TurnInv, FlagTells, Pooled
<1>i. ASSUME NEW m \in Message, m \notin InTurn, m \notin InTurn',
             \A n \in Message : n # m => at'[n] = at[n] /\ agent'[n] = agent[n]
      PROVE  \A a : Turns(a)' = Turns(a)
  BY <1>i DEF Turns, InTurn
<1>k. ASSUME UNCHANGED <<at, agent>>  PROVE \A a : Turns(a)' = Turns(a)
  BY <1>k DEF Turns, InTurn
<1>1. ASSUME NEW m \in Message, Reject(m)  PROVE TurnInv'
  BY <1>1, <1>g, <1>k, <1>n DEF Reject, callVars
<1>2. ASSUME NEW m \in Message, Enqueue(m)  PROVE TurnInv'
  BY <1>2, <1>u, <1>k DEF Enqueue, callVars
<1>3. ASSUME NEW m \in Message, Send(m)  PROVE TurnInv'
  <2>1. /\ GetOrCreate(ConversationOf[m]) /\ running' = running \ Wiped(ConversationOf[m])
        /\ at' = [at EXCEPT ![m] = "configuring"]
        /\ \E a : agent' = [agent EXCEPT ![m] = a]
        /\ fate[m] = "unsent"
    BY <1>3 DEF Send
  <2>2. m \notin InTurn /\ m \notin InTurn'
    BY <1>0, <2>1 DEF CallsHold, InTurn, Types
  <2>3. \A n \in Message : n # m => at'[n] = at[n] /\ agent'[n] = agent[n]
    BY <1>0, <2>1 DEF Types
  <2> QED  BY <1>g, <1>i, <1>n, <2>1, <2>2, <2>3
<1>4. ASSUME NEW m \in Message, Configured(m) \/ SessionReady(m)  PROVE TurnInv'
  <2>1. /\ m \notin InTurn /\ m \notin InTurn'
        /\ \A n \in Message : n # m => at'[n] = at[n] /\ agent'[n] = agent[n]
    BY <1>0, <1>4 DEF Configured, SessionReady, InTurn, Types
  <2> QED  BY <1>4, <1>i, <1>u, <2>1 DEF Configured, SessionReady, poolVars
<1>5. ASSUME NEW m \in Message, Begin(m)  PROVE TurnInv'
  <2> DEFINE c == ConversationOf[m]
             b == agent[m]
  <2>1. /\ GetOrCreate(c) /\ c \in Conversation /\ at[m] = "preparing" /\ UNCHANGED agent
        /\ b \in Agent
    BY <1>0, <1>5, <1>n DEF Begin, CallsHold
  <2>2. CASE at' = [at EXCEPT ![m] = "between"] /\ running' = running \ Wiped(c)
    <3>1. /\ m \notin InTurn /\ m \notin InTurn'
          /\ \A n \in Message : n # m => at'[n] = at[n] /\ agent'[n] = agent[n]
      BY <1>0, <2>1, <2>2 DEF InTurn, Types
    <3> QED  BY <1>g, <1>i, <2>1, <2>2, <3>1
  <2>3. CASE /\ \E s \in {"leaving", "executing"} : at' = [at EXCEPT ![m] = s]
             /\ running' = (running \ Wiped(c)) \cup {b}
             /\ b \notin running
    <3>1. InTurn' = InTurn \cup {m} /\ m \notin InTurn
      BY <1>0, <2>1, <2>3 DEF InTurn, Types
    <3>2. \A a : Turns(a)' = IF a = b THEN Turns(a) \cup {m} ELSE Turns(a)
      BY <2>1, <3>1 DEF Turns
    <3>3. b \in InUse
      BY <1>0, <2>1 DEF InUse, Active
    <3> SUFFICES ASSUME NEW d \in Conversation, pool'[d] # None
                 PROVE  FlagTells(pool[d])'
      BY DEF TurnInv, Pooled
    <3>4. \/ pool'[d] \notin Wiped(c) /\ pool'[d] = pool[d] /\ FlagTells(pool[d])
          \/ pool'[d] \in Wiped(c) /\ pool'[d] \notin InUse /\ Turns(pool'[d]) = {}
      BY <2>1, TurnInvAfterGetOrCreate
    <3>5. CASE pool'[d] = b
      <4>1. pool[d] = b /\ FlagTells(b)
        BY <3>3, <3>4, <3>5
      <4>2. Turns(b) = {}
        BY <2>3, <4>1 DEF FlagTells
      <4>3. Turns(b)' = {m} /\ Turns(pool[d])' = Turns(b)'
        BY <2>1, <3>2, <3>5, <4>2 DEF Turns
      <4> QED  BY <2>3, <3>5, <4>3 DEF FlagTells
    <3>6. CASE pool'[d] # b
      BY <2>3, <3>2, <3>4, <3>6 DEF FlagTells
    <3> QED  BY <3>5, <3>6
  <2> QED  BY <1>5, <2>2, <2>3 DEF Begin, RunnerFree
<1>6. ASSUME NEW m \in Message, SessionEnds(m)  PROVE TurnInv'
  <2>1. InTurn' = InTurn /\ UNCHANGED agent
    BY <1>0, <1>6 DEF SessionEnds, InTurn, Types
  <2> QED  BY <1>6, <1>u, <2>1 DEF SessionEnds, poolVars, Turns
<1>7. ASSUME NEW m \in Message, RunnerEnds(m) \/ (Fail(m) /\ m \in InTurn)  PROVE TurnInv'
  <2> DEFINE b == agent[m]
  <2>1. /\ running' = running \ {b} /\ UNCHANGED pool /\ m \in InTurn
        /\ \E s \in {"between", "none"} : at' = [at EXCEPT ![m] = s]
        /\ \A n \in Message : n # m => agent'[n] = agent[n]
    BY <1>0, <1>7 DEF RunnerEnds, Fail, InTurn, poolVars, Types
  <2>2. InTurn' = InTurn \ {m}
    BY <1>0, <2>1 DEF InTurn, Types
  <2>3. \A a : Turns(a)' = Turns(a) \ {m}
    BY <2>1, <2>2 DEF Turns, InTurn
  <2>4. m \in Turns(b) /\ \A a : a # b => m \notin Turns(a)
    BY <2>1 DEF Turns
  <2> HIDE DEF b
  <2> SUFFICES ASSUME NEW d \in Conversation, pool[d] # None
               PROVE  FlagTells(pool[d])'
    BY <2>1 DEF TurnInv, Pooled
  <2>5. FlagTells(pool[d]) /\ pool'[d] = pool[d]
    BY <2>1 DEF TurnInv, Pooled
  <2>6. Turns(pool[d])' = Turns(pool[d]) \ {m}
    BY <2>1, <2>3 DEF Turns
  <2>7. CASE pool[d] = b
    <3>1. Turns(b) = {m}
      BY <2>4, <2>5, <2>7 DEF FlagTells
    <3> QED  BY <2>1, <2>5, <2>6, <2>7, <3>1 DEF FlagTells
  <2>8. CASE pool[d] # b
    <3>1. Turns(pool[d])' = Turns(pool[d])
      BY <2>4, <2>6, <2>8
    <3> QED  BY <2>1, <2>5, <2>8, <3>1 DEF FlagTells
  <2> QED  BY <2>7, <2>8
<1>8. ASSUME NEW m \in Message, NextMessage(m) \/ (Fail(m) /\ m \notin InTurn)  PROVE TurnInv'
  <2>1. /\ UNCHANGED <<pool, running>> /\ m \notin InTurn /\ m \notin InTurn'
        /\ \A n \in Message : n # m => at'[n] = at[n] /\ agent'[n] = agent[n]
    <3>1. CASE NextMessage(m)
      <4>1. /\ UNCHANGED <<pool, running>> /\ at[m] = "between"
            /\ \E s \in {"preparing", "none"} : at' = [at EXCEPT ![m] = s]
            /\ agent' = agent \/ agent' = [agent EXCEPT ![m] = None]
        BY <3>1 DEF NextMessage, poolVars
      <4> QED  BY <1>0, <4>1 DEF InTurn, Types
    <3>2. CASE Fail(m) /\ m \notin InTurn
      BY <1>0, <3>2 DEF Fail, InTurn, poolVars, Types
    <3> QED  BY <1>8, <3>1, <3>2
  <2> QED  BY <1>i, <1>u, <2>1
<1>9. ASSUME NEW c \in Conversation, Open(c)  PROVE TurnInv'
  BY <1>9, <1>g, <1>k DEF Open, callVars
<1>10. ASSUME NEW c \in Conversation, ClearPending(c) \/ Promote(c) \/ RemoveItem(c)
       PROVE  TurnInv'
  BY <1>10, <1>u, <1>k DEF ClearPending, Promote, RemoveItem, callVars
<1>11. ASSUME NEW c \in Conversation, RemoveConversation(c)  PROVE TurnInv'
  <2>1. /\ pool[c] # None /\ pool' = PoolWithout({c}) /\ running' = running \ {pool[c]}
        /\ UNCHANGED <<at, agent>>
    BY <1>11 DEF RemoveConversation, callVars
  <2> SUFFICES ASSUME NEW d \in Conversation, pool'[d] # None
               PROVE  FlagTells(pool[d])'
    BY DEF TurnInv, Pooled
  <2>2. d # c /\ pool'[d] = pool[d] /\ pool[d] # pool[c] /\ FlagTells(pool[d])
    BY <1>0, <2>1 DEF PoolWithout, PoolInjective, Pooled, TurnInv
  <2>3. Turns(pool[d])' = Turns(pool[d])
    BY <2>1, <2>2 DEF Turns, InTurn
  <2> QED  BY <2>1, <2>2, <2>3 DEF FlagTells
<1>12. CASE UNCHANGED vars
  BY <1>12, <1>u, <1>k DEF vars, poolVars, agentVars, callVars
<1> QED  BY <1>1, <1>2, <1>3, <1>4, <1>5, <1>6, <1>7, <1>8, <1>9, <1>10, <1>11,
            <1>12 DEF Next, Arrive, Proceed, Command

\* The runner of a conversation's agent says it is running exactly while one
\* call is in a turn of it.
THEOREM RunnerFlagIsRight == Spec => []RunnerFlagTells
<1>1. Init => Held /\ TurnInv
  BY HeldInit, TurnInvInit
<1>2. Held /\ TurnInv /\ [Next]_vars => Held' /\ TurnInv'
  BY HeldStep, TurnInvStep
<1>3. Held /\ TurnInv => RunnerFlagTells
  BY FlagTellsCounted
<1> QED  BY <1>1, <1>2, <1>3, PTL DEF Spec

-----------------------------------------------------------------------------
(***************************************************************************)
(* Who looks at a queue that holds something.                              *)
(***************************************************************************)

\* No queue stays paused, so a call that finds no next message leaves nothing.
WaitInv ==
  \A a \in Agent :
    /\ ~queue[a].paused
    /\ queue[a].items # <<>> => CallsOn(a) # {} \/ a \in stranded

\* A new process has no messages.
LEMMA WaitInvInit == Init => WaitInv
BY EmptyQueueType DEF Init, WaitInv

\* A call of an agent stays one through what other calls do.
LEMMA CallsOnStay ==
  ASSUME Types, NEW m \in Message,
         \A n \in Message : n # m => at'[n] = at[n] /\ agent'[n] = agent[n],
         NEW a, at[m] = "none" \/ agent[m] # a \/ (at'[m] # "none" /\ agent'[m] = a)
  PROVE  CallsOn(a) # {} => CallsOn(a)' # {}
BY DEF CallsOn, Active, Types

\* Every step leaves a call, or a mark, where messages wait.
LEMMA WaitInvStep == Held /\ TurnInv /\ WaitInv /\ [Next]_vars => WaitInv'
<1> SUFFICES ASSUME Held, TurnInv, WaitInv, [Next]_vars  PROVE WaitInv'
  OBVIOUS
<1>0. Types /\ CallsHold
  BY DEF Held
<1>n. None \notin Agent /\ \A m \in Message : ConversationOf[m] \in Conversation
  BY NamesAssumption
<1>d. ASSUME NEW D \in SUBSET Agent, Disposed(D),
             \A a \in Agent \ D : CallsOn(a) # {} => CallsOn(a)' # {},
             \A a \in Agent \ D : a \in stranded => a \in stranded' \/ CallsOn(a)' # {}
      PROVE  WaitInv'
  <2> SUFFICES ASSUME NEW a \in Agent
               PROVE  /\ ~queue'[a].paused
                      /\ queue'[a].items # <<>> => CallsOn(a)' # {} \/ a \in stranded'
    BY DEF WaitInv
  <2>1. queue'[a] = IF a \in D THEN EmptyQueue ELSE queue[a]
    BY <1>0, <1>d, DisposedEffect
  <2>2. /\ ~queue[a].paused
        /\ queue[a].items # <<>> => CallsOn(a) # {} \/ a \in stranded
    BY DEF WaitInv
  <2> QED  BY <1>d, <2>1, <2>2, EmptyQueueType
<1>u. ASSUME UNCHANGED queue, stranded \subseteq stranded',
             \A a \in Agent : CallsOn(a) # {} => CallsOn(a)' # {}
      PROVE  WaitInv'
  BY <1>u DEF WaitInv
<1>q. ASSUME NEW b \in Agent, NEW q, queue' = [queue EXCEPT ![b] = q], ~q.paused,
             q.items # <<>> => CallsOn(b)' # {} \/ b \in stranded',
             \A a \in Agent : a # b /\ CallsOn(a) # {} => CallsOn(a)' # {},
             \A a \in Agent : a # b /\ a \in stranded => a \in stranded'
      PROVE  WaitInv'
  <2> SUFFICES ASSUME NEW a \in Agent
               PROVE  /\ ~queue'[a].paused
                      /\ queue'[a].items # <<>> => CallsOn(a)' # {} \/ a \in stranded'
    BY DEF WaitInv
  <2>1. queue'[a] = IF a = b THEN q ELSE queue[a]
    BY <1>0, <1>q DEF Types
  <2>2. /\ ~queue[a].paused
        /\ queue[a].items # <<>> => CallsOn(a) # {} \/ a \in stranded
    BY DEF WaitInv
  <2> QED  BY <1>q, <2>1, <2>2
<1>k. ASSUME UNCHANGED <<at, agent>>  PROVE \A a : CallsOn(a)' = CallsOn(a)
  BY <1>k DEF CallsOn, Active
<1>w. \A c \in Conversation : GetOrCreate(c) =>
        Wiped(c) \in SUBSET Agent /\ Disposed(Wiped(c)) /\ Target(c) \in Agent
  BY GetOrCreateEffect DEF GetOrCreate, Held
<1>1. ASSUME NEW m \in Message, Reject(m)  PROVE WaitInv'
  <2> DEFINE c == ConversationOf[m]
  <2>1. GetOrCreate(c) /\ stranded' = stranded \ Wiped(c) /\ UNCHANGED <<at, agent>>
        /\ c \in Conversation
    BY <1>1, <1>n DEF Reject, callVars
  <2> HIDE DEF c
  <2> QED  BY <1>d, <1>k, <1>w, <2>1
<1>2. ASSUME NEW m \in Message, Enqueue(m)  PROVE WaitInv'
  <2> DEFINE c == ConversationOf[m]
             b == pool[c]
  <2>1. /\ c \in Pooled /\ b \in running /\ UNCHANGED <<at, agent, stranded>>
        /\ queue' = [queue EXCEPT ![b] = Enqueued(queue[b], m)]
        /\ b \in Agent
    BY <1>0, <1>2, <1>n DEF Enqueue, callVars, Pooled, Types
  <2>2. PICK n \in Message : Turns(b) = {n}
    BY <2>1 DEF TurnInv, FlagTells
  <2>3. n \in CallsOn(b)
    BY <2>2 DEF Turns, InTurn, CallsOn, Active
  <2>4. ~Enqueued(queue[b], m).paused
    <3>1. queue[b] \in QueueType /\ ~queue[b].paused
      BY <1>0, <2>1 DEF Types, WaitInv
    <3> QED  BY <3>1 DEF Enqueued, QueueType
  <2> HIDE DEF b, c
  <2> QED  BY <1>k, <1>q, <2>1, <2>3, <2>4
<1>3. ASSUME NEW m \in Message, Send(m)  PROVE WaitInv'
  <2> DEFINE c == ConversationOf[m]
  <2>1. /\ GetOrCreate(c) /\ stranded' = stranded \ (Wiped(c) \cup {Target(c)})
        /\ c \in Conversation /\ fate[m] = "unsent"
        /\ at' = [at EXCEPT ![m] = "configuring"]
        /\ agent' = [agent EXCEPT ![m] = Target(c)]
    BY <1>3, <1>n DEF Send
  <2> HIDE DEF c
  <2>2. at[m] = "none"
    BY <1>0, <2>1 DEF CallsHold
  <2>3. \A n \in Message : n # m => at'[n] = at[n] /\ agent'[n] = agent[n]
    BY <1>0, <2>1 DEF Types
  <2>4. \A a : CallsOn(a) # {} => CallsOn(a)' # {}
    BY <1>0, <2>2, <2>3, CallsOnStay
  <2>5. PICK t : t = Target(c)
    OBVIOUS
  <2>6. m \in CallsOn(t)'
    <3>1. at'[m] # "none" /\ agent'[m] = t
      BY <1>0, <2>1, <2>5 DEF Types
    <3> QED  BY <3>1 DEF CallsOn, Active
  <2>7. \A a \in stranded : a \notin Wiped(c) => a \in stranded' \/ CallsOn(a)' # {}
    <3> SUFFICES ASSUME NEW a \in stranded, a \notin Wiped(c), a \notin stranded'
                 PROVE  CallsOn(a)' # {}
      OBVIOUS
    <3>1. a = t
      BY <2>1, <2>5
    <3> QED  BY <2>6, <3>1
  <2> QED  BY <1>d, <1>w, <2>1, <2>4, <2>7
<1>4. ASSUME NEW m \in Message, Configured(m) \/ SessionReady(m)  PROVE WaitInv'
  <2>1. \A n \in Message : /\ n # m => at'[n] = at[n] /\ agent'[n] = agent[n]
                           /\ at'[m] # "none" /\ agent'[m] = agent[m]
    BY <1>0, <1>4 DEF Configured, SessionReady, Types
  <2>2. \A a : CallsOn(a) # {} => CallsOn(a)' # {}
    BY <1>0, <2>1, CallsOnStay
  <2> QED  BY <1>4, <1>u, <2>2 DEF Configured, SessionReady
<1>5. ASSUME NEW m \in Message, Begin(m)  PROVE WaitInv'
  <2> DEFINE c == ConversationOf[m]
  <2>1. /\ GetOrCreate(c) /\ stranded' = stranded \ Wiped(c) /\ c \in Conversation
        /\ UNCHANGED agent
        /\ \E s \in {"between", "leaving", "executing"} : at' = [at EXCEPT ![m] = s]
    BY <1>5, <1>n DEF Begin
  <2> HIDE DEF c
  <2>2. \A n \in Message : /\ n # m => at'[n] = at[n] /\ agent'[n] = agent[n]
                           /\ at'[m] # "none" /\ agent'[m] = agent[m]
    BY <1>0, <2>1 DEF Types
  <2>3. \A a : CallsOn(a) # {} => CallsOn(a)' # {}
    BY <1>0, <2>2, CallsOnStay
  <2> QED  BY <1>d, <1>w, <2>1, <2>3
<1>6. ASSUME NEW m \in Message, SessionEnds(m) \/ RunnerEnds(m)  PROVE WaitInv'
  <2>1. /\ UNCHANGED <<queue, stranded, agent>>
        /\ \E s \in {"between", "leaving"} : at' = [at EXCEPT ![m] = s]
    BY <1>6 DEF SessionEnds, RunnerEnds
  <2>2. \A n \in Message : /\ n # m => at'[n] = at[n] /\ agent'[n] = agent[n]
                           /\ at'[m] # "none" /\ agent'[m] = agent[m]
    BY <1>0, <2>1 DEF Types
  <2>3. \A a : CallsOn(a) # {} => CallsOn(a)' # {}
    BY <1>0, <2>2, CallsOnStay
  <2> QED  BY <1>u, <2>1, <2>3
<1>7. ASSUME NEW m \in Message, NextMessage(m)  PROVE WaitInv'
  <2> DEFINE b == agent[m]
  <2>0. /\ b \in Agent /\ queue[b] \in QueueType /\ ~queue[b].paused /\ UNCHANGED stranded
        /\ at[m] = "between"
    BY <1>0, <1>7 DEF NextMessage, CallsHold, Types, WaitInv
  <2>1. CASE /\ ~\E i \in DOMAIN queue[b].items : IsNext(queue[b], i)
             /\ at' = [at EXCEPT ![m] = "none"]
             /\ agent' = [agent EXCEPT ![m] = None]
             /\ UNCHANGED queue
    <3>1. queue[b].items = <<>>
      BY <2>0, <2>1, SomethingIsNext
    <3>2. \A n \in Message : n # m => at'[n] = at[n] /\ agent'[n] = agent[n]
      BY <1>0, <2>1 DEF Types
    <3>3. \A a : a # b /\ CallsOn(a) # {} => CallsOn(a)' # {}
      BY <1>0, <3>2, CallsOnStay
    <3>4. queue' = [queue EXCEPT ![b] = queue[b]]
      BY <1>0, <2>0, <2>1 DEF Types
    <3> HIDE DEF b
    <3> QED  BY <1>q, <2>0, <3>1, <3>3, <3>4
  <2>2. CASE \E i \in DOMAIN queue[b].items :
               /\ queue' = [queue EXCEPT ![b] = Released(queue[b], i)]
               /\ at' = [at EXCEPT ![m] = "preparing"]
               /\ UNCHANGED agent
    <3>1. PICK i \in DOMAIN queue[b].items :
            queue' = [queue EXCEPT ![b] = Released(queue[b], i)]
      BY <2>2
    <3>2. ~Released(queue[b], i).paused
      BY <2>0 DEF Released, QueueType
    <3>3. \A n \in Message : /\ n # m => at'[n] = at[n] /\ agent'[n] = agent[n]
                             /\ at'[m] # "none" /\ agent'[m] = agent[m]
      BY <1>0, <2>2 DEF Types
    <3>4. \A a : CallsOn(a) # {} => CallsOn(a)' # {}
      BY <1>0, <3>3, CallsOnStay
    <3>5. m \in CallsOn(b)
      BY <2>0 DEF CallsOn, Active
    <3>6. CallsOn(b)' # {}
      <4>1. PICK t : t = b
        OBVIOUS
      <4>2. CallsOn(t)' # {}
        BY <3>4, <3>5, <4>1
      <4>3. agent'[m] = agent[m]
        BY <3>3
      <4> QED  BY <2>2, <4>1, <4>2, <4>3 DEF CallsOn
    <3> QED  BY <1>q, <2>0, <2>2, <3>1, <3>2, <3>4, <3>6
  <2> QED  BY <1>7, <2>1, <2>2 DEF NextMessage
<1>8. ASSUME NEW m \in Message, Fail(m)  PROVE WaitInv'
  <2> DEFINE b == agent[m]
  <2>1. /\ at' = [at EXCEPT ![m] = "none"] /\ agent' = [agent EXCEPT ![m] = None]
        /\ UNCHANGED queue /\ at[m] # "none"
        /\ stranded' = stranded \cup
             (IF CallsOn(b) = {m} /\ queue[b].items # <<>> THEN {b} ELSE {})
    BY <1>8 DEF Fail
  <2>2. \A n \in Message : n # m => at'[n] = at[n] /\ agent'[n] = agent[n]
    BY <1>0, <2>1 DEF Types
  <2>3. \A a : a # b /\ CallsOn(a) # {} => CallsOn(a)' # {}
    BY <1>0, <2>2, CallsOnStay
  <2>4. PICK t : t = b
    OBVIOUS
  <2>5. m \in CallsOn(t)
    BY <2>1, <2>4 DEF CallsOn, Active
  <2>6. CallsOn(t) # {m} => CallsOn(t)' # {}
    BY <2>2, <2>5 DEF CallsOn, Active
  <2> HIDE DEF b
  <2> SUFFICES ASSUME NEW a \in Agent
               PROVE  /\ ~queue'[a].paused
                      /\ queue'[a].items # <<>> => CallsOn(a)' # {} \/ a \in stranded'
    BY DEF WaitInv
  <2>7. /\ ~queue[a].paused
        /\ queue[a].items # <<>> => CallsOn(a) # {} \/ a \in stranded
    BY DEF WaitInv
  <2>8. CASE a = t
    <3>1. queue[a].items # <<>> /\ CallsOn(t) = {m} => a \in stranded'
      BY <2>1, <2>4, <2>8
    <3>2. CallsOn(t) # {m} => CallsOn(a)' # {}
      BY <2>6, <2>8 DEF CallsOn
    <3> QED  BY <2>1, <2>7, <3>1, <3>2
  <2>9. CASE a # t
    BY <2>1, <2>3, <2>4, <2>7, <2>9
  <2> QED  BY <2>8, <2>9
<1>9. ASSUME NEW c \in Conversation, Open(c)  PROVE WaitInv'
  <2>1. GetOrCreate(c) /\ stranded' = stranded \ Wiped(c) /\ UNCHANGED <<at, agent>>
    BY <1>9 DEF Open, callVars
  <2> QED  BY <1>d, <1>k, <1>w, <2>1
<1>10. ASSUME NEW c \in Conversation, ClearPending(c) \/ Promote(c) \/ RemoveItem(c)
       PROVE  WaitInv'
  <2> DEFINE b == pool[c]
  <2>0. b \in Agent /\ queue[b] \in QueueType /\ ~queue[b].paused /\ UNCHANGED <<at, agent>>
    BY <1>0, <1>10 DEF ClearPending, Promote, RemoveItem, callVars, Types, WaitInv
  <2>1. CASE ClearPending(c)
    <3>1. queue' = [queue EXCEPT ![b] = EmptyQueue] /\ stranded' = stranded \ {b}
      BY <2>1 DEF ClearPending, Cleared
    <3> HIDE DEF b
    <3> QED  BY <1>k, <1>q, <2>0, <3>1, EmptyQueueType
  <2>2. CASE Promote(c)
    <3>1. PICK i \in DOMAIN queue[b].items : queue' = [queue EXCEPT ![b] = Promoted(queue[b], i)]
      BY <2>2 DEF Promote
    <3>2. ~Promoted(queue[b], i).paused /\ stranded' = stranded
      BY <2>2 DEF Promoted, Promote
    <3>3. queue[b].items # <<>>
      BY <3>1
    <3>4. CallsOn(b) # {} \/ b \in stranded
      BY <2>0, <3>3 DEF WaitInv
    <3>5. CallsOn(b)' = CallsOn(b)
      BY <2>0, <2>2 DEF CallsOn, Active, Promote
    <3> QED  BY <1>k, <1>q, <2>0, <3>1, <3>2, <3>4, <3>5
  <2>3. CASE RemoveItem(c)
    <3>1. PICK i \in DOMAIN queue[b].items :
            /\ queue' = [queue EXCEPT ![b] = Removed(queue[b], i)]
            /\ stranded' = IF Taken(queue[b], i) = <<>> THEN stranded \ {b} ELSE stranded
      BY <2>3 DEF RemoveItem
    <3>2. /\ ~Removed(queue[b], i).paused
          /\ Removed(queue[b], i).items = Taken(queue[b], i)
      BY <2>0 DEF Removed
    <3>3. queue[b].items # <<>>
      BY <3>1
    <3>4. CallsOn(b) # {} \/ b \in stranded
      BY <2>0, <3>3 DEF WaitInv
    <3>5. CallsOn(b)' = CallsOn(b) /\ UNCHANGED pool
      BY <2>0, <2>3 DEF CallsOn, Active, RemoveItem
    <3> QED  BY <1>k, <1>q, <2>0, <3>1, <3>2, <3>4, <3>5
  <2> QED  BY <1>10, <2>1, <2>2, <2>3
<1>11. ASSUME NEW c \in Conversation, RemoveConversation(c)  PROVE WaitInv'
  <2> DEFINE D == {pool[c]}
  <2>1. /\ Disposed(D) /\ D \in SUBSET Agent /\ stranded' = stranded \ D
        /\ UNCHANGED <<at, agent>>
    BY <1>0, <1>11 DEF RemoveConversation, callVars, Types
  <2> HIDE DEF D
  <2> QED  BY <1>d, <1>k, <2>1
<1>12. CASE UNCHANGED vars
  BY <1>12, <1>u, <1>k DEF vars, agentVars, callVars
<1> QED  BY <1>1, <1>2, <1>3, <1>4, <1>5, <1>6, <1>7, <1>8, <1>9, <1>10, <1>11,
            <1>12 DEF Next, Arrive, Proceed, Command

\* Messages never wait where no call will look for them, but for the queues
\* that a failing call leaves behind.
THEOREM WaitingMessagesAreSeen == Spec => []WaitingHasACall
<1>1. Init => Held /\ TurnInv /\ WaitInv
  BY HeldInit, TurnInvInit, WaitInvInit
<1>2. Held /\ TurnInv /\ WaitInv /\ [Next]_vars => Held' /\ TurnInv' /\ WaitInv'
  BY HeldStep, TurnInvStep, WaitInvStep
<1>3. WaitInv => WaitingHasACall
  BY DEF WaitInv, WaitingHasACall
<1> QED  BY <1>1, <1>2, <1>3, PTL DEF Spec

-----------------------------------------------------------------------------
(***************************************************************************)
(* What eviction spares.                                                   *)
(***************************************************************************)

\* The agent of a turn leaves the pool only with its own conversation.
LEMMA SparedStep ==
  ASSUME Held, [Next]_vars, NEW c \in Pooled, pool[c] \in running, pool'[c] # pool[c]
  PROVE  Pooled' = Pooled \ {c}
<1>1. ASSUME NEW d \in Conversation, GetOrCreate(d)  PROVE FALSE
  BY <1>1, GetOrCreateEffect DEF Held, Pooled
<1>2. ASSUME NEW d \in Conversation, RemoveConversation(d)  PROVE Pooled' = Pooled \ {c}
  BY <1>2 DEF RemoveConversation, PoolWithout, Pooled
<1>3. ASSUME UNCHANGED pool  PROVE FALSE
  BY <1>3
<1>n. \A m \in Message : ConversationOf[m] \in Conversation
  BY NamesAssumption
<1>4. ASSUME NEW m \in Message, Arrive(m) \/ Proceed(m) \/ Fail(m)  PROVE FALSE
  BY <1>1, <1>3, <1>4, <1>n
     DEF Arrive, Reject, Enqueue, Send, Proceed, Configured, SessionReady, Begin, SessionEnds,
         RunnerEnds, NextMessage, Fail, poolVars
<1>5. ASSUME NEW d \in Conversation, Command(d)  PROVE Pooled' = Pooled \ {c}
  BY <1>1, <1>2, <1>3, <1>5 DEF Command, Open, ClearPending, Promote, RemoveItem
<1> QED  BY <1>3, <1>4, <1>5 DEF Next, vars, poolVars

\* Making room in the pool never takes the agent of a turn.
THEOREM TurnsAreNotEvicted == Spec => EvictionSparesRunning
<1> DEFINE Spares == \A c \in Pooled :
             pool[c] \in running /\ pool'[c] # pool[c] => Pooled' = Pooled \ {c}
<1>1. Init => Held
  BY HeldInit
<1>2. Held /\ [Next]_vars => Held'
  BY HeldStep
<1>3. Held /\ [Next]_vars => Spares
  BY SparedStep
<1>4. Held /\ [Next]_vars => [Spares]_vars
  BY <1>3
<1>5. Spec => [][Spares]_vars
  <2> HIDE DEF Spares
  <2> QED  BY <1>1, <1>2, <1>4, PTL DEF Spec
<1> QED  BY <1>5 DEF EvictionSparesRunning

-----------------------------------------------------------------------------
(***************************************************************************)
(* Who is refused.  An agent belongs to the conversation it is pooled for  *)
(* and to those of the calls that hold it, which is one conversation.      *)
(***************************************************************************)

BelongsTo(a, c) ==
  pool[c] = a \/ \E m \in CallsOn(a) : ConversationOf[m] = c

\* An agent is one conversation's, and so is its session.
OneOwner ==
  \A a \in Agent, c, d \in Conversation :
    /\ BelongsTo(a, c) /\ BelongsTo(a, d) => c = d
    /\ BelongsTo(a, c) /\ session[a] # None => ConversationOf[session[a]] = c

\* A busy session is executed, in a turn of its conversation.
BusyIsExecuted ==
  /\ \A s \in busy : \E m \in Message : at[m] = "executing" /\ on[m] = s
  /\ \A m \in Message : at[m] = "executing" => ConversationOf[on[m]] = ConversationOf[m]

\* A configured call has a session, once it is created, unless its agent was taken away.
SessionAtHand ==
  \A m \in Message, c \in Conversation :
    at[m] \notin {"none", "configuring", "creating"} /\ pool[c] = agent[m] => session[agent[m]] # None

OwnerInv == OneOwner /\ BusyIsExecuted /\ SessionAtHand

\* A new process has no agents.
LEMMA OwnerInvInit == Init => OwnerInv
BY NamesAssumption
   DEF Init, OwnerInv, OneOwner, BusyIsExecuted, SessionAtHand, BelongsTo, CallsOn, Active

\* Looking a conversation up gives it its own agent, or one that was nobody's.
LEMMA OwnersAfterGetOrCreate ==
  ASSUME Held, OwnerInv, NEW c \in Conversation, GetOrCreate(c),
         NEW a \in Agent, NEW d \in Conversation, pool'[d] = a
  PROVE  \/ BelongsTo(a, d)
         \/ d = c /\ a = Target(c) /\ session'[a] = None /\ \A e \in Conversation : ~BelongsTo(a, e)
<1>1. CASE a \notin Wiped(c)
  BY <1>1, GetOrCreateEffect, NamesAssumption DEF Held, BelongsTo
<1>2. CASE a \in Wiped(c)
  <2>1. d = c /\ a = Target(c) /\ a \notin InUse
    BY <1>2, GetOrCreateEffect DEF Held
  <2>2. session'[a] = None
    BY <1>2, DisposedEffect DEF Held, GetOrCreate
  <2>3. \A e \in Conversation : ~BelongsTo(a, e)
    BY <2>1 DEF BelongsTo, CallsOn, InUse
  <2> QED  BY <2>1, <2>2, <2>3
<1> QED  BY <1>1, <1>2

\* Every step keeps the owners apart.
LEMMA OwnerInvStep == Held /\ SessionInv /\ OwnerInv /\ [Next]_vars => OwnerInv'
<1> SUFFICES ASSUME Held, SessionInv, OwnerInv, [Next]_vars  PROVE OwnerInv'
  OBVIOUS
<1>0. /\ Types /\ CallsHold /\ PoolInjective
      /\ OneOwner /\ BusyIsExecuted /\ SessionAtHand /\ OneTurnPerSession
  BY DEF Held, OwnerInv, SessionInv
<1>n. /\ None \notin Agent /\ None \notin Message
      /\ \A m \in Message : ConversationOf[m] \in Conversation
  BY NamesAssumption
<1>s. \A m \in Message : at[m] = "executing" => on[m] # None
  BY DEF SessionInv, Guarded
\* The owners, when no session changes but those that go.
<1>o. ASSUME \A a \in Agent, d \in Conversation : BelongsTo(a, d)' => BelongsTo(a, d),
             \A a \in Agent : session'[a] \in {None, session[a]}
      PROVE  OneOwner'
  BY <1>0, <1>o DEF OneOwner
\* The same, when an agent is made for c.
<1>p. ASSUME NEW c \in Conversation,
             \A a \in Agent, d \in Conversation : BelongsTo(a, d)' =>
               \/ BelongsTo(a, d)
               \/ d = c /\ a = Target(c) /\ session'[a] = None /\ \A e \in Conversation : ~BelongsTo(a, e),
             \A a \in Agent : session'[a] \in {None, session[a]}
      PROVE  OneOwner'
  <2>1. ASSUME NEW a \in Agent, NEW d \in Conversation, NEW e \in Conversation,
               BelongsTo(a, d)', BelongsTo(a, e)'
        PROVE  d = e
    BY <1>0, <1>p, <2>1 DEF OneOwner
  <2>2. ASSUME NEW a \in Agent, NEW d \in Conversation, BelongsTo(a, d)', session'[a] # None
        PROVE  ConversationOf[session'[a]] = d
    BY <1>0, <1>p, <2>2 DEF OneOwner
  <2> QED  BY <2>1, <2>2 DEF OneOwner
\* Looking a conversation up in the pool, with the calls as they are.
<1>g. ASSUME NEW c \in Conversation, GetOrCreate(c)
      PROVE  /\ \A a \in Agent : session'[a] \in {None, session[a]}
             /\ \A a \in Agent, d \in Conversation : pool'[d] = a =>
                  \/ BelongsTo(a, d)
                  \/ /\ d = c /\ a = Target(c) /\ session'[a] = None
                     /\ \A e \in Conversation : ~BelongsTo(a, e)
             /\ \A m \in Message, d \in Conversation :
                  at[m] # "none" /\ pool'[d] = agent[m] => pool[d] = agent[m] /\ session'[agent[m]] = session[agent[m]]
  <2>1. Disposed(Wiped(c))
    BY <1>g DEF GetOrCreate
  <2>2. \A a \in Agent : session'[a] = IF a \in Wiped(c) THEN None ELSE session[a]
    BY <1>0, <2>1, DisposedEffect
  <2>3. ASSUME NEW m \in Message, NEW d \in Conversation, at[m] # "none", pool'[d] = agent[m]
        PROVE  pool[d] = agent[m] /\ session'[agent[m]] = session[agent[m]]
    <3>1. agent[m] \in Agent /\ agent[m] \in InUse
      BY <1>0, <2>3 DEF CallsHold, InUse, Active
    <3>2. pool'[d] \notin Wiped(c)
      BY <1>0, <1>g, <2>3, <3>1, GetOrCreateEffect
    <3>3. pool'[d] = pool[d]
      BY <1>0, <1>g, <1>n, <2>3, <3>1, <3>2, GetOrCreateEffect
    <3> QED  BY <2>2, <2>3, <3>1, <3>2, <3>3
  <2>4. \A a \in Agent, d \in Conversation : pool'[d] = a =>
          \/ BelongsTo(a, d)
          \/ /\ d = c /\ a = Target(c) /\ session'[a] = None
             /\ \A e \in Conversation : ~BelongsTo(a, e)
    BY <1>g, OwnersAfterGetOrCreate
  <2> QED  BY <2>2, <2>3, <2>4
\* Where the calls' stages are kept apart from the rest.
<1>c. ASSUME NEW m \in Message,
             \A n \in Message : n # m => at'[n] = at[n] /\ agent'[n] = agent[n],
             at'[m] = "none" \/ (at[m] # "none" /\ agent'[m] = agent[m])
      PROVE  \A a, d : (\E n \in CallsOn(a)' : ConversationOf[n] = d) =>
                        \E n \in CallsOn(a) : ConversationOf[n] = d
  BY <1>c DEF CallsOn, Active
<1>1. ASSUME NEW c \in Conversation, GetOrCreate(c), UNCHANGED callVars,
             busy' = BusyWithout(Wiped(c))
      PROVE  OwnerInv'
  <2>1. \A a, d : (\E n \in CallsOn(a)' : ConversationOf[n] = d) =>
                     \E n \in CallsOn(a) : ConversationOf[n] = d
    BY <1>1 DEF CallsOn, Active, callVars
  <2>2. OneOwner'
    BY <1>1, <1>g, <1>p, <2>1 DEF BelongsTo
  <2>3. BusyIsExecuted'
    BY <1>0, <1>1 DEF BusyIsExecuted, BusyWithout, callVars
  <2>4. SessionAtHand'
    BY <1>0, <1>1, <1>g DEF SessionAtHand, callVars
  <2> QED  BY <2>2, <2>3, <2>4 DEF OwnerInv
<1>2. ASSUME NEW m \in Message, Send(m)  PROVE OwnerInv'
  <2> DEFINE c == ConversationOf[m]
  <2>1. /\ GetOrCreate(c) /\ busy' = BusyWithout(Wiped(c)) /\ fate[m] = "unsent"
        /\ agent' = [agent EXCEPT ![m] = Target(c)] /\ UNCHANGED on
        /\ at' = [at EXCEPT ![m] = "configuring"]
        /\ c \in Conversation
    BY <1>2, <1>n DEF Send
  <2>2. at[m] = "none" /\ pool'[c] = Target(c) /\ Target(c) \in Agent
    BY <1>0, <2>1, GetOrCreateEffect DEF CallsHold
  <2>3. \A a, d : (\E n \in CallsOn(a)' : ConversationOf[n] = d) =>
          (\E n \in CallsOn(a) : ConversationOf[n] = d) \/ (a = Target(c) /\ d = c)
    BY <1>0, <2>1 DEF CallsOn, Active, Types
  <2> HIDE DEF c
  <2>4. OneOwner'
    <3>1. ASSUME NEW a \in Agent, NEW d \in Conversation, BelongsTo(a, d)'
          PROVE  \/ BelongsTo(a, d)
                 \/ /\ d = c /\ a = Target(c) /\ session'[a] = None
                    /\ \A e \in Conversation : ~BelongsTo(a, e)
      <4>1. CASE pool'[d] = a
        BY <1>g, <2>1, <4>1
      <4>2. CASE \E n \in CallsOn(a) : ConversationOf[n] = d
        BY <4>2 DEF BelongsTo
      <4> QED  BY <2>2, <2>3, <3>1, <4>1, <4>2 DEF BelongsTo
    <3>2. \A a \in Agent : session'[a] \in {None, session[a]}
      BY <1>g, <2>1
    <3> QED  BY <1>p, <2>1, <3>1, <3>2
  <2>5. BusyIsExecuted'
    BY <1>0, <2>1, <2>2 DEF BusyIsExecuted, BusyWithout, Types
  <2>6. SessionAtHand'
    <3> SUFFICES ASSUME NEW n \in Message, NEW d \in Conversation,
                        at'[n] \notin {"none", "configuring", "creating"}, pool'[d] = agent'[n]
                 PROVE  session'[agent'[n]] # None
      BY DEF SessionAtHand
    <3>1. CASE n = m
      BY <1>0, <2>1, <3>1 DEF Types
    <3>2. CASE n # m
      <4>1. at'[n] = at[n] /\ agent'[n] = agent[n]
        BY <1>0, <2>1, <3>2 DEF Types
      <4> QED  BY <1>0, <1>g, <2>1, <4>1 DEF SessionAtHand
    <3> QED  BY <3>1, <3>2
  <2> QED  BY <2>4, <2>5, <2>6 DEF OwnerInv
<1>3a. ASSUME NEW m \in Message, Configured(m)  PROVE OwnerInv'
  <2>1. /\ at[m] = "configuring" /\ UNCHANGED <<pool, session, busy, agent, on>>
        /\ at' = [at EXCEPT ![m] = IF session[agent[m]] = None THEN "creating" ELSE "preparing"]
    BY <1>3a DEF Configured, poolVars
  <2>2. \A n \in Message :
          at'[n] = IF n # m THEN at[n]
                   ELSE IF session[agent[m]] = None THEN "creating" ELSE "preparing"
    BY <1>0, <2>1 DEF Types
  <2>3. OneOwner'
    <3>1. \A a, d : (\E n \in CallsOn(a)' : ConversationOf[n] = d) =>
                       \E n \in CallsOn(a) : ConversationOf[n] = d
      BY <1>c, <2>1, <2>2
    <3>2. \A a, d : BelongsTo(a, d)' => BelongsTo(a, d)
      BY <2>1, <3>1 DEF BelongsTo
    <3> QED  BY <1>o, <2>1, <3>2
  <2>4. BusyIsExecuted'
    BY <1>0, <2>1, <2>2 DEF BusyIsExecuted
  <2>5. SessionAtHand'
    BY <1>0, <2>1, <2>2 DEF SessionAtHand
  <2> QED  BY <2>3, <2>4, <2>5 DEF OwnerInv
<1>3. ASSUME NEW m \in Message, SessionReady(m)  PROVE OwnerInv'
  <2>1. /\ at[m] = "creating" /\ agent[m] \in Agent /\ UNCHANGED <<pool, busy, agent, on>>
        /\ session' = [session EXCEPT ![agent[m]] = m]
        /\ at' = [at EXCEPT ![m] = "preparing"]
    BY <1>0, <1>3 DEF SessionReady, CallsHold, poolVars
  <2>2. \A a \in Agent : session'[a] = IF a = agent[m] THEN m ELSE session[a]
    BY <1>0, <2>1 DEF Types
  <2>3. \A n \in Message : at'[n] = IF n = m THEN "preparing" ELSE at[n]
    BY <1>0, <2>1 DEF Types
  <2>4. \A a, d : BelongsTo(a, d)' => BelongsTo(a, d)
    <3>1. \A a, d : (\E n \in CallsOn(a)' : ConversationOf[n] = d) =>
                       \E n \in CallsOn(a) : ConversationOf[n] = d
      BY <1>c, <2>1, <2>3
    <3> QED  BY <2>1, <3>1 DEF BelongsTo
  <2>5. BelongsTo(agent[m], ConversationOf[m])
    BY <2>1 DEF BelongsTo, CallsOn, Active
  <2>6. OneOwner'
    BY <1>0, <1>n, <2>1, <2>2, <2>4, <2>5 DEF OneOwner
  <2>7. BusyIsExecuted'
    BY <1>0, <2>1, <2>3 DEF BusyIsExecuted
  <2>8. SessionAtHand'
    BY <1>0, <1>n, <2>1, <2>2, <2>3 DEF SessionAtHand, CallsHold
  <2> QED  BY <2>6, <2>7, <2>8 DEF OwnerInv
<1>4. ASSUME NEW m \in Message, Begin(m)  PROVE OwnerInv'
  <2> DEFINE c == ConversationOf[m]
             s == session[agent[m]]
  <2>1. /\ GetOrCreate(c) /\ c \in Conversation /\ at[m] = "preparing" /\ UNCHANGED agent
        /\ agent[m] \in Agent
        /\ \E stage \in {"between", "leaving", "executing"} : at' = [at EXCEPT ![m] = stage]
        /\ \/ UNCHANGED on /\ busy' = BusyWithout(Wiped(c)) /\ at'[m] # "executing"
           \/ /\ s # None /\ on' = [on EXCEPT ![m] = s] /\ at'[m] = "executing"
              /\ busy' = BusyWithout(Wiped(c)) \cup {s}
    BY <1>0, <1>4, <1>n DEF Begin, CallsHold, RunnerFree, Types
  <2>2. \A n \in Message : n # m => at'[n] = at[n]
    BY <1>0, <2>1 DEF Types
  <2>3. at'[m] # "none"
    BY <1>0, <2>1 DEF Types
  <2>4. \A a, d : (\E n \in CallsOn(a)' : ConversationOf[n] = d) =>
                     \E n \in CallsOn(a) : ConversationOf[n] = d
    BY <1>c, <2>1, <2>2
  <2>5. OneOwner'
    <3> HIDE DEF c, s
    <3>1. ASSUME NEW a \in Agent, NEW d \in Conversation, BelongsTo(a, d)'
          PROVE  \/ BelongsTo(a, d)
                 \/ /\ d = c /\ a = Target(c) /\ session'[a] = None
                    /\ \A e \in Conversation : ~BelongsTo(a, e)
      <4>1. CASE pool'[d] = a
        BY <1>g, <2>1, <4>1
      <4>2. CASE \E n \in CallsOn(a)' : ConversationOf[n] = d
        BY <2>4, <4>2 DEF BelongsTo
      <4> QED  BY <3>1, <4>1, <4>2 DEF BelongsTo
    <3>2. \A a \in Agent : session'[a] \in {None, session[a]}
      BY <1>g, <2>1
    <3> QED  BY <1>p, <2>1, <3>1, <3>2
  <2>6. s # None => ConversationOf[s] = c
    <3>1. BelongsTo(agent[m], c)
      BY <2>1 DEF BelongsTo, CallsOn, Active
    <3> QED  BY <1>0, <2>1, <3>1 DEF OneOwner
  <2>7. BusyIsExecuted'
    <3>1. ASSUME NEW r \in busy'
          PROVE  \E n \in Message : at'[n] = "executing" /\ on'[n] = r
      <4>1. CASE r \in busy
        <5>1. PICK n \in Message : at[n] = "executing" /\ on[n] = r
          BY <1>0, <4>1 DEF BusyIsExecuted
        <5>2. n # m
          BY <2>1, <5>1
        <5>3. at'[n] = "executing" /\ on'[n] = r
          BY <1>0, <2>1, <2>2, <5>1, <5>2 DEF Types
        <5> QED  BY <5>3
      <4>2. CASE r \notin busy
        <5>1. r = s /\ at'[m] = "executing" /\ on' = [on EXCEPT ![m] = s]
          BY <2>1, <3>1, <4>2 DEF BusyWithout
        <5>2. on'[m] = r
          BY <1>0, <5>1 DEF Types
        <5> QED  BY <5>1, <5>2
      <4> QED  BY <4>1, <4>2
    <3>2. ASSUME NEW n \in Message, at'[n] = "executing"
          PROVE  ConversationOf[on'[n]] = ConversationOf[n]
      <4>1. CASE n = m
        <5>1. s # None /\ on'[m] = s
          BY <1>0, <2>1, <3>2, <4>1 DEF Types
        <5> QED  BY <2>6, <4>1, <5>1
      <4>2. CASE n # m
        <5>1. at[n] = "executing" /\ on'[n] = on[n]
          BY <1>0, <2>1, <2>2, <3>2, <4>2 DEF Types
        <5> QED  BY <1>0, <5>1 DEF BusyIsExecuted
      <4> QED  BY <4>1, <4>2
    <3> QED  BY <3>1, <3>2 DEF BusyIsExecuted
  <2>8. SessionAtHand'
    <3> SUFFICES ASSUME NEW n \in Message, NEW d \in Conversation,
                        at'[n] \notin {"none", "configuring", "creating"}, pool'[d] = agent[n]
                 PROVE  session'[agent[n]] # None
      BY <2>1 DEF SessionAtHand
    <3>1. at[n] \notin {"none", "configuring", "creating"}
      BY <2>1, <2>2
    <3> QED  BY <1>0, <1>g, <2>1, <3>1 DEF SessionAtHand
  <2> QED  BY <2>5, <2>7, <2>8 DEF OwnerInv
\* A turn goes on, or ends.
<1>5. ASSUME NEW m \in Message, UNCHANGED <<pool, session>>, at[m] \notin {"configuring", "creating"},
             \A n \in Message : n # m => /\ at'[n] = at[n] /\ agent'[n] = agent[n] /\ on'[n] = on[n],
             at'[m] = "none" \/ (at[m] # "none" /\ agent'[m] = agent[m]),
             at'[m] # "executing",
             busy' = busy \ (IF at[m] = "executing" THEN {on[m]} ELSE {})
      PROVE  OwnerInv'
  <2>1. OneOwner'
    <3>1. \A a, d : BelongsTo(a, d)' => BelongsTo(a, d)
      <4>1. \A a, d : (\E n \in CallsOn(a)' : ConversationOf[n] = d) =>
                         \E n \in CallsOn(a) : ConversationOf[n] = d
        BY <1>5, <1>c
      <4> QED  BY <1>5, <4>1 DEF BelongsTo
    <3> QED  BY <1>5, <1>o, <3>1
  <2>2. BusyIsExecuted'
    <3>1. ASSUME NEW r \in busy'
          PROVE  \E n \in Message : at'[n] = "executing" /\ on'[n] = r
      <4>1. PICK n \in Message : at[n] = "executing" /\ on[n] = r
        BY <1>0, <1>5, <3>1 DEF BusyIsExecuted
      <4>2. n # m
        BY <1>5, <3>1, <4>1
      <4> QED  BY <1>5, <4>1, <4>2
    <3>2. ASSUME NEW n \in Message, at'[n] = "executing"
          PROVE  ConversationOf[on'[n]] = ConversationOf[n]
      BY <1>0, <1>5, <3>2 DEF BusyIsExecuted
    <3> QED  BY <3>1, <3>2 DEF BusyIsExecuted
  <2>3. SessionAtHand'
    BY <1>0, <1>5 DEF SessionAtHand
  <2> QED  BY <2>1, <2>2, <2>3 DEF OwnerInv
<1>6. ASSUME NEW m \in Message, SessionEnds(m)  PROVE OwnerInv'
  <2>1. /\ UNCHANGED <<pool, session, agent>> /\ at[m] = "executing"
        /\ at' = [at EXCEPT ![m] = "leaving"] /\ on' = [on EXCEPT ![m] = None]
        /\ busy' = busy \ {on[m]}
    BY <1>6 DEF SessionEnds, poolVars
  <2>2. at'[m] = "leaving" /\ \A n \in Message : n # m => at'[n] = at[n] /\ on'[n] = on[n]
    BY <1>0, <2>1 DEF Types
  <2> QED  BY <1>5, <2>1, <2>2
<1>7. ASSUME NEW m \in Message, RunnerEnds(m)  PROVE OwnerInv'
  <2>1. /\ UNCHANGED <<pool, session, agent, on, busy>> /\ at[m] = "leaving"
        /\ at' = [at EXCEPT ![m] = "between"]
    BY <1>7 DEF RunnerEnds, poolVars
  <2>2. at'[m] = "between" /\ \A n \in Message : n # m => at'[n] = at[n]
    BY <1>0, <2>1 DEF Types
  <2> QED  BY <1>5, <2>1, <2>2
<1>8. ASSUME NEW m \in Message, NextMessage(m)  PROVE OwnerInv'
  <2>1. /\ UNCHANGED <<pool, session, on, busy>> /\ at[m] = "between"
        /\ \/ at' = [at EXCEPT ![m] = "preparing"] /\ UNCHANGED agent
           \/ at' = [at EXCEPT ![m] = "none"] /\ agent' = [agent EXCEPT ![m] = None]
    BY <1>8 DEF NextMessage, poolVars
  <2>2. /\ at'[m] = "none" \/ (at'[m] = "preparing" /\ UNCHANGED agent)
        /\ \A n \in Message : n # m => at'[n] = at[n] /\ agent'[n] = agent[n]
    BY <1>0, <2>1 DEF Types
  <2> QED  BY <1>5, <2>1, <2>2
<1>9. ASSUME NEW m \in Message, Fail(m)  PROVE OwnerInv'
  <2>1. /\ UNCHANGED <<pool, session>> /\ at[m] # "none"
        /\ at' = [at EXCEPT ![m] = "none"] /\ agent' = [agent EXCEPT ![m] = None]
        /\ on' = [on EXCEPT ![m] = None]
        /\ busy' = busy \ (IF at[m] = "executing" THEN {on[m]} ELSE {})
    BY <1>9 DEF Fail, poolVars
  <2>2. /\ at'[m] = "none"
        /\ \A n \in Message : n # m => at'[n] = at[n] /\ agent'[n] = agent[n] /\ on'[n] = on[n]
    BY <1>0, <2>1 DEF Types
  <2>3. CASE at[m] \notin {"configuring", "creating"}
    BY <1>5, <2>1, <2>2, <2>3
  <2>4. CASE at[m] \in {"configuring", "creating"}
    <3>1. busy' = busy
      BY <2>1, <2>4
    <3>2. \A a, d : BelongsTo(a, d)' => BelongsTo(a, d)
      <4>1. \A a, d : (\E n \in CallsOn(a)' : ConversationOf[n] = d) =>
                         \E n \in CallsOn(a) : ConversationOf[n] = d
        BY <1>c, <2>2
      <4> QED  BY <2>1, <4>1 DEF BelongsTo
    <3>3. OneOwner'
      BY <1>o, <2>1, <3>2
    <3>4. BusyIsExecuted'
      BY <1>0, <2>2, <2>4, <3>1 DEF BusyIsExecuted
    <3>5. SessionAtHand'
      BY <1>0, <2>1, <2>2 DEF SessionAtHand
    <3> QED  BY <3>3, <3>4, <3>5 DEF OwnerInv
  <2> QED  BY <2>3, <2>4
<1>10. ASSUME NEW c \in Conversation, RemoveConversation(c)  PROVE OwnerInv'
  <2>1. /\ pool[c] # None /\ pool' = PoolWithout({c}) /\ Disposed({pool[c]})
        /\ busy' = BusyWithout({pool[c]}) /\ UNCHANGED callVars
    BY <1>10 DEF RemoveConversation
  <2>2. \A a \in Agent : session'[a] = IF a = pool[c] THEN None ELSE session[a]
    BY <1>0, <2>1, DisposedEffect
  <2>3. \A d \in Conversation : pool'[d] = IF d = c THEN None ELSE pool[d]
    BY <2>1 DEF PoolWithout
  <2>4. OneOwner'
    <3>1. \A a \in Agent, d \in Conversation : BelongsTo(a, d)' => BelongsTo(a, d)
      BY <1>n, <2>1, <2>3 DEF BelongsTo, CallsOn, Active, callVars
    <3> QED  BY <1>o, <2>2, <3>1
  <2>5. BusyIsExecuted'
    BY <1>0, <2>1 DEF BusyIsExecuted, BusyWithout, callVars
  <2>6. SessionAtHand'
    <3> SUFFICES ASSUME NEW n \in Message, NEW d \in Conversation,
                        at[n] \notin {"none", "configuring", "creating"}, pool'[d] = agent[n]
                 PROVE  session'[agent[n]] # None
      BY <2>1 DEF SessionAtHand, callVars
    <3>1. agent[n] \in Agent /\ d # c /\ pool[d] = agent[n]
      BY <1>0, <1>n, <2>3 DEF CallsHold
    <3>2. pool[d] # pool[c]
      BY <1>0, <1>n, <2>1, <3>1 DEF PoolInjective, Pooled
    <3> QED  BY <1>0, <2>2, <3>1, <3>2 DEF SessionAtHand
  <2> QED  BY <2>4, <2>5, <2>6 DEF OwnerInv
<1>11. ASSUME UNCHANGED <<pool, session, busy, callVars>>  PROVE OwnerInv'
  BY <1>0, <1>11 DEF OwnerInv, OneOwner, BusyIsExecuted, SessionAtHand, BelongsTo,
     CallsOn, Active, callVars
<1>12. ASSUME NEW m \in Message, Arrive(m)  PROVE OwnerInv'
  BY <1>1, <1>2, <1>11, <1>12, <1>n DEF Arrive, Reject, Enqueue, callVars
<1>13. ASSUME NEW c \in Conversation, Command(c)  PROVE OwnerInv'
  BY <1>1, <1>10, <1>11, <1>13 DEF Command, Open, ClearPending, Promote, RemoveItem
<1> QED  BY <1>3a, <1>3, <1>4, <1>6, <1>7, <1>8, <1>9, <1>11, <1>12, <1>13
         DEF Next, Proceed, vars, poolVars, agentVars

\* Only processStream refuses a call.
LEMMA RefusedInBegin ==
  ASSUME Held, [Next]_vars, NEW m \in Message, at[m] = "preparing",
         at'[m] \in {"leaving", "between"}
  PROVE  Begin(m)
<1>0. at \in [Message -> Stages] /\ CallsHold
  BY DEF Held, Types
<1>1. ASSUME NEW n \in Message, Begin(n)  PROVE Begin(m)
  <2>1. \E s : at' = [at EXCEPT ![n] = s]
    BY <1>1 DEF Begin
  <2> QED  BY <1>0, <1>1, <2>1
<1>2. ASSUME NEW n \in Message, Send(n)  PROVE FALSE
  <2>1. at[n] = "none" /\ \E s : at' = [at EXCEPT ![n] = s]
    BY <1>0, <1>2 DEF Send, CallsHold
  <2> QED  BY <1>0, <2>1
<1>3. ASSUME NEW n \in Message,
             Configured(n) \/ SessionReady(n) \/ SessionEnds(n) \/ RunnerEnds(n) \/ NextMessage(n)
      PROVE  FALSE
  <2>1. at[n] # "preparing" /\ \E s : at' = [at EXCEPT ![n] = s]
    BY <1>3 DEF Configured, SessionReady, SessionEnds, RunnerEnds, NextMessage
  <2> QED  BY <1>0, <2>1
<1>4. ASSUME NEW n \in Message, Fail(n)  PROVE FALSE
  <2>1. at' = [at EXCEPT ![n] = "none"]
    BY <1>4 DEF Fail
  <2> QED  BY <1>0, <2>1
<1>5. ASSUME UNCHANGED at  PROVE FALSE
  BY <1>5
<1>6. ASSUME NEW n \in Message, Reject(n) \/ Enqueue(n)  PROVE FALSE
  BY <1>5, <1>6 DEF Reject, Enqueue, callVars
<1>7. ASSUME NEW c \in Conversation, Command(c)  PROVE FALSE
  BY <1>5, <1>7
     DEF Command, Open, ClearPending, Promote, RemoveItem, RemoveConversation, callVars
<1> QED  BY <1>1, <1>2, <1>3, <1>4, <1>5, <1>6, <1>7
         DEF Next, Arrive, Proceed, vars, callVars

\* The rival of a refused call.
LEMMA RivalStep ==
  ASSUME Held, TurnInv, OwnerInv, NEW m \in Message, Begin(m),
         at'[m] \in {"leaving", "between"}, agent[m] = pool[ConversationOf[m]]
  PROVE  \E n \in InTurn : n # m /\ ConversationOf[n] = ConversationOf[m]
<1> DEFINE c == ConversationOf[m]
           a == agent[m]
<1>0. /\ at \in [Message -> Stages] /\ at[m] = "preparing" /\ m \notin InTurn
      /\ a \in Agent /\ c \in Conversation /\ a # None
  BY NamesAssumption DEF Held, Types, CallsHold, Begin, InTurn
<1>1. session[a] # None
  BY <1>0 DEF OwnerInv, SessionAtHand
<1>2. BelongsTo(a, c)
  BY DEF BelongsTo
<1>3. CASE a \in running
  <2>1. PICK n \in Message : Turns(a) = {n}
    BY <1>0, <1>3 DEF TurnInv, FlagTells, Pooled
  <2>2. n \in InTurn /\ n \in CallsOn(a)
    BY <2>1 DEF Turns, InTurn, CallsOn, Active
  <2>3. ConversationOf[n] \in Conversation /\ BelongsTo(a, ConversationOf[n])
    BY <2>2, NamesAssumption DEF BelongsTo
  <2>4. ConversationOf[n] = c
    BY <1>0, <1>2, <2>3 DEF OwnerInv, OneOwner
  <2> QED  BY <1>0, <2>2, <2>4
<1>4. CASE session[a] \in busy
  <2>1. PICK n \in Message : at[n] = "executing" /\ on[n] = session[a]
    BY <1>4 DEF OwnerInv, BusyIsExecuted
  <2>2. ConversationOf[session[a]] = ConversationOf[n]
    BY <2>1 DEF OwnerInv, BusyIsExecuted
  <2>3. ConversationOf[session[a]] = c
    BY <1>0, <1>1, <1>2 DEF OwnerInv, OneOwner
  <2> QED  BY <1>0, <2>1, <2>2, <2>3 DEF InTurn
<1>5. CASE a \notin running /\ session[a] \notin busy
  <2>1. at' = [at EXCEPT ![m] = "executing"]
    BY <1>1, <1>5 DEF Begin, RunnerFree, SessionFree
  <2> QED  BY <1>0, <2>1
<1> QED  BY <1>3, <1>4, <1>5

\* A call is refused as busy only when another call of its conversation is in
\* a turn, or its agent was taken away.
THEOREM RefusalsHaveARival == Spec => RefusalNeedsRival
<1> DEFINE Rival == \A m \in Message : at[m] = "preparing" /\ at'[m] \in {"leaving", "between"} =>
             \/ agent[m] # pool[ConversationOf[m]]
             \/ \E n \in InTurn : n # m /\ ConversationOf[n] = ConversationOf[m]
           Inv == Held /\ SessionInv /\ TurnInv /\ OwnerInv
<1>1. Init => Inv
  BY HeldInit, SessionInvInit, TurnInvInit, OwnerInvInit
<1>2. Inv /\ [Next]_vars => Inv'
  BY HeldStep, SessionInvStep, TurnInvStep, OwnerInvStep
<1>3. Inv /\ [Next]_vars => Rival
  BY RefusedInBegin, RivalStep
<1>4. Inv /\ [Next]_vars => [Rival]_vars
  BY <1>3
<1>5. Spec => [][Rival]_vars
  <2> HIDE DEF Rival, Inv
  <2> QED  BY <1>1, <1>2, <1>4, PTL DEF Spec
<1> QED  BY <1>5 DEF RefusalNeedsRival

-----------------------------------------------------------------------------
(***************************************************************************)
(* A message is in one place.  The queues hold every queued message once,  *)
(* and no other; every held one is the work of one call.                   *)
(***************************************************************************)

\* The stages in which a call still has its message to do.
Holding == {"configuring", "creating", "preparing", "executing"}

QueuePart(q, f) ==
  /\ \A a \in Agent : IsInjective(q[a].items)
  /\ \A a, b \in Agent : Waiting(q[a]) \cap Waiting(q[b]) # {} => a = b
  /\ \A m \in Message : f[m] = "queued" <=> \E a \in Agent : m \in Waiting(q[a])

CallPart(w, s, f) ==
  /\ \A m, n \in Message : s[m] \in Holding /\ s[n] \in Holding /\ w[m] = w[n] => m = n
  /\ \A m \in Message : f[m] = "held" <=> \E n \in Message : s[n] \in Holding /\ w[n] = m
  /\ \A n \in Message : s[n] = "none" => w[n] = n
  /\ \A n \in Message : s[n] \in {"leaving", "between"} => f[w[n]] = "over"

PlaceInv == QueuePart(queue, fate) /\ CallPart(work, at, fate)

\* The items of a queue, by position.
LEMMA Positions ==
  ASSUME NEW q \in QueueType
  PROVE  /\ Len(q.items) \in Nat /\ DOMAIN q.items = 1 .. Len(q.items)
         /\ \A i \in 1 .. Len(q.items) : q.items[i] \in Message
         /\ \A m : m \in Waiting(q) <=> \E i \in 1 .. Len(q.items) : q.items[i] = m
         /\ Waiting(q) \subseteq Message
<1>1. q.items \in Seq(Message)
  BY DEF QueueType
<1>2. Len(q.items) \in Nat /\ DOMAIN q.items = 1 .. Len(q.items)
  BY <1>1, LenProperties
<1>3. \A i \in 1 .. Len(q.items) : q.items[i] \in Message
  BY <1>1, ElementOfSeq
<1> QED  BY <1>2, <1>3 DEF Waiting, ToSet

\* The empty queue.
LEMMA NothingWaits == IsInjective(EmptyQueue.items) /\ Waiting(EmptyQueue) = {}
<1>1. EmptyQueue.items = <<>> /\ DOMAIN <<>> = {}
  BY EmptyQueueType
<1> QED  BY <1>1 DEF IsInjective, Waiting, ToSet

\* A message that joins a queue it is not in.
LEMMA EnqueuedOnce ==
  ASSUME NEW q \in QueueType, IsInjective(q.items), NEW m \in Message, m \notin Waiting(q)
  PROVE  /\ IsInjective(Enqueued(q, m).items)
         /\ Waiting(Enqueued(q, m)) = Waiting(q) \cup {m}
<1> DEFINE s == q.items
           r == Append(s, m)
<1>1. Enqueued(q, m).items = r /\ Enqueued(q, m) \in QueueType
  BY QueueTypes DEF Enqueued, QueueType
<1>2. s \in Seq(Message) /\ Len(s) \in Nat /\ DOMAIN s = 1 .. Len(s)
  BY Positions DEF QueueType
<1>3. /\ Len(r) = Len(s) + 1 /\ DOMAIN r = 1 .. Len(s) + 1
      /\ r[Len(s) + 1] = m /\ \A i \in 1 .. Len(s) : r[i] = s[i]
  <2>1. r \in Seq(Message) /\ Len(r) = Len(s) + 1
    BY <1>2, AppendProperties
  <2> QED  BY <1>2, <2>1, AppendProperties, LenProperties
<1>4. \A i \in 1 .. Len(s) : s[i] # m
  BY Positions
<1> HIDE DEF r
<1>5. IsInjective(r)
  BY <1>2, <1>3, <1>4 DEF IsInjective
<1>6. \A n : n \in Waiting(Enqueued(q, m)) <=> n = m \/ n \in Waiting(q)
  <2>1. \A n : n \in Waiting(Enqueued(q, m)) <=> \E i \in 1 .. Len(s) + 1 : r[i] = n
    BY <1>1, <1>3 DEF Waiting, ToSet
  <2>2. \A n : n \in Waiting(q) <=> \E i \in 1 .. Len(s) : s[i] = n
    BY Positions
  <2> QED  BY <1>2, <1>3, <2>1, <2>2
<1> QED  BY <1>1, <1>5, <1>6

\* A sequence with the element at i removed.
LEMMA RemovedAt ==
  ASSUME NEW S, NEW s \in Seq(S), NEW i \in 1 .. Len(s)
  PROVE  /\ RemoveAt(s, i) \in Seq(S)
         /\ Len(RemoveAt(s, i)) = Len(s) - 1
         /\ \A k \in 1 .. Len(s) - 1 : RemoveAt(s, i)[k] = IF k < i THEN s[k] ELSE s[k + 1]
<1> DEFINE size == Len(s)
           before == SubSeq(s, 1, i - 1)
           after == SubSeq(s, i + 1, Len(s))
           r == RemoveAt(s, i)
<1>1. size \in Nat /\ i \in Int /\ 1 <= i /\ i <= size /\ \A k \in 1 .. size : s[k] \in S
  BY LenProperties, ElementOfSeq
<1>2. /\ before \in Seq(S) /\ Len(before) = IF 1 <= i - 1 THEN i - 1 - 1 + 1 ELSE 0
      /\ \A k \in 1 .. i - 1 - 1 + 1 : before[k] = s[1 + k - 1]
  <2>1. 1 \in Int /\ i - 1 \in Int /\ \A k \in 1 .. i - 1 : s[k] \in S
    BY <1>1
  <2> QED  BY ONLY <2>1, SubSeqProperties
<1>3. /\ after \in Seq(S) /\ Len(after) = IF i + 1 <= size THEN size - (i + 1) + 1 ELSE 0
      /\ \A k \in 1 .. size - (i + 1) + 1 : after[k] = s[i + 1 + k - 1]
  <2>1. size \in Int /\ i + 1 \in Int /\ \A k \in i + 1 .. size : s[k] \in S
    BY <1>1
  <2> QED  BY ONLY <2>1, SubSeqProperties
<1>4. /\ r \in Seq(S) /\ Len(r) = Len(before) + Len(after)
      /\ \A k \in 1 .. Len(before) + Len(after) :
           r[k] = IF k <= Len(before) THEN before[k] ELSE after[k - Len(before)]
  <2>1. r = before \o after
    BY DEF RemoveAt
  <2> HIDE DEF r, before, after
  <2> QED  BY ONLY <1>2, <1>3, <2>1, ConcatProperties
<1> HIDE DEF size, before, after, r
<1>5. Len(before) = i - 1 /\ Len(after) = size - i
  BY <1>1, <1>2, <1>3
<1>6. \A k \in 1 .. i - 1 : before[k] = s[k]
  BY <1>1, <1>2
<1>7. \A k \in 1 .. size - i : after[k] = s[i + k]
  BY <1>1, <1>3
<1>8. ASSUME NEW k \in 1 .. size - 1  PROVE r[k] = IF k < i THEN s[k] ELSE s[k + 1]
  <2>1. r[k] = IF k <= i - 1 THEN before[k] ELSE after[k - (i - 1)]
    BY <1>1, <1>4, <1>5
  <2>2. CASE k < i
    BY <1>1, <1>6, <2>1, <2>2
  <2>3. CASE ~(k < i)
    <3>1. k - (i - 1) \in 1 .. size - i /\ i + (k - (i - 1)) = k + 1 /\ ~(k <= i - 1)
      BY <1>1, <2>3
    <3> QED  BY <1>7, <2>1, <2>3, <3>1
  <2> QED  BY <2>2, <2>3
<1>9. Len(r) = size - 1
  BY <1>1, <1>4, <1>5
<1> QED  BY <1>4, <1>8, <1>9 DEF size, r

\* A message that is taken from its queue, and one that is put at its head.
LEMMA TakenOnce ==
  ASSUME NEW q \in QueueType, IsInjective(q.items), NEW i \in DOMAIN q.items
  PROVE  /\ IsInjective(Taken(q, i))
         /\ ToSet(Taken(q, i)) = Waiting(q) \ {q.items[i]}
         /\ IsInjective(Promoted(q, i).items)
         /\ Waiting(Promoted(q, i)) = Waiting(q)
<1> DEFINE s == q.items
           r == Taken(q, i)
           one == <<s[i]>>
           p == one \o r
<1>1. /\ s \in Seq(Message) /\ Len(s) \in Nat /\ i \in 1 .. Len(s)
      /\ \A k \in 1 .. Len(s) : s[k] \in Message
      /\ \A k, l \in 1 .. Len(s) : s[k] = s[l] => k = l
  BY Positions DEF QueueType, IsInjective
<1>5. /\ r \in Seq(Message) /\ Len(r) = Len(s) - 1 /\ DOMAIN r = 1 .. Len(s) - 1
      /\ \A k \in 1 .. Len(s) - 1 : r[k] = IF k < i THEN s[k] ELSE s[k + 1]
  <2>1. /\ r \in Seq(Message) /\ Len(r) = Len(s) - 1
        /\ \A k \in 1 .. Len(s) - 1 : r[k] = IF k < i THEN s[k] ELSE s[k + 1]
    BY <1>1, RemovedAt DEF Taken
  <2> QED  BY <2>1, LenProperties
<1> HIDE DEF r
<1>6. IsInjective(r)
  <2>1. SUFFICES ASSUME NEW k \in 1 .. Len(s) - 1, NEW l \in 1 .. Len(s) - 1, r[k] = r[l]
                 PROVE  k = l
    BY <1>5 DEF IsInjective
  <2> DEFINE K == IF k < i THEN k ELSE k + 1
             L == IF l < i THEN l ELSE l + 1
  <2>2. K \in 1 .. Len(s) /\ L \in 1 .. Len(s) /\ r[k] = s[K] /\ r[l] = s[L]
    BY <1>1, <1>5
  <2>3. K = L
    BY <1>1, <2>1, <2>2
  <2> QED  BY <1>1, <2>3
<1>7. \A m : (\E k \in 1 .. Len(s) - 1 : r[k] = m) <=> (\E k \in 1 .. Len(s) : s[k] = m) /\ m # s[i]
  <2>1. ASSUME NEW k \in 1 .. Len(s) - 1
        PROVE  \E l \in 1 .. Len(s) : s[l] = r[k] /\ l # i
    <3>1. CASE k < i
      BY <1>1, <1>5, <3>1
    <3>2. CASE ~(k < i)
      <4>1. k + 1 \in 1 .. Len(s) /\ k + 1 # i
        BY <1>1, <3>2
      <4> QED  BY <1>5, <3>2, <4>1
    <3> QED  BY <3>1, <3>2
  <2>2. ASSUME NEW l \in 1 .. Len(s), l # i
        PROVE  \E k \in 1 .. Len(s) - 1 : r[k] = s[l]
    <3>1. CASE l < i
      BY <1>1, <1>5, <3>1
    <3>2. CASE l > i
      <4>1. l - 1 \in 1 .. Len(s) - 1 /\ ~(l - 1 < i) /\ (l - 1) + 1 = l
        BY <1>1, <3>2
      <4> QED  BY <1>5, <4>1
    <3> QED  BY <1>1, <2>2, <3>1, <3>2
  <2> QED  BY <1>1, <2>1, <2>2
<1>8. \A m : m \in Waiting(q) <=> \E k \in 1 .. Len(s) : s[k] = m
  BY Positions
<1>9. ToSet(r) = Waiting(q) \ {s[i]}
  <2>1. \A m : m \in ToSet(r) <=> \E k \in 1 .. Len(s) - 1 : r[k] = m
    BY <1>5 DEF ToSet
  <2> QED  BY <1>7, <1>8, <2>1
<1>10. /\ p \in Seq(Message) /\ DOMAIN p = 1 .. Len(s) /\ p[1] = s[i]
       /\ \A k \in 2 .. Len(s) : p[k] = r[k - 1]
  <2>1. one \in Seq(Message) /\ Len(one) = 1 /\ one[1] = s[i]
    BY <1>1
  <2> HIDE DEF one
  <2>2. /\ p \in Seq(Message) /\ Len(p) = Len(one) + Len(r)
        /\ \A k \in 1 .. Len(one) + Len(r) :
             p[k] = IF k <= Len(one) THEN one[k] ELSE r[k - Len(one)]
    BY <1>5, <2>1, ConcatProperties
  <2>3. p[1] = s[i] /\ \A k \in 2 .. Len(s) : p[k] = r[k - 1]
    BY <1>1, <1>5, <2>1, <2>2
  <2> QED  BY <1>1, <1>5, <2>1, <2>2, <2>3, LenProperties
<1>11. Promoted(q, i).items = p
  BY DEF Promoted, r
<1> HIDE DEF p
<1>12. ASSUME NEW k \in 2 .. Len(s)  PROVE k - 1 \in 1 .. Len(s) - 1 /\ p[k] # p[1]
  <2>1. k - 1 \in 1 .. Len(s) - 1
    BY <1>1
  <2>2. r[k - 1] # s[i]
    BY <1>7, <2>1
  <2> QED  BY <1>10, <2>1, <2>2
<1>13. IsInjective(p)
  <2> SUFFICES ASSUME NEW k \in 1 .. Len(s), NEW l \in 1 .. Len(s), p[k] = p[l]  PROVE k = l
    BY <1>10 DEF IsInjective
  <2>1. CASE k = 1 \/ l = 1
    BY <1>1, <1>12, <2>1
  <2>2. CASE k # 1 /\ l # 1
    <3>1. k \in 2 .. Len(s) /\ l \in 2 .. Len(s)
      BY <1>1, <2>2
    <3>2. r[k - 1] = r[l - 1] /\ k - 1 \in DOMAIN r /\ l - 1 \in DOMAIN r
      BY <1>5, <1>10, <1>12, <3>1
    <3>3. k - 1 = l - 1
      BY <1>6, <3>2 DEF IsInjective
    <3> QED  BY <3>3
  <2> QED  BY <2>1, <2>2
<1>14. \A m : m \in Waiting(Promoted(q, i)) <=> m \in Waiting(q)
  <2>1. \A m : m \in Waiting(Promoted(q, i)) <=> \E k \in 1 .. Len(s) : p[k] = m
    BY <1>10, <1>11 DEF Waiting, ToSet
  <2>2. \A m : (\E k \in 2 .. Len(s) : p[k] = m) <=> \E k \in 1 .. Len(s) - 1 : r[k] = m
    <3>1. \A k \in 1 .. Len(s) - 1 : k + 1 \in 2 .. Len(s) /\ (k + 1) - 1 = k
      BY <1>1
    <3> QED  BY <1>10, <1>12, <3>1
  <2>3. \A m : (\E k \in 1 .. Len(s) : p[k] = m) <=> m = s[i] \/ \E k \in 2 .. Len(s) : p[k] = m
    BY <1>1, <1>10
  <2> QED  BY <1>1, <1>7, <1>8, <2>1, <2>2, <2>3
<1> QED  BY <1>6, <1>9, <1>11, <1>13, <1>14 DEF r

\* The invariant is what the property says with cardinalities.
LEMMA PlacesCounted == Held /\ PlaceInv => MessagesInOnePlace
<1> SUFFICES ASSUME Held, PlaceInv, NEW m \in Message
             PROVE  LET queued == UNION {{<<a, i>> : i \in {j \in DOMAIN queue[a].items : queue[a].items[j] = m}} :
                                           a \in Agent}
                        held == {n \in Active : work[n] = m /\ at[n] \in {"configuring", "creating", "preparing", "executing"}} IN
                    /\ Cardinality(queued) = IF fate[m] = "queued" THEN 1 ELSE 0
                    /\ Cardinality(held) = IF fate[m] = "held" THEN 1 ELSE 0
  BY DEF MessagesInOnePlace
<1> DEFINE queued == UNION {{<<a, i>> : i \in {j \in DOMAIN queue[a].items : queue[a].items[j] = m}} :
                              a \in Agent}
           held == {n \in Active : work[n] = m /\ at[n] \in {"configuring", "creating", "preparing", "executing"}}
<1>0. QueuePart(queue, fate) /\ CallPart(work, at, fate) /\ \A a \in Agent : queue[a] \in QueueType
  BY DEF Held, Types, PlaceInv
<1>1. \A a \in Agent : \A i \in DOMAIN queue[a].items :
        queue[a].items[i] = m => m \in Waiting(queue[a])
  BY <1>0, Positions
<1>2. Cardinality(queued) = IF fate[m] = "queued" THEN 1 ELSE 0
  <2>1. CASE fate[m] # "queued"
    <3>1. \A a \in Agent : m \notin Waiting(queue[a])
      BY <1>0, <2>1 DEF QueuePart
    <3>2. queued = {}
      BY <1>1, <3>1
    <3> HIDE DEF queued
    <3> QED  BY <2>1, <3>2, FS_EmptySet
  <2>2. CASE fate[m] = "queued"
    <3>1. PICK a \in Agent : m \in Waiting(queue[a])
      BY <1>0, <2>2 DEF QueuePart
    <3>i. \E i \in 1 .. Len(queue[a].items) : queue[a].items[i] = m
      BY <1>0, <3>1, Positions
    <3>2. PICK i \in 1 .. Len(queue[a].items) : queue[a].items[i] = m
      BY <3>i
    <3>3. DOMAIN queue[a].items = 1 .. Len(queue[a].items)
      BY <1>0, Positions
    <3>4. <<a, i>> \in queued
      BY <3>2, <3>3
    <3>5. ASSUME NEW p \in queued  PROVE p = <<a, i>>
      <4>1. PICK b \in Agent :
              \E j \in DOMAIN queue[b].items : p = <<b, j>> /\ queue[b].items[j] = m
        OBVIOUS
      <4>a. PICK j \in DOMAIN queue[b].items : p = <<b, j>> /\ queue[b].items[j] = m
        BY <4>1
      <4> HIDE DEF queued
      <4>2. m \in Waiting(queue[b])
        BY <1>1, <4>a
      <4>3. b = a
        BY <1>0, <3>1, <4>2 DEF QueuePart
      <4>4. j = i
        <5>1. IsInjective(queue[a].items)
          BY <1>0 DEF QueuePart
        <5>2. i \in DOMAIN queue[a].items /\ j \in DOMAIN queue[a].items
              /\ queue[a].items[j] = queue[a].items[i]
          BY <3>2, <3>3, <4>a, <4>3
        <5> QED  BY <5>1, <5>2 DEF IsInjective
      <4> QED  BY <4>a, <4>3, <4>4
    <3>6. queued = {<<a, i>>}
      <4> HIDE DEF queued
      <4> QED  BY <3>4, <3>5
    <3> HIDE DEF queued
    <3> QED  BY <2>2, <3>6, FS_Singleton
  <2> QED  BY <2>1, <2>2
<1>3. Cardinality(held) = IF fate[m] = "held" THEN 1 ELSE 0
  <2>1. \A n : n \in held <=> n \in Message /\ at[n] \in Holding /\ work[n] = m
    BY DEF Active, Holding
  <2> HIDE DEF held
  <2>2. CASE fate[m] # "held"
    <3>1. held = {}
      BY <1>0, <2>1, <2>2 DEF CallPart
    <3> QED  BY <2>2, <3>1, FS_EmptySet
  <2>3. CASE fate[m] = "held"
    <3>1. PICK n \in Message : at[n] \in Holding /\ work[n] = m
      BY <1>0, <2>3 DEF CallPart
    <3>2. held = {n}
      BY <1>0, <2>1, <3>1 DEF CallPart
    <3> QED  BY <2>3, <3>2, FS_Singleton
  <2> QED  BY <2>2, <2>3
<1> QED  BY <1>2, <1>3

\* Queues that are emptied: their messages have come to their end.
Emptied(D, q, f) ==
  /\ D \subseteq Agent
  /\ \A a \in Agent : q[a] = IF a \in D THEN EmptyQueue ELSE queue[a]
  /\ \A m \in Message :
       f[m] = IF \E a \in D : m \in Waiting(queue[a]) THEN "over" ELSE fate[m]

LEMMA EmptiedQueues ==
  ASSUME Types, PlaceInv, NEW D, NEW q, NEW f, Emptied(D, q, f)
  PROVE  /\ QueuePart(q, f) /\ CallPart(work, at, f)
         /\ \A m \in Message : f[m] # fate[m] => fate[m] = "queued" /\ f[m] = "over"
<1>0. /\ D \subseteq Agent
      /\ \A a \in Agent : q[a] = IF a \in D THEN EmptyQueue ELSE queue[a]
      /\ \A m \in Message :
           f[m] = IF \E a \in D : m \in Waiting(queue[a]) THEN "over" ELSE fate[m]
  BY DEF Emptied
<1>1. QueuePart(queue, fate) /\ CallPart(work, at, fate)
  BY DEF PlaceInv
<1>2. \A m \in Message : f[m] # fate[m] => fate[m] = "queued" /\ f[m] = "over"
  BY <1>0, <1>1 DEF QueuePart
<1>3. \A a \in Agent : /\ a \in D => Waiting(q[a]) = {}
                       /\ a \notin D => q[a] = queue[a]
  BY <1>0, NothingWaits
<1>4. QueuePart(q, f)
  <2>1. \A a \in Agent : IsInjective(q[a].items)
    BY <1>0, <1>1, NothingWaits DEF QueuePart
  <2>2. \A a, b \in Agent : Waiting(q[a]) \cap Waiting(q[b]) # {} => a = b
    BY <1>1, <1>3 DEF QueuePart
  <2>3. ASSUME NEW m \in Message
        PROVE  f[m] = "queued" <=> \E a \in Agent : m \in Waiting(q[a])
    <3>1. CASE \E a \in D : m \in Waiting(queue[a])
      <4>1. PICK a \in D : m \in Waiting(queue[a])
        BY <3>1
      <4>2. \A b \in Agent : b # a => m \notin Waiting(queue[b])
        BY <1>0, <1>1, <4>1 DEF QueuePart
      <4> QED  BY <1>0, <1>3, <3>1, <4>1, <4>2
    <3>2. CASE ~\E a \in D : m \in Waiting(queue[a])
      BY <1>0, <1>1, <1>3, <3>2 DEF QueuePart
    <3> QED  BY <3>1, <3>2
  <2> QED  BY <2>1, <2>2, <2>3 DEF QueuePart
<1>5. CallPart(work, at, f)
  <2>1. \A m \in Message : /\ f[m] = "held" <=> fate[m] = "held"
                           /\ fate[m] = "over" => f[m] = "over"
    BY <1>2
  <2>2. \A n \in Message : at[n] \in {"leaving", "between"} => f[work[n]] = "over"
    BY <1>1, <2>1 DEF CallPart, Types
  <2> QED  BY <1>1, <2>1, <2>2 DEF CallPart
<1> QED  BY <1>2, <1>4, <1>5

\* A queue that gets a message, loses one, or keeps those it has.
LEMMA OneQueue ==
  ASSUME NEW q, NEW f, NEW a \in Agent, NEW x, NEW m \in Message, NEW v,
         q \in [Agent -> QueueType], f \in [Message -> Fates],
         QueuePart(q, f), IsInjective(x.items)
  PROVE  /\ Waiting(x) = Waiting(q[a]) \cup {m} /\ f[m] # "queued" =>
              QueuePart([q EXCEPT ![a] = x], [f EXCEPT ![m] = "queued"])
         /\ Waiting(x) = Waiting(q[a]) \ {m} /\ m \in Waiting(q[a]) /\ v # "queued" =>
              QueuePart([q EXCEPT ![a] = x], [f EXCEPT ![m] = v])
         /\ Waiting(x) = Waiting(q[a]) => QueuePart([q EXCEPT ![a] = x], f)
<1> DEFINE r == [q EXCEPT ![a] = x]
<1>1. \A b \in Agent : r[b] = IF b = a THEN x ELSE q[b]
  OBVIOUS
<1> HIDE DEF r
<1>2. \A b \in Agent : IsInjective(r[b].items)
  BY <1>1 DEF QueuePart
<1>3. \A n \in Message : f[n] = "queued" <=> \E b \in Agent : n \in Waiting(q[b])
  BY DEF QueuePart
<1>4. \A b, c \in Agent : \A n : n \in Waiting(q[b]) /\ n \in Waiting(q[c]) => b = c
  BY DEF QueuePart
<1>5. ASSUME Waiting(x) = Waiting(q[a]) \cup {m}, f[m] # "queued"
      PROVE  QueuePart(r, [f EXCEPT ![m] = "queued"])
  <2>1. \A b \in Agent : m \notin Waiting(q[b])
    BY <1>3, <1>5
  <2>2. \A b, c \in Agent : \A n : n \in Waiting(r[b]) /\ n \in Waiting(r[c]) => b = c
    BY <1>1, <1>4, <1>5, <2>1
  <2>3. \A n \in Message :
          [f EXCEPT ![m] = "queued"][n] = "queued" <=> \E b \in Agent : n \in Waiting(r[b])
    BY <1>1, <1>3, <1>5
  <2> QED  BY <1>2, <2>2, <2>3 DEF QueuePart
<1>6. ASSUME Waiting(x) = Waiting(q[a]) \ {m}, m \in Waiting(q[a]), v # "queued"
      PROVE  QueuePart(r, [f EXCEPT ![m] = v])
  <2>1. \A b, c \in Agent : \A n : n \in Waiting(r[b]) /\ n \in Waiting(r[c]) => b = c
    BY <1>1, <1>4, <1>6
  <2>2. \A b \in Agent : m \notin Waiting(r[b])
    BY <1>1, <1>4, <1>6
  <2>3. \A n \in Message :
          [f EXCEPT ![m] = v][n] = "queued" <=> \E b \in Agent : n \in Waiting(r[b])
    BY <1>1, <1>3, <1>6, <2>2
  <2> QED  BY <1>2, <2>1, <2>3 DEF QueuePart
<1>7. ASSUME Waiting(x) = Waiting(q[a])  PROVE QueuePart(r, f)
  <2>1. \A b \in Agent : Waiting(r[b]) = Waiting(q[b])
    BY <1>1, <1>7
  <2> QED  BY <1>2, <1>3, <1>4, <2>1 DEF QueuePart
<1> QED  BY <1>5, <1>6, <1>7 DEF r

\* A call takes a message to do, which no call had before.
LEMMA CallTakes ==
  ASSUME NEW w \in [Message -> Message], NEW s \in [Message -> Stages],
         NEW f \in [Message -> Fates], CallPart(w, s, f),
         NEW n \in Message, NEW m \in Message, NEW stage \in {"configuring", "preparing"},
         s[n] \notin Holding, f[m] \notin {"held", "over"}
  PROVE  CallPart([w EXCEPT ![n] = m], [s EXCEPT ![n] = stage], [f EXCEPT ![m] = "held"])
<1> DEFINE W == [w EXCEPT ![n] = m]
           S == [s EXCEPT ![n] = stage]
           F == [f EXCEPT ![m] = "held"]
<1>1. /\ \A k \in Message : W[k] = IF k = n THEN m ELSE w[k]
      /\ \A k \in Message : S[k] = IF k = n THEN stage ELSE s[k]
      /\ \A k \in Message : F[k] = IF k = m THEN "held" ELSE f[k]
  OBVIOUS
<1> HIDE DEF W, S, F
<1>2. stage \in Holding /\ stage \notin {"none", "leaving", "between"}
  BY DEF Holding
<1>3. \A k \in Message : s[k] \in Holding => w[k] # m
  BY DEF CallPart
<1>4. \A k, l \in Message : S[k] \in Holding /\ S[l] \in Holding /\ W[k] = W[l] => k = l
  BY <1>1, <1>3 DEF CallPart
<1>5. \A k \in Message : F[k] = "held" <=> \E l \in Message : S[l] \in Holding /\ W[l] = k
  BY <1>1, <1>2 DEF CallPart
<1>6. \A k \in Message : S[k] = "none" => W[k] = k
  BY <1>1, <1>2 DEF CallPart
<1>7. \A k \in Message : S[k] \in {"leaving", "between"} => F[W[k]] = "over"
  BY <1>1, <1>2 DEF CallPart
<1> QED  BY <1>4, <1>5, <1>6, <1>7 DEF CallPart, W, S, F

\* A call goes on with its message.
LEMMA CallGoesOn ==
  ASSUME NEW w \in [Message -> Message], NEW s \in [Message -> Stages],
         NEW f \in [Message -> Fates], CallPart(w, s, f),
         NEW n \in Message, NEW stage \in Holding, s[n] \in Holding
  PROVE  CallPart(w, [s EXCEPT ![n] = stage], f)
<1> DEFINE S == [s EXCEPT ![n] = stage]
<1>1. \A k \in Message : S[k] = IF k = n THEN stage ELSE s[k]
  OBVIOUS
<1> HIDE DEF S
<1>2. \A k \in Message : /\ S[k] \in Holding <=> s[k] \in Holding
                         /\ S[k] \notin Holding => S[k] = s[k]
  BY <1>1
<1>3. "none" \notin Holding /\ "leaving" \notin Holding /\ "between" \notin Holding
  BY DEF Holding
<1> QED  BY <1>2, <1>3 DEF CallPart, S

\* A call is through with its message, and stays or ends.
LEMMA CallLetsGo ==
  ASSUME NEW w \in [Message -> Message], NEW s \in [Message -> Stages],
         NEW f \in [Message -> Fates], CallPart(w, s, f),
         NEW n \in Message, s[n] \in Holding
  PROVE  /\ \A stage \in {"leaving", "between"} :
              CallPart(w, [s EXCEPT ![n] = stage], [f EXCEPT ![w[n]] = "over"])
         /\ CallPart([w EXCEPT ![n] = n], [s EXCEPT ![n] = "none"], [f EXCEPT ![w[n]] = "over"])
<1> DEFINE F == [f EXCEPT ![w[n]] = "over"]
           W == [w EXCEPT ![n] = n]
<1>1. /\ \A k \in Message : F[k] = IF k = w[n] THEN "over" ELSE f[k]
      /\ \A k \in Message : W[k] = IF k = n THEN n ELSE w[k]
      /\ w[n] \in Message
  OBVIOUS
<1> HIDE DEF F, W
<1>2. "none" \notin Holding /\ "leaving" \notin Holding /\ "between" \notin Holding
  BY DEF Holding
<1>3. \A k \in Message : s[k] \in Holding /\ w[k] = w[n] => k = n
  BY DEF CallPart
<1>4. ASSUME NEW stage \in {"leaving", "between"}
      PROVE  CallPart(w, [s EXCEPT ![n] = stage], F)
  <2> DEFINE S == [s EXCEPT ![n] = stage]
  <2>1. \A k \in Message : S[k] = IF k = n THEN stage ELSE s[k]
    OBVIOUS
  <2> HIDE DEF S
  <2>2. \A k, l \in Message : S[k] \in Holding /\ S[l] \in Holding /\ w[k] = w[l] => k = l
    BY <1>2, <2>1 DEF CallPart
  <2>3. \A k \in Message : F[k] = "held" <=> \E l \in Message : S[l] \in Holding /\ w[l] = k
    BY <1>1, <1>2, <1>3, <2>1 DEF CallPart
  <2>4. \A k \in Message : S[k] = "none" => w[k] = k
    BY <2>1 DEF CallPart
  <2>5. \A k \in Message : S[k] \in {"leaving", "between"} => F[w[k]] = "over"
    BY <1>1, <2>1 DEF CallPart
  <2> QED  BY <2>2, <2>3, <2>4, <2>5 DEF CallPart, S
<1>5. CallPart(W, [s EXCEPT ![n] = "none"], F)
  <2> DEFINE S == [s EXCEPT ![n] = "none"]
  <2>1. \A k \in Message : S[k] = IF k = n THEN "none" ELSE s[k]
    OBVIOUS
  <2> HIDE DEF S
  <2>2. \A k, l \in Message : S[k] \in Holding /\ S[l] \in Holding /\ W[k] = W[l] => k = l
    BY <1>1, <1>2, <2>1 DEF CallPart
  <2>3. \A k \in Message : F[k] = "held" <=> \E l \in Message : S[l] \in Holding /\ W[l] = k
    BY <1>1, <1>2, <1>3, <2>1 DEF CallPart
  <2>4. \A k \in Message : S[k] = "none" => W[k] = k
    BY <1>1, <2>1 DEF CallPart
  <2>5. \A k \in Message : S[k] \in {"leaving", "between"} => F[W[k]] = "over"
    BY <1>1, <2>1 DEF CallPart
  <2> QED  BY <2>2, <2>3, <2>4, <2>5 DEF CallPart, S
<1> QED  BY <1>4, <1>5 DEF F, W

\* A call that has no message to do stays or ends.
LEMMA CallLeaves ==
  ASSUME NEW w \in [Message -> Message], NEW s \in [Message -> Stages],
         NEW f \in [Message -> Fates], CallPart(w, s, f),
         NEW n \in Message, s[n] \in {"leaving", "between"}
  PROVE  /\ CallPart(w, [s EXCEPT ![n] = "between"], f)
         /\ CallPart([w EXCEPT ![n] = n], [s EXCEPT ![n] = "none"], f)
<1> DEFINE W == [w EXCEPT ![n] = n]
           S == [s EXCEPT ![n] = "between"]
           T == [s EXCEPT ![n] = "none"]
<1>1. /\ \A k \in Message : S[k] = IF k = n THEN "between" ELSE s[k]
      /\ \A k \in Message : T[k] = IF k = n THEN "none" ELSE s[k]
      /\ \A k \in Message : W[k] = IF k = n THEN n ELSE w[k]
  OBVIOUS
<1> HIDE DEF W, S, T
<1>2. "none" \notin Holding /\ "leaving" \notin Holding /\ "between" \notin Holding
  BY DEF Holding
<1>3. CallPart(w, S, f)
  BY <1>1, <1>2 DEF CallPart
<1>4. CallPart(W, T, f)
  <2>1. \A k \in Message : /\ T[k] \in Holding <=> s[k] \in Holding
                           /\ T[k] # "none" => T[k] = s[k] /\ W[k] = w[k]
                           /\ T[k] \in Holding => W[k] = w[k]
                           /\ s[k] \in Holding => W[k] = w[k]
    BY <1>1, <1>2
  <2>2. \A k, l \in Message : T[k] \in Holding /\ T[l] \in Holding /\ W[k] = W[l] => k = l
    BY <2>1 DEF CallPart
  <2>3. \A k \in Message : f[k] = "held" <=> \E l \in Message : T[l] \in Holding /\ W[l] = k
    BY <2>1 DEF CallPart
  <2>4. \A k \in Message : T[k] = "none" => W[k] = k
    BY <1>1 DEF CallPart
  <2>5. \A k \in Message : T[k] \in {"leaving", "between"} => f[W[k]] = "over"
    BY <1>1, <2>1 DEF CallPart
  <2> QED  BY <2>2, <2>3, <2>4, <2>5 DEF CallPart
<1> QED  BY <1>3, <1>4 DEF W, S, T

\* A message that is neither queued nor held changes nothing for the others.
LEMMA FateAside ==
  ASSUME NEW f \in [Message -> Fates], NEW m \in Message, NEW v
  PROVE  /\ \A q : QueuePart(q, f) /\ f[m] # "queued" /\ v # "queued" =>
                     QueuePart(q, [f EXCEPT ![m] = v])
         /\ CallPart(work, at, f) /\ work \in [Message -> Message]
              /\ f[m] \notin {"held", "over"} /\ v # "held" =>
                     CallPart(work, at, [f EXCEPT ![m] = v])
<1> DEFINE F == [f EXCEPT ![m] = v]
<1>1. \A k \in Message : F[k] = IF k = m THEN v ELSE f[k]
  OBVIOUS
<1> HIDE DEF F
<1>2. ASSUME NEW q, QueuePart(q, f), f[m] # "queued", v # "queued"  PROVE QueuePart(q, F)
  <2>1. \A k \in Message : F[k] = "queued" <=> f[k] = "queued"
    BY <1>1, <1>2
  <2> QED  BY <1>2, <2>1 DEF QueuePart
<1>3. ASSUME CallPart(work, at, f), work \in [Message -> Message],
             f[m] \notin {"held", "over"}, v # "held"
      PROVE  CallPart(work, at, F)
  <2>1. \A k \in Message : /\ F[k] = "held" <=> f[k] = "held"
                           /\ f[k] = "over" => F[k] = "over"
    BY <1>1, <1>3
  <2>2. \A k \in Message : at[k] \in {"leaving", "between"} => F[work[k]] = "over"
    BY <1>3, <2>1 DEF CallPart
  <2> QED  BY <1>3, <2>1, <2>2 DEF CallPart
<1> QED  BY <1>2, <1>3 DEF F

\* Disposing agents.
LEMMA PlacesAfterDispose ==
  ASSUME Held, PlaceInv, NEW D \in SUBSET Agent, Disposed(D)
  PROVE  /\ QueuePart(queue', FateWithout(D)) /\ CallPart(work, at, FateWithout(D))
         /\ FateWithout(D) \in [Message -> Fates]
         /\ \A m \in Message : fate[m] # "queued" => FateWithout(D)[m] = fate[m]
<1>1. \A a \in Agent : queue'[a] = IF a \in D THEN EmptyQueue ELSE queue[a]
  BY DisposedEffect DEF Held
<1>2. /\ FateWithout(D) \in [Message -> Fates]
      /\ \A m \in Message :
           FateWithout(D)[m] = IF \E a \in D : m \in Waiting(queue[a]) THEN "over" ELSE fate[m]
  BY FateWithoutType DEF Held, FateWithout
<1>3. /\ QueuePart(queue', FateWithout(D)) /\ CallPart(work, at, FateWithout(D))
      /\ \A m \in Message : FateWithout(D)[m] # fate[m] => fate[m] = "queued"
  <2>1. Emptied(D, queue', FateWithout(D))
    BY <1>1, <1>2 DEF Emptied
  <2> QED  BY <2>1, EmptiedQueues DEF Held
<1> QED  BY <1>2, <1>3

\* A new process has no messages anywhere.
LEMMA PlaceInvInit == Init => PlaceInv
<1> SUFFICES ASSUME Init  PROVE PlaceInv
  OBVIOUS
<1>1. \A a \in Agent : queue[a] = EmptyQueue
  BY DEF Init
<1>2. QueuePart(queue, fate)
  BY <1>1, NothingWaits DEF Init, QueuePart
<1>3. CallPart(work, at, fate)
  BY DEF Init, CallPart, Holding
<1> QED  BY <1>2, <1>3 DEF PlaceInv

\* Every step leaves every message in one place.
LEMMA PlaceInvStep == Held /\ PlaceInv /\ [Next]_vars => PlaceInv'
<1> SUFFICES ASSUME Held, PlaceInv, [Next]_vars  PROVE PlaceInv'
  OBVIOUS
<1>0. Types /\ CallsHold /\ PoolInjective /\ QueuePart(queue, fate) /\ CallPart(work, at, fate)
  BY DEF Held, PlaceInv
<1>t. /\ work \in [Message -> Message] /\ at \in [Message -> Stages]
      /\ fate \in [Message -> Fates] /\ queue \in [Agent -> QueueType]
      /\ pool \in [Conversation -> Agent \cup {None}]
  BY <1>0 DEF Types
<1>n. None \notin Agent /\ \A m \in Message : ConversationOf[m] \in Conversation
  BY NamesAssumption
<1>h. Holding = {"configuring", "creating", "preparing", "executing"}
  BY DEF Holding
\* What looking a conversation up in the pool leaves, when it empties queues.
<1>g. ASSUME NEW c \in Conversation, GetOrCreate(c)
      PROVE  /\ QueuePart(queue', FateWithout(Wiped(c)))
             /\ CallPart(work, at, FateWithout(Wiped(c)))
             /\ FateWithout(Wiped(c)) \in [Message -> Fates]
             /\ \A m \in Message : fate[m] # "queued" => FateWithout(Wiped(c))[m] = fate[m]
  <2>1. Wiped(c) \in SUBSET Agent /\ Disposed(Wiped(c))
    BY <1>0, <1>g, GetOrCreateEffect DEF GetOrCreate
  <2> QED  BY <2>1, PlacesAfterDispose
<1>1. ASSUME NEW m \in Message, Reject(m)  PROVE PlaceInv'
  <2> DEFINE F == FateWithout(Wiped(ConversationOf[m]))
  <2>1. /\ GetOrCreate(ConversationOf[m]) /\ fate[m] = "unsent"
        /\ fate' = [F EXCEPT ![m] = "over"] /\ UNCHANGED <<work, at>>
    BY <1>1 DEF Reject, callVars
  <2>2. /\ QueuePart(queue', F) /\ CallPart(work, at, F) /\ F \in [Message -> Fates]
        /\ F[m] = "unsent"
    BY <1>g, <1>n, <2>1
  <2> HIDE DEF F
  <2> QED  BY <1>t, <2>1, <2>2, FateAside DEF PlaceInv
<1>2. ASSUME NEW m \in Message, Enqueue(m)  PROVE PlaceInv'
  <2> DEFINE a == pool[ConversationOf[m]]
  <2>1. /\ a \in Agent /\ queue[a] \in QueueType /\ fate[m] = "unsent"
        /\ queue' = [queue EXCEPT ![a] = Enqueued(queue[a], m)]
        /\ fate' = [fate EXCEPT ![m] = "queued"] /\ UNCHANGED <<work, at>>
    BY <1>2, <1>t, <1>n DEF Enqueue, callVars
  <2> HIDE DEF a
  <2>2. m \notin Waiting(queue[a]) /\ IsInjective(queue[a].items)
    BY <1>0, <2>1 DEF QueuePart
  <2>3. /\ IsInjective(Enqueued(queue[a], m).items)
        /\ Waiting(Enqueued(queue[a], m)) = Waiting(queue[a]) \cup {m}
    BY <2>1, <2>2, EnqueuedOnce
  <2>4. QueuePart(queue', fate')
    BY <1>0, <1>t, <2>1, <2>3, OneQueue
  <2>5. CallPart(work, at, fate')
    BY <1>0, <1>t, <2>1, FateAside
  <2> QED  BY <2>1, <2>4, <2>5 DEF PlaceInv
<1>3. ASSUME NEW m \in Message, Send(m)  PROVE PlaceInv'
  <2> DEFINE F == FateWithout(Wiped(ConversationOf[m]))
  <2>1. /\ GetOrCreate(ConversationOf[m]) /\ fate[m] = "unsent"
        /\ fate' = [F EXCEPT ![m] = "held"] /\ UNCHANGED work
        /\ at' = [at EXCEPT ![m] = "configuring"]
    BY <1>3 DEF Send
  <2>2. /\ QueuePart(queue', F) /\ CallPart(work, at, F) /\ F \in [Message -> Fates]
        /\ F[m] = "unsent"
    BY <1>g, <1>n, <2>1
  <2> HIDE DEF F
  <2>3. QueuePart(queue', fate')
    BY <2>1, <2>2, FateAside
  <2>4. at[m] = "none" /\ work[m] = m
    BY <1>0, <2>1 DEF CallsHold, CallPart
  <2>5. work = [work EXCEPT ![m] = m] /\ at[m] \notin Holding
    BY <1>t, <1>h, <2>4
  <2>6. CallPart([work EXCEPT ![m] = m], [at EXCEPT ![m] = "configuring"], [F EXCEPT ![m] = "held"])
    BY <1>t, <2>2, <2>5, CallTakes
  <2>7. CallPart(work', at', fate')
    BY <2>1, <2>5, <2>6
  <2> QED  BY <2>3, <2>7 DEF PlaceInv
<1>4. ASSUME NEW m \in Message, Configured(m) \/ SessionReady(m)  PROVE PlaceInv'
  <2>1. at[m] \in Holding /\ UNCHANGED <<queue, work, fate>>
    BY <1>4, <1>h DEF Configured, SessionReady
  <2>s. PICK stage \in {"creating", "preparing"} : at' = [at EXCEPT ![m] = stage]
    BY <1>4 DEF Configured, SessionReady
  <2>2. CallPart(work, [at EXCEPT ![m] = stage], fate)
    BY <1>0, <1>t, <1>h, <2>1, CallGoesOn
  <2> QED  BY <1>0, <2>1, <2>s, <2>2 DEF PlaceInv
<1>5. ASSUME NEW m \in Message, Begin(m)  PROVE PlaceInv'
  <2> DEFINE F == FateWithout(Wiped(ConversationOf[m]))
  <2>1. /\ GetOrCreate(ConversationOf[m]) /\ at[m] \in Holding /\ UNCHANGED work
        /\ \/ /\ \E stage \in {"leaving", "between"} : at' = [at EXCEPT ![m] = stage]
              /\ fate' = [F EXCEPT ![work[m]] = "over"]
           \/ at' = [at EXCEPT ![m] = "executing"] /\ fate' = F
    BY <1>5, <1>h DEF Begin
  <2>2. work[m] \in Message /\ fate[work[m]] = "held"
    BY <1>0, <1>t, <2>1 DEF CallPart
  <2>3. /\ QueuePart(queue', F) /\ CallPart(work, at, F) /\ F \in [Message -> Fates]
        /\ F[work[m]] = "held"
    BY <1>g, <1>n, <2>1, <2>2
  <2> HIDE DEF F
  <2>4. CASE /\ \E stage \in {"leaving", "between"} : at' = [at EXCEPT ![m] = stage]
             /\ fate' = [F EXCEPT ![work[m]] = "over"]
    <3>1. QueuePart(queue', fate')
      BY <2>2, <2>3, <2>4, FateAside
    <3>s. PICK stage \in {"leaving", "between"} : at' = [at EXCEPT ![m] = stage]
      BY <2>4
    <3>c. CallPart(work, [at EXCEPT ![m] = stage], [F EXCEPT ![work[m]] = "over"])
      BY <1>t, <2>1, <2>3, CallLetsGo
    <3>2. CallPart(work, at', fate')
      BY <2>4, <3>s, <3>c
    <3> QED  BY <2>1, <3>1, <3>2 DEF PlaceInv
  <2>5. CASE at' = [at EXCEPT ![m] = "executing"] /\ fate' = F
    <3>1. CallPart(work, at', F)
      BY <1>t, <1>h, <2>1, <2>3, <2>5, CallGoesOn
    <3> QED  BY <2>1, <2>3, <2>5, <3>1 DEF PlaceInv
  <2> QED  BY <2>1, <2>4, <2>5
<1>6. ASSUME NEW m \in Message, SessionEnds(m)  PROVE PlaceInv'
  <2>1. /\ at[m] \in Holding /\ at' = [at EXCEPT ![m] = "leaving"]
        /\ fate' = [fate EXCEPT ![work[m]] = "over"] /\ UNCHANGED <<queue, work>>
    BY <1>6, <1>h DEF SessionEnds
  <2>2. work[m] \in Message /\ fate[work[m]] = "held"
    BY <1>0, <1>t, <2>1 DEF CallPart
  <2>3. QueuePart(queue, fate')
    BY <1>0, <1>t, <2>1, <2>2, FateAside
  <2>4. CallPart(work, at', fate')
    BY <1>0, <1>t, <2>1, CallLetsGo
  <2> QED  BY <2>1, <2>3, <2>4 DEF PlaceInv
<1>7. ASSUME NEW m \in Message, RunnerEnds(m)  PROVE PlaceInv'
  <2>1. at[m] = "leaving" /\ at' = [at EXCEPT ![m] = "between"] /\ UNCHANGED <<queue, work, fate>>
    BY <1>7 DEF RunnerEnds
  <2>2. CallPart(work, at', fate)
    BY <1>0, <1>t, <2>1, CallLeaves
  <2> QED  BY <1>0, <2>1, <2>2 DEF PlaceInv
<1>8. ASSUME NEW m \in Message, NextMessage(m)  PROVE PlaceInv'
  <2> DEFINE a == agent[m]
  <2>0. a \in Agent /\ queue[a] \in QueueType /\ at[m] = "between" /\ at[m] \notin Holding
        /\ IsInjective(queue[a].items)
    BY <1>0, <1>8, <1>t, <1>h DEF NextMessage, CallsHold, QueuePart
  <2>1. \/ \E i \in DOMAIN queue[a].items :
             /\ work' = [work EXCEPT ![m] = queue[a].items[i]]
             /\ queue' = [queue EXCEPT ![a] = Released(queue[a], i)]
             /\ fate' = [fate EXCEPT ![queue[a].items[i]] = "held"]
             /\ at' = [at EXCEPT ![m] = "preparing"]
        \/ /\ at' = [at EXCEPT ![m] = "none"] /\ work' = [work EXCEPT ![m] = m]
           /\ UNCHANGED <<queue, fate>>
    BY <1>8 DEF NextMessage
  <2> HIDE DEF a
  <2>2. ASSUME NEW i \in DOMAIN queue[a].items,
               work' = [work EXCEPT ![m] = queue[a].items[i]],
               queue' = [queue EXCEPT ![a] = Released(queue[a], i)],
               fate' = [fate EXCEPT ![queue[a].items[i]] = "held"],
               at' = [at EXCEPT ![m] = "preparing"]
        PROVE  PlaceInv'
    <3> DEFINE n == queue[a].items[i]
               x == Released(queue[a], i)
    <3>1. n \in Message /\ n \in Waiting(queue[a])
      BY <2>0, Positions
    <3>2. fate[n] = "queued"
      BY <1>0, <2>0, <3>1 DEF QueuePart
    <3>3. IsInjective(x.items) /\ Waiting(x) = Waiting(queue[a]) \ {n}
      <4>1. x.items = Taken(queue[a], i)
        BY <2>0 DEF Released, Taken, QueueType
      <4> QED  BY <2>0, <4>1, TakenOnce DEF Waiting
    <3>e. /\ work' = [work EXCEPT ![m] = n] /\ queue' = [queue EXCEPT ![a] = x]
          /\ fate' = [fate EXCEPT ![n] = "held"]
      BY <2>2
    <3> HIDE DEF n, x
    <3>4. QueuePart(queue', fate')
      BY <1>0, <1>t, <2>0, <3>1, <3>3, <3>e, OneQueue
    <3>c. CallPart([work EXCEPT ![m] = n], [at EXCEPT ![m] = "preparing"], [fate EXCEPT ![n] = "held"])
      BY <1>0, <1>t, <2>0, <3>1, <3>2, CallTakes
    <3>5. CallPart(work', at', fate')
      BY <2>2, <3>c, <3>e
    <3> QED  BY <3>4, <3>5 DEF PlaceInv
  <2>3. CASE /\ at' = [at EXCEPT ![m] = "none"] /\ work' = [work EXCEPT ![m] = m]
             /\ UNCHANGED <<queue, fate>>
    <3>1. CallPart(work', at', fate)
      BY <1>0, <1>t, <2>0, <2>3, CallLeaves
    <3> QED  BY <1>0, <2>3, <3>1 DEF PlaceInv
  <2> QED  BY <2>1, <2>2, <2>3
<1>9. ASSUME NEW m \in Message, Fail(m)  PROVE PlaceInv'
  <2>1. /\ at[m] \in Stages /\ at[m] # "none" /\ at' = [at EXCEPT ![m] = "none"]
        /\ work' = [work EXCEPT ![m] = m] /\ UNCHANGED queue
        /\ fate' = [fate EXCEPT ![work[m]] = IF fate[work[m]] = "held" THEN "over" ELSE fate[work[m]]]
        /\ work[m] \in Message
    BY <1>9, <1>t DEF Fail
  <2>2. CASE at[m] \in Holding
    <3>1. fate[work[m]] = "held"
      BY <1>0, <2>1, <2>2 DEF CallPart
    <3>2. fate' = [fate EXCEPT ![work[m]] = "over"]
      BY <2>1, <3>1
    <3>3. QueuePart(queue, [fate EXCEPT ![work[m]] = "over"])
      BY <1>0, <1>t, <2>1, <3>1, FateAside
    <3>4. CallPart([work EXCEPT ![m] = m], [at EXCEPT ![m] = "none"],
                   [fate EXCEPT ![work[m]] = "over"])
      BY <1>0, <1>t, <2>2, CallLetsGo
    <3> QED  BY <2>1, <3>2, <3>3, <3>4 DEF PlaceInv
  <2>3. CASE at[m] \notin Holding
    <3>1. at[m] \in {"leaving", "between"}
      BY <1>h, <2>1, <2>3 DEF Stages
    <3>2. fate[work[m]] = "over"
      BY <1>0, <3>1 DEF CallPart
    <3>3. fate' = fate
      BY <1>t, <2>1, <3>2
    <3>4. CallPart(work', at', fate)
      BY <1>0, <1>t, <2>1, <3>1, CallLeaves
    <3> QED  BY <1>0, <2>1, <3>3, <3>4 DEF PlaceInv
  <2> QED  BY <2>2, <2>3
<1>10. ASSUME NEW c \in Conversation, Open(c)  PROVE PlaceInv'
  <2>1. GetOrCreate(c) /\ fate' = FateWithout(Wiped(c)) /\ UNCHANGED <<work, at>>
    BY <1>10 DEF Open, callVars
  <2>2. QueuePart(queue', FateWithout(Wiped(c))) /\ CallPart(work, at, FateWithout(Wiped(c)))
    BY <1>g, <2>1
  <2> QED  BY <2>1, <2>2 DEF PlaceInv
<1>11. ASSUME NEW c \in Conversation, ClearPending(c)  PROVE PlaceInv'
  <2> DEFINE a == pool[c]
  <2>1. /\ a \in Agent /\ queue' = [queue EXCEPT ![a] = Cleared(Paused(queue[a]))]
        /\ fate' = [m \in Message |-> IF m \in Waiting(queue[a]) THEN "over" ELSE fate[m]]
        /\ UNCHANGED <<work, at>>
    BY <1>11, <1>t DEF ClearPending, callVars
  <2> HIDE DEF a
  <2>2. \A b \in Agent : queue'[b] = IF b \in {a} THEN EmptyQueue ELSE queue[b]
    BY <1>t, <2>1, QueueTypes
  <2>3. \A m \in Message :
          fate'[m] = IF \E b \in {a} : m \in Waiting(queue[b]) THEN "over" ELSE fate[m]
    BY <2>1
  <2>4. {a} \in SUBSET Agent
    BY <2>1
  <2>e. Emptied({a}, queue', fate')
    BY <2>2, <2>3, <2>4 DEF Emptied
  <2>5. QueuePart(queue', fate') /\ CallPart(work, at, fate')
    BY <1>0, <2>e, EmptiedQueues
  <2> QED  BY <2>1, <2>5 DEF PlaceInv
<1>12. ASSUME NEW c \in Conversation, Promote(c)  PROVE PlaceInv'
  <2> DEFINE a == pool[c]
  <2>1. PICK i \in DOMAIN queue[a].items : queue' = [queue EXCEPT ![a] = Promoted(queue[a], i)]
    BY <1>12 DEF Promote
  <2>2. /\ a \in Agent /\ queue[a] \in QueueType /\ IsInjective(queue[a].items)
        /\ UNCHANGED <<work, at, fate>>
    BY <1>0, <1>12, <1>t DEF Promote, callVars, QueuePart
  <2> HIDE DEF a
  <2> DEFINE x == Promoted(queue[a], i)
  <2>3. IsInjective(x.items) /\ Waiting(x) = Waiting(queue[a]) /\ queue' = [queue EXCEPT ![a] = x]
    BY <2>1, <2>2, TakenOnce
  <2> HIDE DEF x
  <2>m. PICK n \in Message : TRUE
    BY <2>1, <2>2, Positions
  <2>4. QueuePart(queue', fate)
    BY <1>0, <1>t, <2>2, <2>3, OneQueue
  <2> QED  BY <1>0, <2>2, <2>4 DEF PlaceInv
<1>13. ASSUME NEW c \in Conversation, RemoveItem(c)  PROVE PlaceInv'
  <2> DEFINE a == pool[c]
  <2>1. PICK i \in DOMAIN queue[a].items :
          /\ queue' = [queue EXCEPT ![a] = Removed(queue[a], i)]
          /\ fate' = [fate EXCEPT ![queue[a].items[i]] = "over"]
    BY <1>13 DEF RemoveItem
  <2>2. /\ a \in Agent /\ queue[a] \in QueueType /\ IsInjective(queue[a].items)
        /\ UNCHANGED <<work, at>>
    BY <1>0, <1>13, <1>t DEF RemoveItem, callVars, QueuePart
  <2> HIDE DEF a
  <2> DEFINE n == queue[a].items[i]
             x == Removed(queue[a], i)
  <2>3. n \in Message /\ n \in Waiting(queue[a])
    BY <2>2, Positions
  <2>4. fate[n] = "queued"
    BY <1>0, <2>2, <2>3 DEF QueuePart
  <2>5. IsInjective(x.items) /\ Waiting(x) = Waiting(queue[a]) \ {n}
    BY <2>2, TakenOnce DEF Removed, Waiting
  <2>e. queue' = [queue EXCEPT ![a] = x] /\ fate' = [fate EXCEPT ![n] = "over"]
    BY <2>1
  <2> HIDE DEF n, x
  <2>6. QueuePart(queue', fate')
    BY <1>0, <1>t, <2>2, <2>3, <2>5, <2>e, OneQueue
  <2>7. CallPart(work, at, fate')
    BY <1>0, <1>t, <2>3, <2>4, <2>e, FateAside
  <2> QED  BY <2>2, <2>6, <2>7 DEF PlaceInv
<1>14. ASSUME NEW c \in Conversation, RemoveConversation(c)  PROVE PlaceInv'
  <2> DEFINE D == {pool[c]}
  <2>1. /\ D \in SUBSET Agent /\ Disposed(D) /\ fate' = FateWithout(D)
        /\ UNCHANGED <<work, at>>
    BY <1>14, <1>t DEF RemoveConversation, callVars
  <2> HIDE DEF D
  <2> QED  BY <2>1, PlacesAfterDispose DEF PlaceInv
<1>15. CASE UNCHANGED vars
  <2>1. UNCHANGED <<queue, fate, work, at>>
    BY <1>15 DEF vars, agentVars, callVars
  <2> QED  BY <1>0, <2>1 DEF PlaceInv
<1> QED  BY <1>1, <1>2, <1>3, <1>4, <1>5, <1>6, <1>7, <1>8, <1>9, <1>10, <1>11,
            <1>12, <1>13, <1>14, <1>15 DEF Next, Arrive, Proceed, Command

\* No message is lost, run twice or left in two queues: it waits once in one
\* queue, or one call works on it, or it was not sent or has come to its end.
THEOREM MessagesAreInOnePlace == Spec => []MessagesInOnePlace
<1>1. Init => Held /\ PlaceInv
  BY HeldInit, PlaceInvInit
<1>2. Held /\ PlaceInv /\ [Next]_vars => Held' /\ PlaceInv'
  BY HeldStep, PlaceInvStep
<1> QED  BY <1>1, <1>2, PlacesCounted, PTL DEF Spec

-----------------------------------------------------------------------------
(***************************************************************************)
(* The pool's two records of who is in it, the contexts and the access     *)
(* order, agree, and its limit keeps its bounds.                           *)
(***************************************************************************)

OrderInv == order \in Seq(Conversation) /\ IsInjective(order) /\ ToSet(order) = Pooled

BoundInv == limit \in MaxAgents .. AbsoluteMaxAgents /\ stranded \subseteq Agent

\* Of the positions kept from 1 .. n, each k up to their number is the rank of
\* exactly one.
LEMMA Ranks ==
  ASSUME NEW n \in Nat, NEW K \in SUBSET (1 .. n)
  PROVE  /\ Cardinality(K) \in Nat
         /\ \A k \in 1 .. Cardinality(K) : \E i \in K : Cardinality(K \cap (1 .. i)) = k
         /\ \A i \in K : Cardinality(K \cap (1 .. i)) \in 1 .. Cardinality(K)
         /\ \A i, j \in K :
              Cardinality(K \cap (1 .. i)) = Cardinality(K \cap (1 .. j)) => i = j
<1> DEFINE low(i) == K \cap (1 .. i)
           rank == [i \in K |-> Cardinality(low(i))]
           m == Cardinality(K)
<1>1. IsFiniteSet(K) /\ m \in Nat
  <2>1. IsFiniteSet(1 .. n)
    BY FS_Interval
  <2>2. IsFiniteSet(K)
    BY <2>1, FS_Subset
  <2> QED  BY <2>2, FS_CardinalityType
<1>2. \A i \in K : IsFiniteSet(low(i)) /\ Cardinality(low(i)) \in 1 .. m
  <2> SUFFICES ASSUME NEW i \in K  PROVE IsFiniteSet(low(i)) /\ Cardinality(low(i)) \in 1 .. m
    OBVIOUS
  <2>1. low(i) \in SUBSET K /\ i \in low(i)
    OBVIOUS
  <2>2. IsFiniteSet(low(i)) /\ Cardinality(low(i)) <= m /\ Cardinality(low(i)) \in Nat
    BY <1>1, <2>1, FS_Subset, FS_CardinalityType
  <2>3. Cardinality(low(i)) # 0
    BY <2>1, <2>2, FS_EmptySet
  <2> QED  BY <1>1, <2>2, <2>3
<1>3. \A i, j \in K : i < j => Cardinality(low(i)) # Cardinality(low(j))
  <2> SUFFICES ASSUME NEW i \in K, NEW j \in K, i < j
               PROVE  Cardinality(low(i)) # Cardinality(low(j))
    OBVIOUS
  <2>1. low(i) \in SUBSET low(j) /\ j \in low(j) /\ j \notin low(i)
    OBVIOUS
  <2> QED  BY <1>2, <2>1, FS_Subset
<1>4. \A i, j \in K : Cardinality(low(i)) = Cardinality(low(j)) => i = j
  <2> SUFFICES ASSUME NEW i \in K, NEW j \in K, Cardinality(low(i)) = Cardinality(low(j))
               PROVE  i = j
    OBVIOUS
  <2>1. ~(i < j) /\ ~(j < i)
    BY <1>3
  <2> QED  BY <2>1
<1>5. rank \in Injection(K, 1 .. m)
  <2>1. rank \in [K -> 1 .. m]
    BY <1>2
  <2> QED  BY <1>4, <2>1 DEF Injection, IsInjective
<1>6. IsFiniteSet(1 .. m) /\ Cardinality(1 .. m) = m
  BY <1>1, FS_Interval
<1>7. rank \in Surjection(K, 1 .. m)
  <2> HIDE DEF rank, m
  <2>1. Cardinality(K) = Cardinality(1 .. m)
    BY <1>6 DEF m
  <2> QED  BY <1>5, <1>6, <2>1, FS_Injection
<1>8. \A k \in 1 .. m : \E i \in K : Cardinality(low(i)) = k
  BY <1>7 DEF Surjection
<1> QED  BY <1>1, <1>2, <1>8, <1>4

\* Taking conversations out of the access order leaves the others, each as
\* often as before.
LEMMA WithoutLists ==
  ASSUME order \in Seq(Conversation), IsInjective(order), NEW C
  PROVE  /\ Without(C) \in Seq(Conversation)
         /\ IsInjective(Without(C))
         /\ ToSet(Without(C)) = ToSet(order) \ C
<1> DEFINE n == Len(order)
           K == Kept(C)
           m == Cardinality(K)
           w == Without(C)
           place(k) == CHOOSE i \in K : Cardinality(K \cap (1 .. i)) = k
<1>1. n \in Nat /\ DOMAIN order = 1 .. n /\ \A i \in 1 .. n : order[i] \in Conversation
  BY LenProperties, ElementOfSeq
<1>2. K = {i \in 1 .. n : order[i] \notin C} /\ K \in SUBSET (1 .. n)
  BY <1>1 DEF Kept
<1>3. w = [k \in 1 .. m |-> order[place(k)]]
  BY DEF Without
<1> HIDE DEF n, K, w
<1>4. /\ m \in Nat
      /\ \A k \in 1 .. m : \E i \in K : Cardinality(K \cap (1 .. i)) = k
      /\ \A i \in K : Cardinality(K \cap (1 .. i)) \in 1 .. m
      /\ \A i, j \in K : Cardinality(K \cap (1 .. i)) = Cardinality(K \cap (1 .. j)) => i = j
  <2>1. n \in Nat /\ K \in SUBSET (1 .. n)
    BY <1>1, <1>2
  <2> HIDE DEF m
  <2>2. m = Cardinality(K)
    BY DEF m
  <2> QED  BY ONLY <2>1, <2>2, Ranks
<1>5. \A k \in 1 .. m : place(k) \in K /\ Cardinality(K \cap (1 .. place(k))) = k
  BY <1>4
<1> HIDE DEF m, place
<1>6. \A i, j \in K : order[i] = order[j] => i = j
  BY <1>1, <1>2 DEF IsInjective
<1>7. w \in Seq(Conversation) /\ DOMAIN w = 1 .. m
  <2>1. w \in [1 .. m -> Conversation]
    BY <1>1, <1>2, <1>3, <1>5
  <2> QED  BY <1>3, <1>4, <2>1, SeqDef
<1>8. IsInjective(w)
  <2> SUFFICES ASSUME NEW k \in 1 .. m, NEW l \in 1 .. m, w[k] = w[l]  PROVE k = l
    BY <1>7 DEF IsInjective
  <2>1. order[place(k)] = order[place(l)]
    BY <1>3
  <2>2. place(k) = place(l)
    BY <1>5, <1>6, <2>1
  <2> QED  BY <1>5, <2>2
<1>9. ToSet(w) \subseteq ToSet(order) \ C
  BY <1>1, <1>2, <1>3, <1>5, <1>7 DEF ToSet
<1>10. ToSet(order) \ C \subseteq ToSet(w)
  <2> SUFFICES ASSUME NEW i \in K  PROVE \E k \in 1 .. m : w[k] = order[i]
    BY <1>1, <1>2, <1>7 DEF ToSet
  <2>1. PICK k \in 1 .. m : Cardinality(K \cap (1 .. i)) = k
    BY <1>4
  <2>2. place(k) = i
    BY <1>4, <1>5, <2>1
  <2> QED  BY <1>3, <2>2
<1> QED  BY <1>7, <1>8, <1>9, <1>10 DEF w

\* Asking for a conversation takes it to the end of the access order.
LEMMA Accessed ==
  ASSUME order \in Seq(Conversation), IsInjective(order), NEW C, NEW c \in C,
         c \in Conversation, order' = Append(Without(C), c)
  PROVE  /\ order' \in Seq(Conversation) /\ IsInjective(order')
         /\ ToSet(order') = (ToSet(order) \ C) \cup {c}
<1> DEFINE w == Without(C)
           n == Len(w)
<1>1. /\ w \in Seq(Conversation) /\ IsInjective(w)
      /\ ToSet(w) = ToSet(order) \ C
  BY WithoutLists
<1> HIDE DEF w
<1>2. n \in Nat /\ DOMAIN w = 1 .. n
  BY <1>1, LenProperties
<1>3. /\ order' \in Seq(Conversation) /\ Len(order') = n + 1
      /\ \A i \in 1 .. n : order'[i] = w[i]
      /\ order'[n + 1] = c
  BY <1>1, AppendProperties DEF w
<1>4. DOMAIN order' = 1 .. n + 1
  BY <1>3, LenProperties
<1>5. \A i \in 1 .. n : w[i] # c
  BY <1>1, <1>2 DEF ToSet
<1> HIDE DEF n
<1>6. ToSet(order') = ToSet(w) \cup {c}
  BY <1>2, <1>3, <1>4 DEF ToSet
<1>7. IsInjective(order')
  <2> SUFFICES ASSUME NEW i \in 1 .. n + 1, NEW j \in 1 .. n + 1, order'[i] = order'[j]
               PROVE  i = j
    BY <1>4 DEF IsInjective
  <2>1. CASE i \in 1 .. n /\ j \in 1 .. n
    BY <1>1, <1>2, <1>3, <2>1 DEF IsInjective
  <2>2. CASE ~(i \in 1 .. n /\ j \in 1 .. n)
    BY <1>2, <1>3, <1>5, <2>2
  <2> QED  BY <2>1, <2>2
<1> QED  BY <1>1, <1>3, <1>6, <1>7

\* getOrCreateContext keeps contexts and access order in step, and the limit in
\* its bounds: it evicts from both, shrinks to the default and expands by one
\* below the maximum only.
LEMMA OrderAfterGetOrCreate ==
  ASSUME Types, OrderInv, limit \in MaxAgents .. AbsoluteMaxAgents,
         NEW c \in Conversation, GetOrCreate(c)
  PROVE  OrderInv' /\ limit' \in MaxAgents .. AbsoluteMaxAgents
<1>0. /\ order \in Seq(Conversation) /\ IsInjective(order) /\ ToSet(order) = Pooled
      /\ pool \in [Conversation -> Agent \cup {None}] /\ None \notin Agent
  BY NamesAssumption DEF OrderInv, Types
<1>1. CASE pool[c] # None
  <2>1. order' = Append(Without({c}), c) /\ UNCHANGED <<pool, limit>>
    BY <1>1 DEF GetOrCreate
  <2>2. order' \in Seq(Conversation) /\ IsInjective(order')
        /\ ToSet(order') = (ToSet(order) \ {c}) \cup {c}
    BY <1>0, <2>1, Accessed
  <2>3. c \in Pooled /\ Pooled' = Pooled
    BY <1>1, <2>1 DEF Pooled
  <2> QED  BY <1>0, <2>1, <2>2, <2>3 DEF OrderInv
<1>2. CASE pool[c] = None
  <2> DEFINE E == Evicted
             F == Fresh
  <2>1. /\ Agent \ InUse # {}
        /\ pool' = [PoolWithout(E) EXCEPT ![c] = F]
        /\ order' = Append(Without(E \cup {c}), c)
        /\ limit' = Expanded(Cardinality(E))
    BY <1>2 DEF GetOrCreate
  <2>2. F \in Agent
    BY <2>1 DEF Fresh
  <2> HIDE DEF E, F
  <2>3. order' \in Seq(Conversation) /\ IsInjective(order')
        /\ ToSet(order') = (ToSet(order) \ (E \cup {c})) \cup {c}
    BY <1>0, <2>1, Accessed
  <2>4. \A d \in Conversation :
          pool'[d] = IF d = c THEN F ELSE IF d \in E THEN None ELSE pool[d]
    BY <1>0, <2>1 DEF PoolWithout
  <2>5. Pooled' = (Pooled \ (E \cup {c})) \cup {c}
    BY <1>0, <2>2, <2>4 DEF Pooled
  <2>6. limit' \in MaxAgents .. AbsoluteMaxAgents
    BY <2>1, LimitsAssumption DEF Expanded, LimitAfter, LimitAt
  <2> QED  BY <1>0, <2>3, <2>5, <2>6 DEF OrderInv
<1> QED  BY <1>1, <1>2

\* An operation that looks the conversation up keeps contexts and order in step.
LEMMA OrderAfterLookup ==
  ASSUME OrderInv, NEW c \in Conversation, pool[c] # None,
         order' = Append(Without({c}), c), UNCHANGED pool
  PROVE  OrderInv'
<1>1. /\ order' \in Seq(Conversation) /\ IsInjective(order')
      /\ ToSet(order') = (ToSet(order) \ {c}) \cup {c}
  BY Accessed DEF OrderInv
<1>2. c \in Pooled /\ Pooled' = Pooled
  BY DEF Pooled
<1> QED  BY <1>1, <1>2 DEF OrderInv

\* A new process has nobody in the pool or the order.
LEMMA OrderInit == Init => OrderInv /\ BoundInv
<1> SUFFICES ASSUME Init  PROVE OrderInv /\ BoundInv
  OBVIOUS
<1>1. order = <<>> /\ Pooled = {}
  BY DEF Init, Pooled
<1>2. OrderInv
  BY <1>1 DEF OrderInv, IsInjective, ToSet
<1>3. BoundInv
  BY LimitsAssumption DEF Init, BoundInv
<1> QED  BY <1>2, <1>3

\* Every step keeps both.
LEMMA OrderStep == Held /\ OrderInv /\ BoundInv /\ [Next]_vars => OrderInv' /\ BoundInv'
<1> SUFFICES ASSUME Held, OrderInv, BoundInv, [Next]_vars  PROVE OrderInv' /\ BoundInv'
  OBVIOUS
<1>0. /\ Types /\ CallsHold
      /\ limit \in MaxAgents .. AbsoluteMaxAgents /\ stranded \subseteq Agent
  BY DEF Held, BoundInv
<1>n. \A m \in Message : ConversationOf[m] \in Conversation
  BY NamesAssumption
<1>k. ASSUME UNCHANGED poolVars  PROVE OrderInv' /\ limit' \in MaxAgents .. AbsoluteMaxAgents
  <2>1. UNCHANGED <<pool, order, limit>>
    BY <1>k DEF poolVars
  <2> QED  BY <1>0, <2>1 DEF OrderInv, Pooled
<1>g. ASSUME NEW c \in Conversation, GetOrCreate(c), stranded' \subseteq stranded
      PROVE  OrderInv' /\ BoundInv'
  <2>1. OrderInv' /\ limit' \in MaxAgents .. AbsoluteMaxAgents
    BY <1>0, <1>g, OrderAfterGetOrCreate
  <2> QED  BY <1>0, <1>g, <2>1 DEF BoundInv
<1>l. ASSUME NEW c \in Conversation, pool[c] # None, order' = Append(Without({c}), c),
             UNCHANGED <<pool, limit>>, stranded' \subseteq stranded
      PROVE  OrderInv' /\ BoundInv'
  <2>1. OrderInv'
    BY <1>l, OrderAfterLookup
  <2> QED  BY <1>0, <1>l, <2>1 DEF BoundInv
<1>1. ASSUME NEW m \in Message, Reject(m)  PROVE OrderInv' /\ BoundInv'
  BY <1>1, <1>g, <1>n DEF Reject
<1>2. ASSUME NEW m \in Message, Enqueue(m)  PROVE OrderInv' /\ BoundInv'
  BY <1>2, <1>l, <1>n DEF Enqueue
<1>3. ASSUME NEW m \in Message, Send(m)  PROVE OrderInv' /\ BoundInv'
  BY <1>3, <1>g, <1>n DEF Send
<1>4. ASSUME NEW m \in Message, Configured(m) \/ SessionReady(m)  PROVE OrderInv' /\ BoundInv'
  BY <1>4, <1>0, <1>k DEF Configured, SessionReady, BoundInv
<1>5. ASSUME NEW m \in Message, Begin(m)  PROVE OrderInv' /\ BoundInv'
  BY <1>5, <1>g, <1>n DEF Begin
<1>6. ASSUME NEW m \in Message, SessionEnds(m)  PROVE OrderInv' /\ BoundInv'
  BY <1>6, <1>0, <1>k DEF SessionEnds, BoundInv
<1>7. ASSUME NEW m \in Message, RunnerEnds(m)  PROVE OrderInv' /\ BoundInv'
  BY <1>7, <1>0, <1>k DEF RunnerEnds, BoundInv
<1>8. ASSUME NEW m \in Message, NextMessage(m)  PROVE OrderInv' /\ BoundInv'
  BY <1>8, <1>0, <1>k DEF NextMessage, BoundInv
<1>9. ASSUME NEW m \in Message, Fail(m)  PROVE OrderInv' /\ BoundInv'
  <2>1. agent[m] \in Agent
    BY <1>0, <1>9 DEF Fail, CallsHold
  <2>2. stranded' \subseteq stranded \cup {agent[m]} /\ UNCHANGED poolVars
    BY <1>9 DEF Fail
  <2> QED  BY <1>0, <1>k, <2>1, <2>2 DEF BoundInv
<1>10. ASSUME NEW c \in Conversation, Open(c)  PROVE OrderInv' /\ BoundInv'
  BY <1>10, <1>g DEF Open
<1>11. ASSUME NEW c \in Conversation, ClearPending(c)  PROVE OrderInv' /\ BoundInv'
  BY <1>11, <1>l DEF ClearPending
<1>12. ASSUME NEW c \in Conversation, Promote(c)  PROVE OrderInv' /\ BoundInv'
  BY <1>12, <1>l DEF Promote
<1>13. ASSUME NEW c \in Conversation, RemoveItem(c)  PROVE OrderInv' /\ BoundInv'
  <2>1. stranded' \subseteq stranded
    BY <1>13 DEF RemoveItem
  <2> QED  BY <1>13, <1>l, <2>1 DEF RemoveItem
<1>14. ASSUME NEW c \in Conversation, RemoveConversation(c)  PROVE OrderInv' /\ BoundInv'
  <2>1. /\ pool' = PoolWithout({c}) /\ order' = Without({c})
        /\ limit' = LimitAt(SizeAfter(1)) /\ stranded' \subseteq stranded
    BY <1>14 DEF RemoveConversation
  <2>2. /\ order' \in Seq(Conversation) /\ IsInjective(order')
        /\ ToSet(order') = ToSet(order) \ {c}
    BY <2>1, WithoutLists DEF OrderInv
  <2>3. Pooled' = Pooled \ {c}
    BY <2>1 DEF Pooled, PoolWithout
  <2>4. limit' \in MaxAgents .. AbsoluteMaxAgents
    BY <1>0, <2>1, LimitsAssumption DEF LimitAt
  <2> QED  BY <1>0, <2>1, <2>2, <2>3, <2>4 DEF OrderInv, BoundInv
<1>15. CASE UNCHANGED vars
  <2>1. UNCHANGED poolVars /\ UNCHANGED stranded
    BY <1>15 DEF vars, agentVars
  <2> QED  BY <1>0, <1>k, <2>1 DEF BoundInv
<1> QED  BY <1>1, <1>2, <1>3, <1>4, <1>5, <1>6, <1>7, <1>8, <1>9, <1>10, <1>11,
            <1>12, <1>13, <1>14, <1>15 DEF Next, Arrive, Proceed, Command

\* The pool's access order lists the conversations that have an agent, each
\* once, so that an idle agent is found when room is needed; the limit stays
\* between the default and the absolute maximum; every variable has its type.
THEOREM PoolAndOrderAgree == Spec => []TypeOK
<1>1. Init => Held /\ OrderInv /\ BoundInv
  BY HeldInit, OrderInit
<1>2. Held /\ OrderInv /\ BoundInv /\ [Next]_vars => Held' /\ OrderInv' /\ BoundInv'
  BY HeldStep, OrderStep
<1>3. Held /\ OrderInv /\ BoundInv => TypeOK
  BY DEF Held, Types, QueueType, OrderInv, BoundInv, TypeOK
<1> QED  BY <1>1, <1>2, <1>3, PTL DEF Spec

-----------------------------------------------------------------------------
(***************************************************************************)
(* The pool's size.  _evictIfNeeded makes room as long as somebody is      *)
(* idle, and lets the pool grow otherwise, past its limit even.            *)
(***************************************************************************)

\* The pool is larger than its limit only when the limit can rise no further.
PoolWithinLimit == Cardinality(Pooled) <= limit \/ limit = AbsoluteMaxAgents

\* A new agent raises the limit, or comes on top of it, only when every agent
\* that stays in the pool is running.
GrowsWhenAllRun ==
  [][/\ Pooled' \ Pooled # {}
     /\ limit' > limit \/ Cardinality(Pooled') > limit'
     => \A d \in Pooled \cap Pooled' : pool[d] \in running]_vars

\* A set of naturals has a least element.
LEMMA Least ==
  ASSUME NEW S \in SUBSET Nat, S # {}
  PROVE  \E i \in S : \A j \in S : i <= j
<1> DEFINE R == OpToRel(<, Nat)
<1>1. IsWellFoundedOn(R, Nat)
  BY NatLessThanWellFounded
<1> HIDE DEF R
<1>2. PICK i \in S : \A j \in S : ~(<<j, i>> \in R)
  BY <1>1, WFMin
<1>3. \A j \in S : ~(j < i)
  BY <1>2 DEF R, OpToRel
<1> QED  BY <1>3

\* A set of numbers up to n has a greatest element.
LEMMA Greatest ==
  ASSUME NEW n \in Nat, NEW S \in SUBSET (1 .. n), S # {}
  PROVE  \E i \in S : \A j \in S : j <= i
<1> DEFINE T == {t \in Nat : \E i \in S : t = n - i}
<1>1. \A i \in S : i \in 1 .. n /\ n - i \in T
  OBVIOUS
<1>2. PICK t \in T : \A u \in T : t <= u
  <2>1. T \in SUBSET Nat /\ T # {}
    BY <1>1
  <2> HIDE DEF T
  <2> QED  BY <2>1, Least
<1>3. PICK i \in S : t = n - i
  BY <1>2
<1>4. \A j \in S : n - i <= n - j
  BY <1>1, <1>2, <1>3
<1> QED  BY <1>1, <1>3, <1>4

\* Every pooled conversation has a position of its own in the access order.
LEMMA PositionsApart ==
  ASSUME OrderInv
  PROVE  /\ Len(order) \in Nat
         /\ \A c \in Pooled : PositionOf(c) \in 1 .. Len(order) /\ order[PositionOf(c)] = c
         /\ \A c, d \in Pooled : PositionOf(c) = PositionOf(d) => c = d
<1>1. Len(order) \in Nat /\ DOMAIN order = 1 .. Len(order)
  BY LenProperties DEF OrderInv
<1>2. \A c \in Pooled : \E i \in DOMAIN order : order[i] = c
  BY DEF OrderInv, ToSet
<1>3. \A c \in Pooled : PositionOf(c) \in DOMAIN order /\ order[PositionOf(c)] = c
  BY <1>2 DEF PositionOf
<1> QED  BY <1>1, <1>3

\* Idle agents are pooled, and finitely many.
LEMMA IdleFinite ==
  IsFiniteSet(Pooled) /\ Cardinality(Pooled) \in Nat /\ Idle \subseteq Pooled
  /\ IsFiniteSet(Idle)
<1>1. Pooled \in SUBSET Conversation /\ Idle \in SUBSET Pooled
  BY DEF Pooled, Idle
<1>2. IsFiniteSet(Pooled)
  BY <1>1, NamesAssumption, FS_Subset
<1> QED  BY <1>1, <1>2, FS_Subset, FS_CardinalityType

\* Idle agents used before c are fewer than those used before d, if c was.
LEMMA IdleBeforeGrows ==
  ASSUME OrderInv, NEW c \in Idle, NEW d \in Idle
  PROVE  /\ IdleBefore(c) \in Nat
         /\ PositionOf(c) < PositionOf(d) => IdleBefore(c) < IdleBefore(d)
<1> DEFINE before(e) == {x \in Idle : PositionOf(x) < PositionOf(e)}
<1>1. \A x \in Idle : PositionOf(x) \in Nat
  BY PositionsApart, IdleFinite
<1>2. \A e \in Idle : IsFiniteSet(before(e)) /\ Cardinality(before(e)) \in Nat
  <2> SUFFICES ASSUME NEW e \in Idle
               PROVE  IsFiniteSet(before(e)) /\ Cardinality(before(e)) \in Nat
    OBVIOUS
  <2>1. before(e) \in SUBSET Idle
    OBVIOUS
  <2>2. IsFiniteSet(before(e))
    BY <2>1, IdleFinite, FS_Subset
  <2> QED  BY <2>2, FS_CardinalityType
<1>3. ASSUME PositionOf(c) < PositionOf(d)
      PROVE  Cardinality(before(c)) < Cardinality(before(d))
  <2>1. c \in before(d) /\ c \notin before(c)
    BY <1>1, <1>3
  <2>2. before(c) \in SUBSET before(d)
    BY <1>1, <1>3
  <2> HIDE DEF before
  <2>3. /\ Cardinality(before(c)) <= Cardinality(before(d))
        /\ Cardinality(before(d)) = Cardinality(before(c)) => before(d) = before(c)
    BY <1>2, <2>2, FS_Subset
  <2> QED  BY <1>2, <2>1, <2>3
<1> QED  BY <1>2, <1>3 DEF IdleBefore

\* The loop stops with the pool still full only when nobody is idle any more.
LEMMA FullWhenAllRun ==
  ASSUME OrderInv, FullAfter(Cardinality(Evicted))
  PROVE  Evicted = Idle
<1> DEFINE E == Evicted
           pos(c) == PositionOf(c)
<1>0. /\ E \subseteq Idle /\ IsFiniteSet(E) /\ Cardinality(E) \in Nat
      /\ \A c \in E : \A k \in 0 .. IdleBefore(c) : FullAfter(k)
      /\ \A c \in Idle : (\A k \in 0 .. IdleBefore(c) : FullAfter(k)) => c \in E
  <2>1. E \in SUBSET Idle
    BY DEF Evicted
  <2>2. IsFiniteSet(E)
    BY <2>1, IdleFinite, FS_Subset
  <2> QED  BY <2>1, <2>2, FS_CardinalityType DEF Evicted
<1>1. /\ Len(order) \in Nat
      /\ \A c \in Idle : pos(c) \in 1 .. Len(order)
      /\ \A c, d \in Idle : pos(c) = pos(d) => c = d
  BY PositionsApart, IdleFinite
<1>2. \A c, d \in Idle : IdleBefore(c) \in Nat /\ (pos(c) < pos(d) => IdleBefore(c) < IdleBefore(d))
  BY IdleBeforeGrows
<1>3. FullAfter(Cardinality(E))
  OBVIOUS
<1> HIDE DEF E, pos
<1> SUFFICES ASSUME E # Idle  PROVE FALSE
  BY DEF E
<1>4. PICK d \in Idle \ E : \A c \in Idle \ E : pos(d) <= pos(c)
  <2> DEFINE S == {i \in Nat : \E c \in Idle \ E : i = pos(c)}
  <2>1. \A c \in Idle \ E : pos(c) \in S
    BY <1>1
  <2>2. PICK i \in S : \A j \in S : i <= j
    <3>1. S \in SUBSET Nat /\ S # {}
      BY <1>0, <2>1
    <3> HIDE DEF S
    <3> QED  BY <3>1, Least
  <2> QED  BY <2>1, <2>2
<1>5. \A e \in E : pos(e) < pos(d)
  <2> SUFFICES ASSUME NEW e \in E, pos(d) < pos(e)  PROVE FALSE
    BY <1>0, <1>1, <1>4
  <2>1. IdleBefore(d) < IdleBefore(e) /\ IdleBefore(d) \in Nat /\ IdleBefore(e) \in Nat
    BY <1>0, <1>2, <1>4
  <2>2. \A k \in 0 .. IdleBefore(d) : FullAfter(k)
    BY <1>0, <2>1
  <2> QED  BY <1>0, <1>4, <2>2
<1>6. IdleBefore(d) = Cardinality(E)
  <2>1. {c \in Idle : pos(c) < pos(d)} = E
    BY <1>0, <1>1, <1>4, <1>5
  <2> QED  BY <2>1 DEF IdleBefore, pos
<1>7. \A k \in 0 .. Cardinality(E) - 1 : FullAfter(k)
  <2>1. CASE E = {}
    BY <1>0, <2>1, FS_EmptySet
  <2>2. CASE E # {}
    <3> DEFINE S == {i \in 1 .. Len(order) : \E c \in E : i = pos(c)}
    <3>1. \A c \in E : pos(c) \in S
      BY <1>0, <1>1
    <3>2. PICK i \in S : \A j \in S : j <= i
      <4>1. S \in SUBSET (1 .. Len(order)) /\ S # {}
        BY <2>2, <3>1
      <4> HIDE DEF S
      <4> QED  BY <1>1, <4>1, Greatest
    <3>3. PICK e \in E : i = pos(e)
      BY <3>2
    <3>4. {c \in Idle : pos(c) < pos(e)} = E \ {e}
      <4>1. \A c \in Idle : pos(c) < pos(e) => c \in E \ {e}
        BY <1>0, <1>1, <1>4, <1>5, <3>3
      <4>2. \A c \in E \ {e} : pos(c) < pos(e)
        <5> SUFFICES ASSUME NEW c \in E \ {e}  PROVE pos(c) < pos(e)
          OBVIOUS
        <5>1. pos(c) <= pos(e) /\ pos(c) # pos(e)
          BY <1>0, <1>1, <3>1, <3>2, <3>3
        <5> QED  BY <1>0, <1>1, <5>1
      <4> QED  BY <1>0, <4>1, <4>2
    <3>5. IdleBefore(e) = Cardinality(E \ {e})
      BY <3>4 DEF IdleBefore, pos
    <3>6. Cardinality(E \ {e}) = Cardinality(E) - 1
      BY <1>0, <3>3, FS_RemoveElement
    <3> QED  BY <1>0, <3>3, <3>5, <3>6
  <2> QED  BY <2>1, <2>2
<1>8. \A k \in 0 .. IdleBefore(d) : FullAfter(k)
  BY <1>0, <1>3, <1>6, <1>7
<1> QED  BY <1>0, <1>4, <1>8

\* What making an agent does to the pool's size and limit, in terms of the
\* evictions before it.
LEMMA PoolAfterCreation ==
  ASSUME Types, BoundInv, NEW c \in Conversation, pool[c] = None, GetOrCreate(c)
  PROVE  LET k == Cardinality(Evicted) IN
         /\ k \in Nat /\ k <= Cardinality(Pooled)
         /\ Pooled' = (Pooled \ Evicted) \cup {c}
         /\ Cardinality(Pooled') = SizeAfter(k) + 1
         /\ limit' = Expanded(k)
         /\ LimitAfter(k) \in MaxAgents .. AbsoluteMaxAgents
<1> DEFINE E == Evicted
           F == Fresh
           k == Cardinality(E)
<1>0. /\ pool \in [Conversation -> Agent \cup {None}] /\ None \notin Agent
      /\ limit \in MaxAgents .. AbsoluteMaxAgents
  BY NamesAssumption DEF Types, BoundInv
<1>1. /\ Agent \ InUse # {}
      /\ pool' = [PoolWithout(E) EXCEPT ![c] = F]
      /\ limit' = Expanded(k)
  BY DEF GetOrCreate
<1>2. F \in Agent
  BY <1>1 DEF Fresh
<1>3. E \in SUBSET Pooled
  BY IdleFinite DEF Evicted
<1>4. LimitAfter(k) \in MaxAgents .. AbsoluteMaxAgents
  BY <1>0, LimitsAssumption DEF LimitAfter, LimitAt
<1> HIDE DEF E, F
<1>5. \A d \in Conversation :
        pool'[d] = IF d = c THEN F ELSE IF d \in E THEN None ELSE pool[d]
  BY <1>0, <1>1 DEF PoolWithout
<1>6. Pooled' = (Pooled \ E) \cup {c} /\ c \notin Pooled
  BY <1>0, <1>2, <1>5 DEF Pooled
<1>7. k \in Nat /\ k <= Cardinality(Pooled) /\ IsFiniteSet(Pooled \ E)
      /\ Cardinality(Pooled \ E) = Cardinality(Pooled) - k
  <2>1. IsFiniteSet(E) /\ k <= Cardinality(Pooled)
    BY <1>3, IdleFinite, FS_Subset
  <2>2. k \in Nat
    BY <2>1, FS_CardinalityType
  <2>3. IsFiniteSet(Pooled \ E)
    BY IdleFinite, FS_Difference
  <2>4. Cardinality(Pooled \ E) = Cardinality(Pooled) - Cardinality(Pooled \cap E)
    BY IdleFinite, FS_Difference
  <2>5. Pooled \cap E = E
    BY <1>3
  <2> QED  BY <2>1, <2>2, <2>3, <2>4, <2>5
<1>8. Cardinality(Pooled') = SizeAfter(k) + 1
  <2>1. Cardinality((Pooled \ E) \cup {c}) = Cardinality(Pooled \ E) + 1
    BY <1>6, <1>7, FS_AddElement
  <2> QED  BY <1>6, <1>7, <2>1 DEF SizeAfter
<1> QED  BY <1>1, <1>4, <1>6, <1>7, <1>8 DEF E

\* getOrCreateContext keeps the pool within its limit while that can rise.
LEMMA LimitAfterGetOrCreate ==
  ASSUME Types, BoundInv, PoolWithinLimit, NEW c \in Conversation, GetOrCreate(c)
  PROVE  PoolWithinLimit'
<1>0. /\ Cardinality(Pooled) \in Nat /\ limit \in MaxAgents .. AbsoluteMaxAgents
      /\ MaxAgents \in Nat /\ AbsoluteMaxAgents \in Nat
  BY IdleFinite, LimitsAssumption DEF BoundInv
<1>1. CASE pool[c] # None
  <2>1. UNCHANGED <<pool, limit>>
    BY <1>1 DEF GetOrCreate
  <2> QED  BY <2>1 DEF PoolWithinLimit, Pooled
<1>2. CASE pool[c] = None
  <2> DEFINE k == Cardinality(Evicted)
             size == SizeAfter(k)
             bound == LimitAfter(k)
  <2>1. /\ k \in Nat /\ k <= Cardinality(Pooled)
        /\ Cardinality(Pooled') = size + 1
        /\ limit' = Expanded(k)
        /\ bound \in MaxAgents .. AbsoluteMaxAgents
    BY <1>2, PoolAfterCreation
  <2>2. size \in Nat /\ size = Cardinality(Pooled) - k
    BY <1>0, <2>1 DEF SizeAfter
  <2>3. limit' = IF size >= bound /\ bound < AbsoluteMaxAgents THEN bound + 1 ELSE bound
    BY <2>1 DEF Expanded, FullAfter
  <2>4. size <= bound \/ bound = AbsoluteMaxAgents
    <3>1. CASE k = 0
      BY <1>0, <2>2, <3>1 DEF PoolWithinLimit, LimitAfter
    <3>2. CASE k # 0
      <4>1. bound = IF size <= MaxAgents THEN MaxAgents ELSE limit
        BY <3>2 DEF LimitAfter, LimitAt
      <4> HIDE DEF size, bound, k
      <4> QED  BY <1>0, <2>1, <2>2, <4>1 DEF PoolWithinLimit
    <3> QED  BY <3>1, <3>2
  <2> HIDE DEF size, bound, k
  <2>5. size + 1 <= limit' \/ limit' = AbsoluteMaxAgents
    BY <1>0, <2>1, <2>2, <2>3, <2>4
  <2> QED  BY <2>1, <2>5 DEF PoolWithinLimit
<1> QED  BY <1>1, <1>2

\* Every step keeps the pool within its limit.
LEMMA WithinLimitStep ==
  Held /\ BoundInv /\ PoolWithinLimit /\ [Next]_vars => PoolWithinLimit'
<1> SUFFICES ASSUME Held, BoundInv, PoolWithinLimit, [Next]_vars  PROVE PoolWithinLimit'
  OBVIOUS
<1>0. Types
  BY DEF Held
<1>n. \A m \in Message : ConversationOf[m] \in Conversation
  BY NamesAssumption
<1>k. ASSUME UNCHANGED <<pool, limit>>  PROVE PoolWithinLimit'
  BY <1>k DEF PoolWithinLimit, Pooled
<1>g. ASSUME NEW c \in Conversation, GetOrCreate(c)  PROVE PoolWithinLimit'
  BY <1>0, <1>g, LimitAfterGetOrCreate
<1>1. ASSUME NEW m \in Message, Arrive(m)  PROVE PoolWithinLimit'
  BY <1>1, <1>g, <1>k, <1>n DEF Arrive, Reject, Enqueue, Send
<1>2. ASSUME NEW m \in Message, Begin(m)  PROVE PoolWithinLimit'
  BY <1>2, <1>g, <1>n DEF Begin
<1>3. ASSUME NEW m \in Message, Configured(m) \/ SessionReady(m) \/ SessionEnds(m)
                                \/ RunnerEnds(m) \/ NextMessage(m) \/ Fail(m)
      PROVE  PoolWithinLimit'
  BY <1>3, <1>k DEF Configured, SessionReady, SessionEnds, RunnerEnds, NextMessage, Fail, poolVars
<1>4. ASSUME NEW c \in Conversation, Open(c) \/ ClearPending(c) \/ Promote(c) \/ RemoveItem(c)
      PROVE  PoolWithinLimit'
  BY <1>4, <1>g, <1>k DEF Open, ClearPending, Promote, RemoveItem
<1>5. ASSUME NEW c \in Conversation, RemoveConversation(c)  PROVE PoolWithinLimit'
  <2>1. pool[c] # None /\ pool' = PoolWithout({c}) /\ limit' = LimitAt(SizeAfter(1))
    BY <1>5 DEF RemoveConversation
  <2>2. Pooled' = Pooled \ {c} /\ c \in Pooled
    BY <2>1 DEF Pooled, PoolWithout
  <2>3. Cardinality(Pooled') = SizeAfter(1)
    BY <2>2, IdleFinite, FS_RemoveElement DEF SizeAfter
  <2>4. SizeAfter(1) = Cardinality(Pooled) - 1 /\ Cardinality(Pooled) \in Nat
    BY IdleFinite DEF SizeAfter
  <2>5. limit' = IF SizeAfter(1) <= MaxAgents THEN MaxAgents ELSE limit
    BY <2>1 DEF LimitAt
  <2> QED  BY <2>3, <2>4, <2>5, LimitsAssumption DEF PoolWithinLimit, BoundInv
<1>6. CASE UNCHANGED vars
  BY <1>6, <1>k DEF vars, poolVars
<1> QED  BY <1>1, <1>2, <1>3, <1>4, <1>5, <1>6 DEF Next, Proceed, Command

\* A new agent comes on top of the limit only when nobody is idle.
LEMMA CreationFull ==
  ASSUME Types, OrderInv, BoundInv, NEW c \in Conversation, GetOrCreate(c),
         Pooled' \ Pooled # {}, limit' > limit \/ Cardinality(Pooled') > limit'
  PROVE  \A d \in Pooled \cap Pooled' : pool[d] \in running
<1> DEFINE k == Cardinality(Evicted)
<1>0. /\ Cardinality(Pooled) \in Nat /\ limit \in MaxAgents .. AbsoluteMaxAgents
      /\ MaxAgents \in Nat /\ AbsoluteMaxAgents \in Nat
  BY IdleFinite, LimitsAssumption DEF BoundInv
<1>1. pool[c] = None
  <2> SUFFICES ASSUME pool[c] # None  PROVE FALSE
    OBVIOUS
  <2>1. UNCHANGED pool
    BY DEF GetOrCreate
  <2> QED  BY <2>1 DEF Pooled
<1>2. /\ k \in Nat /\ k <= Cardinality(Pooled)
      /\ Pooled' = (Pooled \ Evicted) \cup {c}
      /\ Cardinality(Pooled') = SizeAfter(k) + 1
      /\ limit' = Expanded(k)
      /\ LimitAfter(k) \in MaxAgents .. AbsoluteMaxAgents
  BY <1>1, PoolAfterCreation
<1>3. SizeAfter(k) \in Nat
  BY <1>0, <1>2 DEF SizeAfter
<1>4. LimitAfter(k) <= limit
  BY <1>0 DEF LimitAfter, LimitAt
<1>5. FullAfter(k)
  <2> SUFFICES ASSUME ~FullAfter(k)  PROVE FALSE
    OBVIOUS
  <2>1. limit' = LimitAfter(k) /\ ~(SizeAfter(k) >= LimitAfter(k))
    BY <1>2 DEF Expanded, FullAfter
  <2> HIDE DEF k
  <2> QED  BY <1>0, <1>2, <1>3, <1>4, <2>1
<1>6. Evicted = Idle
  BY <1>5, FullWhenAllRun
<1>7. \A d \in Pooled \cap Pooled' : d \notin Idle
  BY <1>1, <1>2, <1>6 DEF Pooled
<1> QED  BY <1>7 DEF Idle

\* Every step that grows the pool obeys the rule.
LEMMA GrowthStep ==
  ASSUME Held, OrderInv, BoundInv, [Next]_vars, Pooled' \ Pooled # {},
         limit' > limit \/ Cardinality(Pooled') > limit'
  PROVE  \A d \in Pooled \cap Pooled' : pool[d] \in running
<1>0. Types
  BY DEF Held
<1>n. \A m \in Message : ConversationOf[m] \in Conversation
  BY NamesAssumption
<1>k. ASSUME UNCHANGED pool  PROVE FALSE
  BY <1>k DEF Pooled
<1>g. ASSUME NEW c \in Conversation, GetOrCreate(c)
      PROVE  \A d \in Pooled \cap Pooled' : pool[d] \in running
  BY <1>0, <1>g, CreationFull
<1> SUFFICES \/ UNCHANGED pool
             \/ \E c \in Conversation : GetOrCreate(c)
  BY <1>k, <1>g
<1>1. ASSUME NEW m \in Message, Arrive(m) \/ Begin(m)
      PROVE  UNCHANGED pool \/ \E c \in Conversation : GetOrCreate(c)
  BY <1>1, <1>n DEF Arrive, Reject, Enqueue, Send, Begin
<1>2. ASSUME NEW m \in Message, Configured(m) \/ SessionReady(m) \/ SessionEnds(m)
                                \/ RunnerEnds(m) \/ NextMessage(m) \/ Fail(m)
      PROVE  UNCHANGED pool
  BY <1>2 DEF Configured, SessionReady, SessionEnds, RunnerEnds, NextMessage, Fail, poolVars
<1>3. ASSUME NEW c \in Conversation, Open(c) \/ ClearPending(c) \/ Promote(c) \/ RemoveItem(c)
      PROVE  UNCHANGED pool \/ GetOrCreate(c)
  BY <1>3 DEF Open, ClearPending, Promote, RemoveItem
<1>4. ASSUME NEW c \in Conversation, RemoveConversation(c)  PROVE FALSE
  BY <1>4 DEF RemoveConversation, PoolWithout, Pooled
<1>5. CASE UNCHANGED vars
  BY <1>5, <1>k DEF vars, poolVars
<1> QED  BY <1>1, <1>2, <1>3, <1>4, <1>5 DEF Next, Proceed, Command

\* The pool never holds more agents than its limit, unless the limit has reached
\* its absolute maximum: eviction and expansion together keep up with creation.
THEOREM PoolKeepsItsLimit == Spec => []PoolWithinLimit
<1>1. Init => Held /\ OrderInv /\ BoundInv /\ PoolWithinLimit
  <2>1. Init => PoolWithinLimit
    <3> SUFFICES ASSUME Init  PROVE PoolWithinLimit
      OBVIOUS
    <3>1. Pooled = {} /\ limit = MaxAgents
      BY DEF Init, Pooled
    <3> QED  BY <3>1, FS_EmptySet, LimitsAssumption DEF PoolWithinLimit
  <2> QED  BY <2>1, HeldInit, OrderInit
<1>2. Held /\ OrderInv /\ BoundInv /\ PoolWithinLimit /\ [Next]_vars
      => Held' /\ OrderInv' /\ BoundInv' /\ PoolWithinLimit'
  BY HeldStep, OrderStep, WithinLimitStep
<1> QED  BY <1>1, <1>2, PTL DEF Spec

\* The pool prefers evicting to growing: it raises its limit, or exceeds it,
\* only for want of an idle agent.
THEOREM PoolGrowsOnlyWhenAllRun == Spec => GrowsWhenAllRun
<1>1. Init => Held /\ OrderInv /\ BoundInv
  BY HeldInit, OrderInit
<1>2. Held /\ OrderInv /\ BoundInv /\ [Next]_vars => Held' /\ OrderInv' /\ BoundInv'
  BY HeldStep, OrderStep
<1>3. Held /\ OrderInv /\ BoundInv /\ [Next]_vars =>
        [/\ Pooled' \ Pooled # {}
         /\ limit' > limit \/ Cardinality(Pooled') > limit'
         => \A d \in Pooled \cap Pooled' : pool[d] \in running]_vars
  BY GrowthStep
<1> QED  BY <1>1, <1>2, <1>3, PTL DEF Spec, GrowsWhenAllRun
=============================================================================
