------------------------------ MODULE AgentTurns ------------------------------
(***************************************************************************)
(* Turns of an agent conversation: executeAgentTurn of                     *)
(* packages/neko-agent/packages/agent/src/runtime/turn/                    *)
(* agent-turn-runtime.ts with the objects it drives, AgentRuntimePool,     *)
(* AgentRuntimeSessionController, AgentSessionRunner, AgentSession and the *)
(* message queue.                                                          *)
(*                                                                         *)
(* Every message the user sends, and every continuation of a background    *)
(* task, is a call of executeAgentTurn, and nothing serialises the calls   *)
(* of one conversation.  A call runs its own message and then the messages *)
(* it releases from the queue of its agent.  It is named by the message it *)
(* was made for; `at' is the await it is suspended at.                     *)
(*                                                                         *)
(* An agent (a runner with its controller and queue) is an object: the     *)
(* pool can dispose it while a call still holds it, and make another for   *)
(* the same conversation.  A session is named by the call that created it. *)
(***************************************************************************)
EXTENDS Integers, FiniteSets, MessageQueue

CONSTANTS
  Conversation,
  None,
  Agent,             \* names for agent objects; one no longer held is reused
  ConversationOf,    \* [Message -> Conversation]
  MaxAgents,         \* defaultMaxAgents
  AbsoluteMaxAgents

ASSUME NamesAssumption ==
  /\ IsFiniteSet(Conversation) /\ IsFiniteSet(Message) /\ IsFiniteSet(Agent)
  /\ None \notin Conversation \cup Message \cup Agent
  /\ ConversationOf \in [Message -> Conversation]
ASSUME LimitsAssumption ==
  /\ MaxAgents \in Nat \ {0}
  /\ AbsoluteMaxAgents \in Nat
  /\ MaxAgents <= AbsoluteMaxAgents

VARIABLES
  pool,       \* _contexts: the agent of each conversation, or None
  order,      \* _accessOrder
  limit,      \* _maxAgents
  session,    \* the runner's _session: a call, or None
  running,    \* agents whose runner's _isRunning is set
  queue,      \* the runner's _pendingMessageQueue
  busy,       \* sessions whose _isRunning is set
  at,         \* where each call is
  agent,      \* the agent each call holds
  work,       \* the message each call works on
  on,         \* the session each call executes in
  fate,       \* what became of each message
  stranded    \* agents a failing call left with a queue and no call

poolVars == <<pool, order, limit>>
agentVars == <<session, running, queue, busy, stranded>>
callVars == <<at, agent, work, on>>
vars == <<poolVars, agentVars, callVars, fate>>

Stages == {"none", "configuring", "creating", "preparing", "executing", "leaving", "between"}
Fates == {"unsent", "held", "queued", "over"}

Active == {m \in Message : at[m] # "none"}
CallsOn(a) == {m \in Active : agent[m] = a}
InTurn == {m \in Message : at[m] \in {"executing", "leaving"}}
Pooled == {c \in Conversation : pool[c] # None}

Init ==
  /\ pool = [c \in Conversation |-> None]
  /\ order = <<>>
  /\ limit = MaxAgents
  /\ session = [a \in Agent |-> None]
  /\ running = {}
  /\ queue = [a \in Agent |-> EmptyQueue]
  /\ busy = {}
  /\ at = [m \in Message |-> "none"]
  /\ agent = [m \in Message |-> None]
  /\ work = [m \in Message |-> m]
  /\ on = [m \in Message |-> None]
  /\ fate = [m \in Message |-> "unsent"]
  /\ stranded = {}

-----------------------------------------------------------------------------
(***************************************************************************)
(* The pool.                                                               *)
(***************************************************************************)

\* Mistake: every pooled agent counts as idle.
IdleOrNot == Pooled

Idle == {c \in Pooled : pool[c] \notin running}

\* Mistake: the limit follows the size down.
LimitOfSize(size) == IF size <= MaxAgents THEN size ELSE limit

\* _shrinkIfIdle, when size agents remain.
LimitAt(size) == IF size <= MaxAgents THEN MaxAgents ELSE limit

\* The size and the limit after the first k evictions of _evictIfNeeded.
SizeAfter(k) == Cardinality(Pooled) - k
LimitAfter(k) == IF k = 0 THEN limit ELSE LimitAt(SizeAfter(k))
FullAfter(k) == SizeAfter(k) >= LimitAfter(k)

PositionOf(c) == CHOOSE i \in DOMAIN order : order[i] = c
IdleBefore(c) == Cardinality({d \in Idle : PositionOf(d) < PositionOf(c)})

\* The loop evicts idle agents, least recently used first, while it is full.
Evicted == {c \in Idle : \A k \in 0 .. IdleBefore(c) : FullAfter(k)}

\* Still full with no idle agent left: one more, up to the absolute maximum.
\* Past that the pool only reports it is saturated, and grows all the same.
Expanded(k) ==
  IF FullAfter(k) /\ LimitAfter(k) < AbsoluteMaxAgents
  THEN LimitAfter(k) + 1
  ELSE LimitAfter(k)

\* _accessOrder without the conversations C: each splice closes its gap, so the
\* k-th entry is the one at the k-th position kept.
Kept(C) == {i \in DOMAIN order : order[i] \notin C}
Without(C) ==
  [k \in 1 .. Cardinality(Kept(C)) |->
     order[CHOOSE i \in Kept(C) : Cardinality(Kept(C) \cap (1 .. i)) = k]]

\* remove() takes the conversations C out of the pool.
PoolWithout(C) == [c \in Conversation |-> IF c \in C THEN None ELSE pool[c]]

InUse == {pool[c] : c \in Conversation} \cup {agent[m] : m \in Active}
Fresh == CHOOSE a \in Agent \ InUse : TRUE

\* dispose() of the agents D.
Disposed(D) ==
  /\ session' = [a \in Agent |-> IF a \in D THEN None ELSE session[a]]
  /\ queue' = [a \in Agent |-> IF a \in D THEN EmptyQueue ELSE queue[a]]
BusyWithout(D) == busy \ {session[a] : a \in D}
FateWithout(D) ==
  [m \in Message |-> IF \E a \in D : m \in Waiting(queue[a]) THEN "over" ELSE fate[m]]

\* getOrCreateContext(c): the agent it returns, and the agents it starts afresh,
\* which are those it evicts and the one it creates.
Target(c) == IF pool[c] = None THEN Fresh ELSE pool[c]
Wiped(c) == IF pool[c] = None THEN {pool[d] : d \in Evicted} \cup {Fresh} ELSE {}

GetOrCreate(c) ==
  /\ \/ /\ pool[c] # None
        /\ order' = Append(Without({c}), c)
        /\ UNCHANGED <<pool, limit>>
     \/ /\ pool[c] = None
        /\ Agent \ InUse # {}
        /\ pool' = [PoolWithout(Evicted) EXCEPT ![c] = Fresh]
        /\ order' = Append(Without(Evicted \cup {c}), c)
        /\ limit' = Expanded(Cardinality(Evicted))
  /\ Disposed(Wiped(c))

-----------------------------------------------------------------------------
(***************************************************************************)
(* A call of executeAgentTurn.                                             *)
(***************************************************************************)

\* A failed precheck, a configuration that differs from the running turn's, or
\* a message that cannot be queued: the call ends before it began.
Reject(m) ==
  LET c == ConversationOf[m] IN
  /\ fate[m] = "unsent"
  /\ GetOrCreate(c)
  /\ running' = running \ Wiped(c)
  /\ busy' = BusyWithout(Wiped(c))
  /\ stranded' = stranded \ Wiped(c)
  /\ fate' = [FateWithout(Wiped(c)) EXCEPT ![m] = "over"]
  /\ UNCHANGED callVars

\* The agent is running: the message joins its queue.
Enqueue(m) ==
  LET c == ConversationOf[m] IN
  /\ fate[m] = "unsent"
  /\ pool[c] # None /\ pool[c] \in running
  /\ order' = Append(Without({c}), c)
  /\ queue' = [queue EXCEPT ![pool[c]] = Enqueued(@, m)]
  /\ fate' = [fate EXCEPT ![m] = "queued"]
  /\ UNCHANGED <<pool, limit, session, running, busy, stranded, callVars>>

\* The agent is not running: configure, which awaits the roots it may read.
Send(m) ==
  LET c == ConversationOf[m] IN
  /\ fate[m] = "unsent"
  /\ Target(c) \notin running \ Wiped(c)
  /\ GetOrCreate(c)
  /\ running' = running \ Wiped(c)
  /\ busy' = BusyWithout(Wiped(c))
  /\ stranded' = stranded \ (Wiped(c) \cup {Target(c)})
  /\ fate' = [FateWithout(Wiped(c)) EXCEPT ![m] = "held"]
  /\ agent' = [agent EXCEPT ![m] = Target(c)]
  /\ at' = [at EXCEPT ![m] = "configuring"]
  /\ UNCHANGED <<work, on>>

\* The controller's test, after that await: a session there is updated, otherwise
\* one is created, which takes time.  Another call may have set the runner going
\* meanwhile: then configure throws, and the call fails.
Configured(m) ==
  /\ at[m] = "configuring"
  /\ agent[m] \notin running
  /\ at' = [at EXCEPT ![m] = IF session[agent[m]] = None THEN "creating" ELSE "preparing"]
  /\ UNCHANGED <<poolVars, session, running, queue, busy, stranded, agent, work, on, fate>>

\* createAgentRuntimeSession resolves: its session becomes the runner's, also
\* when another call's is there, in use even, or the agent was disposed.
SessionReady(m) ==
  /\ at[m] = "creating"
  /\ session' = [session EXCEPT ![agent[m]] = m]
  /\ at' = [at EXCEPT ![m] = "preparing"]
  /\ UNCHANGED <<poolVars, running, queue, busy, stranded, agent, work, on, fate>>

\* Mistakes: the runner, or the session, does not look whether it is running.
RunnerAlwaysFree(a) == session[a] # None
SessionAlwaysFree(s) == s \in Message

RunnerFree(a) == session[a] # None /\ a \notin running
SessionFree(s) == s \notin busy

\* createContext resolves.  processStream looks the conversation up in the pool
\* again, which creates an agent when there is none, and starts the runner of
\* the agent the call holds.
Begin(m) ==
  LET c == ConversationOf[m]
      others == running \ Wiped(c)
      fates == FateWithout(Wiped(c)) IN
  /\ at[m] = "preparing"
  /\ GetOrCreate(c)
  /\ stranded' = stranded \ Wiped(c)
  /\ \/ /\ ~RunnerFree(agent[m])
        /\ at' = [at EXCEPT ![m] = "between"]
        /\ fate' = [fates EXCEPT ![work[m]] = "over"]
        /\ running' = others
        /\ busy' = BusyWithout(Wiped(c))
        /\ UNCHANGED on
     \/ /\ RunnerFree(agent[m]) /\ ~SessionFree(session[agent[m]])
        /\ at' = [at EXCEPT ![m] = "leaving"]
        /\ fate' = [fates EXCEPT ![work[m]] = "over"]
        /\ running' = others \cup {agent[m]}
        /\ busy' = BusyWithout(Wiped(c))
        /\ UNCHANGED on
     \/ /\ RunnerFree(agent[m]) /\ SessionFree(session[agent[m]])
        /\ at' = [at EXCEPT ![m] = "executing"]
        /\ on' = [on EXCEPT ![m] = session[agent[m]]]
        /\ fate' = fates
        /\ running' = others \cup {agent[m]}
        /\ busy' = BusyWithout(Wiped(c)) \cup {session[agent[m]]}
  /\ UNCHANGED <<agent, work>>

\* Mistake: the session is left marked as running.
SessionStaysBusy(m) ==
  /\ at[m] = "executing"
  /\ at' = [at EXCEPT ![m] = "leaving"]
  /\ on' = [on EXCEPT ![m] = None]
  /\ fate' = [fate EXCEPT ![work[m]] = "over"]
  /\ UNCHANGED <<poolVars, agentVars, agent, work>>

\* The session's generator ends, with an answer or an error, or cancelled.
SessionEnds(m) ==
  /\ at[m] = "executing"
  /\ at' = [at EXCEPT ![m] = "leaving"]
  /\ busy' = busy \ {on[m]}
  /\ on' = [on EXCEPT ![m] = None]
  /\ fate' = [fate EXCEPT ![work[m]] = "over"]
  /\ UNCHANGED <<poolVars, session, running, queue, stranded, agent, work>>

\* Mistake: the turn waits until the queue is empty.
RunnerEndsWithQueue(m) ==
  /\ at[m] = "leaving"
  /\ queue[agent[m]].items = <<>>
  /\ at' = [at EXCEPT ![m] = "between"]
  /\ running' = running \ {agent[m]}
  /\ UNCHANGED <<poolVars, session, queue, busy, stranded, agent, work, on, fate>>

\* The runner's generator ends and processStream returns.
RunnerEnds(m) ==
  /\ at[m] = "leaving"
  /\ at' = [at EXCEPT ![m] = "between"]
  /\ running' = running \ {agent[m]}
  /\ UNCHANGED <<poolVars, session, queue, busy, stranded, agent, work, on, fate>>

\* Mistake: a call runs one released message and does not look for another.
NextOnlyOnce(m) ==
  /\ at[m] = "between"
  /\ \/ \E i \in DOMAIN queue[agent[m]].items :
          /\ IsNext(queue[agent[m]], i)
          /\ work[m] = m
          /\ work' = [work EXCEPT ![m] = queue[agent[m]].items[i]]
          /\ queue' = [queue EXCEPT ![agent[m]] = Released(@, i)]
          /\ fate' = [fate EXCEPT ![queue[agent[m]].items[i]] = "held"]
          /\ at' = [at EXCEPT ![m] = "preparing"]
          /\ UNCHANGED agent
     \/ /\ work[m] # m \/ ~\E i \in DOMAIN queue[agent[m]].items : IsNext(queue[agent[m]], i)
        /\ at' = [at EXCEPT ![m] = "none"]
        /\ agent' = [agent EXCEPT ![m] = None]
        /\ work' = [work EXCEPT ![m] = m]
        /\ UNCHANGED <<queue, fate>>
  /\ UNCHANGED <<poolVars, session, running, busy, stranded, on>>

\* The loop of executeAgentTurn: the next message of the agent's queue, or the
\* end of the call.
NextMessage(m) ==
  /\ at[m] = "between"
  /\ \/ \E i \in DOMAIN queue[agent[m]].items :
          /\ IsNext(queue[agent[m]], i)
          /\ work' = [work EXCEPT ![m] = queue[agent[m]].items[i]]
          /\ queue' = [queue EXCEPT ![agent[m]] = Released(@, i)]
          /\ fate' = [fate EXCEPT ![queue[agent[m]].items[i]] = "held"]
          /\ at' = [at EXCEPT ![m] = "preparing"]
          /\ UNCHANGED agent
     \/ /\ ~\E i \in DOMAIN queue[agent[m]].items : IsNext(queue[agent[m]], i)
        /\ at' = [at EXCEPT ![m] = "none"]
        /\ agent' = [agent EXCEPT ![m] = None]
        /\ work' = [work EXCEPT ![m] = m]
        /\ UNCHANGED <<queue, fate>>
  /\ UNCHANGED <<poolVars, session, running, busy, stranded, on>>

\* configure, createContext or processStream throws: the call ends there.  A
\* stream that was being read is closed, which ends session and runner; what
\* waits in the queue stays for whoever comes next.
Fail(m) ==
  /\ at[m] \in Stages \ {"none"}
  /\ at' = [at EXCEPT ![m] = "none"]
  /\ agent' = [agent EXCEPT ![m] = None]
  /\ work' = [work EXCEPT ![m] = m]
  /\ on' = [on EXCEPT ![m] = None]
  /\ fate' = [fate EXCEPT ![work[m]] = IF @ = "held" THEN "over" ELSE @]
  /\ busy' = busy \ (IF at[m] = "executing" THEN {on[m]} ELSE {})
  /\ running' = running \ (IF m \in InTurn THEN {agent[m]} ELSE {})
  /\ stranded' = stranded \cup
       (IF CallsOn(agent[m]) = {m} /\ queue[agent[m]].items # <<>> THEN {agent[m]} ELSE {})
  /\ UNCHANGED <<poolVars, session, queue>>

-----------------------------------------------------------------------------
(***************************************************************************)
(* What the user can do to a conversation meanwhile.  cancel() also aborts *)
(* the model call, which lets the session end; it can always end here.     *)
(***************************************************************************)

\* Showing a conversation, or loading its history, looks it up in the pool.
Open(c) ==
  /\ GetOrCreate(c)
  /\ running' = running \ Wiped(c)
  /\ busy' = BusyWithout(Wiped(c))
  /\ stranded' = stranded \ Wiped(c)
  /\ fate' = FateWithout(Wiped(c))
  /\ UNCHANGED callVars

\* Cancelling a turn clears the queue, and so does clearing the history.
ClearPending(c) ==
  /\ pool[c] # None
  /\ order' = Append(Without({c}), c)
  /\ queue' = [queue EXCEPT ![pool[c]] = Cleared(Paused(@))]
  /\ fate' = [m \in Message |-> IF m \in Waiting(queue[pool[c]]) THEN "over" ELSE fate[m]]
  /\ stranded' = stranded \ {pool[c]}
  /\ UNCHANGED <<pool, limit, session, running, busy, callVars>>

Promote(c) ==
  /\ pool[c] # None
  /\ order' = Append(Without({c}), c)
  /\ \E i \in DOMAIN queue[pool[c]].items :
       queue' = [queue EXCEPT ![pool[c]] = Promoted(@, i)]
  /\ UNCHANGED <<pool, limit, session, running, busy, stranded, callVars, fate>>

\* Cancelling one queued message, or taking it back to edit it.
RemoveItem(c) ==
  /\ pool[c] # None
  /\ order' = Append(Without({c}), c)
  /\ \E i \in DOMAIN queue[pool[c]].items :
       /\ queue' = [queue EXCEPT ![pool[c]] = Removed(@, i)]
       /\ fate' = [fate EXCEPT ![queue[pool[c]].items[i]] = "over"]
       /\ stranded' = IF Taken(queue[pool[c]], i) = <<>> THEN stranded \ {pool[c]} ELSE stranded
  /\ UNCHANGED <<pool, limit, session, running, busy, callVars>>

\* Deleting the conversation disposes its agent, running or not.
RemoveConversation(c) ==
  /\ pool[c] # None
  /\ pool' = PoolWithout({c})
  /\ order' = Without({c})
  /\ limit' = LimitAt(SizeAfter(1))
  /\ Disposed({pool[c]})
  /\ running' = running \ {pool[c]}
  /\ busy' = BusyWithout({pool[c]})
  /\ fate' = FateWithout({pool[c]})
  /\ stranded' = stranded \ {pool[c]}
  /\ UNCHANGED callVars

Arrive(m) == Reject(m) \/ Enqueue(m) \/ Send(m)
Proceed(m) == Configured(m) \/ SessionReady(m) \/ Begin(m) \/ SessionEnds(m) \/ RunnerEnds(m) \/ NextMessage(m)
Command(c) == Open(c) \/ ClearPending(c) \/ Promote(c) \/ RemoveItem(c) \/ RemoveConversation(c)

Next ==
  \/ \E m \in Message : Arrive(m) \/ Proceed(m) \/ Fail(m)
  \/ \E c \in Conversation : Command(c)

Spec == Init /\ [][Next]_vars

\* createAgentRuntimeSession resolves, createContext settles, which starts the
\* turn or ends the call, and model calls end: while a call is under way, some
\* call goes on.
Settles(m) ==
  /\ at[m] = "preparing"
  /\ \E s \in Stages \ {"preparing"} : at' = [at EXCEPT ![m] = s]
GoesOn(m) == Configured(m) \/ SessionReady(m) \/ Settles(m) \/ SessionEnds(m) \/ RunnerEnds(m) \/ NextMessage(m)

FairSpec == Spec /\ WF_at(\E m \in Message : GoesOn(m))

-----------------------------------------------------------------------------
(***************************************************************************)
(* Properties.                                                             *)
(***************************************************************************)

Sessions == Message \cup {None}

\* The access order lists the pooled conversations, each once, and the limit
\* stays between the default and the absolute maximum.
TypeOK ==
  /\ pool \in [Conversation -> Agent \cup {None}]
  /\ order \in Seq(Conversation) /\ IsInjective(order) /\ ToSet(order) = Pooled
  /\ limit \in MaxAgents .. AbsoluteMaxAgents
  /\ session \in [Agent -> Sessions]
  /\ running \subseteq Agent
  /\ queue \in [Agent -> [items : Seq(Message), paused : BOOLEAN]]
  /\ busy \subseteq Sessions
  /\ stranded \subseteq Agent
  /\ at \in [Message -> Stages]
  /\ agent \in [Message -> Agent \cup {None}]
  /\ work \in [Message -> Message]
  /\ on \in [Message -> Sessions]
  /\ fate \in [Message -> Fates]

\* A session never runs two calls at once, although its agent can be disposed
\* and given another session, and the runner's flag be reset by an older turn:
\* two flags guard it, and each alone can be cleared too early.
OneTurnPerSession ==
  \A m, n \in Message :
    at[m] = "executing" /\ at[n] = "executing" /\ on[m] = on[n] => m = n

\* The agent of a conversation runs one turn at most, and its runner says it is
\* running exactly while it does: a flag left set would queue every later
\* message for ever, and keep the agent from being evicted.
RunnerFlagTells ==
  \A c \in Pooled :
    LET turns == {m \in InTurn : agent[m] = pool[c]} IN
    Cardinality(turns) = IF pool[c] \in running THEN 1 ELSE 0

\* A message is in one place: once in one queue, or worked on by one call, or
\* neither when it was not sent or has come to its end.
MessagesInOnePlace ==
  \A m \in Message :
    LET queued == UNION {{<<a, i>> : i \in {j \in DOMAIN queue[a].items : queue[a].items[j] = m}} :
                           a \in Agent}
        held == {n \in Active : work[n] = m /\ at[n] \in {"configuring", "creating", "preparing", "executing"}} IN
    /\ Cardinality(queued) = IF fate[m] = "queued" THEN 1 ELSE 0
    /\ Cardinality(held) = IF fate[m] = "held" THEN 1 ELSE 0

\* A running agent is not evicted: it leaves the pool only when its own
\* conversation is removed.
EvictionSparesRunning ==
  [][\A c \in Pooled :
       pool[c] \in running /\ pool'[c] # pool[c] => Pooled' = Pooled \ {c}]_vars

\* A message is refused as busy only if another call of its conversation is in
\* a turn, or the agent was taken from its call.
RefusalNeedsRival ==
  [][\A m \in Message : at[m] = "preparing" /\ at'[m] \in {"leaving", "between"} =>
       \/ agent[m] # pool[ConversationOf[m]]
       \/ \E n \in InTurn : n # m /\ ConversationOf[n] = ConversationOf[m]]_vars

\* Messages wait only while a call is there to release them, or after one
\* failed.  Holds across refused calls, replaced sessions and cancelled turns.
WaitingHasACall ==
  \A a \in Agent : queue[a].items # <<>> => CallsOn(a) # {} \/ a \in stranded

\* Messages do not wait for ever: every queue empties, but for those of agents
\* that a failed call left.
QueuesEmpty ==
  []<>(\A a \in Agent : queue[a].items = <<>> \/ a \in stranded)
=============================================================================
