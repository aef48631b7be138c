----------------------------- MODULE MessageQueue -----------------------------
(***************************************************************************)
(* One conversation's queue of messages waiting for the running turn:      *)
(* DefaultAgentConversationMessageQueue of                                 *)
(* packages/neko-agent/packages/agent/src/runtime/session/                 *)
(* agent-message-queue.ts.                                                 *)
(*                                                                         *)
(* A queue is a record: items, the messages in order, and paused, the      *)
(* field pausedAfterActiveTurnCancel.  Each operation is an operator from  *)
(* queues to queues.  The version and the texts are left out.              *)
(***************************************************************************)
EXTENDS Naturals, SequencesExt

CONSTANTS
  Message,         \* the messages a queue can hold
  Continuations    \* those of them that are not the user's (isUserQueueSource)

ASSUME ContinuationsAssumption == Continuations \subseteq Message

EmptyQueue == [items |-> <<>>, paused |-> FALSE]

Waiting(q) == ToSet(q.items)

Enqueued(q, m) == [q EXCEPT !.items = Append(@, m)]

\* take(): the item at i leaves; remove and discardContinuation also lift the
\* pause of a queue they empty.
Taken(q, i) == RemoveAt(q.items, i)

Removed(q, i) ==
  [items |-> Taken(q, i), paused |-> q.paused /\ Taken(q, i) # <<>>]

\* Mistake: the promoted item is copied to the head and stays where it was.
PromotedCopy(q, i) == [items |-> <<q.items[i]>> \o q.items, paused |-> FALSE]

\* promote(), and the resume() that AgentSessionRunner adds to it.
Promoted(q, i) == [items |-> <<q.items[i]>> \o Taken(q, i), paused |-> FALSE]

\* releaseNext() takes the item at i: the first continuation, or without one
\* the first item.
IsNext(q, i) ==
  /\ ~q.paused
  /\ i \in DOMAIN q.items
  /\ IF Waiting(q) \cap Continuations = {}
     THEN i = 1
     ELSE /\ q.items[i] \in Continuations
          /\ \A j \in 1 .. i - 1 : q.items[j] \notin Continuations

Released(q, i) == [q EXCEPT !.items = RemoveAt(@, i)]

\* cancel() of the runner pauses a queue that holds something; the command
\* that cancels a turn clears the queue in the same step.
Paused(q) == [q EXCEPT !.paused = @ \/ q.items # <<>>]

Cleared(q) == EmptyQueue
=============================================================================
