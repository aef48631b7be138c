------------------------ MODULE TaskResultObservation ------------------------
(***************************************************************************)
(* How the results of background tasks reach the agent that started them:  *)
(* AgentTaskResultObservationRuntime and its coordinator                   *)
(* (packages/neko-agent/packages/agent/src/task/), the recorder of the     *)
(* agent's session and the session's journal, across restarts of the host. *)
(*                                                                         *)
(* A terminal task is handled by a call of handleTerminalTask, which       *)
(* appends an observation, its evidence and, when the delivery policy asks *)
(* for one, a follow-up request to the journal, and then hands the         *)
(* follow-up over.  The ids of the entries hash the task and the status it *)
(* ended with, that of the evidence the output too.  Calls for one task    *)
(* and status are chained; others interleave at every await.               *)
(*                                                                         *)
(* One conversation is modelled, and one wait-all group.  The session also *)
(* remembers what it recorded; that adds nothing to the journal, which is  *)
(* read each time, and is left out.  The calls of handleTerminalChildRun,  *)
(* for subagents, are those of an owner whose task wants no follow-up;     *)
(* they are chained by the subagent alone, which only orders them more.    *)
(* In one process a terminal status is final here: that the execution of a *)
(* cancelled task stores another one, announced to nobody, that the        *)
(* start-up resumes a task cancelled meanwhile, and that tasks are deleted *)
(* is told by TaskManager.                                                 *)
(***************************************************************************)
EXTENDS Integers, FiniteSets

CONSTANTS
  Task,
  Ending,        \* terminal statuses
  Result,        \* <<task, ending>>: how the tasks may end
  Direct,        \* tasks whose owner may call handleTerminalTask itself
  Group,         \* the members of a wait-all group
  Wants,         \* tasks whose delivery policy asks for a follow-up
  Attempt,       \* bound: names for the calls on one result at one time
  Output,        \* the outputs a task may end with
  Session,       \* bound: names for the sessions of the conversation
  None,
  MaxRestarts    \* bound

ASSUME TasksAssumption ==
  /\ Direct \subseteq Task /\ Wants \subseteq Task /\ Group \subseteq Task
  /\ Result \subseteq Task \X Ending
ASSUME NamesAssumption ==
  /\ None \notin Session /\ None \notin Ending
  /\ "observation" \notin Output /\ "followup" \notin Output
  /\ MaxRestarts \in Nat

VARIABLES
  direct,     \* tasks reported by their owner (media tasks, subagents); the
              \* manager's events bring the others
  status,     \* [Task -> Ending, or None]: terminal statuses in the manager
  loaded,     \* [Task -> Ending, or None]: what the storage held as terminal
              \* when this process started
  watched,    \* tasks of direct whose owner lives in this process
  phase,      \* "loading" until initialize has read the storage, then "up"
  restarts,
  session,    \* the session of the conversation's agent, or None
  used,       \* sessions there have been
  broken,     \* sessions whose journal writer has had an append fail
  journal,    \* [Entry -> [Result -> Nat]]: entries in the journal
  at,         \* where each call is
  follows,    \* the call is to record a follow-up
  due,        \* entries the call has still to append
  using,      \* the session the call records in
  sent,       \* [Result -> Nat]: follow-ups handed over
  missed      \* results a call on which failed or was cut short

taskVars == <<direct, status, loaded, watched, phase, restarts>>
sessionVars == <<session, used, broken>>
callVars == <<at, follows, due, using>>
vars == <<taskVars, sessionVars, callVars, journal, sent, missed>>

\* The entries of a result, which is what an observation is of and what its id
\* hashes; the evidence is told apart by the output.
Entry == {"observation", "followup"} \cup Output
Call == Result \X Attempt
ResultOf(c) == c[1]
TaskOf(c) == c[1][1]
CallsOn(r) == {c \in Call : ResultOf(c) = r}
ResultsOf(t) == {r \in Result : r[1] = t}

Ended == {t \in Task : status[t] # None}
\* The calls an owner makes give the policy of the task, if it has one.
GivesPolicy(t) == t \in direct

Stages == {"none", "waiting", "resolved", "reading", "recording", "dispatching"}
Begun(c) == at[c] \notin {"none", "waiting"}

Init ==
  /\ status = [t \in Task |-> None] /\ loaded = [t \in Task |-> None]
  /\ direct \in SUBSET Direct
  /\ watched = direct
  /\ phase = "up"
  /\ restarts = 0
  /\ session = None /\ used = {} /\ broken = {}
  /\ journal = [k \in Entry |-> [r \in Result |-> 0]]
  /\ at = [c \in Call |-> "none"]
  /\ follows = [c \in Call |-> FALSE]
  /\ due = [c \in Call |-> {}]
  /\ using = [c \in Call |-> None]
  /\ sent = [r \in Result |-> 0]
  /\ missed = {}

-----------------------------------------------------------------------------
(***************************************************************************)
(* The tasks and the process they live in.                                 *)
(***************************************************************************)

FreeCalls(r) == {c \in CallsOn(r) : at[c] = "none"}

\* One more call on each result of S, chained behind those there are.
Handled(S) ==
  /\ \A r \in S : FreeCalls(r) # {}
  /\ at' = [c \in Call |->
              IF ResultOf(c) \in S /\ c = CHOOSE d \in FreeCalls(ResultOf(c)) : TRUE
              THEN "waiting" ELSE at[c]]

\* A task becomes terminal, and the subscription of the runtime hears of it.
TaskEnds(t, e) ==
  /\ phase = "up"
  /\ status[t] = None
  /\ status' = [status EXCEPT ![t] = e]
  /\ Handled(IF t \in direct THEN {} ELSE {<<t, e>>})
  /\ UNCHANGED <<direct, loaded, watched, phase, restarts, sessionVars, follows,
                 due, using, journal, sent, missed>>

\* The owner of a task reports its result, perhaps more than once.
Report(t, e) ==
  /\ t \in watched
  /\ status[t] = e
  /\ Handled({<<t, e>>})
  /\ UNCHANGED <<taskVars, sessionVars, follows, due, using, journal, sent, missed>>

\* The extension host stops and starts again.  Nobody awaits the writes of the
\* terminal statuses: some have landed, and a task that is not terminal there
\* will run again, perhaps to end otherwise.  The bootstrap calls
\* reconcileTerminalTasks, which handles the terminal tasks of the manager; the
\* manager has read none yet.
Restart ==
  /\ restarts < MaxRestarts
  /\ restarts' = restarts + 1
  /\ phase' = "loading"
  /\ loaded' \in {f \in [Task -> Ending \cup {None}] : \A t \in Task :
                   /\ f[t] \in {None, loaded[t], status[t]}
                   /\ loaded[t] # None => f[t] = loaded[t]}
  /\ status' = [t \in Task |-> None]
  /\ watched' = {}
  /\ session' = None
  /\ at' = [c \in Call |-> IF status'[TaskOf(c)] = None THEN "none" ELSE "waiting"]
  /\ follows' = [c \in Call |-> FALSE]
  /\ due' = [c \in Call |-> {}]
  /\ using' = [c \in Call |-> None]
  /\ missed' = missed \cup {r \in Result : \E c \in CallsOn(r) : at[c] # "none"}
  /\ UNCHANGED <<direct, used, broken, journal, sent>>

\* Mistake: the storage is read as if only unfinished tasks mattered.
LoadPending ==
  /\ phase = "loading"
  /\ phase' = "up"
  /\ UNCHANGED <<direct, status, loaded, watched, restarts, sessionVars,
                 callVars, journal, sent, missed>>

\* initialize has read the tasks; those not terminal will run again.
Load ==
  /\ phase = "loading"
  /\ phase' = "up"
  /\ status' = loaded
  /\ UNCHANGED <<direct, loaded, watched, restarts, sessionVars, callVars,
                 journal, sent, missed>>

\* The agent gets a session with a journal writer of its own, or is evicted.
Connect ==
  /\ session = None
  /\ Session \ used # {}
  /\ session' = CHOOSE s \in Session : s \notin used
  /\ used' = used \cup {session'}
  /\ UNCHANGED <<taskVars, broken, callVars, journal, sent, missed>>

Disconnect ==
  /\ session # None
  /\ session' = None
  /\ UNCHANGED <<taskVars, used, broken, callVars, journal, sent, missed>>

-----------------------------------------------------------------------------
(***************************************************************************)
(* A call of handleTerminalTask.                                           *)
(***************************************************************************)

\* The call goes on to a stage, with these locals.
Goto(c, stage, wanted, entries, writer) ==
  /\ at' = [at EXCEPT ![c] = stage]
  /\ follows' = [follows EXCEPT ![c] = wanted]
  /\ due' = [due EXCEPT ![c] = entries]
  /\ using' = [using EXCEPT ![c] = writer]

Returns(c) == Goto(c, "none", FALSE, {}, None) /\ UNCHANGED missed

\* The call ends with a diagnostic, which nobody acts on.
Fails(c) ==
  /\ Goto(c, "none", FALSE, {}, None)
  /\ missed' = missed \cup {ResultOf(c)}

\* Mistakes: the group is not looked at; the members that count are those
\* observed before.
FollowsAlways(t) == t \in Wants
FollowsObserved(t) ==
  /\ t \in Wants
  /\ t \in Group /\ ~GivesPolicy(t) =>
       \A u \in Group \ {t} : \E r \in ResultsOf(u) : journal["observation"][r] > 0

\* resolveDeliveryPolicyForTask: a given policy stands; else a member of the
\* group follows up if the task lists show all members as terminal.
Follows(t) ==
  /\ t \in Wants
  /\ t \in Group /\ ~GivesPolicy(t) => Group \subseteq Ended

\* Mistakes: calls on one result are not chained; a member waits for its group.
BeginUnchained(c) ==
  /\ at[c] = "waiting"
  /\ Goto(c, "resolved", Follows(TaskOf(c)), {}, None)
  /\ UNCHANGED <<taskVars, sessionVars, journal, sent, missed>>
BeginWithGroup(c) ==
  /\ at[c] = "waiting"
  /\ ~\E d \in CallsOn(ResultOf(c)) : Begun(d)
  /\ TaskOf(c) \in Group => Group \subseteq Ended
  /\ Goto(c, "resolved", Follows(TaskOf(c)), {}, None)
  /\ UNCHANGED <<taskVars, sessionVars, journal, sent, missed>>

\* The calls before it are over: handleTerminalTaskSerialized.
Begin(c) ==
  /\ at[c] = "waiting"
  /\ ~\E d \in CallsOn(ResultOf(c)) : Begun(d)
  /\ Goto(c, "resolved", Follows(TaskOf(c)), {}, None)
  /\ UNCHANGED <<taskVars, sessionVars, journal, sent, missed>>

\* recordObservation asks for the agent, then for the entries of the journal.
FindAgent(c) ==
  /\ at[c] = "resolved"
  /\ \/ /\ session # None
        /\ Goto(c, "reading", follows[c], {}, session)
        /\ UNCHANGED missed
     \/ session = None /\ Fails(c)
  /\ UNCHANGED <<taskVars, sessionVars, journal, sent>>

\* The entries record() has to append for a result with this output, by the
\* ledger it makes of the journal.
Missing(r, output, wanted) ==
  {k \in {"observation", output, "followup"} :
     journal[k][r] = 0 /\ (k = "followup" => wanted)}

\* The journal is read: the recorder of the session the agent still has starts.
ReadJournal(c) ==
  /\ at[c] = "reading"
  /\ \/ /\ using[c] = session
        /\ \E output \in Output :
             LET missing == Missing(ResultOf(c), output, follows[c]) IN
             \/ /\ missing # {}
                /\ Goto(c, "recording", "followup" \in missing, missing, using[c])
                /\ UNCHANGED missed
             \/ missing = {} /\ Returns(c)
     \/ using[c] # session /\ Fails(c)
  /\ UNCHANGED <<taskVars, sessionVars, journal, sent>>

\* The order in which record() appends: the evidence is second.
First(entries) ==
  IF "observation" \in entries THEN "observation"
  ELSE IF entries \cap Output # {} THEN CHOOSE k \in entries \cap Output : TRUE
  ELSE "followup"

\* appendEvent returns.  Appends are chained: after one failed all later ones
\* of the writer fail.
AppendEntry(c) ==
  LET k == First(due[c]) IN
  /\ at[c] = "recording"
  /\ due[c] # {}
  /\ \/ /\ using[c] \notin broken
        /\ journal' = [journal EXCEPT ![k][ResultOf(c)] = @ + 1]
        /\ Goto(c, "recording", follows[c], due[c] \ {k}, using[c])
        /\ UNCHANGED <<broken, missed>>
     \/ /\ broken' = broken \cup {using[c]}
        /\ Fails(c)
        /\ UNCHANGED journal
  /\ UNCHANGED <<taskVars, session, used, sent>>

\* flush awaits the writer's chain, which another call's append may have broken
\* meanwhile; record returns.
Flush(c) ==
  /\ at[c] = "recording"
  /\ due[c] = {}
  /\ \/ /\ using[c] \notin broken
        /\ follows[c]
        /\ Goto(c, "dispatching", TRUE, {}, None)
        /\ UNCHANGED missed
     \/ using[c] \notin broken /\ ~follows[c] /\ Returns(c)
     \/ using[c] \in broken /\ Fails(c)
  /\ UNCHANGED <<taskVars, sessionVars, journal, sent>>

\* autoResumeAgent or askUserToContinue: a running agent queues the follow-up,
\* an idle one is given a turn.  There may be no agent, or no one to ask.
Dispatch(c) ==
  /\ at[c] = "dispatching"
  /\ \/ /\ session # None
        /\ sent' = [sent EXCEPT ![ResultOf(c)] = @ + 1]
        /\ Returns(c)
     \/ Fails(c) /\ UNCHANGED sent
  /\ UNCHANGED <<taskVars, sessionVars, journal>>

Proceed(c) ==
  \/ Begin(c) \/ FindAgent(c) \/ ReadJournal(c) \/ AppendEntry(c)
  \/ Flush(c) \/ Dispatch(c)

Next ==
  \/ \E r \in Result : TaskEnds(r[1], r[2]) \/ Report(r[1], r[2])
  \/ Restart \/ Load
  \/ Connect \/ Disconnect
  \/ \E c \in Call : Proceed(c)

Spec == Init /\ [][Next]_vars

\* Every await settles: the chain of each result goes on, and initialize returns.
FairSpec ==
  /\ Spec
  /\ WF_vars(Load)
  /\ \A r \in Result : WF_vars(\E c \in CallsOn(r) : Proceed(c))

-----------------------------------------------------------------------------
(***************************************************************************)
(* Properties.                                                             *)
(***************************************************************************)

TypeOK ==
  /\ status \in [Task -> Ending \cup {None}]
  /\ loaded \in [Task -> Ending \cup {None}]
  /\ phase = "up" => \A t \in Task : loaded[t] \in {None, status[t]}
  /\ watched \subseteq direct /\ direct \subseteq Direct
  /\ phase \in {"loading", "up"}
  /\ restarts \in 0 .. MaxRestarts
  /\ session \in used \cup {None}
  /\ used \subseteq Session /\ broken \subseteq used
  /\ journal \in [Entry -> [Result -> Nat]]
  /\ at \in [Call -> Stages]
  /\ follows \in [Call -> BOOLEAN]
  /\ due \in [Call -> SUBSET Entry]
  /\ using \in [Call -> used \cup {None}]
  /\ sent \in [Result -> Nat]
  /\ missed \subseteq Result

\* The calls keep the promise of ResultDelivery: whatever is reported twice,
\* runs again after a restart and ends the same way, or was half recorded
\* before one, no result is observed twice and no follow-up is requested or
\* handed over twice.  A result is a task and its status: a task that is found
\* to have ended otherwise has another, with an observation of its own.
Promised == INSTANCE ResultDelivery WITH
  observations <- journal["observation"],
  requests <- journal["followup"],
  turns <- sent
DeliveredOnce == Promised!Spec

FollowedUp(t) == \E r \in ResultsOf(t) : journal["followup"][r] > 0

\* A member of a wait-all group whose end the manager announces is not followed
\* up before every member has ended, though the lists are read long before the
\* request is recorded.  (A member whose owner gives its policy with the call
\* does not wait: the group is not looked at.)
GroupWaits ==
  [][\A r \in Result :
       /\ r[1] \in Group /\ ~GivesPolicy(r[1])
       /\ journal'["followup"][r] # journal["followup"][r]
       => Group \subseteq Ended]_vars

\* A wait-all group of tasks announced by the manager is followed up: when all
\* members are terminal, one at least by an end of this process, each has been
\* observed and none of the calls failed, one of them has asked for a
\* follow-up.  Members that end at one time must not each take the other for
\* unfinished.  This is the lower half of what the specification demands;
\* OneContinuation is the upper.
GroupContinues ==
  /\ Group \subseteq (Ended \cap Wants) \ direct
  /\ \E t \in Group : loaded[t] = None
  /\ \A r \in Result :
       r[1] \in Group =>
         r \notin missed /\ \A c \in CallsOn(r) : at[c] = "none"
  => \E t \in Group : FollowedUp(t)

\* A result that the manager announces or an owner reports comes to be observed,
\* unless a call on it failed: no group, chain or policy withholds the
\* observation.
ResultsAreObserved ==
  \A r \in Result :
    (\E c \in CallsOn(r) : at[c] = "waiting")
      ~> (journal["observation"][r] > 0 \/ r \in missed)

\* What the specification of internal continuations says of a wait-all group:
\* one grouped continuation, not one for each member.
OneContinuation ==
  \A t, u \in Group : FollowedUp(t) /\ FollowedUp(u) => t = u

\* What the specification of the feature says of a restart: a terminal task
\* that is loaded without an observation comes to be observed.
RestartReconciles ==
  \A r \in Result : loaded[r[1]] = r[2] ~> journal["observation"][r] > 0
=============================================================================
