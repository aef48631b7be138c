---------------------------- MODULE TaskLifecycle ----------------------------
(***************************************************************************)
(* What TaskManager promises to the callers of submit, cancel,             *)
(* waitForCompletion, delete and onTerminalTask, with no executors, slots, *)
(* retries or storage in sight: a task opens once and closes at most once, *)
(* closing it is what announces it and what resolves its waiter, and       *)
(* nothing else does either.                                               *)
(*                                                                         *)
(* Less is promised for the tasks an earlier process left behind: such a   *)
(* task may open again after it was closed or removed, its end may be      *)
(* announced late, and its waiter may be left to itself.                   *)
(***************************************************************************)
EXTENDS Naturals

CONSTANTS
  Task,
  Recovered    \* tasks an earlier process left behind

VARIABLES
  state,       \* where each task is in its life
  announced,   \* how often the end of each task was announced
  owed,        \* recovered tasks that were closed and are still to be announced
  promise,     \* the waitForCompletion call on each task
  shutdown     \* dispose has been called

vars == <<state, announced, owed, promise, shutdown>>

Init ==
  /\ state \in [Task -> {"absent", "open"}]
  /\ announced = [t \in Task |-> 0]
  /\ owed = {}
  /\ promise = [t \in Task |-> "none"]
  /\ shutdown = FALSE

Open(t) ==
  /\ state[t] = "absent"
  /\ ~shutdown
  /\ state' = [state EXCEPT ![t] = "open"]
  /\ UNCHANGED <<announced, owed, promise, shutdown>>

\* The resumption puts a recovered task back, or its execution takes it up.
Reopen(t) ==
  /\ t \in Recovered
  /\ state[t] \in {"closed", "removed"}
  /\ state' = [state EXCEPT ![t] = "open"]
  /\ UNCHANGED <<announced, owed, promise, shutdown>>

\* Tasks end one at a time, or together when the pools are disposed of.  A
\* recovered task that another party has closed may be closed again.
Close(S) ==
  /\ S # {}
  /\ \A t \in S : state[t] = "open" \/ (state[t] = "closed" /\ t \in Recovered)
  /\ state' = [t \in Task |-> IF t \in S THEN "closed" ELSE state[t]]
  /\ announced' = [t \in Task |-> IF t \in S /\ state[t] = "open" /\ ~shutdown
                                  THEN announced[t] + 1 ELSE announced[t]]
  /\ promise' = [t \in Task |-> IF t \in S /\ promise[t] = "waiting"
                                THEN "resolved" ELSE promise[t]]
  /\ UNCHANGED <<owed, shutdown>>

\* A recovered task is closed from outside: its waiter is not told, and
\* everybody else hears of it later.
CloseQuietly(t) ==
  /\ t \in Recovered
  /\ state[t] = "open"
  /\ state' = [state EXCEPT ![t] = "closed"]
  /\ owed' = owed \union {t}
  /\ UNCHANGED <<announced, promise, shutdown>>

Announce(t) ==
  /\ t \in owed
  /\ owed' = owed \ {t}
  /\ announced' = [announced EXCEPT ![t] = IF shutdown THEN @ ELSE @ + 1]
  /\ UNCHANGED <<state, promise, shutdown>>

Remove(t) ==
  /\ state[t] \in {"open", "closed"}
  /\ ~shutdown
  /\ state' = [state EXCEPT ![t] = "removed"]
  /\ UNCHANGED <<announced, owed, promise, shutdown>>

Wait(t) ==
  /\ state[t] \in {"open", "closed"}
  /\ promise[t] = "none"
  /\ promise' = [promise EXCEPT ![t] =
                   IF state[t] = "closed" THEN "resolved" ELSE "waiting"]
  /\ UNCHANGED <<state, announced, owed, shutdown>>

\* A waiter gives up, or learns that its task was deleted.
Reject(t) ==
  /\ promise[t] = "waiting"
  /\ promise' = [promise EXCEPT ![t] = "rejected"]
  /\ UNCHANGED <<state, announced, owed, shutdown>>

\* Shutting down gives up on every waiter of an open task.
ShutDown ==
  /\ ~shutdown
  /\ shutdown' = TRUE
  /\ promise' = [t \in Task |-> IF state[t] = "open" /\ promise[t] = "waiting"
                                THEN "rejected" ELSE promise[t]]
  /\ UNCHANGED <<state, announced, owed>>

Next ==
  \/ \E t \in Task :
       \/ Open(t) \/ Remove(t) \/ Wait(t) \/ Reject(t)
       \/ Reopen(t) \/ CloseQuietly(t) \/ Announce(t)
  \/ \E S \in SUBSET Task : Close(S)
  \/ ShutDown

Spec == Init /\ [][Next]_vars
=============================================================================
