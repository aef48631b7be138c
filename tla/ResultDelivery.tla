---------------------------- MODULE ResultDelivery ----------------------------
(***************************************************************************)
(* What the delivery of background results to the agent promises           *)
(* (requirement "Observation recording is idempotent and recoverable" of   *)
(* openspec/changes/introduce-agent-task-result-observation): a result is  *)
(* observed at most once, a follow-up is requested at most once and only   *)
(* for an observed result, and a requested follow-up reaches the agent at  *)
(* most once.  It may also never happen.  A result is what the id of an    *)
(* observation names: a task that ended with some status.                  *)
(***************************************************************************)
EXTENDS Naturals

CONSTANT Result

VARIABLES
  observations,  \* [Result -> Nat]: observations of the result on record
  requests,      \* [Result -> Nat]: follow-up requests on record
  turns          \* [Result -> Nat]: follow-ups handed to the agent or the user

vars == <<observations, requests, turns>>

Init ==
  /\ observations = [r \in Result |-> 0]
  /\ requests = [r \in Result |-> 0]
  /\ turns = [r \in Result |-> 0]

Observe(r) ==
  /\ observations[r] = 0
  /\ observations' = [observations EXCEPT ![r] = 1]
  /\ UNCHANGED <<requests, turns>>

Request(r) ==
  /\ observations[r] = 1
  /\ requests[r] = 0
  /\ requests' = [requests EXCEPT ![r] = 1]
  /\ UNCHANGED <<observations, turns>>

Continue(r) ==
  /\ requests[r] = 1
  /\ turns[r] = 0
  /\ turns' = [turns EXCEPT ![r] = 1]
  /\ UNCHANGED <<observations, requests>>

Next == \E r \in Result : Observe(r) \/ Request(r) \/ Continue(r)

Spec == Init /\ [][Next]_vars
=============================================================================
