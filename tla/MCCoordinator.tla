---------------------------- MODULE MCCoordinator ----------------------------
(***************************************************************************)
(* Bounded instance of Coordinator: five tasks for two workers.  c waits   *)
(* for a, d waits for a and b, and e, last in the list, goes first.  When  *)
(* a and b have ended two tasks become ready at once.                      *)
(***************************************************************************)
EXTENDS Coordinator

CONSTANTS a, b, c, d, e

MCDeps == [t \in Task |-> IF t = c THEN {a} ELSE IF t = d THEN {a, b} ELSE {}]
MCPriority == [t \in Task |-> IF t = e THEN 1 ELSE 0]
MCRank == [t \in Task |-> CASE t = a -> 1 [] t = b -> 2 [] t = c -> 3
                             [] t = d -> 4 [] t = e -> 5]
=============================================================================
