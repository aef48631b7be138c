---------------------------- MODULE MCTaskManager ----------------------------
(***************************************************************************)
(* Bounded instance of TaskManager.  Every type has one slot.  Run `tasks' *)
(* submits four tasks that share two global slots: t1 and t2 meet in the   *)
(* queue of their type, t3 of another type meets them in the global queue, *)
(* and t4 has no executor; t1 has a retry and t2 goes first in a queue.    *)
(* Run `tasks_live' starts after a restart: t1 was left behind, with a     *)
(* poller, and meets t2 at the only global slot.                           *)
(***************************************************************************)
EXTENDS TaskManager

CONSTANTS t1, t2, t3, t4, image, mcp, text

MCTypeOf ==
  [t \in Task |-> IF t = t4 THEN text ELSE IF t = t3 THEN mcp ELSE image]
MCPriority == [t \in Task |-> IF t = t2 THEN 1 ELSE 0]
MCMaxRetries == [t \in Task |-> IF t = t1 THEN 1 ELSE 0]
MCTypeLimit == [type \in Type |-> 1]
=============================================================================
