---------------------------- MODULE MCTaskRecovery ----------------------------
(***************************************************************************)
(* Bounded instance of TaskRecovery: one task through three processes, so  *)
(* that what one crash left can be crashed on again, with up to three jobs *)
(* at the provider.  Tasks meet only in the start-up's loop, where one can *)
(* delay another; every step of the one task can be late as it is.         *)
(***************************************************************************)
EXTENDS TaskRecovery

CONSTANT image
=============================================================================
