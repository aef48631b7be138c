----------------------- MODULE MCTaskResultObservation -----------------------
(***************************************************************************)
(* Bounded instance of TaskResultObservation: left and right form a        *)
(* wait-all group and both ask for a follow-up.  The task manager          *)
(* announces the end of left, which may fail where it completed before a   *)
(* restart; right may be a media task, reported by its owner, twice at one *)
(* time if need be.                                                        *)
(***************************************************************************)
EXTENDS TaskResultObservation

CONSTANTS left, right, completed, failed, o1, o2, s1, s2

MCResult == {<<left, completed>>, <<left, failed>>, <<right, completed>>}
=============================================================================
