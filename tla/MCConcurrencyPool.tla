-------------------------- MODULE MCConcurrencyPool --------------------------
(***************************************************************************)
(* Bounded instance of ConcurrencyPool: four calls, two priorities and     *)
(* limits 1 and 3, so that a queue of three forms behind one slot, drains  *)
(* by two at once, is overbooked by a lower limit and ordered by priority. *)
(***************************************************************************)
EXTENDS ConcurrencyPool

MCPriorities == {0, 1}
MCLimits == {1, 3}
=============================================================================
