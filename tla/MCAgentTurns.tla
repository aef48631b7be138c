----------------------------- MODULE MCAgentTurns -----------------------------
(***************************************************************************)
(* Two conversations for a pool of one agent that may grow to two: three   *)
(* messages for the first, one of them a continuation, while the second is *)
(* opened and deleted.                                                     *)
(***************************************************************************)
EXTENDS AgentTurns, TLC

CONSTANTS first, second, m1, m2, m3

MCConversation == {first, second}
MCMessage == {m1, m2, m3}
MCContinuations == {m3}
MCConversationOf == m1 :> first @@ m2 :> first @@ m3 :> first

\* Two conversations and two calls of disposed agents can hold one each.  When
\* all four are held, nothing is created until a call ends.
MCAgent == 1 .. 4
=============================================================================
