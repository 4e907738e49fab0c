---------------------------- MODULE MCAgentTurn ----------------------------
(* AgentTurn for TLC. *)
EXTENDS AgentTurn
NoneOrTwo == {0, 2}
=============================================================================
