------------------------------ MODULE MCAgentRounds ------------------------------
(* Two runs of one conversation, each of two rounds, with either provider. *)
EXTENDS AgentRounds

Both       == {"openai", "anthropic"}
TwoIndices == {1, 2}
=============================================================================
