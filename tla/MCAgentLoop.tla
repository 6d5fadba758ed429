----------------------------- MODULE MCAgentLoop -----------------------------
(* Small instances of AgentLoop: messages are interchangeable.             *)
EXTENDS AgentLoop, TLC

Symmetry == Permutations(Msgs)
=============================================================================
