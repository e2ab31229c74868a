--------------------------- MODULE MCAgentPairing ---------------------------
(* Symmetry of AgentPairing for TLC. *)
EXTENDS AgentPairing, TLC

RequestSymmetry == Permutations(Requests)
=============================================================================
