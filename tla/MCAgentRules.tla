----------------------------- MODULE MCAgentRules -----------------------------
(* Small instances of AgentRules for TLC. *)
EXTENDS AgentRules, TLC

CONSTANTS k1, k2, t1, l1, l2, l3, x1, x2, x3

Symmetry == Permutations(Listeners) \cup Permutations(Contexts)
=============================================================================
