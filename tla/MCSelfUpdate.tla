----------------------------- MODULE MCSelfUpdate -----------------------------
(* Small instances of SelfUpdate for TLC. *)
EXTENDS SelfUpdate, TLC

CONSTANTS u1, u2

Symmetry == Permutations(Updates)
=============================================================================
