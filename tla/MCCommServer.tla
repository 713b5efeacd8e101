---------------------------- MODULE MCCommServer ----------------------------
(* Small instances of CommServer for TLC. *)
EXTENDS CommServer, TLC

CONSTANTS c1, c2, a1, a2, v1

MCCommands == {[type |-> "CONFIG_UPDATE"]}
MCSenders == {"g1"}
Symmetry == Permutations(Conns) \cup Permutations(Agents)
=============================================================================
