------------------------------- MODULE MCMaster -------------------------------
(* Small instances of Master for TLC. *)
EXTENDS Master, TLC

CONSTANTS c1, c2, a1, a2, v1

MCCommands == {Config(g, k) : g \in Gens, k \in BOOLEAN} \cup {Update}
MCSenders == {Registrar(c) : c \in Conns} \cup {Notifier(c) : c \in Conns}
               \cup {Reloader}
Symmetry == Permutations(Conns)

(* Bound of a run: what happens after a shutdown began is not explored. *)
BeforeShutdown == life = "up"
Registrations == {Register(a, v) : a \in Agents, v \in Versions}
Heartbeats == {Heartbeat(v) : v \in Versions}
=============================================================================
