----------------------------- MODULE MCAgentConn -----------------------------
(* Small instances of AgentConn for TLC. *)
EXTENDS AgentConn

CONSTANTS s1, s2, s3
=============================================================================
