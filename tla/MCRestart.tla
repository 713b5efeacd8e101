------------------------------- MODULE MCRestart -------------------------------
(* A small instance of Restart for TLC. *)
EXTENDS Restart

(* "long #1" is read back as "long", which is too short for a PSK. *)
MCSettings == {"long key", "long #1", "long"}
MCLoaded == [s \in MCSettings |-> IF s = "long #1" THEN "long" ELSE s]
MCStrong == {"long key", "long #1"}
MCAccepted == {"long key"}
=============================================================================
