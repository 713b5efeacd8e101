------------------------------- MODULE Presence -------------------------------
(***************************************************************************)
(* What the master promises its owner about the agents that are connected: *)
(* an agent is at one connection at a time, the one on which it registered *)
(* last, and stays there until that connection is lost, the agent          *)
(* registers on another, or all are closed.  A message is for the          *)
(* connections agents are at when it is sent, and nobody comes or goes     *)
(* before it has been written to each.                                     *)
(***************************************************************************)
CONSTANTS Conns, Agents, Senders

VARIABLES
  at,      \* the agents that are connected, and where: a partial function
  known,   \* connections on which an agent has registered
  lost,    \* those of them that no longer work
  to,      \* per sender, the connections its message has still to be written to
  open     \* the master has not closed all connections yet

abstractVars == <<at, known, lost, to, open>>

Nowhere == [a \in {} |-> a]

InitPresence ==
  /\ at = Nowhere /\ known = {} /\ lost = {} /\ to = [g \in Senders |-> {}]
  /\ open = TRUE

Quiet == \A g \in Senders : to[g] = {}

(* An agent registers, on a connection nobody has registered on before. *)
Join(a, c) ==
  /\ Quiet /\ c \notin known
  /\ at' = [b \in DOMAIN at \cup {a} |-> IF b = a THEN c ELSE at[b]]
  /\ known' = known \cup {c}
  /\ UNCHANGED <<lost, to, open>>

Lose(c) ==
  /\ c \in known
  /\ lost' = lost \cup {c}
  /\ UNCHANGED <<at, known, to, open>>

(* An agent whose connection is lost is not connected any more. *)
Leave(a) ==
  /\ Quiet /\ a \in DOMAIN at /\ at[a] \in lost
  /\ at' = [b \in DOMAIN at \ {a} |-> at[b]]
  /\ UNCHANGED <<known, lost, to, open>>

(* Once, at the end; an agent may still come afterwards. *)
CloseAll ==
  /\ Quiet /\ open
  /\ at' = Nowhere /\ open' = FALSE
  /\ UNCHANGED <<known, lost, to>>

(* A message for one agent or for all. *)
SendTo(g, as) ==
  /\ to[g] = {} /\ as # {} /\ as \subseteq DOMAIN at
  /\ to' = [to EXCEPT ![g] = {at[a] : a \in as}]
  /\ UNCHANGED <<at, known, lost, open>>

Deliver(g, c) ==
  /\ c \in to[g]
  /\ to' = [to EXCEPT ![g] = @ \ {c}]
  /\ UNCHANGED <<at, known, lost, open>>

NextPresence ==
  \/ \E a \in Agents, c \in Conns : Join(a, c)
  \/ \E c \in Conns : Lose(c)
  \/ \E a \in Agents : Leave(a)
  \/ CloseAll
  \/ \E g \in Senders : \/ \E a \in Agents : SendTo(g, {a})
                        \/ SendTo(g, DOMAIN at)
                        \/ \E c \in Conns : Deliver(g, c)

PresenceSpec == InitPresence /\ [][NextPresence]_abstractVars

(* The consequence an owner cares about: a connection an agent has left, for *)
(* whatever reason, is never again one that a message is sent to.            *)
NeverBack ==
  \A a \in DOMAIN at' : at'[a] \in known => a \in DOMAIN at /\ at[a] = at'[a]
=============================================================================
