--------------------------- MODULE CommServerProofs ---------------------------
(***************************************************************************)
(* Proofs about CommServer, for any number of connections, agents and      *)
(* senders.  The three safety invariants of the agents map are inductive   *)
(* together, with the types and the fact that a connection nobody has      *)
(* dialled has no handler.                                                 *)
(***************************************************************************)
EXTENDS CommServer, TLAPS

(* A handler is started by the connection it serves. *)
Undialled == \A c \in Conns : peer[c] = "none" => handler[c] = "none"

(* A handler that may own an entry knows under which ID. *)
Named == \A c \in Conns : handler[c] \in Serving => ident[c] \in Agents

(* A goroutine that holds the read lock writes to channels of the map. *)
Held == \A g \in Senders : \A c \in send[g].left :
          \E a \in Agents : Owns(a, c)

Safe == /\ Undialled
        /\ Named
        /\ EntriesServed
        /\ LatestReachable
        /\ Held

Inv == TypeOK /\ Safe

USE CommAssumption

(***************************************************************************)
(* What a write leaves on the wire has the type of the wire.               *)
(***************************************************************************)
LEMMA WrittenType ==
  ASSUME NEW M, NEW q \in [Conns -> Seq(M)], NEW c \in Conns, NEW m \in M
  PROVE  Written(q, c, m) \in [Conns -> Seq(M)]
  BY DEF Written

(***************************************************************************)
(* A REGISTER in a socket names an agent ID and a version.                 *)
(***************************************************************************)
LEMMA StartType ==
  ASSUME TypeOK, NEW c \in Conns, NEW v \in Versions \cup {NoVersion}
  PROVE  /\ Start(OnRegister(c)) \subseteq
              [kind : {"register", "disconnect", "heartbeat"}, conn : Conns,
               version : Versions \cup {NoVersion}]
         /\ Start(OnDisconnect(c)) \subseteq
              [kind : {"register", "disconnect", "heartbeat"}, conn : Conns,
               version : Versions \cup {NoVersion}]
         /\ Start(OnHeartbeat(c, v)) \subseteq
              [kind : {"register", "disconnect", "heartbeat"}, conn : Conns,
               version : Versions \cup {NoVersion}]
  BY DEF TypeOK, Start, OnRegister, OnDisconnect, OnHeartbeat

(***************************************************************************)
(* Types are preserved by the agents' steps ...                            *)
(***************************************************************************)
LEMMA AgentSideTypes ==
  ASSUME TypeOK, NEW c \in Conns, AgentSide(c)
  PROVE  TypeOK'
<1> USE DEF TypeOK
<1>1. CASE Dial(c)
  BY <1>1 DEF Dial
<1>2. CASE SayHello(c)
  <2>1. PICK m \in Hellos : toMaster' = Written(toMaster, c, m)
    BY <1>2 DEF SayHello
  <2>2. toMaster' \in [Conns -> Seq(Hellos \cup Reports)]
    BY <2>1, WrittenType
  <2> QED BY <1>2, <2>2 DEF SayHello
<1>3. CASE ReadAnswer(c)
  BY <1>3 DEF ReadAnswer
<1>4. CASE ReadCommand(c)
  BY <1>4 DEF ReadCommand
<1>5. CASE Report(c)
  <2>1. PICK m \in Reports : toMaster' = Written(toMaster, c, m)
    BY <1>5 DEF Report
  <2>2. toMaster' \in [Conns -> Seq(Hellos \cup Reports)]
    BY <2>1, WrittenType
  <2> QED BY <1>5, <2>2 DEF Report
<1>6. CASE Hangup(c)
  <2>1. toAgent' \in [Conns -> Seq(Commands \cup {Ack})]
    BY <1>6 DEF Hangup
  <2>2. toMaster' \in [Conns -> Seq(Hellos \cup Reports)]
    <3>1. <<>> \in Seq(Hellos \cup Reports)
      OBVIOUS
    <3>2. toMaster' = toMaster \/ toMaster' = [toMaster EXCEPT ![c] = <<>>]
      BY <1>6 DEF Hangup
    <3> QED BY <3>1, <3>2
  <2> QED BY <1>6, <2>1, <2>2 DEF Hangup
<1> QED BY <1>1, <1>2, <1>3, <1>4, <1>5, <1>6 DEF AgentSide

(***************************************************************************)
(* ... by the handlers' steps ...                                          *)
(***************************************************************************)
LEMMA HandlerTypes ==
  ASSUME TypeOK, NEW c \in Conns, ReadStep(c) \/ LockStep(c)
  PROVE  TypeOK'
<1> USE DEF TypeOK
<1>1. CASE RejectFirst(c)
  BY <1>1 DEF RejectFirst, CloseSockets
<1>2. CASE SendAck(c)
  <2>1. toAgent' \in [Conns -> Seq(Commands \cup {Ack})]
    BY <1>2, WrittenType DEF SendAck
  <2>2. callbacks' \subseteq
          [kind : {"register", "disconnect", "heartbeat"}, conn : Conns,
           version : Versions \cup {NoVersion}]
    BY <1>2, StartType DEF SendAck
  <2> QED BY <1>2, <2>1, <2>2 DEF SendAck
<1>3. CASE AckFails(c)
  BY <1>3 DEF AckFails
<1>4. CASE ReceiveOther(c)
  BY <1>4 DEF ReceiveOther, Receives
<1>5. CASE LoseConnection(c)
  BY <1>5 DEF LoseConnection
<1>6. CASE AcceptRegister(c)
  <2>1. PICK a \in Agents, v \in Versions \cup {NoVersion} :
          /\ Receives(c, Register(a, v))
          /\ ident' = [ident EXCEPT ![c] = a]
          /\ superseded' = IF agents[a] = NoEntry THEN superseded
                           ELSE superseded \cup {agents[a].channel}
          /\ agents' = [agents EXCEPT ![a] = [channel |-> c, version |-> v]]
    BY <1>6 DEF AcceptRegister
  <2>2. agents' \in [Agents -> Entries \cup {NoEntry}]
    BY <2>1 DEF Entries
  <2>3. superseded' \subseteq Conns
    BY <2>1 DEF Entries
  <2> QED BY <1>6, <2>1, <2>2, <2>3 DEF AcceptRegister, Receives
<1>7. CASE ReceiveHeartbeat(c)
  <2>1. PICK v \in Versions \cup {NoVersion} :
          /\ Receives(c, Heartbeat(v))
          /\ agents' = Refreshed(ident[c], v)
          /\ callbacks' = Start(OnHeartbeat(c, v))
    BY <1>7 DEF ReceiveHeartbeat
  <2>2. agents' \in [Agents -> Entries \cup {NoEntry}]
    BY <2>1 DEF Refreshed, Connected, Entries
  <2>3. callbacks' \subseteq
          [kind : {"register", "disconnect", "heartbeat"}, conn : Conns,
           version : Versions \cup {NoVersion}]
    BY <2>1, StartType
  <2> QED BY <1>7, <2>1, <2>2, <2>3 DEF ReceiveHeartbeat, Receives
<1>8. CASE RemoveAgent(c)
  <2>1. callbacks' \subseteq
          [kind : {"register", "disconnect", "heartbeat"}, conn : Conns,
           version : Versions \cup {NoVersion}]
    BY <1>8, StartType DEF RemoveAgent
  <2>2. agents' \in [Agents -> Entries \cup {NoEntry}]
    BY <1>8 DEF RemoveAgent
  <2>3. toMaster' \in [Conns -> Seq(Hellos \cup Reports)]
    BY <1>8 DEF RemoveAgent, CloseSockets
  <2> QED BY <1>8, <2>1, <2>2, <2>3 DEF RemoveAgent, CloseSockets
<1> QED BY <1>1, <1>2, <1>3, <1>4, <1>5, <1>6, <1>7, <1>8
        DEF ReadStep, LockStep

(***************************************************************************)
(* ... and by the owner's.                                                 *)
(***************************************************************************)
LEMMA OwnerTypes ==
  ASSUME TypeOK,
         \/ Sending \/ CloseAllAgents \/ CloseListener
         \/ \E k \in callbacks : FinishCallback(k)
  PROVE  TypeOK'
<1> USE DEF TypeOK, wire
<1>1. ASSUME NEW g \in Senders, NEW m \in Commands, SendToAllAgents(g, m)
      PROVE  TypeOK'
  BY <1>1 DEF SendToAllAgents, Connected, Entries
<1>2. ASSUME NEW g \in Senders, NEW m \in Commands, NEW a \in Agents,
             SendToAgent(g, a, m)
      PROVE  TypeOK'
  BY <1>2 DEF SendToAgent, Connected, Entries
<1>3. ASSUME NEW g \in Senders, NEW c \in Conns, WriteMessage(g, c)
      PROVE  TypeOK'
  <2>1. toAgent' \in [Conns -> Seq(Commands \cup {Ack})]
    BY <1>3, WrittenType DEF WriteMessage
  <2>2. Idle \in [msg : Commands \cup {Ack}, left : SUBSET Conns]
    BY DEF Idle
  <2>3. [msg |-> send[g].msg, left |-> send[g].left \ {c}]
          \in [msg : Commands \cup {Ack}, left : SUBSET Conns]
    OBVIOUS
  <2>4. send' \in [Senders -> [msg : Commands \cup {Ack}, left : SUBSET Conns]]
    BY <1>3, <2>2, <2>3 DEF WriteMessage
  <2> QED BY <1>3, <2>1, <2>4 DEF WriteMessage
<1>4. CASE CloseAllAgents
  BY <1>4 DEF CloseAllAgents, CloseSockets
<1>5. CASE CloseListener
  BY <1>5 DEF CloseListener
<1>6. ASSUME NEW k \in callbacks, FinishCallback(k)
      PROVE  TypeOK'
  BY <1>6 DEF FinishCallback
<1> QED BY <1>1, <1>2, <1>3, <1>4, <1>5, <1>6 DEF Sending

(***************************************************************************)
(* A step that leaves the map, the sends and the served connections alone  *)
(* keeps the invariant.                                                    *)
(***************************************************************************)
LEMMA Untouched ==
  ASSUME Inv, UNCHANGED <<agents, handler, ident, sock, superseded>>,
         \A c \in Conns : peer'[c] = "none" => peer[c] = "none",
         \A g \in Senders : send'[g].left \subseteq send[g].left
  PROVE  Safe'
<1> USE DEF Inv, Safe, TypeOK
<1>1. Undialled' /\ Named'
  BY DEF Undialled, Named, Serving
<1>2. EntriesServed' /\ LatestReachable'
  BY DEF EntriesServed, LatestReachable, Connected, Owns, Serving
<1>3. Held'
  BY DEF Held, Owns
<1> QED BY <1>1, <1>2, <1>3

(***************************************************************************)
(* The agents' steps keep it: only Dial starts a handler, and no entry     *)
(* belongs to a connection without one.                                    *)
(***************************************************************************)
LEMMA AgentSideSafe ==
  ASSUME Inv, NEW c \in Conns, AgentSide(c)
  PROVE  Safe'
<1> USE DEF Inv, Safe, TypeOK
<1>1. CASE Dial(c)
  <2>1. handler[c] = "none"
    BY <1>1 DEF Dial, Undialled
  <2>2. \A a \in Connected : agents[a].channel # c
    BY <2>1 DEF EntriesServed, Serving
  <2>3. Undialled' /\ Named'
    BY <1>1 DEF Dial, Undialled, Named, Serving
  <2>4. EntriesServed'
    BY <1>1, <2>2 DEF Dial, EntriesServed, Connected, Serving, Entries
  <2>5. LatestReachable'
    BY <1>1 DEF Dial, LatestReachable, Owns, Serving
  <2>6. Held'
    BY <1>1 DEF Dial, Held, Owns
  <2> QED BY <2>3, <2>4, <2>5, <2>6
<1>2. CASE SayHello(c) \/ ReadAnswer(c) \/ Hangup(c)
  BY <1>2, Untouched DEF SayHello, ReadAnswer, Hangup
<1>3. CASE ReadCommand(c) \/ Report(c)
  BY <1>3, Untouched DEF ReadCommand, Report
<1> QED BY <1>1, <1>2, <1>3 DEF AgentSide

(***************************************************************************)
(* So do the handlers' steps without the lock: they own no entry yet, or   *)
(* they keep it.                                                           *)
(***************************************************************************)
LEMMA ReadStepSafe ==
  ASSUME Inv, NEW c \in Conns, ReadStep(c)
  PROVE  Safe'
<1> USE DEF Inv, Safe, TypeOK
<1>1. CASE RejectFirst(c)
  <2>1. \A a \in Connected : agents[a].channel # c
    BY <1>1 DEF RejectFirst, EntriesServed, Serving
  <2>2. Undialled' /\ Named'
    BY <1>1 DEF RejectFirst, CloseSockets, Undialled, Named, Serving
  <2>3. EntriesServed'
    BY <1>1, <2>1
    DEF RejectFirst, CloseSockets, EntriesServed, Connected, Serving, Entries
  <2>4. LatestReachable'
    BY <1>1 DEF RejectFirst, CloseSockets, LatestReachable, Owns, Serving
  <2>5. Held'
    BY <1>1 DEF RejectFirst, Held, Owns
  <2> QED BY <2>2, <2>3, <2>4, <2>5
<1>2. CASE SendAck(c) \/ AckFails(c) \/ LoseConnection(c)
  <2>1. /\ UNCHANGED <<agents, ident, sock, peer, send, superseded>>
        /\ handler[c] \in Serving
        /\ \E pc \in Serving : handler' = [handler EXCEPT ![c] = pc]
    BY <1>2 DEF SendAck, AckFails, LoseConnection, Serving
  <2>2. Undialled' /\ Named'
    BY <2>1 DEF Undialled, Named, Serving
  <2>3. EntriesServed' /\ LatestReachable'
    BY <2>1 DEF EntriesServed, LatestReachable, Connected, Owns, Entries
  <2>4. Held'
    BY <2>1 DEF Held, Owns
  <2> QED BY <2>2, <2>3, <2>4
<1>3. CASE ReceiveOther(c)
  BY <1>3, Untouched DEF ReceiveOther
<1> QED BY <1>1, <1>2, <1>3 DEF ReadStep

(***************************************************************************)
(* A registration takes the ID over from the connection it supersedes.     *)
(***************************************************************************)
LEMMA AcceptRegisterSafe ==
  ASSUME Inv, NEW c \in Conns, AcceptRegister(c)
  PROVE  Safe'
<1> USE DEF Inv, Safe, TypeOK
<1>1. PICK a \in Agents, v \in Versions \cup {NoVersion} :
        /\ Receives(c, Register(a, v))
        /\ ident' = [ident EXCEPT ![c] = a]
        /\ superseded' = IF agents[a] = NoEntry THEN superseded
                         ELSE superseded \cup {agents[a].channel}
        /\ agents' = [agents EXCEPT ![a] = [channel |-> c, version |-> v]]
  BY DEF AcceptRegister
<1>2. /\ handler[c] = "first" /\ handler' = [handler EXCEPT ![c] = "ack"]
      /\ sock[c] = "open"
      /\ UNCHANGED <<sock, peer, send>> /\ LockFree
  BY <1>1 DEF AcceptRegister, Receives
<1>3. Undialled' /\ Named'
  BY <1>1, <1>2 DEF Undialled, Named, Serving
<1>4. EntriesServed'
  <2> SUFFICES ASSUME NEW b \in Connected'
               PROVE  LET d == agents'[b].channel
                      IN  /\ ident'[d] = b /\ handler'[d] \in Serving
                          /\ sock'[d] = "open"
    BY DEF EntriesServed, Serving
  <2>1. CASE b = a
    BY <1>1, <1>2, <2>1 DEF Serving
  <2>2. CASE b # a
    <3>1. b \in Connected /\ agents'[b] = agents[b]
      BY <1>1, <2>2 DEF Connected
    <3>2. agents[b] \in Entries
      BY <3>1 DEF Connected
    <3>3. agents[b].channel \in Conns
      BY <3>2 DEF Entries
    <3>4. handler[agents[b].channel] \in Serving
      BY <3>1 DEF EntriesServed
    <3>5. agents[b].channel # c
      BY <1>2, <3>4 DEF Serving
    <3> QED BY <1>1, <1>2, <3>1, <3>3, <3>5 DEF EntriesServed, Serving
  <2> QED BY <2>1, <2>2
<1>5. LatestReachable'
  <2> SUFFICES ASSUME NEW d \in Conns, handler'[d] \in Serving,
                      sock'[d] = "open", d \notin superseded'
               PROVE  Owns(ident[d], d)'
    BY DEF LatestReachable, Serving
  <2>1. CASE d = c
    BY <1>1, <2>1, CommAssumption DEF Owns
  <2>2. CASE d # c
    <3>1. handler[d] \in Serving /\ sock[d] = "open" /\ d \notin superseded
      BY <1>1, <1>2, <2>2
    <3>2. Owns(ident[d], d) /\ ident[d] \in Agents
      BY <3>1 DEF LatestReachable, Named
    <3>3. ident[d] # a
      BY <1>1, <3>2 DEF Owns
    <3> QED BY <1>1, <2>2, <3>2, <3>3 DEF Owns
  <2> QED BY <2>1, <2>2
<1>6. Held'
  BY <1>2 DEF Held, LockFree
<1> QED BY <1>3, <1>4, <1>5, <1>6

(***************************************************************************)
(* A heartbeat changes at most the version of an entry.                    *)
(***************************************************************************)
LEMMA HeartbeatKeepsChannels ==
  ASSUME TypeOK, NEW c \in Conns, ReceiveHeartbeat(c)
  PROVE  \A a \in Agents : /\ agents'[a] = NoEntry <=> agents[a] = NoEntry
                           /\ agents[a] # NoEntry =>
                                agents'[a].channel = agents[a].channel
<1> USE DEF TypeOK
<1>1. PICK v \in Versions \cup {NoVersion} : agents' = Refreshed(ident[c], v)
  BY DEF ReceiveHeartbeat
<1>2. CASE v # NoVersion /\ ident[c] \in Connected
  <2>1. agents[ident[c]] \in Entries
    BY <1>2 DEF Connected
  <2>2. /\ [agents[ident[c]] EXCEPT !.version = v] \in Entries
        /\ [agents[ident[c]] EXCEPT !.version = v].channel
             = agents[ident[c]].channel
    BY <2>1 DEF Entries
  <2>3. NoEntry \notin Entries
    BY CommAssumption DEF Entries
  <2>4. agents' = [agents EXCEPT ![ident[c]] =
                    [agents[ident[c]] EXCEPT !.version = v]]
    BY <1>1, <1>2 DEF Refreshed
  <2> QED BY <2>1, <2>2, <2>3, <2>4
<1>3. CASE ~(v # NoVersion /\ ident[c] \in Connected)
  BY <1>1, <1>3 DEF Refreshed
<1> QED BY <1>2, <1>3

LEMMA ReceiveHeartbeatSafe ==
  ASSUME Inv, NEW c \in Conns, ReceiveHeartbeat(c)
  PROVE  Safe'
<1> USE DEF Inv, Safe, TypeOK
<1>1. UNCHANGED <<handler, ident, sock, peer, send, superseded>>
  BY DEF ReceiveHeartbeat
<1>2. \A a \in Agents : /\ agents'[a] = NoEntry <=> agents[a] = NoEntry
                        /\ agents[a] # NoEntry =>
                             agents'[a].channel = agents[a].channel
  BY HeartbeatKeepsChannels
<1>3. Undialled' /\ Named'
  BY <1>1 DEF Undialled, Named, Serving
<1>4. EntriesServed'
  BY <1>1, <1>2 DEF EntriesServed, Connected, Serving
<1>5. LatestReachable'
  BY <1>1, <1>2 DEF LatestReachable, Named, Owns, Serving
<1>6. Held'
  BY <1>1, <1>2 DEF Held, Owns
<1> QED BY <1>3, <1>4, <1>5, <1>6

(***************************************************************************)
(* removeAgent takes out the entry of its own connection and no other.     *)
(***************************************************************************)
LEMMA RemoveAgentSafe ==
  ASSUME Inv, NEW c \in Conns, RemoveAgent(c)
  PROVE  Safe'
<1> USE DEF Inv, Safe, TypeOK
<1>1. /\ handler[c] = "remove" /\ handler' = [handler EXCEPT ![c] = "done"]
      /\ sock' = [d \in Conns |-> IF d = c THEN "closed" ELSE sock[d]]
      /\ UNCHANGED <<ident, peer, send, superseded>> /\ LockFree
  BY DEF RemoveAgent, CloseSockets
<1>2. ident[c] \in Agents
  BY <1>1 DEF Named, Serving
<1>3. \A a \in Agents : agents'[a] =
        IF a \in Connected /\ agents[a].channel = c THEN NoEntry ELSE agents[a]
  BY <1>2 DEF RemoveAgent, Owns, EntriesServed, Connected
<1>4. Undialled' /\ Named'
  BY <1>1 DEF Undialled, Named, Serving
<1>5. EntriesServed'
  BY <1>1, <1>3 DEF EntriesServed, Connected, Serving, Entries
<1>6. LatestReachable'
  <2> SUFFICES ASSUME NEW d \in Conns, handler'[d] \in Serving,
                      sock'[d] = "open", d \notin superseded'
               PROVE  Owns(ident[d], d)'
    BY DEF LatestReachable, Serving
  <2>1. d # c
    BY <1>1
  <2>2. Owns(ident[d], d) /\ ident[d] \in Agents
    BY <1>1, <2>1 DEF LatestReachable, Named
  <2>3. agents'[ident[d]] = agents[ident[d]]
    BY <1>3, <2>1, <2>2 DEF Owns
  <2> QED BY <1>1, <2>2, <2>3 DEF Owns
<1>7. Held'
  BY <1>1 DEF Held, LockFree
<1> QED BY <1>4, <1>5, <1>6, <1>7

(***************************************************************************)
(* The owner's steps: a send takes its channels from the map, and          *)
(* CloseAllAgents closes every channel it clears.                          *)
(***************************************************************************)
LEMMA OwnerSafe ==
  ASSUME Inv,
         \/ Sending \/ CloseAllAgents \/ CloseListener
         \/ \E k \in callbacks : FinishCallback(k)
  PROVE  Safe'
<1> USE DEF Inv, Safe, TypeOK
<1>1. ASSUME NEW g \in Senders, NEW m, NEW cs,
             \A c \in cs : \E a \in Agents : Owns(a, c),
             send' = [send EXCEPT ![g] = [msg |-> m, left |-> cs]],
             UNCHANGED <<agents, handler, ident, wire, callbacks, life,
                         superseded>>
      PROVE  Safe'
  <2>1. Undialled' /\ Named' /\ EntriesServed' /\ LatestReachable'
    BY <1>1 DEF Undialled, Named, EntriesServed, LatestReachable, Connected,
                Owns, Serving, wire
  <2>2. Held'
    BY <1>1 DEF Held, Owns
  <2> QED BY <2>1, <2>2
<1>2. ASSUME NEW g \in Senders, NEW m \in Commands, SendToAllAgents(g, m)
      PROVE  Safe'
  <2>1. \A c \in {agents[a].channel : a \in Connected} :
          \E a \in Agents : Owns(a, c)
    BY DEF Connected, Owns
  <2> QED BY <1>1, <1>2, <2>1 DEF SendToAllAgents
<1>3. ASSUME NEW g \in Senders, NEW m \in Commands, NEW a \in Agents,
             SendToAgent(g, a, m)
      PROVE  Safe'
  <2> DEFINE cs == {agents[a].channel}
  <2>1. \A c \in cs : \E b \in Agents : Owns(b, c)
    BY <1>3 DEF SendToAgent, Connected, Owns
  <2>2. /\ send' = [send EXCEPT ![g] = [msg |-> m, left |-> cs]]
        /\ UNCHANGED <<agents, handler, ident, wire, callbacks, life,
                       superseded>>
    BY <1>3 DEF SendToAgent
  <2> HIDE DEF cs
  <2> QED BY <1>1, <2>1, <2>2
<1>4. ASSUME NEW g \in Senders, NEW c \in Conns, WriteMessage(g, c)
      PROVE  Safe'
  <2>1. \A h \in Senders : send'[h].left \subseteq send[h].left
    BY <1>4 DEF WriteMessage, Idle
  <2> QED BY <1>4, <2>1, Untouched DEF WriteMessage
<1>5. CASE CloseAllAgents
  <2>1. /\ agents' = [a \in Agents |-> NoEntry] /\ LockFree
        /\ UNCHANGED <<handler, ident, peer, send, superseded>>
        /\ sock' = [c \in Conns |->
                      IF c \in {agents[a].channel : a \in Connected}
                      THEN "closed" ELSE sock[c]]
    BY <1>5 DEF CloseAllAgents, CloseSockets
  <2>2. Undialled' /\ Named'
    BY <2>1 DEF Undialled, Named, Serving
  <2>3. EntriesServed'
    BY <2>1 DEF EntriesServed, Connected
  <2>4. LatestReachable'
    <3> SUFFICES ASSUME NEW d \in Conns, handler'[d] \in Serving,
                        sock'[d] = "open", d \notin superseded'
                 PROVE  FALSE
      BY DEF LatestReachable, Serving
    <3>1. handler[d] \in Serving /\ d \notin superseded
      BY <2>1
    <3>2. sock[d] = "open" /\ d \notin {agents[a].channel : a \in Connected}
      BY <2>1
    <3>3. Owns(ident[d], d) /\ ident[d] \in Agents
      BY <3>1, <3>2 DEF LatestReachable, Named
    <3> QED BY <3>2, <3>3 DEF Owns, Connected
  <2>5. Held'
    BY <2>1 DEF Held, LockFree
  <2> QED BY <2>2, <2>3, <2>4, <2>5
<1>6. CASE CloseListener
  BY <1>6, Untouched DEF CloseListener, wire
<1>7. ASSUME NEW k \in callbacks, FinishCallback(k)
      PROVE  Safe'
  BY <1>7, Untouched DEF FinishCallback, wire
<1> QED BY <1>2, <1>3, <1>4, <1>5, <1>6, <1>7 DEF Sending

(***************************************************************************)
(* No step of the server breaks the invariant.                             *)
(***************************************************************************)
LEMMA StepKeepsInv ==
  ASSUME Inv, [Next]_vars
  PROVE  Inv'
<1>1. CASE UNCHANGED vars
  <2>1. TypeOK'
    BY <1>1 DEF vars, Inv, TypeOK
  <2> QED BY <1>1, <2>1, Untouched DEF vars, Inv
<1>2. CASE Next
  <2>1. TypeOK'
    BY <1>2, AgentSideTypes, HandlerTypes, OwnerTypes DEF Next, Inv
  <2>2. Safe'
    BY <1>2, AgentSideSafe, ReadStepSafe, AcceptRegisterSafe,
       ReceiveHeartbeatSafe, RemoveAgentSafe, OwnerSafe DEF Next, LockStep
  <2> QED BY <2>1, <2>2 DEF Inv
<1> QED BY <1>1, <1>2

(***************************************************************************)
(* The invariant holds in every reachable state.                           *)
(***************************************************************************)
THEOREM CommSafe == Spec => []Inv
<1>1. Init => Inv
  BY DEF Init, Inv, Safe, TypeOK, Idle, Undialled, Named, Serving,
         EntriesServed, LatestReachable, Held, Connected
<1>2. Inv /\ [Next]_vars => Inv'
  BY StepKeepsInv
<1> QED BY <1>1, <1>2, PTL DEF Spec

(***************************************************************************)
(* The server's state is well typed in every reachable state.              *)
(***************************************************************************)
THEOREM CommTypes == Spec => []TypeOK
<1>1. Inv => TypeOK
  BY DEF Inv
<1> QED BY <1>1, CommSafe, PTL

(***************************************************************************)
(* Every entry of the map is backed by an open channel and a handler that  *)
(* will remove it.                                                         *)
(***************************************************************************)
THEOREM CommEntriesServed == Spec => []EntriesServed
<1>1. Inv => EntriesServed
  BY DEF Inv, Safe
<1> QED BY <1>1, CommSafe, PTL

(***************************************************************************)
(* The latest connection of an agent is the one sends reach: no handler of *)
(* an older connection evicts it, whenever it runs.                        *)
(***************************************************************************)
THEOREM CommLatestReachable == Spec => []LatestReachable
<1>1. Inv => LatestReachable
  BY DEF Inv, Safe
<1> QED BY <1>1, CommSafe, PTL

(***************************************************************************)
(* A send under way is to channels that are in the map and open.           *)
(***************************************************************************)
THEOREM CommSendsHitLiveEntries == Spec => []SendsHitLiveEntries
<1>1. Inv => SendsHitLiveEntries
  <2> SUFFICES ASSUME Inv, NEW g \in Senders, NEW c \in send[g].left
               PROVE  Owns(ident[c], c) /\ sock[c] = "open"
    BY DEF SendsHitLiveEntries
  <2>1. PICK a \in Agents : Owns(a, c)
    BY DEF Inv, Safe, Held
  <2> QED BY <2>1 DEF Inv, Safe, EntriesServed, Connected, Owns
<1> QED BY <1>1, CommSafe, PTL

(***************************************************************************)
(* The server implements Presence.  A handler that has read no REGISTER    *)
(* has no identity, so that its connection is not known to the owner.      *)
(***************************************************************************)
Anonymous == \A c \in Conns : handler[c] \in {"none", "first"} => ident[c] = NoAgent

LEMMA AnonymousKept ==
  ASSUME TypeOK, Undialled, Anonymous, [Next]_vars
  PROVE  Anonymous'
<1> USE DEF TypeOK, Anonymous
<1>1. ASSUME NEW c \in Conns, AgentSide(c)
      PROVE  Anonymous'
  <2>1. CASE Dial(c)
    <3>1. ident' = ident /\ handler' = [handler EXCEPT ![c] = "first"]
      BY <2>1 DEF Dial
    <3>2. handler[c] = "none" => ident[c] = NoAgent
      OBVIOUS
    <3> QED BY <3>1, <3>2, <2>1 DEF Dial, Undialled
  <2>2. CASE ~Dial(c)
    BY <1>1, <2>2 DEF AgentSide, SayHello, ReadAnswer, ReadCommand, Report, Hangup
  <2> QED BY <2>1, <2>2
<1>2. ASSUME NEW c \in Conns, ReadStep(c)
      PROVE  Anonymous'
  BY <1>2 DEF ReadStep, RejectFirst, SendAck, AckFails, ReceiveOther, LoseConnection
<1>3. ASSUME NEW c \in Conns, AcceptRegister(c)
      PROVE  Anonymous'
  BY <1>3 DEF AcceptRegister
<1>4. ASSUME NEW c \in Conns, ReceiveHeartbeat(c) \/ RemoveAgent(c)
      PROVE  Anonymous'
  BY <1>4 DEF ReceiveHeartbeat, RemoveAgent
<1>5. CASE \/ Sending \/ CloseAllAgents \/ CloseListener
           \/ \E k \in callbacks : FinishCallback(k)
  BY <1>5 DEF Sending, SendToAgent, SendToAllAgents, WriteMessage, CloseAllAgents,
              CloseListener, FinishCallback
<1>6. CASE UNCHANGED vars
  BY <1>6 DEF vars
<1> QED BY <1>1, <1>2, <1>3, <1>4, <1>5, <1>6 DEF Next, LockStep

(* The owner sees nothing of a step that leaves the map, the sends, the     *)
(* identities, what is lost and whether the server is up as they are.       *)
LEMMA Unseen ==
  ASSUME UNCHANGED <<agents, ident, send, life>>, Lost' = Lost
  PROVE  UNCHANGED Owner!abstractVars
  BY DEF Owner!abstractVars, At, Known, Left, Open, Connected

(* The agents' steps are unseen: the handler that a dial starts is anonymous. *)
LEMMA AgentSideUnseen ==
  ASSUME TypeOK, Undialled, Anonymous, NEW c \in Conns, AgentSide(c)
  PROVE  UNCHANGED Owner!abstractVars
<1>1. UNCHANGED <<agents, ident, send, life>>
  BY DEF AgentSide, Dial, SayHello, ReadAnswer, ReadCommand, Report, Hangup
<1>2. CASE Dial(c)
  <2>1. handler' = [handler EXCEPT ![c] = "first"] /\ ident[c] = NoAgent
    BY <1>2 DEF Dial, Undialled, Anonymous
  <2>2. Lost' = Lost
    BY <1>1, <2>1 DEF Lost, Known, TypeOK
  <2> QED BY <1>1, <2>2, Unseen
<1>3. CASE ~Dial(c)
  <2>1. handler' = handler
    BY <1>3 DEF AgentSide, SayHello, ReadAnswer, ReadCommand, Report, Hangup
  <2> QED BY <1>1, <2>1, Unseen DEF Lost, Known
<1> QED BY <1>2, <1>3

(* Without the lock a handler at most loses its connection. *)
LEMMA ReadStepSeen ==
  ASSUME Inv, Anonymous, NEW c \in Conns, ReadStep(c)
  PROVE  [Owner!NextPresence]_(Owner!abstractVars)
<1> USE DEF Inv, Safe, TypeOK
<1>1. UNCHANGED <<agents, ident, send, life>>
  BY DEF ReadStep, RejectFirst, SendAck, AckFails, ReceiveOther, LoseConnection
<1>2. CASE RejectFirst(c)
  <2>1. handler' = [handler EXCEPT ![c] = "done"] /\ ident[c] = NoAgent
    BY <1>2 DEF RejectFirst, Anonymous
  <2> QED BY <1>1, <2>1, Unseen DEF Lost, Known
<1>3. CASE SendAck(c) \/ ReceiveOther(c)
  <2>1. \A d \in Conns : handler'[d] \in {"remove", "done"}
                            <=> handler[d] \in {"remove", "done"}
    BY <1>3 DEF SendAck, ReceiveOther
  <2> QED BY <1>1, <2>1, Unseen DEF Lost, Known
<1>4. CASE AckFails(c) \/ LoseConnection(c)
  <2>1. handler[c] \in {"ack", "loop"} /\ handler' = [handler EXCEPT ![c] = "remove"]
    BY <1>4 DEF AckFails, LoseConnection
  <2>2. c \in Known
    BY <2>1 DEF Named, Serving, Known
  <2>3. Lost' = Lost \cup {c}
    BY <1>1, <2>1, <2>2 DEF Lost, Known
  <2>4. UNCHANGED <<At, Known, Left, Open>>
    BY <1>1 DEF At, Known, Left, Open, Connected
  <2>5. Owner!Lose(c)
    BY <2>2, <2>3, <2>4 DEF Owner!Lose
  <2> QED BY <2>5 DEF Owner!NextPresence
<1> QED BY <1>2, <1>3, <1>4 DEF ReadStep

(* With the write lock no send is under way. *)
LEMMA LockQuiet ==
  ASSUME LockFree
  PROVE  Owner!Quiet
  BY DEF LockFree, Owner!Quiet, Left

(* A registration is seen as an agent that comes. *)
LEMMA AcceptRegisterSeen ==
  ASSUME Inv, Anonymous, NEW c \in Conns, AcceptRegister(c)
  PROVE  Owner!NextPresence
<1> USE DEF Inv, Safe, TypeOK
<1>1. PICK a \in Agents, v \in Versions \cup {NoVersion} :
        /\ ident' = [ident EXCEPT ![c] = a]
        /\ agents' = [agents EXCEPT ![a] = [channel |-> c, version |-> v]]
  BY DEF AcceptRegister
<1>2. /\ handler[c] = "first" /\ handler' = [handler EXCEPT ![c] = "ack"]
      /\ UNCHANGED <<send, life>> /\ LockFree
  BY DEF AcceptRegister
<1>3. c \notin Known
  BY <1>2 DEF Anonymous, Known
<1>4. Known' = Known \cup {c}
  BY <1>1, CommAssumption DEF Known
<1>5. Lost' = Lost
  BY <1>1, <1>2, <1>3 DEF Lost, Known
<1>6. At' = [b \in DOMAIN At \cup {a} |-> IF b = a THEN c ELSE At[b]]
  <2>1. [channel |-> c, version |-> v] # NoEntry
    BY CommAssumption
  <2>2. Connected' = Connected \cup {a}
    BY <1>1, <2>1 DEF Connected
  <2>3. \A b \in Connected' :
          agents'[b].channel = IF b = a THEN c ELSE agents[b].channel
    BY <1>1 DEF Connected
  <2>4. \A b \in Connected' \ {a} : At[b] = agents[b].channel
    BY <2>2 DEF At
  <2> QED BY <2>2, <2>3, <2>4 DEF At
<1>7. UNCHANGED <<Lost, Left, Open>>
  BY <1>2, <1>5 DEF Left, Open
<1>8. Owner!Join(a, c)
  BY <1>2, <1>3, <1>4, <1>6, <1>7, LockQuiet DEF Owner!Join
<1> QED BY <1>8 DEF Owner!NextPresence

(* A heartbeat moves no agent to another connection. *)
LEMMA ReceiveHeartbeatUnseen ==
  ASSUME Inv, NEW c \in Conns, ReceiveHeartbeat(c)
  PROVE  UNCHANGED Owner!abstractVars
<1> USE DEF Inv
<1>1. UNCHANGED <<handler, ident, send, life>>
  BY DEF ReceiveHeartbeat
<1>2. UNCHANGED <<Known, Lost, Left, Open>>
  BY <1>1 DEF Known, Lost, Left, Open
<1>3. /\ Connected' = Connected
      /\ \A a \in Connected : agents'[a].channel = agents[a].channel
  BY HeartbeatKeepsChannels DEF Connected
<1> QED BY <1>2, <1>3 DEF Owner!abstractVars, At

(* The clean-up of a handler is seen as an agent that goes, if the agent was *)
(* still at the connection of this handler.                                  *)
LEMMA RemoveAgentSeen ==
  ASSUME Inv, NEW c \in Conns, RemoveAgent(c)
  PROVE  [Owner!NextPresence]_(Owner!abstractVars)
<1> USE DEF Inv, Safe, TypeOK
<1>1. /\ handler[c] = "remove" /\ handler' = [handler EXCEPT ![c] = "done"]
      /\ UNCHANGED <<ident, send, life>> /\ LockFree
  BY DEF RemoveAgent
<1>2. UNCHANGED <<Known, Lost, Left, Open>>
  BY <1>1 DEF Known, Lost, Left, Open
<1>3. CASE Owns(ident[c], c)
  <2> DEFINE a == ident[c]
  <2>1. a \in Agents /\ agents' = [agents EXCEPT ![a] = NoEntry]
    BY <1>1, <1>3 DEF RemoveAgent, Named, Serving
  <2>2. a \in Connected /\ agents[a].channel = c
    BY <1>3, <2>1 DEF Owns, Connected
  <2>3. a \in DOMAIN At /\ At[a] \in Lost
    BY <1>1, <2>1, <2>2, CommAssumption DEF At, Lost, Known
  <2>4. Connected' = Connected \ {a}
    BY <2>1 DEF Connected
  <2>5. At' = [b \in DOMAIN At \ {a} |-> At[b]]
    BY <2>1, <2>4 DEF At, Connected
  <2>6. Owner!Leave(a)
    BY <1>1, <1>2, <2>3, <2>5, LockQuiet DEF Owner!Leave
  <2> QED BY <2>1, <2>6 DEF Owner!NextPresence
<1>4. CASE ~Owns(ident[c], c)
  <2>1. agents' = agents
    BY <1>4 DEF RemoveAgent
  <2> QED BY <1>2, <2>1 DEF Owner!abstractVars, At, Connected
<1> QED BY <1>3, <1>4

(* Sends, shutdown and the ends of callbacks. *)
LEMMA OwnerSeen ==
  ASSUME Inv,
         \/ Sending \/ CloseAllAgents \/ CloseListener
         \/ \E k \in callbacks : FinishCallback(k)
  PROVE  [Owner!NextPresence]_(Owner!abstractVars)
<1> USE DEF Inv, Safe, TypeOK
<1>1. ASSUME NEW g \in Senders, NEW m \in Commands, SendToAllAgents(g, m)
      PROVE  Owner!NextPresence
  <2>1. UNCHANGED <<At, Known, Lost, Open>>
    BY <1>1 DEF SendToAllAgents, At, Known, Lost, Open, Connected
  <2>2. {agents[a].channel : a \in Connected} = {At[a] : a \in DOMAIN At}
    BY DEF At
  <2>3. Left[g] = {} /\ DOMAIN At # {}
    BY <1>1 DEF SendToAllAgents, Left, At
  <2>4. Left' = [Left EXCEPT ![g] = {At[a] : a \in DOMAIN At}]
    BY <1>1, <2>2 DEF SendToAllAgents, Left
  <2>5. Owner!SendTo(g, DOMAIN At)
    BY <2>1, <2>3, <2>4 DEF Owner!SendTo
  <2> QED BY <2>5 DEF Owner!NextPresence
<1>2. ASSUME NEW g \in Senders, NEW m \in Commands, NEW a \in Agents,
             SendToAgent(g, a, m)
      PROVE  Owner!NextPresence
  <2>1. UNCHANGED <<At, Known, Lost, Open>>
    BY <1>2 DEF SendToAgent, At, Known, Lost, Open, Connected, wire
  <2>2. a \in DOMAIN At /\ At[a] = agents[a].channel /\ Left[g] = {}
    BY <1>2 DEF SendToAgent, At, Left
  <2>3. {agents[a].channel} = {At[b] : b \in {a}}
    BY <2>2
  <2>4. Left' = [Left EXCEPT ![g] = {agents[a].channel}]
    BY <1>2 DEF SendToAgent, Left
  <2>5. Owner!SendTo(g, {a})
    BY <2>1, <2>2, <2>3, <2>4 DEF Owner!SendTo
  <2> QED BY <2>5 DEF Owner!NextPresence
<1>3. ASSUME NEW g \in Senders, NEW c \in Conns, WriteMessage(g, c)
      PROVE  Owner!NextPresence
  <2>1. UNCHANGED <<At, Known, Lost, Open>>
    BY <1>3 DEF WriteMessage, At, Known, Lost, Open, Connected
  <2>2. c \in Left[g]
    BY <1>3 DEF WriteMessage, Left
  <2>3. send'[g].left = send[g].left \ {c}
    BY <1>3 DEF WriteMessage, Idle
  <2>4. \A h \in Senders : h # g => send'[h] = send[h]
    BY <1>3 DEF WriteMessage
  <2>5. Left' = [Left EXCEPT ![g] = @ \ {c}]
    BY <2>3, <2>4 DEF Left
  <2>6. Owner!Deliver(g, c)
    BY <2>1, <2>2, <2>5 DEF Owner!Deliver
  <2> QED BY <2>6 DEF Owner!NextPresence
<1>4. CASE CloseAllAgents
  <2>1. /\ agents' = [a \in Agents |-> NoEntry] /\ life = "up" /\ life' = "closing"
        /\ LockFree /\ UNCHANGED <<handler, ident, send>>
    BY <1>4 DEF CloseAllAgents
  <2>2. UNCHANGED <<Known, Lost, Left>> /\ Open /\ ~Open'
    BY <2>1 DEF Known, Lost, Left, Open
  <2>3. Connected' = {}
    BY <2>1 DEF Connected
  <2>4. At' = Owner!Nowhere
    BY <2>3 DEF At, Owner!Nowhere
  <2>5. Owner!CloseAll
    BY <2>1, <2>2, <2>4, LockQuiet DEF Owner!CloseAll
  <2> QED BY <2>5 DEF Owner!NextPresence
<1>5. CASE CloseListener
  <2>1. UNCHANGED <<agents, handler, ident, send>> /\ life # "up" /\ life' # "up"
    BY <1>5 DEF CloseListener
  <2> QED BY <2>1 DEF Owner!abstractVars, At, Known, Lost, Left, Open, Connected
<1>6. ASSUME NEW k \in callbacks, FinishCallback(k)
      PROVE  UNCHANGED Owner!abstractVars
  BY <1>6, Unseen DEF FinishCallback, Lost, Known
<1> QED BY <1>1, <1>2, <1>3, <1>4, <1>5, <1>6 DEF Sending

(* Every step of the server is a step of Presence or is not seen. *)
LEMMA StepSeen ==
  ASSUME Inv, Anonymous, [Next]_vars
  PROVE  [Owner!NextPresence]_(Owner!abstractVars)
<1>1. CASE UNCHANGED vars
  BY <1>1, Unseen DEF vars, Lost, Known
<1>2. CASE Next
  BY <1>2, AgentSideUnseen, ReadStepSeen, AcceptRegisterSeen, ReceiveHeartbeatUnseen,
     RemoveAgentSeen, OwnerSeen DEF Next, LockStep, Inv, Safe
<1> QED BY <1>1, <1>2

(***************************************************************************)
(* Refinement: the server, for any agents, connections and senders,        *)
(* behaves as Presence says.                                               *)
(***************************************************************************)
THEOREM CommImplementsPresence == Spec => PresenceKept
<1>1. Init => Owner!InitPresence /\ Anonymous
  <2> SUFFICES ASSUME Init PROVE Owner!InitPresence /\ Anonymous
    OBVIOUS
  <2>1. Connected = {} /\ Known = {} /\ Lost = {} /\ Open
    BY DEF Init, Connected, Known, Lost, Open
  <2>2. At = Owner!Nowhere
    BY <2>1 DEF At, Owner!Nowhere
  <2>3. Left = [g \in Senders |-> {}]
    BY DEF Init, Left, Idle
  <2>4. Anonymous
    BY DEF Init, Anonymous
  <2> QED BY <2>1, <2>2, <2>3, <2>4 DEF Owner!InitPresence
<1>2. Inv /\ Anonymous /\ [Next]_vars => Anonymous'
  BY AnonymousKept DEF Inv, Safe
<1>3. Inv /\ Anonymous /\ [Next]_vars => [Owner!NextPresence]_(Owner!abstractVars)
  BY StepSeen
<1> QED BY <1>1, <1>2, <1>3, CommSafe, PTL DEF Spec, PresenceKept, Owner!PresenceSpec

(***************************************************************************)
(* A connection that an agent has left, because it registered on another,  *)
(* was cut off or the server was closed, never becomes an agent's again:   *)
(* no late handler puts it back.                                           *)
(***************************************************************************)
THEOREM CommNeverBack == Spec => [][Owner!NeverBack]_vars
<1>1. [Owner!NextPresence]_(Owner!abstractVars) => Owner!NeverBack
  <2> SUFFICES ASSUME [Owner!NextPresence]_(Owner!abstractVars) PROVE Owner!NeverBack
    OBVIOUS
  <2>1. CASE At' = At
    BY <2>1 DEF Owner!NeverBack
  <2>2. ASSUME NEW a \in Agents, NEW c \in Conns, Owner!Join(a, c)
        PROVE  Owner!NeverBack
    <3>1. /\ c \notin Known
          /\ At' = [b \in DOMAIN At \cup {a} |-> IF b = a THEN c ELSE At[b]]
      BY <2>2 DEF Owner!Join
    <3>2. DOMAIN At' = DOMAIN At \cup {a} /\ At'[a] = c
      BY <3>1
    <3>3. \A b \in DOMAIN At' : b # a => b \in DOMAIN At /\ At'[b] = At[b]
      BY <3>1
    <3> QED BY <3>1, <3>2, <3>3 DEF Owner!NeverBack
  <2>3. ASSUME NEW a \in Agents, Owner!Leave(a)
        PROVE  Owner!NeverBack
    <3>1. At' = [b \in DOMAIN At \ {a} |-> At[b]]
      BY <2>3 DEF Owner!Leave
    <3>2. \A b \in DOMAIN At' : b \in DOMAIN At /\ At'[b] = At[b]
      BY <3>1
    <3> QED BY <3>2 DEF Owner!NeverBack
  <2>4. CASE Owner!CloseAll
    <3>1. DOMAIN At' = {}
      BY <2>4 DEF Owner!CloseAll, Owner!Nowhere
    <3> QED BY <3>1 DEF Owner!NeverBack
  <2>5. ASSUME NEW c \in Conns, Owner!Lose(c)
        PROVE  At' = At
    BY <2>5 DEF Owner!Lose
  <2>6. ASSUME NEW g \in Senders, NEW as, Owner!SendTo(g, as)
        PROVE  At' = At
    BY <2>6 DEF Owner!SendTo
  <2>7. ASSUME NEW g \in Senders, NEW c \in Conns, Owner!Deliver(g, c)
        PROVE  At' = At
    BY <2>7 DEF Owner!Deliver
  <2>8. CASE UNCHANGED Owner!abstractVars
    BY <2>1, <2>8 DEF Owner!abstractVars
  <2>9. CASE Owner!NextPresence
    <3>1. CASE At' # At
      BY <2>2, <2>3, <2>4, <2>5, <2>6, <2>7, <2>9, <3>1 DEF Owner!NextPresence
    <3> QED BY <2>1, <3>1
  <2> QED BY <2>8, <2>9
<1>2. Spec => [][Owner!NextPresence]_(Owner!abstractVars)
  BY CommImplementsPresence, PTL DEF PresenceKept, Owner!PresenceSpec
<1> QED BY <1>1, <1>2, PTL
=============================================================================
