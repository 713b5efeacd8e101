------------------------------ MODULE CommServer ------------------------------
(***************************************************************************)
(* The master's side of the control channel (MasterServer of               *)
(* pkg/comm/channel.go) with the agent's half of each TCP connection       *)
(* (AgentClient, same file).                                               *)
(*                                                                         *)
(* One goroutine (handleConnection, then processMessages) serves each      *)
(* accepted connection.  They share the map "agents" under the RWMutex mu. *)
(* Inserting, refreshing, evicting and clearing entries take the write     *)
(* lock for one step that cannot block.  A send takes the READ lock and    *)
(* keeps it while it writes to the socket, which blocks when the peer      *)
(* stops reading: "send" is the set of goroutines that hold the read lock. *)
(* The callbacks of the owner of the server run in goroutines of their     *)
(* own; "callbacks" holds those started and not yet finished.              *)
(***************************************************************************)
EXTENDS Naturals, Sequences, FiniteSets

CONSTANTS
  Conns,       \* TCP connections; each is dialled at most once
  Agents,      \* agent IDs
  Versions,    \* binary versions an agent can report
  Commands,    \* messages the owner pushes to agents
  Senders,     \* goroutines that call SendToAgent, SendToAllAgents, ...
  Hooks,       \* the callbacks the owner has set (the others are nil)
  Hellos,      \* what a peer may say first
  Reports,     \* what a registered agent may say
  Window,      \* messages a connection buffers in each direction
  NoAgent,     \* the empty agent ID
  NoVersion,   \* the empty version string
  NoEntry      \* the value of "agents" for an ID that is not a key

(***************************************************************************)
(* Messages.  Only the type, the identity and the version matter here; a   *)
(* BAD message is one ReadMessage rejects (wrong signature, too long).     *)
(***************************************************************************)
Ack == [type |-> "REGISTER_ACK"]
Register(a, v) == [type |-> "REGISTER", agent |-> a, version |-> v]
Heartbeat(v) == [type |-> "HEARTBEAT", version |-> v]
Status == [type |-> "STATUS"]
Bad == [type |-> "BAD"]

AllHellos ==
  {Register(a, v) : a \in Agents \cup {NoAgent},
                    v \in Versions \cup {NoVersion}} \cup {Status, Bad}
AllReports == {Heartbeat(v) : v \in Versions \cup {NoVersion}} \cup {Status}

ASSUME CommAssumption ==
  /\ Window \in Nat \ {0}
  /\ NoAgent \notin Agents
  /\ NoVersion \notin Versions
  /\ Ack \notin Commands
  /\ Hellos \subseteq AllHellos /\ Reports \subseteq AllReports
  /\ Hooks \subseteq {"register", "disconnect", "heartbeat"}
  /\ NoEntry \notin [channel : Conns, version : Versions \cup {NoVersion}]

VARIABLES
  agents,      \* MasterServer.agents: ID -> channel and version
  handler,     \* program counter of the goroutine that serves a connection
  ident,       \* the AgentID of the REGISTER a handler has read
  sock,        \* the master's end of a connection: "none", "open", "closed"
  peer,        \* the agent's end: "none", "open", "hello", "up", "closed"
  toMaster,    \* bytes under way from agent to master
  toAgent,     \* bytes under way from master to agent
  send,        \* per sender: Idle, or the message and the channels left
  callbacks,   \* callback goroutines under way
  life,        \* "up", then "closing" after CloseAllAgents, then "down"
  superseded   \* history: connections displaced by a later REGISTER

wire == <<sock, peer, toMaster, toAgent>>
vars == <<agents, handler, ident, sock, peer, toMaster, toAgent, send,
          callbacks, life, superseded>>

Idle == [msg |-> Ack, left |-> {}]

(***************************************************************************)
(* The goroutines started with "go s.onRegister(..)", "go s.onDisconnect". *)
(* and "go s.onHeartbeat(..)".  Bound: two heartbeat callbacks of the same *)
(* connection with the same version are one element.                       *)
(***************************************************************************)
OnRegister(c) == [kind |-> "register", conn |-> c, version |-> NoVersion]
OnDisconnect(c) == [kind |-> "disconnect", conn |-> c, version |-> NoVersion]
OnHeartbeat(c, v) == [kind |-> "heartbeat", conn |-> c, version |-> v]

(* "if s.onX != nil { go s.onX(..) }" *)
Start(k) == IF k.kind \in Hooks THEN callbacks \cup {k} ELSE callbacks

(* mu.Lock() succeeds: no goroutine holds the read lock. *)
LockFreeMutant == TRUE
LockFree == \A g \in Senders : send[g].left = {}

(* s.agents[a] exists and belongs to connection c: "ac.channel == ch". *)
OwnsMutant(a, c) == agents[a] # NoEntry
Owns(a, c) == agents[a] # NoEntry /\ agents[a].channel = c

Connected == {a \in Agents : agents[a] # NoEntry}

(* A write on c returns at once: there is room, or the socket is dead. *)
Writable(c) == \/ Len(toAgent[c]) < Window
               \/ sock[c] = "closed" \/ peer[c] = "closed"

(* What the wire holds after a write on c: a dead connection loses it. *)
Written(q, c, m) == IF sock[c] = "open" /\ peer[c] # "closed"
                    THEN [q EXCEPT ![c] = Append(@, m)]
                    ELSE q

(* The master closes a set of sockets: what they had received is gone. *)
CloseSockets(cs) ==
  /\ sock' = [c \in Conns |-> IF c \in cs THEN "closed" ELSE sock[c]]
  /\ toMaster' = [c \in Conns |-> IF c \in cs THEN <<>> ELSE toMaster[c]]

Init ==
  /\ agents = [a \in Agents |-> NoEntry]
  /\ handler = [c \in Conns |-> "none"]
  /\ ident = [c \in Conns |-> NoAgent]
  /\ sock = [c \in Conns |-> "none"]
  /\ peer = [c \in Conns |-> "none"]
  /\ toMaster = [c \in Conns |-> <<>>]
  /\ toAgent = [c \in Conns |-> <<>>]
  /\ send = [g \in Senders |-> Idle]
  /\ callbacks = {}
  /\ life = "up"
  /\ superseded = {}

-----------------------------------------------------------------------------
(* The agent's end of a connection (AgentClient). *)

(* NewAgentClient dials; acceptLoop accepts and starts handleConnection. *)
Dial(c) ==
  /\ peer[c] = "none" /\ life # "down"
  /\ peer' = [peer EXCEPT ![c] = "open"]
  /\ sock' = [sock EXCEPT ![c] = "open"]
  /\ handler' = [handler EXCEPT ![c] = "first"]
  /\ UNCHANGED <<agents, ident, toMaster, toAgent, send, callbacks, life,
                 superseded>>

(* Register writes REGISTER; a stranger to the protocol writes anything. *)
SayHello(c) ==
  /\ peer[c] = "open"
  /\ peer' = [peer EXCEPT ![c] = "hello"]
  /\ \E m \in Hellos : toMaster' = Written(toMaster, c, m)
  /\ UNCHANGED <<agents, handler, ident, sock, toAgent, send, callbacks,
                 life, superseded>>

(* Register reads the first answer: anything but REGISTER_ACK is an error *)
(* on which its callers close the client.                                 *)
ReadAnswer(c) ==
  /\ peer[c] = "hello" /\ toAgent[c] # <<>>
  /\ peer' = [peer EXCEPT
                ![c] = IF Head(toAgent[c]) = Ack THEN "up" ELSE "closed"]
  /\ toAgent' = [toAgent EXCEPT
                ![c] = IF Head(toAgent[c]) = Ack THEN Tail(@) ELSE <<>>]
  /\ UNCHANGED <<agents, handler, ident, sock, toMaster, send, callbacks,
                 life, superseded>>

(* A registered agent reads a command. *)
ReadCommand(c) ==
  /\ peer[c] = "up" /\ toAgent[c] # <<>>
  /\ toAgent' = [toAgent EXCEPT ![c] = Tail(@)]
  /\ UNCHANGED <<agents, handler, ident, sock, peer, toMaster, send,
                 callbacks, life, superseded>>

(* SendHeartbeat and SendWarning.  The first heartbeat after Register has *)
(* an empty version.                                                      *)
Report(c) ==
  /\ peer[c] = "up" /\ Len(toMaster[c]) < Window
  /\ \E m \in Reports : toMaster' = Written(toMaster, c, m)
  /\ UNCHANGED <<agents, handler, ident, sock, peer, toAgent, send,
                 callbacks, life, superseded>>

(* The agent closes, dies or is cut off; what it had sent may be lost. *)
Hangup(c) ==
  /\ peer[c] \in {"open", "hello", "up"}
  /\ peer' = [peer EXCEPT ![c] = "closed"]
  /\ toAgent' = [toAgent EXCEPT ![c] = <<>>]
  /\ toMaster' \in {toMaster, [toMaster EXCEPT ![c] = <<>>]}
  /\ UNCHANGED <<agents, handler, ident, sock, send, callbacks, life,
                 superseded>>

-----------------------------------------------------------------------------
(* handleConnection and processMessages. *)

(* ReadMessage fails: the socket is closed, the next message is not valid, *)
(* or nothing arrives: end of file, or the idle deadline of the read.      *)
ReadFailsMutant(c) == sock[c] = "closed"
ReadFails(c) ==
  \/ sock[c] = "closed"
  \/ toMaster[c] = <<>>
  \/ toMaster[c] # <<>> /\ Head(toMaster[c]) = Bad

Receives(c, m) ==
  /\ sock[c] = "open" /\ toMaster[c] # <<>> /\ Head(toMaster[c]) = m
  /\ toMaster' = [toMaster EXCEPT ![c] = Tail(@)]

(* The first message cannot be read, is not a REGISTER or has no AgentID: *)
(* handleConnection returns and its deferred Close runs.                  *)
RejectFirst(c) ==
  /\ handler[c] = "first"
  /\ \/ ReadFails(c)
     \/ /\ toMaster[c] # <<>>
        /\ \A a \in Agents, v \in Versions \cup {NoVersion} :
             Head(toMaster[c]) # Register(a, v)
  /\ handler' = [handler EXCEPT ![c] = "done"]
  /\ CloseSockets({c})
  /\ UNCHANGED <<agents, ident, peer, toAgent, send, callbacks, life,
                 superseded>>

(* A REGISTER: the entry is inserted, or replaced, before the ACK, with the *)
(* version as the agent has it, empty or not.                               *)
AcceptRegisterMutant(c) ==
  /\ handler[c] = "first" /\ LockFree
  /\ \E a \in Agents, v \in Versions \cup {NoVersion} :
       /\ Receives(c, Register(a, v))
       /\ ident' = [ident EXCEPT ![c] = a]
       /\ superseded' = IF agents[a] = NoEntry THEN superseded
                        ELSE superseded \cup {agents[a].channel}
       /\ agents' = [agents EXCEPT ![a] = [channel |-> c, version |-> v]]
  /\ handler' = [handler EXCEPT ![c] = "ack"]
  /\ callbacks' = Start(OnRegister(c))
  /\ UNCHANGED <<sock, peer, toAgent, send, life>>
AcceptRegister(c) ==
  /\ handler[c] = "first" /\ LockFree
  /\ \E a \in Agents, v \in Versions \cup {NoVersion} :
       /\ Receives(c, Register(a, v))
       /\ ident' = [ident EXCEPT ![c] = a]
       /\ superseded' = IF agents[a] = NoEntry THEN superseded
                        ELSE superseded \cup {agents[a].channel}
       /\ agents' = [agents EXCEPT ![a] = [channel |-> c, version |-> v]]
  /\ handler' = [handler EXCEPT ![c] = "ack"]
  /\ UNCHANGED <<sock, peer, toAgent, send, callbacks, life>>

(* The ACK is written; onRegister is started; processMessages begins. *)
SendAck(c) ==
  /\ handler[c] = "ack" /\ sock[c] = "open" /\ Writable(c)
  /\ toAgent' = Written(toAgent, c, Ack)
  /\ handler' = [handler EXCEPT ![c] = "loop"]
  /\ callbacks' = Start(OnRegister(c))
  /\ UNCHANGED <<agents, ident, sock, peer, toMaster, send, life,
                 superseded>>

(* The ACK cannot be written: removeAgent, return. *)
AckFailsMutant(c) ==
  /\ handler[c] = "ack" /\ (sock[c] = "closed" \/ peer[c] = "closed")
  /\ handler' = [handler EXCEPT ![c] = "done"]
  /\ CloseSockets({c})
  /\ UNCHANGED <<agents, ident, peer, toAgent, send, callbacks, life,
                 superseded>>
AckFails(c) ==
  /\ handler[c] = "ack" /\ (sock[c] = "closed" \/ peer[c] = "closed")
  /\ handler' = [handler EXCEPT ![c] = "remove"]
  /\ UNCHANGED <<agents, ident, sock, peer, toMaster, toAgent, send,
                 callbacks, life, superseded>>

(* A HEARTBEAT with a version refreshes, under the lock, the entry the ID *)
(* has now (its own or a newer one), and starts onHeartbeat.              *)
Refreshed(a, v) ==
  IF v # NoVersion /\ a \in Connected
  THEN [agents EXCEPT ![a].version = v] ELSE agents

ReceiveHeartbeat(c) ==
  /\ handler[c] = "loop"
  /\ \E v \in Versions \cup {NoVersion} :
       /\ Receives(c, Heartbeat(v))
       /\ v # NoVersion => LockFree
       /\ agents' = Refreshed(ident[c], v)
       /\ callbacks' = Start(OnHeartbeat(c, v))
  /\ UNCHANGED <<handler, ident, sock, peer, toAgent, send, life, superseded>>

(* STATUS, ERROR, WARNING and unknown messages are logged. *)
ReceiveOther(c) ==
  /\ handler[c] = "loop" /\ Receives(c, Status)
  /\ UNCHANGED <<agents, handler, ident, sock, peer, toAgent, send,
                 callbacks, life, superseded>>

LoseConnection(c) ==
  /\ handler[c] = "loop" /\ ReadFails(c)
  /\ handler' = [handler EXCEPT ![c] = "remove"]
  /\ UNCHANGED <<agents, ident, sock, peer, toMaster, toAgent, send,
                 callbacks, life, superseded>>

(* removeAgent, the return of the handler and its deferred Close. *)
RemoveAgent(c) ==
  /\ handler[c] = "remove" /\ LockFree
  /\ IF Owns(ident[c], c)
     THEN /\ agents' = [agents EXCEPT ![ident[c]] = NoEntry]
          /\ callbacks' = Start(OnDisconnect(c))
     ELSE UNCHANGED <<agents, callbacks>>
  /\ handler' = [handler EXCEPT ![c] = "done"]
  /\ CloseSockets({c})
  /\ UNCHANGED <<ident, peer, toAgent, send, life, superseded>>

-----------------------------------------------------------------------------
(* Operations of the owner. *)

(* SendToAgent, StartTraffic and StopTraffic with an agent ID: take the   *)
(* read lock and look the channel up.  (An ID that is not a key is an     *)
(* error and changes nothing.)                                            *)
SendToAgent(g, a, m) ==
  /\ send[g].left = {} /\ a \in Connected
  /\ send' = [send EXCEPT ![g] = [msg |-> m, left |-> {agents[a].channel}]]
  /\ UNCHANGED <<agents, handler, ident, wire, callbacks, life, superseded>>

(* SendToAllAgents, StartTraffic and StopTraffic with an empty ID. *)
SendToAllAgents(g, m) ==
  /\ send[g].left = {} /\ Connected # {}
  /\ send' = [send EXCEPT ![g] =
       [msg |-> m, left |-> {agents[a].channel : a \in Connected}]]
  /\ UNCHANGED <<agents, handler, ident, wire, callbacks, life, superseded>>

(* WriteMessage on one channel under the read lock, which is released     *)
(* after the last one.                                                    *)
WriteMessage(g, c) ==
  /\ c \in send[g].left /\ Writable(c)
  /\ toAgent' = Written(toAgent, c, send[g].msg)
  /\ send' = [send EXCEPT ![g] =
       IF send[g].left = {c} THEN Idle
       ELSE [msg |-> send[g].msg, left |-> send[g].left \ {c}]]
  /\ UNCHANGED <<agents, handler, ident, sock, peer, toMaster, callbacks,
                 life, superseded>>

CloseAllAgents ==
  /\ life = "up" /\ LockFree
  /\ CloseSockets({agents[a].channel : a \in Connected})
  /\ agents' = [a \in Agents |-> NoEntry]
  /\ life' = "closing"
  /\ UNCHANGED <<handler, ident, peer, toAgent, send, callbacks, superseded>>

CloseListener ==
  /\ life = "closing"
  /\ life' = "down"
  /\ UNCHANGED <<agents, handler, ident, wire, send, callbacks, superseded>>

(* A callback of the owner ends.  What it does is the owner's affair. *)
FinishCallback(k) ==
  /\ k \in callbacks
  /\ callbacks' = callbacks \ {k}
  /\ UNCHANGED <<agents, handler, ident, wire, send, life, superseded>>

-----------------------------------------------------------------------------
AgentSide(c) == Dial(c) \/ SayHello(c) \/ ReadAnswer(c) \/ ReadCommand(c)
                  \/ Report(c) \/ Hangup(c)

ReadStep(c) == RejectFirst(c) \/ SendAck(c) \/ AckFails(c)
                 \/ ReceiveOther(c) \/ LoseConnection(c)
LockStep(c) == AcceptRegister(c) \/ ReceiveHeartbeat(c) \/ RemoveAgent(c)

Sending ==
  \E g \in Senders :
    \/ \E m \in Commands : \/ SendToAllAgents(g, m)
                           \/ \E a \in Agents : SendToAgent(g, a, m)
    \/ \E c \in Conns : WriteMessage(g, c)

Next == \/ \E c \in Conns : AgentSide(c) \/ ReadStep(c) \/ LockStep(c)
        \/ Sending
        \/ CloseAllAgents \/ CloseListener
        \/ \E k \in callbacks : FinishCallback(k)

Spec == Init /\ [][Next]_vars

(***************************************************************************)
(* The Go scheduler runs every goroutine that can run.  A goroutine that   *)
(* waits for mu.Lock() may see it taken and released any number of times;  *)
(* RWMutex lets no new reader in while a writer waits, so a lock that is   *)
(* free again and again is obtained: strong fairness.  Nothing is assumed  *)
(* of the agents.                                                          *)
(***************************************************************************)
ServerFairness ==
  /\ \A c \in Conns : WF_vars(ReadStep(c)) /\ SF_vars(LockStep(c))
  /\ \A g \in Senders, c \in Conns : WF_vars(WriteMessage(g, c))

FairSpec == Spec /\ ServerFairness

(* The agents, in addition, keep reading what the master sends. *)
ReadingSpec ==
  /\ FairSpec
  /\ \A c \in Conns : WF_vars(ReadAnswer(c)) /\ WF_vars(ReadCommand(c))

-----------------------------------------------------------------------------
Entries == [channel : Conns, version : Versions \cup {NoVersion}]

(* The types of the server's state. *)
TypeOK ==
  /\ agents \in [Agents -> Entries \cup {NoEntry}]
  /\ handler \in [Conns -> {"none", "first", "ack", "loop", "remove", "done"}]
  /\ ident \in [Conns -> Agents \cup {NoAgent}]
  /\ sock \in [Conns -> {"none", "open", "closed"}]
  /\ peer \in [Conns -> {"none", "open", "hello", "up", "closed"}]
  /\ toMaster \in [Conns -> Seq(Hellos \cup Reports)]
  /\ toAgent \in [Conns -> Seq(Commands \cup {Ack})]
  /\ send \in [Senders -> [msg : Commands \cup {Ack}, left : SUBSET Conns]]
  /\ callbacks \subseteq
       [kind : {"register", "disconnect", "heartbeat"}, conn : Conns,
        version : Versions \cup {NoVersion}]
  /\ life \in {"up", "closing", "down"}
  /\ superseded \subseteq Conns

Serving == {"ack", "loop", "remove"}

(***************************************************************************)
(* Every entry of the map is backed: its channel is open and the goroutine *)
(* that serves it, registered under that ID, still has its removeAgent to  *)
(* run.  An entry without one would stay for ever, and every send to that  *)
(* agent would fail.                                                       *)
(***************************************************************************)
EntriesServed ==
  \A a \in Connected :
    LET c == agents[a].channel
    IN  ident[c] = a /\ handler[c] \in Serving /\ sock[c] = "open"

(***************************************************************************)
(* The comment of removeAgent: "the stale goroutine must not evict the     *)
(* live entry".  A served connection that no later REGISTER displaced and  *)
(* the master has not closed is the one SendToAgent reaches.               *)
(***************************************************************************)
LatestReachable ==
  \A c \in Conns :
    (handler[c] \in Serving /\ sock[c] = "open" /\ c \notin superseded)
      => Owns(ident[c], c)

(***************************************************************************)
(* While a goroutine writes to channels it took from the map, every one of *)
(* them is still in the map and open: the read lock keeps the others from  *)
(* evicting, replacing or closing a channel in the middle of a send.       *)
(***************************************************************************)
SendsHitLiveEntries ==
  \A g \in Senders : \A c \in send[g].left :
    Owns(ident[c], c) /\ sock[c] = "open"

(***************************************************************************)
(* With agents that keep reading, the handler of a connection whose agent  *)
(* is gone ends: the entry is evicted, the goroutine and the socket freed. *)
(***************************************************************************)
DeadConnectionsEnd ==
  \A c \in Conns : (peer[c] = "closed") ~> (handler[c] = "done")

(***************************************************************************)
(* What the owner of the server sees of it: which agents are connected and *)
(* where, as Presence has it.  A connection is known once its handler has  *)
(* read an agent ID, and lost once the handler is on its way out.          *)
(***************************************************************************)
At == [a \in Connected |-> agents[a].channel]
Known == {c \in Conns : ident[c] # NoAgent}
Lost == {c \in Known : handler[c] \in {"remove", "done"}}
Left == [g \in Senders |-> send[g].left]
Open == life = "up"

Owner == INSTANCE Presence WITH at <- At, known <- Known, lost <- Lost,
                                to <- Left, open <- Open

(***************************************************************************)
(* The server implements Presence: an agent comes with a REGISTER on a new *)
(* connection, goes only with the connection it is at or with all others,  *)
(* and neither happens in the middle of a send, which reaches exactly      *)
(* those connected when it began.                                          *)
(***************************************************************************)
PresenceKept == Owner!PresenceSpec
=============================================================================
