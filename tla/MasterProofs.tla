----------------------------- MODULE MasterProofs -----------------------------
(***************************************************************************)
(* Proofs about Master, for any number of agents, connections, edits and   *)
(* reloads: its state is well typed, and it uses the server of CommServer  *)
(* only through the server's operations, so that what is proved of the     *)
(* server holds in the master process.  Then what the master adds: the     *)
(* rules in force reach everybody, the ACK comes first, the notices are    *)
(* bounded.                                                                *)
(***************************************************************************)
EXTENDS Master, CommServerProofs, FiniteSetTheorems

USE CommAssumption, MasterAssumption

(* The connection of a callback under way has registered. *)
CallbacksNamed == \A k \in callbacks : ident[k.conn] \in Agents

MasterInv == MasterTypeOK /\ Safe /\ CallbacksNamed

Tasks == [pc : {"off", "address", "rules", "deliver", "sending"},
          to : Agents \cup {NoAgent}, known : BOOLEAN, msg : Commands]

(***************************************************************************)
(* A distribution that starts, and the message it will carry, are well     *)
(* typed.                                                                  *)
(***************************************************************************)
LEMMA TaskType ==
  /\ Off \in Tasks
  /\ \A a \in Agents \cup {NoAgent}, p \in {"address", "deliver"} :
       [Off EXCEPT !.pc = p, !.to = a] \in Tasks
  /\ \A t \in Tasks, g \in Gens, k \in BOOLEAN :
       [t EXCEPT !.pc = "deliver", !.msg = Config(g, k)] \in Tasks
  /\ \A t \in Tasks, k \in BOOLEAN :
       [t EXCEPT !.pc = "rules", !.known = k] \in Tasks
  /\ \A t \in Tasks : [t EXCEPT !.pc = "sending"] \in Tasks
<1>1. Off \in Tasks
  BY DEF Off, Tasks
<1>2. \A a \in Agents \cup {NoAgent}, p \in {"address", "deliver"} :
        [Off EXCEPT !.pc = p, !.to = a] \in Tasks
  BY <1>1 DEF Tasks
<1>3. \A g \in Gens, k \in BOOLEAN : Config(g, k) \in Commands
  BY MasterAssumption
<1>4. \A t \in Tasks, g \in Gens, k \in BOOLEAN :
        [t EXCEPT !.pc = "deliver", !.msg = Config(g, k)] \in Tasks
  BY <1>3 DEF Tasks
<1>5. \A t \in Tasks, k \in BOOLEAN :
        [t EXCEPT !.pc = "rules", !.known = k] \in Tasks
  BY DEF Tasks
<1>6. \A t \in Tasks : [t EXCEPT !.pc = "sending"] \in Tasks
  BY DEF Tasks
<1> QED BY <1>1, <1>2, <1>4, <1>5, <1>6

(***************************************************************************)
(* Every step of the master is a step of the server or leaves the server   *)
(* alone.                                                                  *)
(***************************************************************************)
LEMMA MasterStepsServer ==
  ASSUME MasterInv, [MasterNext]_allVars
  PROVE  [Next]_vars
<1>1. CASE UNCHANGED allVars
  BY <1>1 DEF allVars
<1>2. CASE ServerStep
  BY <1>2 DEF ServerStep, Next, ReadStep, LockStep
<1>3. CASE Callback
  <2>1. \E k \in callbacks : FinishCallback(k)
    BY <1>3 DEF Callback, OnAgentRegister, OnAgentDisconnect,
                OnAgentHeartbeat, FinishCallback
  <2> QED BY <2>1 DEF Next
<1>4. CASE Distribution
  <2>1. PICK g \in Senders : \/ ReadAddress(g) \/ ReadRules(g) \/ Deliver(g)
                             \/ \E c \in Conns : FinishDelivery(g, c)
    BY <1>4 DEF Distribution
  <2>2. CASE ReadAddress(g) \/ ReadRules(g)
    BY <2>2 DEF ReadAddress, ReadRules
  <2>3. CASE Deliver(g)
    <3>1. task[g].msg \in Commands
      BY DEF MasterInv, MasterTypeOK
    <3>2. CASE task[g].to \in Connected
      <4>1. SendToAgent(g, task[g].to, task[g].msg) /\ task[g].to \in Agents
        BY <2>3, <3>2 DEF Deliver, Connected
      <4> QED BY <3>1, <4>1 DEF Next, Sending
    <3>3. CASE task[g].to \notin Connected
      BY <2>3, <3>3 DEF Deliver
    <3> QED BY <3>2, <3>3
  <2>4. CASE \E c \in Conns : FinishDelivery(g, c)
    BY <2>4 DEF FinishDelivery, Next, Sending
  <2> QED BY <2>1, <2>2, <2>3, <2>4
<1>5. CASE Reload
  BY <1>5 DEF Reload, EditConfig, TriggerReload, LoadConfig, ListAgents,
              EndReload, NotifyAgent
<1> QED BY <1>1, <1>2, <1>3, <1>4, <1>5 DEF MasterNext

(***************************************************************************)
(* A callback is only started for a connection that has registered, and a  *)
(* connection registers once.                                              *)
(***************************************************************************)
LEMMA CallbacksStayNamed ==
  ASSUME Inv, CallbacksNamed, [Next]_vars
  PROVE  CallbacksNamed'
<1> USE DEF Inv, Safe, TypeOK
<1>1. CASE \E c \in Conns : AcceptRegister(c)
  <2>1. PICK c \in Conns, a \in Agents :
          /\ ident' = [ident EXCEPT ![c] = a]
          /\ callbacks' = callbacks
    BY <1>1 DEF AcceptRegister
  <2>2. \A k \in callbacks : k.conn \in Conns
    OBVIOUS
  <2> QED BY <2>1, <2>2 DEF CallbacksNamed
<1>2. ASSUME NEW c \in Conns, ident[c] \in Agents, ident' = ident,
             NEW v, NEW kind,
             callbacks' = Start([kind |-> kind, conn |-> c, version |-> v])
               \/ callbacks' = callbacks
      PROVE  CallbacksNamed'
  BY <1>2 DEF CallbacksNamed, Start
<1>3. ASSUME NEW c \in Conns, SendAck(c) \/ ReceiveHeartbeat(c) \/ RemoveAgent(c)
      PROVE  CallbacksNamed'
  <2>1. handler[c] \in Serving /\ ident' = ident
    BY <1>3 DEF SendAck, ReceiveHeartbeat, RemoveAgent, Serving
  <2>2. ident[c] \in Agents
    BY <2>1 DEF Named
  <2>3. CASE SendAck(c)
    BY <1>2, <2>1, <2>2, <2>3 DEF SendAck, OnRegister
  <2>4. CASE ReceiveHeartbeat(c)
    BY <1>2, <2>1, <2>2, <2>4 DEF ReceiveHeartbeat, OnHeartbeat
  <2>5. CASE RemoveAgent(c)
    BY <1>2, <2>1, <2>2, <2>5 DEF RemoveAgent, OnDisconnect
  <2> QED BY <1>3, <2>3, <2>4, <2>5
<1>4. ASSUME ident' = ident, callbacks' \subseteq callbacks
      PROVE  CallbacksNamed'
  BY <1>4 DEF CallbacksNamed
<1>5. ASSUME NEW c \in Conns, AgentSide(c)
      PROVE  CallbacksNamed'
  BY <1>4, <1>5 DEF AgentSide, Dial, SayHello, ReadAnswer, ReadCommand,
                    Report, Hangup
<1>6. ASSUME NEW c \in Conns, RejectFirst(c) \/ AckFails(c)
                              \/ ReceiveOther(c) \/ LoseConnection(c)
      PROVE  CallbacksNamed'
  BY <1>4, <1>6 DEF RejectFirst, AckFails, ReceiveOther, LoseConnection
<1>7. CASE Sending
  BY <1>4, <1>7 DEF Sending, SendToAgent, SendToAllAgents, WriteMessage
<1>8. CASE CloseAllAgents \/ CloseListener
  BY <1>4, <1>8 DEF CloseAllAgents, CloseListener
<1>9. CASE \E k \in callbacks : FinishCallback(k)
  BY <1>4, <1>9 DEF FinishCallback
<1>10. CASE UNCHANGED vars
  BY <1>4, <1>10 DEF vars
<1> QED BY <1>1, <1>3, <1>5, <1>6, <1>7, <1>8, <1>9, <1>10
        DEF Next, ReadStep, LockStep

(***************************************************************************)
(* The master's own state keeps its types: callbacks ...                   *)
(***************************************************************************)
MasterTypes ==
  /\ status \in [Agents -> {"absent", "online", "offline"}]
  /\ notified \subseteq Agents
  /\ file \in Gens /\ rules \in Gens
  /\ triggers \in 0..MaxReloads
  /\ waiting \in Nat /\ Reloads <= triggers
  /\ round \in {"idle", "loaded", "notify"} /\ left \subseteq Agents
  /\ task \in [Senders -> Tasks]
  /\ log \in [Conns -> Seq(Commands \cup {Ack})]
  /\ ahead \in [Conns -> SUBSET Senders]
  /\ ran \subseteq [kind : {"disconnect", "heartbeat"}, conn : Conns,
                     version : Versions \cup {NoVersion}]

LEMMA CallbackTypes ==
  ASSUME MasterInv, Callback
  PROVE  MasterTypes'
<1> USE DEF MasterInv, MasterTypeOK, MasterTypes, Reloads, reloadVars
<1> task \in [Senders -> Tasks]
  BY DEF Tasks
<1>1. PICK c \in Conns :
        \/ OnAgentRegister(c) \/ OnAgentDisconnect(c)
        \/ \E v \in Versions \cup {NoVersion} : OnAgentHeartbeat(c, v)
  BY DEF Callback
<1>2. ident[c] \in Agents
  BY <1>1 DEF OnAgentRegister, OnAgentDisconnect, OnAgentHeartbeat,
              FinishCallback, CallbacksNamed, OnRegister, OnDisconnect,
              OnHeartbeat
<1>3. CASE OnAgentRegister(c)
  <2>1. task' \in [Senders -> Tasks]
    BY <1>2, <1>3, TaskType DEF OnAgentRegister
  <2> QED BY <1>2, <1>3, <2>1 DEF OnAgentRegister
<1>4. CASE OnAgentDisconnect(c)
  BY <1>2, <1>4 DEF OnAgentDisconnect, OnDisconnect
<1>5. ASSUME NEW v \in Versions \cup {NoVersion}, OnAgentHeartbeat(c, v)
      PROVE  MasterTypes'
  <2>1. task' \in [Senders -> Tasks]
    <3>1. [Off EXCEPT !.pc = "deliver", !.to = ident[c]] \in Tasks
      BY <1>2, TaskType
    <3>2. \/ task' = task
          \/ task' = [task EXCEPT ![Notifier(c)] =
                       [Off EXCEPT !.pc = "deliver", !.to = ident[c]]]
      BY <1>5 DEF OnAgentHeartbeat
    <3> QED BY <3>1, <3>2
  <2>2. notified' \subseteq Agents
    BY <1>2, <1>5 DEF OnAgentHeartbeat
  <2> QED BY <1>5, <2>1, <2>2 DEF OnAgentHeartbeat, OnHeartbeat
<1> QED BY <1>1, <1>3, <1>4, <1>5

(***************************************************************************)
(* ... distributions ...                                                   *)
(***************************************************************************)
LEMMA DistributionTypes ==
  ASSUME MasterInv, NEW g \in Senders,
         \/ ReadAddress(g) \/ ReadRules(g) \/ Deliver(g)
         \/ \E c \in Conns : FinishDelivery(g, c)
  PROVE  MasterTypes'
<1> USE DEF MasterInv, MasterTypeOK, MasterTypes, Reloads, reloadVars
<1>0. task \in [Senders -> Tasks]
  BY DEF Tasks
<1>1. CASE ReadAddress(g)
  <2>1. task' = [task EXCEPT ![g] = [task[g] EXCEPT
                   !.pc = "rules", !.known = task[g].to \in Connected]]
    BY <1>0, <1>1 DEF ReadAddress, Tasks
  <2>2. task[g] \in Tasks /\ (task[g].to \in Connected) \in BOOLEAN
    BY <1>0
  <2>3. [task[g] EXCEPT !.pc = "rules", !.known = task[g].to \in Connected]
          \in Tasks
    BY <2>2, TaskType
  <2>4. task' \in [Senders -> Tasks]
    BY <1>0, <2>1, <2>3
  <2> QED BY <1>1, <2>4 DEF ReadAddress
<1>2. CASE ReadRules(g)
  <2>1. [task[g] EXCEPT !.pc = "deliver",
                        !.msg = Config(rules, task[g].known)] \in Tasks
    <3>1. task[g] \in Tasks /\ task[g].known \in BOOLEAN
      BY <1>0 DEF Tasks
    <3> QED BY <3>1, TaskType
  <2>2. task' \in [Senders -> Tasks]
    BY <1>0, <1>2, <2>1, TaskType DEF ReadRules
  <2> QED BY <1>2, <2>2 DEF ReadRules
<1>3. CASE Deliver(g)
  <2>1. task' = [task EXCEPT ![g] = [task[g] EXCEPT !.pc = "sending"]]
          \/ task' = [task EXCEPT ![g] = Off]
    BY <1>0, <1>3 DEF Deliver, Tasks
  <2>2. Off \in Tasks /\ [task[g] EXCEPT !.pc = "sending"] \in Tasks
    BY <1>0, TaskType
  <2>3. task' \in [Senders -> Tasks]
    BY <1>0, <2>1, <2>2
  <2> QED BY <1>3, <2>3 DEF Deliver
<1>4. ASSUME NEW c \in Conns, FinishDelivery(g, c)
      PROVE  MasterTypes'
  <2>1. task' \in [Senders -> Tasks]
    BY <1>0, <1>4, TaskType DEF FinishDelivery
  <2>2. send[g].msg \in Commands \cup {Ack}
    BY DEF TypeOK
  <2>3. log' = [log EXCEPT ![c] = Append(log[c], send[g].msg)]
    BY <1>4 DEF FinishDelivery
  <2>4. log' \in [Conns -> Seq(Commands \cup {Ack})]
    BY <2>2, <2>3
  <2>5. ahead' \in [Conns -> SUBSET Senders]
    <3>1. ahead' = ahead \/ ahead' = [ahead EXCEPT ![c] = ahead[c] \cup {g}]
      BY <1>4 DEF FinishDelivery
    <3>2. ahead \in [Conns -> SUBSET Senders] /\ ahead[c] \cup {g} \subseteq Senders
      OBVIOUS
    <3> HIDE DEF MasterInv, MasterTypeOK, MasterTypes
    <3> QED BY <3>1, <3>2
  <2> QED BY <1>4, <2>1, <2>4, <2>5 DEF FinishDelivery
<1> QED BY <1>1, <1>2, <1>3, <1>4

(***************************************************************************)
(* ... reloads, and the steps of the server.                               *)
(***************************************************************************)
LEMMA ReloadTypes ==
  ASSUME MasterInv, Reload
  PROVE  MasterTypes'
<1> USE DEF MasterInv, MasterTypeOK, MasterTypes, Reloads, Gens
<1>0. task \in [Senders -> Tasks]
  BY DEF Tasks
<1>1. CASE EditConfig
  BY <1>0, <1>1 DEF EditConfig
<1>2. CASE TriggerReload
  BY <1>0, <1>2 DEF TriggerReload
<1>3. CASE LoadConfig
  BY <1>0, <1>3 DEF LoadConfig
<1>4. CASE ListAgents
  BY <1>0, <1>4 DEF ListAgents, Connected
<1>5. CASE EndReload
  BY <1>0, <1>5 DEF EndReload
<1>6. ASSUME NEW a \in Agents, NotifyAgent(a)
      PROVE  MasterTypes'
  <2>1. Reloader \in Senders
    BY MasterAssumption
  <2>2. task' \in [Senders -> Tasks]
    BY <1>0, <1>6, <2>1, TaskType DEF NotifyAgent
  <2> QED BY <1>6, <2>2 DEF NotifyAgent
<1> QED BY <1>1, <1>2, <1>3, <1>4, <1>5, <1>6 DEF Reload

LEMMA ServerStepTypes ==
  ASSUME MasterInv, ServerStep \/ UNCHANGED allVars
  PROVE  MasterTypes'
<1> USE DEF MasterInv, MasterTypeOK, MasterTypes, Reloads
<1>0. task \in [Senders -> Tasks]
  BY DEF Tasks
<1>1. CASE UNCHANGED masterVars
  BY <1>0, <1>1 DEF masterVars, reloadVars
<1>2. ASSUME NEW c \in Conns, log' = [log EXCEPT ![c] = Append(@, Ack)],
             UNCHANGED <<status, notified, reloadVars, task, ahead, ran>>
      PROVE  MasterTypes'
  <2>1. log' \in [Conns -> Seq(Commands \cup {Ack})]
    BY <1>2
  <2> QED BY <1>0, <1>2, <2>1 DEF reloadVars
<1> QED BY <1>1, <1>2 DEF ServerStep, allVars

(***************************************************************************)
(* The invariant of the master process holds in every reachable state.     *)
(***************************************************************************)
THEOREM MasterSafe == MasterSpec => []MasterInv
<1>1. MasterInit => MasterInv
  <2> SUFFICES ASSUME MasterInit PROVE MasterInv
    OBVIOUS
  <2>1. TypeOK /\ Safe
    BY DEF MasterInit, Init, Safe, TypeOK, Idle, Undialled, Named, Serving,
           EntriesServed, LatestReachable, Held, Connected
  <2>2. task \in [Senders -> Tasks]
    BY TaskType DEF MasterInit
  <2>3. /\ log \in [Conns -> Seq(Commands \cup {Ack})]
        /\ ahead \in [Conns -> SUBSET Senders]
    BY DEF MasterInit
  <2>4. CallbacksNamed
    BY DEF MasterInit, Init, CallbacksNamed
  <2> QED BY <2>1, <2>2, <2>3, <2>4
          DEF MasterInit, MasterInv, MasterTypeOK, Tasks, Reloads, Gens
<1>2. MasterInv /\ [MasterNext]_allVars => MasterInv'
  <2> SUFFICES ASSUME MasterInv, [MasterNext]_allVars PROVE MasterInv'
    OBVIOUS
  <2>1. Inv /\ [Next]_vars
    BY MasterStepsServer DEF MasterInv, MasterTypeOK, Inv
  <2>2. TypeOK' /\ Safe'
    BY <2>1, StepKeepsInv DEF Inv
  <2>3. CallbacksNamed'
    BY <2>1, CallbacksStayNamed DEF MasterInv
  <2>4. MasterTypes'
    BY CallbackTypes, DistributionTypes, ReloadTypes, ServerStepTypes
    DEF MasterNext, Distribution
  <2> QED BY <2>2, <2>3, <2>4 DEF MasterInv, MasterTypeOK, MasterTypes, Tasks
<1> QED BY <1>1, <1>2, PTL DEF MasterSpec

(***************************************************************************)
(* The types of the master's state.                                        *)
(***************************************************************************)
THEOREM MasterTypesHold == MasterSpec => []MasterTypeOK
<1>1. MasterInv => MasterTypeOK
  BY DEF MasterInv
<1> QED BY <1>1, MasterSafe, PTL

(***************************************************************************)
(* The master process implements the control-channel server: whatever its  *)
(* callbacks, reloads and distributions do, the server's state moves only  *)
(* by the server's own operations.                                         *)
(***************************************************************************)
THEOREM MasterImplementsServer == MasterSpec => Spec
<1>1. MasterInit => Init
  BY DEF MasterInit
<1>2. MasterInv /\ [MasterNext]_allVars => [Next]_vars
  BY MasterStepsServer
<1> QED BY <1>1, <1>2, MasterSafe, PTL DEF MasterSpec, Spec

(***************************************************************************)
(* In the master process, too, the latest connection of an agent is the    *)
(* one that rules and notices reach.                                       *)
(***************************************************************************)
THEOREM MasterLatestReachable == MasterSpec => []LatestReachable
BY MasterImplementsServer, CommLatestReachable

(***************************************************************************)
(* And so the master as a whole keeps what Presence promises its callbacks *)
(* and reloads: they send to agents where these are, and nobody is put     *)
(* back at a connection that was given up.                                 *)
(***************************************************************************)
THEOREM MasterImplementsPresence == MasterSpec => PresenceKept
BY MasterImplementsServer, CommImplementsPresence

-----------------------------------------------------------------------------
(***************************************************************************)
(* The goroutines that send have names of their own.                       *)
(***************************************************************************)
LEMMA SenderNames ==
  /\ Reloader \in Senders
  /\ \A c \in Conns : /\ Registrar(c) \in Senders /\ Notifier(c) \in Senders
                      /\ Registrar(c) # Reloader /\ Notifier(c) # Reloader
  /\ \A c, d \in Conns : /\ Registrar(c) # Notifier(d)
                         /\ Registrar(c) = Registrar(d) => c = d
                         /\ Notifier(c) = Notifier(d) => c = d
BY MasterAssumption DEF Registrar, Notifier, Reloader

(***************************************************************************)
(* A goroutine holds the read lock while its task is "sending", on the     *)
(* channel its agent has.                                                  *)
(***************************************************************************)
Staged == \A g \in Senders :
  IF task[g].pc = "sending"
  THEN /\ task[g].to \in Connected
       /\ send[g].msg = task[g].msg
       /\ send[g].left = {agents[task[g].to].channel}
  ELSE send[g].left = {}

(***************************************************************************)
(* A connection has one onAgentRegister, after its registration.           *)
(***************************************************************************)
Unregistered(c) == handler[c] \in {"none", "first", "ack"}

OneRegistrar == \A c \in Conns :
  /\ Unregistered(c) => OnRegister(c) \notin callbacks
  /\ Unregistered(c) \/ OnRegister(c) \in callbacks
       => task[Registrar(c)].pc = "off"

(***************************************************************************)
(* What a step of the server does to the rest of the master.               *)
(***************************************************************************)
LEMMA ServerFrame ==
  ASSUME MasterInv, ServerStep, "register" \in Hooks
  PROVE  /\ UNCHANGED <<status, notified, file, rules, triggers, waiting,
                        round, left, task, ran, send>>
         /\ \/ LockFree
            \/ /\ Connected' = Connected
               /\ \A a \in Connected : agents'[a].channel = agents[a].channel
         /\ \A c \in Conns :
              /\ OnRegister(c) \in callbacks' <=>
                   OnRegister(c) \in callbacks \/ SendAck(c)
              /\ SendAck(c) => handler[c] = "ack" /\ handler'[c] = "loop"
              /\ handler'[c] = "loop" => handler[c] = "loop" \/ SendAck(c)
              /\ Unregistered(c)' => Unregistered(c)
         /\ \A a \in Connected' :
              handler'[agents'[a].channel] = "loop" =>
                a \in Connected /\ agents'[a].channel = agents[a].channel
<1> USE DEF MasterInv, MasterTypeOK, Safe, TypeOK, Unregistered
<1>1. UNCHANGED <<status, notified, file, rules, triggers, waiting, round,
                  left, task, ran>>
  BY DEF ServerStep, masterVars, reloadVars
<1>2. \A c \in Conns : OnRegister(c).kind = "register"
  BY DEF OnRegister
<1>3. \A c, d \in Conns, v \in Versions \cup {NoVersion} :
        /\ OnRegister(c) # OnDisconnect(d) /\ OnRegister(c) # OnHeartbeat(d, v)
        /\ OnRegister(c) = OnRegister(d) => c = d
  BY DEF OnRegister, OnDisconnect, OnHeartbeat
<1> DEFINE Frame ==
      /\ UNCHANGED send
      /\ \/ LockFree
         \/ /\ Connected' = Connected
            /\ \A a \in Connected : agents'[a].channel = agents[a].channel
      /\ \A c \in Conns :
           /\ OnRegister(c) \in callbacks' <=>
                OnRegister(c) \in callbacks \/ SendAck(c)
           /\ SendAck(c) => handler[c] = "ack" /\ handler'[c] = "loop"
           /\ handler'[c] = "loop" => handler[c] = "loop" \/ SendAck(c)
           /\ Unregistered(c)' => Unregistered(c)
      /\ \A a \in Connected' :
           handler'[agents'[a].channel] = "loop" =>
             a \in Connected /\ agents'[a].channel = agents[a].channel
<1>4. ASSUME NEW c \in Conns, SendAck(c)
      PROVE  Frame
  <2>1. /\ handler[c] = "ack" /\ handler' = [handler EXCEPT ![c] = "loop"]
        /\ callbacks' = callbacks \cup {OnRegister(c)}
        /\ UNCHANGED <<agents, send>>
    BY <1>2, <1>4 DEF SendAck, Start
  <2>2. \A d \in Conns : SendAck(d) => d = c
    BY <2>1 DEF SendAck
  <2>3. Connected' = Connected
    BY <2>1 DEF Connected
  <2>4. \A a \in Connected : agents[a].channel \in Conns
    BY DEF Connected, Entries
  <2>5. \A d \in Conns : OnRegister(d) \in callbacks' <=>
                           OnRegister(d) \in callbacks \/ SendAck(d)
    BY <1>3, <1>4, <2>1, <2>2
  <2>6. \A d \in Conns :
           /\ SendAck(d) => handler[d] = "ack" /\ handler'[d] = "loop"
           /\ handler'[d] = "loop" => handler[d] = "loop" \/ SendAck(d)
           /\ Unregistered(d)' => Unregistered(d)
    BY <1>4, <2>1, <2>2
  <2> QED BY <2>1, <2>3, <2>5, <2>6
<1>5. ASSUME NEW c \in Conns, AcceptRegister(c)
      PROVE  Frame
  <2>1. PICK a \in Agents, v \in Versions \cup {NoVersion} :
          /\ agents' = [agents EXCEPT ![a] = [channel |-> c, version |-> v]]
          /\ handler' = [handler EXCEPT ![c] = "ack"]
          /\ handler[c] = "first" /\ LockFree
          /\ UNCHANGED <<send, callbacks>>
    BY <1>5 DEF AcceptRegister
  <2>2. \A d \in Conns : ~SendAck(d)
    BY <2>1 DEF SendAck
  <2>3. \A b \in Agents : b # a => agents'[b] = agents[b]
    BY <2>1
  <2>4. agents'[a].channel = c /\ handler'[c] = "ack"
    BY <2>1
  <2>5. \A b \in Connected' : handler'[agents'[b].channel] = "loop" =>
             b \in Connected /\ agents'[b].channel = agents[b].channel
    BY <2>3, <2>4 DEF Connected
  <2> QED BY <2>1, <2>2, <2>5
<1>6. ASSUME NEW c \in Conns, ReceiveHeartbeat(c)
      PROVE  Frame
  <2>1. PICK v \in Versions \cup {NoVersion} :
          /\ callbacks' = Start(OnHeartbeat(c, v))
          /\ UNCHANGED <<handler, send>>
    BY <1>6 DEF ReceiveHeartbeat
  <2>2. \A d \in Conns : ~SendAck(d)
    BY <1>6 DEF SendAck, ReceiveHeartbeat
  <2>3. /\ Connected' = Connected
        /\ \A a \in Connected : agents'[a].channel = agents[a].channel
    <3>1. \A a \in Agents :
            /\ agents'[a] = NoEntry <=> agents[a] = NoEntry
            /\ agents[a] # NoEntry =>
                 agents'[a].channel = agents[a].channel
      BY <1>6, HeartbeatKeepsChannels
    <3> QED BY <3>1 DEF Connected
  <2>4. \A d \in Conns : OnRegister(d) \in callbacks' <=>
                           OnRegister(d) \in callbacks
    BY <1>3, <2>1 DEF Start
  <2> QED BY <2>1, <2>2, <2>3, <2>4
<1>7. ASSUME NEW c \in Conns, RemoveAgent(c)
      PROVE  Frame
  <2>1. /\ handler[c] = "remove" /\ LockFree
        /\ handler' = [handler EXCEPT ![c] = "done"]
        /\ agents' \in {agents, [agents EXCEPT ![ident[c]] = NoEntry]}
        /\ callbacks' \in {callbacks, Start(OnDisconnect(c))}
        /\ UNCHANGED send
    BY <1>7 DEF RemoveAgent
  <2>2. \A d \in Conns : ~SendAck(d)
    BY <2>1 DEF SendAck, RemoveAgent
  <2>3. \A a \in Connected' : a \in Connected /\ agents'[a] = agents[a]
    BY <2>1 DEF Connected
  <2>4. \A d \in Conns : OnRegister(d) \in callbacks' <=>
                           OnRegister(d) \in callbacks
    BY <1>3, <2>1 DEF Start
  <2>5. \A d \in Conns : handler'[d] \in {handler[d], "done"}
    BY <2>1
  <2> QED BY <2>1, <2>2, <2>3, <2>4, <2>5
<1>8. ASSUME NEW c \in Conns,
             \/ AgentSide(c) \/ RejectFirst(c) \/ AckFails(c)
             \/ ReceiveOther(c) \/ LoseConnection(c)
      PROVE  Frame
  <2>1. UNCHANGED <<agents, send, callbacks>>
    BY <1>8 DEF AgentSide, Dial, SayHello, ReadAnswer, ReadCommand, Report,
                Hangup, RejectFirst, AckFails, ReceiveOther, LoseConnection
  <2>2. \/ UNCHANGED handler
        \/ handler[c] = "none" /\ handler' = [handler EXCEPT ![c] = "first"]
        \/ \E s \in {"remove", "done"} : handler' = [handler EXCEPT ![c] = s]
    BY <1>8 DEF AgentSide, Dial, SayHello, ReadAnswer, ReadCommand, Report,
                Hangup, RejectFirst, AckFails, ReceiveOther, LoseConnection,
                Undialled
  <2>3. \A d \in Conns : ~SendAck(d)
    <3>1. CASE handler' # handler
      BY <2>2, <3>1 DEF SendAck
    <3>2. CASE handler' = handler
      BY <3>2 DEF SendAck
    <3> QED BY <3>1, <3>2
  <2>4. \A d \in Conns : /\ handler'[d] = "loop" => handler[d] = "loop"
                         /\ Unregistered(d)' => Unregistered(d)
    BY <2>2
  <2>5. Connected' = Connected
    BY <2>1 DEF Connected
  <2>6. \A a \in Connected : agents[a].channel \in Conns
    BY DEF Connected, Entries
  <2> QED BY <2>1, <2>3, <2>4, <2>5, <2>6
<1>9. ASSUME CloseAllAgents \/ CloseListener
      PROVE  Frame
  <2>1. UNCHANGED <<handler, send, callbacks>>
    BY <1>9 DEF CloseAllAgents, CloseListener
  <2>2. \A d \in Conns : ~SendAck(d)
    BY <2>1 DEF SendAck
  <2>3. \/ LockFree /\ Connected' = {}
        \/ UNCHANGED agents
    BY <1>9 DEF CloseAllAgents, CloseListener, Connected
  <2> QED BY <2>1, <2>2, <2>3 DEF Connected
<1>10. Frame
  <2> HIDE DEF Frame, MasterInv, MasterTypeOK, Safe, TypeOK, Unregistered
  <2> QED BY <1>4, <1>5, <1>6, <1>7, <1>8, <1>9 DEF ServerStep, LockStep
<1> QED BY <1>1, <1>10

(***************************************************************************)
(* What callbacks, distributions and reloads do to the tasks: a task that  *)
(* is off is started, or one under way goes on by its goroutine.           *)
(***************************************************************************)
Started(g, a) ==
  /\ task[g].pc = "off"
  /\ \E p \in {"address", "deliver"} :
       task' = [task EXCEPT ![g] = [Off EXCEPT !.pc = p, !.to = a]]

LEMMA StartedTask ==
  ASSUME MasterInv, NEW g \in Senders, NEW a \in Agents, Started(g, a)
  PROVE  /\ \A h \in Senders \ {g} : task'[h] = task[h]
         /\ task'[g].pc \in {"address", "deliver"} /\ task'[g].to = a
         /\ task'[g].msg = Update
<1>1. PICK p \in {"address", "deliver"} :
        task' = [task EXCEPT ![g] = [Off EXCEPT !.pc = p, !.to = a]]
  BY DEF Started
<1>2. /\ [Off EXCEPT !.pc = p, !.to = a].pc = p
      /\ [Off EXCEPT !.pc = p, !.to = a].to = a
      /\ [Off EXCEPT !.pc = p, !.to = a].msg = Update
  BY DEF Off
<1>3. DOMAIN task = Senders
  BY DEF MasterInv, MasterTypeOK
<1> DEFINE r == [Off EXCEPT !.pc = p, !.to = a]
<1> HIDE DEF r
<1>4. task' = [task EXCEPT ![g] = r]
  BY <1>1 DEF r
<1>5. task'[g] = r /\ \A h \in Senders \ {g} : task'[h] = task[h]
  BY <1>3, <1>4
<1> QED BY <1>2, <1>5 DEF r

LEMMA CallbackFrame ==
  ASSUME MasterInv, OneRegistrar, NEW c \in Conns,
         \/ OnAgentRegister(c) \/ OnAgentDisconnect(c)
         \/ \E v \in Versions \cup {NoVersion} : OnAgentHeartbeat(c, v)
  PROVE  /\ ident[c] \in Agents
         /\ UNCHANGED <<agents, handler, ident, send, reloadVars, log>>
         /\ \/ /\ OnAgentRegister(c) /\ callbacks' = callbacks \ {OnRegister(c)}
               /\ OnRegister(c) \in callbacks
               /\ Started(Registrar(c), ident[c])
               /\ task'[Registrar(c)].pc = "address"
            \/ /\ \A d \in Conns : OnRegister(d) \in callbacks' <=>
                                     OnRegister(d) \in callbacks
               /\ Started(Notifier(c), ident[c]) \/ UNCHANGED task
<1> USE DEF MasterInv
<1>1. \A d \in Conns, v \in Versions \cup {NoVersion} :
        OnRegister(d) # OnDisconnect(c) /\ OnRegister(d) # OnHeartbeat(c, v)
  BY DEF OnRegister, OnDisconnect, OnHeartbeat
<1>2. ident[c] \in Agents /\ UNCHANGED <<agents, handler, ident, send>>
  BY DEF OnAgentRegister, OnAgentDisconnect, OnAgentHeartbeat,
         FinishCallback, CallbacksNamed, OnRegister, OnDisconnect, OnHeartbeat
<1>3. UNCHANGED <<reloadVars, log>>
  BY DEF OnAgentRegister, OnAgentDisconnect, OnAgentHeartbeat, reloadVars
<1>4. CASE OnAgentRegister(c)
  <2>1. OnRegister(c) \in callbacks /\ callbacks' = callbacks \ {OnRegister(c)}
    BY <1>4 DEF OnAgentRegister, FinishCallback
  <2>2. task[Registrar(c)].pc = "off"
    BY <2>1 DEF OneRegistrar
  <2> DEFINE r == [Off EXCEPT !.pc = "address", !.to = ident[c]]
  <2>3. task' = [task EXCEPT ![Registrar(c)] = r]
    BY <1>4 DEF OnAgentRegister
  <2>4. Started(Registrar(c), ident[c])
    BY <2>2, <2>3 DEF Started
  <2>5. r.pc = "address"
    BY DEF Off
  <2>6. task'[Registrar(c)] = r
    <3> HIDE DEF r
    <3> QED BY <2>3, SenderNames DEF MasterTypeOK
  <2> QED BY <1>2, <1>3, <1>4, <2>1, <2>4, <2>5, <2>6
<1>5. CASE OnAgentDisconnect(c)
  BY <1>1, <1>2, <1>3, <1>5 DEF OnAgentDisconnect, FinishCallback
<1>6. ASSUME NEW v \in Versions \cup {NoVersion}, OnAgentHeartbeat(c, v)
      PROVE  /\ \A d \in Conns : OnRegister(d) \in callbacks' <=>
                                   OnRegister(d) \in callbacks
             /\ Started(Notifier(c), ident[c]) \/ UNCHANGED task
  BY <1>1, <1>6 DEF OnAgentHeartbeat, FinishCallback, Started
<1> QED BY <1>2, <1>3, <1>4, <1>5, <1>6

(***************************************************************************)
(* A distribution moves its own task, and nothing of the server but the    *)
(* message it holds.                                                       *)
(***************************************************************************)
LEMMA DistributionFrame ==
  ASSUME MasterInv, Staged, NEW g \in Senders,
         \/ ReadAddress(g) \/ ReadRules(g) \/ Deliver(g)
         \/ \E c \in Conns : FinishDelivery(g, c)
  PROVE  /\ UNCHANGED <<agents, handler, ident, callbacks, status, notified,
                        reloadVars, ran>>
         /\ \A h \in Senders \ {g} : task'[h] = task[h] /\ send'[h] = send[h]
         /\ task[g].pc # "off"
         /\ \/ /\ task[g].pc = "address" /\ task'[g].pc = "rules"
               /\ task'[g].known = (task[g].to \in Connected)
               /\ task'[g].to = task[g].to
               /\ UNCHANGED <<send, log>>
            \/ /\ task[g].pc = "rules" /\ task'[g].pc = "deliver"
               /\ task'[g].msg = Config(rules, task[g].known)
               /\ task'[g].to = task[g].to
               /\ UNCHANGED <<send, log>>
            \/ /\ task[g].pc = "rules" /\ ~Applies(rules, task[g].known)
               /\ task'[g] = Off
               /\ UNCHANGED <<send, log>>
            \/ /\ task[g].pc = "deliver" /\ task[g].to \notin Connected
               /\ task'[g] = Off
               /\ UNCHANGED <<send, log>>
            \/ /\ task[g].pc = "deliver" /\ task[g].to \in Connected
               /\ task'[g].pc = "sending"
               /\ task'[g].to = task[g].to /\ task'[g].msg = task[g].msg
               /\ send'[g].left = {agents[task[g].to].channel}
               /\ send'[g].msg = task[g].msg
               /\ UNCHANGED log
            \/ /\ task[g].pc = "sending" /\ task[g].to \in Connected
               /\ task'[g] = Off /\ send'[g] = Idle
               /\ log' = [log EXCEPT ![agents[task[g].to].channel] =
                            Append(@, task[g].msg)]
<1>0. /\ task \in [Senders -> Tasks] /\ DOMAIN send = Senders
      /\ task[g] \in Tasks
  BY DEF MasterInv, MasterTypeOK, Tasks, TypeOK
<1>1. CASE ReadAddress(g)
  <2> DEFINE r == [task[g] EXCEPT !.pc = "rules",
                                  !.known = task[g].to \in Connected]
  <2>1. /\ task[g].pc = "address"
        /\ UNCHANGED <<agents, handler, ident, callbacks, status, notified,
                       reloadVars, ran, send, log>>
    BY <1>1 DEF ReadAddress, vars
  <2>2. task' = [task EXCEPT ![g] = r]
    BY <1>0, <1>1 DEF ReadAddress
  <2>3. /\ r.pc = "rules" /\ r.to = task[g].to
        /\ r.known = (task[g].to \in Connected)
    BY <1>0 DEF Tasks
  <2>4. task'[g] = r /\ \A h \in Senders \ {g} : task'[h] = task[h]
    <3> HIDE DEF r
    <3> QED BY <1>0, <2>2
  <2> HIDE DEF r
  <2> QED BY <2>1, <2>3, <2>4
<1>2. CASE ReadRules(g)
  <2> DEFINE r == [task[g] EXCEPT !.pc = "deliver",
                                  !.msg = Config(rules, task[g].known)]
  <2>1. /\ task[g].pc = "rules"
        /\ UNCHANGED <<agents, handler, ident, callbacks, status, notified,
                       reloadVars, ran, send, log>>
    BY <1>2 DEF ReadRules, vars
  <2>2. task' = [task EXCEPT ![g] = IF Applies(rules, task[g].known)
                                    THEN r ELSE Off]
    BY <1>0, <1>2 DEF ReadRules
  <2>3. /\ r.pc = "deliver" /\ r.to = task[g].to
        /\ r.msg = Config(rules, task[g].known)
    BY <1>0 DEF Tasks
  <2>4. /\ task'[g] = IF Applies(rules, task[g].known) THEN r ELSE Off
        /\ \A h \in Senders \ {g} : task'[h] = task[h]
    <3> HIDE DEF r
    <3> QED BY <1>0, <2>2
  <2> HIDE DEF r
  <2> QED BY <2>1, <2>3, <2>4
<1>3. CASE Deliver(g)
  <2>1. /\ task[g].pc = "deliver"
        /\ UNCHANGED <<agents, handler, ident, callbacks, status, notified,
                       reloadVars, ran, log>>
    BY <1>3 DEF Deliver, SendToAgent, vars
  <2>2. CASE task[g].to \notin Connected
    BY <1>0, <1>3, <2>1, <2>2 DEF Deliver, vars
  <2>3. CASE task[g].to \in Connected
    <3> DEFINE r == [task[g] EXCEPT !.pc = "sending"]
               s == [msg |-> task[g].msg,
                     left |-> {agents[task[g].to].channel}]
    <3>1. task' = [task EXCEPT ![g] = r] /\ send' = [send EXCEPT ![g] = s]
      BY <1>0, <1>3, <2>3 DEF Deliver, SendToAgent
    <3>2. /\ r.pc = "sending" /\ r.to = task[g].to /\ r.msg = task[g].msg
          /\ s.left = {agents[task[g].to].channel} /\ s.msg = task[g].msg
      BY <1>0 DEF Tasks
    <3>3. /\ task'[g] = r /\ send'[g] = s
          /\ \A h \in Senders \ {g} : task'[h] = task[h] /\ send'[h] = send[h]
      <4> HIDE DEF r, s
      <4> QED BY <1>0, <3>1
    <3> HIDE DEF r, s
    <3> QED BY <2>1, <2>3, <3>2, <3>3
  <2> QED BY <2>2, <2>3
<1>4. ASSUME NEW c \in Conns, FinishDelivery(g, c)
      PROVE  /\ UNCHANGED <<agents, handler, ident, callbacks, status,
                            notified, reloadVars, ran>>
             /\ \A h \in Senders \ {g} :
                  task'[h] = task[h] /\ send'[h] = send[h]
             /\ task[g].pc = "sending" /\ task[g].to \in Connected
             /\ task'[g] = Off /\ send'[g] = Idle
             /\ log' = [log EXCEPT ![agents[task[g].to].channel] =
                          Append(@, task[g].msg)]
  <2>1. /\ c \in send[g].left
        /\ UNCHANGED <<agents, handler, ident, callbacks, status, notified,
                       reloadVars, ran>>
        /\ task' = [task EXCEPT ![g] = Off]
        /\ log' = [log EXCEPT ![c] = Append(@, send[g].msg)]
    BY <1>4 DEF FinishDelivery, WriteMessage
  <2>2. /\ task[g].pc = "sending" /\ task[g].to \in Connected
        /\ send[g].msg = task[g].msg
        /\ send[g].left = {agents[task[g].to].channel}
    BY <2>1 DEF Staged
  <2>3. send[g].left = {c}
    BY <2>1, <2>2
  <2>4. send' = [send EXCEPT ![g] = Idle]
    BY <1>4, <2>3 DEF FinishDelivery, WriteMessage
  <2> QED BY <1>0, <2>1, <2>2, <2>3, <2>4
<1> QED BY <1>1, <1>2, <1>3, <1>4

LEMMA ReloadFrame ==
  ASSUME MasterInv, Reload
  PROVE  /\ UNCHANGED <<agents, handler, ident, callbacks, send, notified, log,
                        ran>>
         /\ \/ UNCHANGED task
            \/ \E a \in Agents : /\ NotifyAgent(a) /\ Started(Reloader, a)
                                 /\ task'[Reloader].pc = "address"
<1>1. UNCHANGED <<agents, handler, ident, callbacks, send, notified, log, ran>>
  BY DEF Reload, EditConfig, TriggerReload, LoadConfig, ListAgents, EndReload,
         NotifyAgent, vars
<1>2. ASSUME NEW a \in Agents, NotifyAgent(a)
      PROVE  Started(Reloader, a) /\ task'[Reloader].pc = "address"
  <2> DEFINE r == [Off EXCEPT !.pc = "address", !.to = a]
  <2>1. task' = [task EXCEPT ![Reloader] = r] /\ task[Reloader].pc = "off"
    BY <1>2 DEF NotifyAgent
  <2>2. r.pc = "address"
    BY DEF Off
  <2>3. task'[Reloader] = r
    <3> HIDE DEF r
    <3> QED BY <2>1, SenderNames DEF MasterInv, MasterTypeOK
  <2> QED BY <2>1, <2>2, <2>3 DEF Started
<1> QED BY <1>1, <1>2 DEF Reload, EditConfig, TriggerReload, LoadConfig,
                          ListAgents, EndReload

(***************************************************************************)
(* The read lock and the one registrar are kept.                           *)
(***************************************************************************)
LEMMA StagedKept ==
  ASSUME MasterInv, Staged, OneRegistrar, [MasterNext]_allVars,
         "register" \in Hooks
  PROVE  Staged'
<1>1. ASSUME UNCHANGED <<send, task>>,
             \/ LockFree
             \/ /\ Connected' = Connected
                /\ \A a \in Connected : agents'[a].channel = agents[a].channel
      PROVE  Staged'
  BY <1>1 DEF Staged, LockFree
<1>2. CASE ServerStep \/ UNCHANGED allVars
  BY <1>1, <1>2, ServerFrame DEF allVars, vars, masterVars, Connected
<1>3. ASSUME NEW g \in Senders, NEW a \in Agents, Started(g, a),
             UNCHANGED <<agents, send>>
      PROVE  Staged'
  <2>1. Connected' = Connected
    BY <1>3 DEF Connected
  <2>2. /\ \A h \in Senders \ {g} : task'[h] = task[h]
        /\ task'[g].pc \in {"address", "deliver"}
    BY <1>3, StartedTask
  <2>3. task[g].pc = "off"
    BY <1>3 DEF Started
  <2> QED BY <1>3, <2>1, <2>2, <2>3 DEF Staged
<1>4. CASE Callback
  <2>1. PICK c \in Conns :
          \/ OnAgentRegister(c) \/ OnAgentDisconnect(c)
          \/ \E v \in Versions \cup {NoVersion} : OnAgentHeartbeat(c, v)
    BY <1>4 DEF Callback
  <2>2. Connected' = Connected
    BY <2>1, CallbackFrame DEF Connected
  <2> QED BY <1>1, <1>3, <2>1, <2>2, CallbackFrame, SenderNames
<1>5. CASE Distribution
  <2>1. PICK g \in Senders : \/ ReadAddress(g) \/ ReadRules(g) \/ Deliver(g)
                             \/ \E c \in Conns : FinishDelivery(g, c)
    BY <1>5 DEF Distribution
  <2>2. Connected' = Connected /\ UNCHANGED agents
    <3>1. UNCHANGED agents
      BY <2>1, DistributionFrame
    <3> QED BY <3>1 DEF Connected
  <2>3. \A h \in Senders \ {g} : task'[h] = task[h] /\ send'[h] = send[h]
    BY <2>1, DistributionFrame
  <2>4. IF task'[g].pc = "sending"
        THEN /\ task'[g].to \in Connected
             /\ send'[g].msg = task'[g].msg
             /\ send'[g].left = {agents[task'[g].to].channel}
        ELSE send'[g].left = {}
    <3>1. Off.pc # "sending" /\ Idle.left = {}
      BY DEF Off, Idle
    <3> QED BY <2>1, <3>1, DistributionFrame DEF Staged
  <2> QED BY <2>2, <2>3, <2>4 DEF Staged
<1>6. CASE Reload
  <2>1. Connected' = Connected
    BY <1>6, ReloadFrame DEF Connected
  <2> QED BY <1>1, <1>3, <1>6, <2>1, ReloadFrame, SenderNames
<1> QED BY <1>2, <1>4, <1>5, <1>6 DEF MasterNext

LEMMA OneRegistrarKept ==
  ASSUME MasterInv, Staged, OneRegistrar, [MasterNext]_allVars,
         "register" \in Hooks
  PROVE  OneRegistrar'
<1>1. CASE ServerStep
  BY <1>1, ServerFrame DEF OneRegistrar, Unregistered
<1>2. CASE UNCHANGED allVars
  BY <1>2 DEF allVars, vars, masterVars, OneRegistrar, Unregistered
<1>3. CASE Callback
  <2>1. PICK c \in Conns :
          \/ OnAgentRegister(c) \/ OnAgentDisconnect(c)
          \/ \E v \in Versions \cup {NoVersion} : OnAgentHeartbeat(c, v)
    BY <1>3 DEF Callback
  <2>2. \A d \in Conns : Unregistered(d)' <=> Unregistered(d)
    BY <2>1, CallbackFrame DEF Unregistered
  <2>3. CASE /\ OnRegister(c) \in callbacks
             /\ callbacks' = callbacks \ {OnRegister(c)}
             /\ Started(Registrar(c), ident[c]) /\ ident[c] \in Agents
    <3>1. \A d \in Conns \ {c} : task'[Registrar(d)] = task[Registrar(d)]
      BY <2>3, StartedTask, SenderNames
    <3> QED BY <2>2, <2>3, <3>1 DEF OneRegistrar
  <2>4. CASE /\ \A d \in Conns : OnRegister(d) \in callbacks' <=>
                                   OnRegister(d) \in callbacks
             /\ \A d \in Conns : task'[Registrar(d)] = task[Registrar(d)]
    BY <2>2, <2>4 DEF OneRegistrar
  <2> QED BY <2>1, <2>3, <2>4, CallbackFrame, StartedTask, SenderNames
<1>4. CASE Distribution
  <2>1. PICK g \in Senders : \/ ReadAddress(g) \/ ReadRules(g) \/ Deliver(g)
                             \/ \E c \in Conns : FinishDelivery(g, c)
    BY <1>4 DEF Distribution
  <2>2. /\ UNCHANGED <<handler, callbacks>> /\ task[g].pc # "off"
        /\ \A h \in Senders \ {g} : task'[h] = task[h]
    BY <2>1, DistributionFrame
  <2> QED BY <2>2, SenderNames DEF OneRegistrar, Unregistered
<1>5. CASE Reload
  <2>1. \A d \in Conns : task'[Registrar(d)] = task[Registrar(d)]
    BY <1>5, ReloadFrame, StartedTask, SenderNames
  <2>2. UNCHANGED <<handler, callbacks>>
    BY <1>5, ReloadFrame
  <2> QED BY <2>1, <2>2 DEF OneRegistrar, Unregistered
<1> QED BY <1>1, <1>2, <1>3, <1>4, <1>5 DEF MasterNext

(***************************************************************************)
(* Newest rules.  An agent that has not been sent the rules in force on    *)
(* its present connection is about to be: its own onAgentRegister has not  *)
(* run or not read the rules, or carries them; or the reload that brought  *)
(* them has not listed, not served, or is serving it.                      *)
(***************************************************************************)
WillSend(g, a) ==
  /\ task[g].to = a
  /\ \/ task[g].pc = "address"
     \/ task[g].pc = "rules" /\ task[g].known
     \/ task[g].pc \in {"deliver", "sending"} /\ task[g].msg = Config(rules, TRUE)

Pending(a, c) ==
  \/ OnRegister(c) \in callbacks \/ WillSend(Registrar(c), a)
  \/ round = "loaded"
  \/ round = "notify" /\ (a \in left \/ WillSend(Reloader, a))

Served(a, c) == Config(rules, TRUE) \in Sent(c) \/ Pending(a, c)

Newest == \A a \in Connected :
  LET c == agents[a].channel
  IN  handler[c] = "loop" /\ Applies(rules, TRUE) => Served(a, c)

NewestInv == Staged /\ OneRegistrar /\ Newest

LEMMA SentGrows ==
  ASSUME MasterInv, NEW c \in Conns, NEW m,
         log' = log \/ \E d \in Conns : log' = [log EXCEPT ![d] = Append(@, m)]
  PROVE  /\ Sent(c) \subseteq Sent(c)'
         /\ log' = [log EXCEPT ![c] = Append(@, m)] => m \in Sent(c)'
<1>1. log \in [Conns -> Seq(Commands \cup {Ack})]
  BY DEF MasterInv, MasterTypeOK
<1>2. log[c] \in Seq(Commands \cup {Ack})
  BY <1>1
<1>3. CASE log'[c] = log[c] /\ log' # [log EXCEPT ![c] = Append(@, m)]
  BY <1>3 DEF Sent
<1>4. CASE log' = [log EXCEPT ![c] = Append(@, m)]
  <2>1. log'[c] = Append(log[c], m)
    BY <1>1, <1>4
  <2>2. /\ Len(log'[c]) = Len(log[c]) + 1 /\ Len(log[c]) \in Nat
        /\ log'[c][Len(log[c]) + 1] = m
        /\ \A i \in 1..Len(log[c]) : log'[c][i] = log[c][i]
    BY <1>2, <2>1
  <2> QED BY <2>2 DEF Sent
<1> QED BY <1>1, <1>3, <1>4

LEMMA EntryNamed ==
  ASSUME MasterInv, NEW a \in Connected
  PROVE  agents[a].channel \in Conns /\ ident[agents[a].channel] = a
<1>1. agents[a] \in Entries
  BY DEF MasterInv, MasterTypeOK, TypeOK, Connected
<1>2. agents[a].channel \in Conns
  BY <1>1 DEF Entries
<1>3. ident[agents[a].channel] = a
  BY DEF MasterInv, Safe, EntriesServed
<1> QED BY <1>2, <1>3

LEMMA NewestKeptByServer ==
  ASSUME MasterInv, NewestInv, ServerStep, "register" \in Hooks
  PROVE  Newest'
<1>0. rules' = rules
  BY ServerFrame
<1> SUFFICES ASSUME NEW a \in Connected', NEW c, c = agents'[a].channel,
                    handler'[c] = "loop", Applies(rules, TRUE)
             PROVE  Served(a, c)'
  BY <1>0 DEF Newest, Applies
<1>1. a \in Connected /\ agents[a].channel = c
  BY ServerFrame
<1>2. c \in Conns
  BY <1>1, EntryNamed
<1>3. handler[c] = "loop" \/ OnRegister(c) \in callbacks'
  BY <1>2, ServerFrame
<1>4. CASE OnRegister(c) \in callbacks'
  BY <1>4 DEF Served, Pending
<1>5. CASE handler[c] = "loop"
  <2>1. Served(a, c)
    BY <1>1, <1>5 DEF NewestInv, Newest
  <2>2. Sent(c) \subseteq Sent(c)'
    <3>1. \/ log' = log
          \/ \E d \in Conns : log' = [log EXCEPT ![d] = Append(@, Ack)]
      BY DEF ServerStep, masterVars
    <3> QED BY <1>2, <3>1, SentGrows
  <2>3. Pending(a, c) => Pending(a, c)'
    <3>1. /\ UNCHANGED <<rules, round, left, task>>
          /\ OnRegister(c) \in callbacks => OnRegister(c) \in callbacks'
      BY <1>2, ServerFrame
    <3> QED BY <3>1 DEF Pending, WillSend
  <2> QED BY <1>0, <2>1, <2>2, <2>3 DEF Served
<1> QED BY <1>3, <1>4, <1>5

LEMMA NewestKeptByCallback ==
  ASSUME MasterInv, NewestInv, Callback
  PROVE  Newest'
<1>1. PICK d \in Conns :
        \/ OnAgentRegister(d) \/ OnAgentDisconnect(d)
        \/ \E v \in Versions \cup {NoVersion} : OnAgentHeartbeat(d, v)
  BY DEF Callback
<1>2. /\ UNCHANGED <<agents, handler, rules, round, left, log>>
      /\ Connected' = Connected
  BY <1>1, CallbackFrame DEF NewestInv, reloadVars, Connected
<1> SUFFICES ASSUME NEW a \in Connected, NEW c, c = agents[a].channel,
                    handler[c] = "loop", Applies(rules, TRUE)
             PROVE  Served(a, c)'
  BY <1>2 DEF Newest, Applies
<1>3. c \in Conns /\ ident[c] = a /\ Served(a, c)
  BY EntryNamed DEF NewestInv, Newest
<1>4. Sent(c)' = Sent(c)
  BY <1>2 DEF Sent
<1>5. CASE /\ callbacks' = callbacks \ {OnRegister(d)}
           /\ Started(Registrar(d), ident[d]) /\ ident[d] \in Agents
           /\ task'[Registrar(d)].pc = "address"
  <2>1. CASE d = c
    <3>1. WillSend(Registrar(c), a)'
      BY <1>3, <1>5, <2>1, StartedTask, SenderNames DEF WillSend
    <3> QED BY <3>1 DEF Served, Pending
  <2>2. CASE d # c
    <3>1. OnRegister(d) # OnRegister(c)
      BY <2>2 DEF OnRegister
    <3>2. /\ task'[Registrar(c)] = task[Registrar(c)]
          /\ task'[Reloader] = task[Reloader]
      BY <1>3, <1>5, <2>2, StartedTask, SenderNames
    <3> QED BY <1>2, <1>3, <1>4, <1>5, <3>1, <3>2
            DEF Served, Pending, WillSend
  <2> QED BY <2>1, <2>2
<1>6. CASE /\ OnRegister(c) \in callbacks' <=> OnRegister(c) \in callbacks
           /\ task'[Registrar(c)] = task[Registrar(c)]
           /\ task'[Reloader] = task[Reloader]
  BY <1>2, <1>3, <1>4, <1>6 DEF Served, Pending, WillSend
<1> QED BY <1>1, <1>3, <1>5, <1>6, CallbackFrame, StartedTask, SenderNames
        DEF NewestInv

LEMMA NewestKeptByDistribution ==
  ASSUME MasterInv, NewestInv, Distribution
  PROVE  Newest'
<1>1. PICK g \in Senders : \/ ReadAddress(g) \/ ReadRules(g) \/ Deliver(g)
                           \/ \E d \in Conns : FinishDelivery(g, d)
  BY DEF Distribution
<1>0. /\ UNCHANGED <<agents, handler, callbacks, reloadVars>>
      /\ \A h \in Senders \ {g} : task'[h] = task[h]
  BY <1>1, DistributionFrame DEF NewestInv
<1>2. /\ UNCHANGED <<agents, handler, callbacks, rules, round, left>>
      /\ Connected' = Connected
      /\ \A h \in Senders \ {g} : task'[h] = task[h]
  BY <1>0 DEF reloadVars, Connected
<1> SUFFICES ASSUME NEW a \in Connected, NEW c, c = agents[a].channel,
                    handler[c] = "loop", Applies(rules, TRUE)
             PROVE  Served(a, c)'
  BY <1>2 DEF Newest, Applies
<1>3. c \in Conns /\ Served(a, c)
  BY EntryNamed DEF NewestInv, Newest
<1>4. \A d \in Connected : agents[d].channel \in Conns
  BY EntryNamed
<1>5. /\ Sent(c) \subseteq Sent(c)'
      /\ log' = [log EXCEPT ![c] = Append(@, task[g].msg)]
           => task[g].msg \in Sent(c)'
  <2>1. log' = log
          \/ \E d \in Conns : log' = [log EXCEPT ![d] = Append(@, task[g].msg)]
    <3>1. \/ log' = log
          \/ /\ task[g].to \in Connected
             /\ log' = [log EXCEPT ![agents[task[g].to].channel] =
                                    Append(@, task[g].msg)]
      BY <1>1, DistributionFrame DEF NewestInv
    <3> DEFINE d == agents[task[g].to].channel
    <3>2. ASSUME task[g].to \in Connected
          PROVE  d \in Conns
      BY <1>4, <3>2
    <3> QED BY <3>1, <3>2
  <2> QED BY <1>3, <2>1, SentGrows
<1>6. ASSUME WillSend(g, a)
      PROVE  WillSend(g, a)' \/ Config(rules, TRUE) \in Sent(c)'
  <2>1. task[g].to = a
    BY <1>6 DEF WillSend
  <2>2. CASE task[g].pc = "address"
    BY <1>1, <2>1, <2>2, DistributionFrame DEF NewestInv, WillSend
  <2>3. CASE task[g].pc = "rules"
    BY <1>1, <1>2, <1>6, <2>1, <2>3, DistributionFrame DEF NewestInv, WillSend
  <2>4. CASE task[g].pc = "deliver"
    BY <1>1, <1>2, <1>6, <2>1, <2>4, DistributionFrame DEF NewestInv, WillSend
  <2>5. CASE task[g].pc = "sending"
    BY <1>1, <1>5, <1>6, <2>1, <2>5, DistributionFrame DEF NewestInv, WillSend
  <2> QED BY <1>6, <2>2, <2>3, <2>4, <2>5 DEF WillSend
<1>7. ASSUME NEW h \in Senders, WillSend(h, a)
      PROVE  WillSend(h, a)' \/ Config(rules, TRUE) \in Sent(c)'
  BY <1>2, <1>6, <1>7 DEF WillSend
<1> QED BY <1>2, <1>3, <1>5, <1>7, SenderNames DEF Served, Pending

LEMMA NewestKeptByReload ==
  ASSUME MasterInv, NewestInv, Reload
  PROVE  Newest'
<1>1. /\ UNCHANGED <<agents, handler, callbacks, log>>
      /\ Connected' = Connected
  BY ReloadFrame DEF Connected
<1> SUFFICES ASSUME NEW a \in Connected, NEW c, c = agents[a].channel,
                    handler[c] = "loop", Applies(rules', TRUE)
             PROVE  Served(a, c)'
  BY <1>1 DEF Newest, Applies
<1>2. c \in Conns /\ (Applies(rules, TRUE) => Served(a, c))
  BY EntryNamed DEF NewestInv, Newest
<1>3. Sent(c)' = Sent(c)
  BY <1>1 DEF Sent
<1>4. ASSUME rules' = rules, task'[Registrar(c)] = task[Registrar(c)],
             \/ UNCHANGED <<round, left>> /\ task'[Reloader] = task[Reloader]
             \/ round = "idle"
             \/ /\ round = "notify" /\ left = {}
                /\ task[Reloader].pc = "off"
      PROVE  Served(a, c)'
  BY <1>1, <1>2, <1>3, <1>4 DEF Served, Pending, WillSend
<1>5. CASE EditConfig \/ TriggerReload
  BY <1>4, <1>5 DEF EditConfig, TriggerReload
<1>6. CASE LoadConfig
  <2>1. CASE round' = "loaded"
    BY <2>1 DEF Served, Pending
  <2>2. CASE round' # "loaded"
    BY <1>4, <1>6, <2>2 DEF LoadConfig
  <2> QED BY <2>1, <2>2
<1>7. CASE ListAgents
  BY <1>7 DEF ListAgents, Served, Pending
<1>8. CASE EndReload
  BY <1>4, <1>8 DEF EndReload
<1>9. ASSUME NEW b \in Agents, NotifyAgent(b)
      PROVE  Served(a, c)'
  <2>1. /\ round = "notify" /\ round' = "notify" /\ left' = left \ {b}
        /\ task[Reloader].pc = "off" /\ rules' = rules
    BY <1>9 DEF NotifyAgent
  <2>2. /\ task'[Registrar(c)] = task[Registrar(c)]
        /\ task'[Reloader].to = b /\ task'[Reloader].pc = "address"
    <3> DEFINE r == [Off EXCEPT !.pc = "address", !.to = b]
    <3>1. task' = [task EXCEPT ![Reloader] = r]
      BY <1>9 DEF NotifyAgent
    <3>2. r.to = b /\ r.pc = "address"
      BY DEF Off
    <3>3. task'[Reloader] = r /\ task'[Registrar(c)] = task[Registrar(c)]
      <4> HIDE DEF r
      <4> QED BY <1>2, <3>1, SenderNames DEF MasterInv, MasterTypeOK
    <3> HIDE DEF r
    <3> QED BY <3>2, <3>3
  <2>3. CASE a = b
    BY <2>1, <2>2, <2>3 DEF Served, Pending, WillSend
  <2>4. CASE a # b
    <3>1. ~WillSend(Reloader, a)
      BY <2>1 DEF WillSend
    <3> QED BY <1>1, <1>2, <1>3, <2>1, <2>2, <2>4, <3>1
            DEF Served, Pending, WillSend
  <2> QED BY <2>3, <2>4
<1> QED BY <1>5, <1>6, <1>7, <1>8, <1>9 DEF Reload

(***************************************************************************)
(* Once nothing is under way, every agent that is served has been sent the *)
(* rules in force, whatever reloads, registrations and reconnections came  *)
(* together, and however many.                                             *)
(***************************************************************************)
THEOREM MasterNewestRulesSent ==
  ASSUME "register" \in Hooks
  PROVE  MasterSpec => []NewestRulesSent
<1>1. MasterInit => NewestInv
  <2> SUFFICES ASSUME MasterInit PROVE NewestInv
    OBVIOUS
  <2>1. Staged
    BY DEF MasterInit, Init, Staged, Off, Idle
  <2>2. OneRegistrar
    BY SenderNames DEF MasterInit, Init, OneRegistrar, Off
  <2>3. Newest
    BY DEF MasterInit, Init, Newest, Connected
  <2> QED BY <2>1, <2>2, <2>3 DEF NewestInv
<1>2. MasterInv /\ NewestInv /\ [MasterNext]_allVars => NewestInv'
  <2> SUFFICES ASSUME MasterInv, NewestInv, [MasterNext]_allVars
               PROVE  NewestInv'
    OBVIOUS
  <2>1. Staged' /\ OneRegistrar'
    BY StagedKept, OneRegistrarKept DEF NewestInv
  <2>2. Newest'
    <3>1. CASE UNCHANGED allVars
      BY <3>1 DEF allVars, vars, masterVars, reloadVars, NewestInv, Newest,
                  Connected, Applies, Served, Sent, Pending, WillSend
    <3> QED BY <3>1, NewestKeptByServer, NewestKeptByCallback,
               NewestKeptByDistribution, NewestKeptByReload DEF MasterNext
  <2> QED BY <2>1, <2>2 DEF NewestInv
<1>3. MasterInv /\ NewestInv => NewestRulesSent
  <2> SUFFICES ASSUME MasterInv, NewestInv, Quiet, NEW a \in Connected,
                      handler[agents[a].channel] = "loop",
                      Applies(rules, TRUE)
               PROVE  Config(rules, TRUE) \in Sent(agents[a].channel)
    BY DEF NewestRulesSent
  <2>1. agents[a].channel \in Conns
    BY EntryNamed
  <2>2. ~Pending(a, agents[a].channel)
    BY <2>1, SenderNames DEF Quiet, Pending, WillSend
  <2> QED BY <2>2 DEF NewestInv, Newest, Served
<1> QED BY <1>1, <1>2, <1>3, MasterSafe, PTL DEF MasterSpec

-----------------------------------------------------------------------------
(***************************************************************************)
(* The life of a connection, as the master sees it: nothing is done for it *)
(* before its ACK, what is done is done for the agent that registered on   *)
(* it, and its disconnect callback comes last and once.                    *)
(***************************************************************************)
Early(c) == handler[c] \in {"none", "first"}

Unstarted(c) ==
  /\ handler[c] # "loop" /\ OnRegister(c) \notin callbacks
  /\ \A v \in Versions \cup {NoVersion} : OnHeartbeat(c, v) \notin callbacks
  /\ task[Registrar(c)].pc = "off" /\ task[Notifier(c)].pc = "off"

Life(c) ==
  /\ Early(c) => ident[c] = NoAgent
  /\ log[c] # <<>> => ident[c] \in Agents
  /\ Ack \notin Sent(c) => Unstarted(c)
  /\ \A g \in {Registrar(c), Notifier(c)} :
       task[g].pc # "off" => task[g].to = ident[c]
  /\ OnDisconnect(c) \in callbacks \/ OnDisconnect(c) \in ran
       => handler[c] = "done"
  /\ ~(OnDisconnect(c) \in callbacks /\ OnDisconnect(c) \in ran)

Lives == \A c \in Conns : Life(c)

(* What a step of the server does to connection c. *)
Moves(c) ==
  /\ \/ ident'[c] = ident[c]
     \/ handler[c] = "first" /\ handler'[c] = "ack"
  /\ handler'[c] \in {"none", "first"} =>
       Early(c) /\ ident'[c] = ident[c]
  /\ \/ log'[c] = log[c]
     \/ handler[c] = "ack" /\ log'[c] = Append(log[c], Ack)
  /\ handler'[c] = "loop" => handler[c] = "loop" \/ log'[c] # log[c]
  /\ OnRegister(c) \in callbacks' =>
       OnRegister(c) \in callbacks \/ log'[c] # log[c]
  /\ \A v \in Versions \cup {NoVersion} : OnHeartbeat(c, v) \in callbacks' =>
       OnHeartbeat(c, v) \in callbacks \/ handler[c] = "loop"
  /\ OnDisconnect(c) \in callbacks' =>
       OnDisconnect(c) \in callbacks
         \/ (handler[c] = "remove" /\ handler'[c] = "done")
  /\ handler[c] = "done" => handler'[c] = "done"

LEMMA KindsDiffer ==
  \A c, d \in Conns, v, w \in Versions \cup {NoVersion} :
    /\ OnRegister(c) # OnDisconnect(d) /\ OnRegister(c) # OnHeartbeat(d, v)
    /\ OnDisconnect(c) # OnHeartbeat(d, v)
    /\ OnRegister(c) = OnRegister(d) => c = d
    /\ OnDisconnect(c) = OnDisconnect(d) => c = d
    /\ OnHeartbeat(c, v) = OnHeartbeat(d, w) => c = d
BY DEF OnRegister, OnDisconnect, OnHeartbeat

LEMMA AppendedDiffers ==
  ASSUME NEW S, NEW q \in Seq(S), NEW m \in S
  PROVE  Append(q, m) # q /\ Append(q, m) # <<>>
<1>1. Len(Append(q, m)) = Len(q) + 1 /\ Len(q) \in Nat
  OBVIOUS
<1> QED BY <1>1

LEMMA NothingSent ==
  ASSUME NEW c \in Conns, log[c] = <<>>
  PROVE  Ack \notin Sent(c)
BY DEF Sent

LEMMA SentMoves ==
  ASSUME MasterInv, NEW c \in Conns, Moves(c)
  PROVE  /\ log'[c] = log[c] => Sent(c)' = Sent(c)
         /\ log'[c] # log[c] => Ack \in Sent(c)'
<1>1. log[c] \in Seq(Commands \cup {Ack})
  BY DEF MasterInv, MasterTypeOK
<1>2. CASE log'[c] = log[c]
  BY <1>2 DEF Sent
<1>3. CASE log'[c] = Append(log[c], Ack)
  <2>1. /\ Len(log'[c]) = Len(log[c]) + 1 /\ Len(log[c]) \in Nat
        /\ log'[c][Len(log[c]) + 1] = Ack
    BY <1>1, <1>3
  <2> QED BY <1>1, <1>3, <2>1, AppendedDiffers DEF Sent
<1> QED BY <1>2, <1>3 DEF Moves

LEMMA ServerMoves ==
  ASSUME MasterInv, ServerStep
  PROVE  /\ UNCHANGED <<notified, triggers, task, ran>>
         /\ \A c \in Conns : Moves(c)
<1>1. UNCHANGED <<notified, triggers, task, ran>>
  BY DEF ServerStep, masterVars, reloadVars
<1>0. /\ handler \in [Conns -> {"none", "first", "ack", "loop", "remove", "done"}]
      /\ DOMAIN ident = Conns /\ log \in [Conns -> Seq(Commands \cup {Ack})]
      /\ Undialled
  BY DEF MasterInv, MasterTypeOK, TypeOK, Safe
<1>2. ASSUME NEW c \in Conns, SendAck(c),
             log' = [log EXCEPT ![c] = Append(@, Ack)], NEW d \in Conns
      PROVE  Moves(d)
  <2>1. /\ handler[c] = "ack" /\ handler' = [handler EXCEPT ![c] = "loop"]
        /\ callbacks' \in {callbacks, callbacks \cup {OnRegister(c)}}
        /\ ident' = ident
    BY <1>2 DEF SendAck, Start
  <2>2. log[c] \in Seq(Commands \cup {Ack}) /\ log'[c] = Append(log[c], Ack)
    BY <1>0, <1>2
  <2>3. log'[c] # log[c]
    BY <2>2, AppendedDiffers
  <2>4. CASE d = c
    BY <1>0, <2>1, <2>2, <2>3, <2>4, KindsDiffer DEF Moves, Early
  <2>5. CASE d # c
    <3>1. handler'[d] = handler[d] /\ log'[d] = log[d]
      BY <1>0, <1>2, <2>1, <2>5
    <3> QED BY <2>1, <2>5, <3>1, KindsDiffer DEF Moves, Early
  <2> QED BY <2>4, <2>5
<1>3. ASSUME NEW c \in Conns, AcceptRegister(c), log' = log, NEW d \in Conns
      PROVE  Moves(d)
  <2>1. /\ \E a \in Agents : ident' = [ident EXCEPT ![c] = a]
        /\ handler' = [handler EXCEPT ![c] = "ack"]
        /\ handler[c] = "first" /\ callbacks' = callbacks
    BY <1>3 DEF AcceptRegister
  <2>2. CASE d = c
    BY <1>0, <1>3, <2>1, <2>2 DEF Moves, Early
  <2>3. CASE d # c
    BY <1>0, <1>3, <2>1, <2>3 DEF Moves, Early
  <2> QED BY <2>2, <2>3
<1>4. ASSUME NEW c \in Conns, ReceiveHeartbeat(c), log' = log, NEW d \in Conns
      PROVE  Moves(d)
  <2>1. PICK v \in Versions \cup {NoVersion} :
          callbacks' = Start(OnHeartbeat(c, v))
    BY <1>4 DEF ReceiveHeartbeat
  <2>2. handler[c] = "loop" /\ UNCHANGED <<handler, ident>>
    BY <1>4 DEF ReceiveHeartbeat
  <2>3. callbacks' \subseteq callbacks \cup {OnHeartbeat(c, v)}
    BY <2>1 DEF Start
  <2> QED BY <1>4, <2>2, <2>3, KindsDiffer DEF Moves, Early
<1>5. ASSUME NEW c \in Conns, RemoveAgent(c), log' = log, NEW d \in Conns
      PROVE  Moves(d)
  <2>1. /\ handler[c] = "remove" /\ handler' = [handler EXCEPT ![c] = "done"]
        /\ callbacks' \subseteq callbacks \cup {OnDisconnect(c)}
        /\ ident' = ident
    BY <1>5 DEF RemoveAgent, Start
  <2>2. handler'[d] = IF d = c THEN "done" ELSE handler[d]
    BY <1>0, <2>1
  <2> QED BY <1>5, <2>1, <2>2, KindsDiffer DEF Moves, Early
<1>6. ASSUME NEW c \in Conns, log' = log,
             \/ AgentSide(c) \/ RejectFirst(c) \/ AckFails(c)
             \/ ReceiveOther(c) \/ LoseConnection(c), NEW d \in Conns
      PROVE  Moves(d)
  <2>1. UNCHANGED <<ident, callbacks>>
    BY <1>0, <1>6 DEF AgentSide, Dial, SayHello, ReadAnswer, ReadCommand, Report,
                Hangup, RejectFirst, AckFails, ReceiveOther, LoseConnection
  <2>2. \/ UNCHANGED handler
        \/ handler[c] = "none" /\ handler' = [handler EXCEPT ![c] = "first"]
        \/ /\ handler[c] # "done"
           /\ \E s \in {"remove", "done"} : handler' = [handler EXCEPT ![c] = s]
    BY <1>0, <1>6 DEF AgentSide, Dial, SayHello, ReadAnswer, ReadCommand, Report,
                Hangup, RejectFirst, AckFails, ReceiveOther, LoseConnection,
                Undialled
  <2>3. \/ handler'[d] = handler[d]
        \/ handler[d] = "none" /\ handler'[d] = "first"
        \/ handler[d] # "done" /\ handler'[d] \in {"remove", "done"}
    BY <1>0, <2>2
  <2> QED BY <1>6, <2>1, <2>3 DEF Moves, Early
<1>7. ASSUME CloseAllAgents \/ CloseListener, log' = log, NEW d \in Conns
      PROVE  Moves(d)
  BY <1>7 DEF CloseAllAgents, CloseListener, Moves, Early
<1>8. ASSUME NEW d \in Conns
      PROVE  Moves(d)
  BY <1>2, <1>3, <1>4, <1>5, <1>6, <1>7
     DEF ServerStep, LockStep, masterVars
<1> QED BY <1>1, <1>8

(***************************************************************************)
(* What the callback of a connection does to the tasks, the notices and    *)
(* the history.                                                            *)
(***************************************************************************)
LEMMA CallbackMoves ==
  ASSUME MasterInv, OneRegistrar, NEW c \in Conns,
         \/ OnAgentRegister(c) \/ OnAgentDisconnect(c)
         \/ \E v \in Versions \cup {NoVersion} : OnAgentHeartbeat(c, v)
  PROVE  /\ callbacks' \subseteq callbacks
         /\ \/ /\ OnRegister(c) \in callbacks
               /\ Started(Registrar(c), ident[c])
               /\ task'[Registrar(c)].pc = "address"
               /\ UNCHANGED <<notified, ran>>
            \/ \E v \in Versions \cup {NoVersion} :
                 /\ OnHeartbeat(c, v) \in callbacks
                 /\ ran' = ran \cup {OnHeartbeat(c, v)}
                 /\ \/ /\ Started(Notifier(c), ident[c])
                       /\ ident[c] \notin notified
                       /\ notified' = notified \cup {ident[c]}
                    \/ /\ UNCHANGED task
                       /\ notified' \in {notified, notified \cup {ident[c]}}
            \/ /\ OnDisconnect(c) \in callbacks \ callbacks'
               /\ ran' = ran \cup {OnDisconnect(c)}
               /\ notified' = notified \ {ident[c]} /\ UNCHANGED task
<1>1. callbacks' \subseteq callbacks
  BY DEF OnAgentRegister, OnAgentDisconnect, OnAgentHeartbeat, FinishCallback
<1>2. CASE OnAgentRegister(c)
  <2>1. OnRegister(c) \in callbacks /\ UNCHANGED <<notified, ran>>
    BY <1>2 DEF OnAgentRegister, FinishCallback
  <2>2. ~(Started(Notifier(c), ident[c]) \/ UNCHANGED task)
           \/ ~(\A d \in Conns : OnRegister(d) \in callbacks' <=>
                                   OnRegister(d) \in callbacks)
    BY <1>2, <2>1 DEF OnAgentRegister, FinishCallback
  <2> QED BY <1>1, <1>2, <2>1, <2>2, CallbackFrame
<1>3. ASSUME NEW v \in Versions \cup {NoVersion}, OnAgentHeartbeat(c, v)
      PROVE  /\ OnHeartbeat(c, v) \in callbacks
             /\ ran' = ran \cup {OnHeartbeat(c, v)}
             /\ \/ /\ Started(Notifier(c), ident[c])
                   /\ ident[c] \notin notified
                   /\ notified' = notified \cup {ident[c]}
                \/ /\ UNCHANGED task
                   /\ notified' \in {notified, notified \cup {ident[c]}}
  BY <1>3 DEF OnAgentHeartbeat, FinishCallback, FirstNotice, Started
<1>4. CASE OnAgentDisconnect(c)
  BY <1>4 DEF OnAgentDisconnect, FinishCallback
<1> QED BY <1>1, <1>2, <1>3, <1>4

LEMMA LivesKept ==
  ASSUME MasterInv, Staged, OneRegistrar, Lives, [MasterNext]_allVars
  PROVE  Lives'
<1>0. /\ log \in [Conns -> Seq(Commands \cup {Ack})]
      /\ ident \in [Conns -> Agents \cup {NoAgent}]
      /\ NoAgent \notin Agents
      /\ \A c \in Conns : handler[c] \in Serving => ident[c] \in Agents
  BY DEF MasterInv, MasterTypeOK, TypeOK, Safe, Named
<1> SUFFICES ASSUME NEW c \in Conns PROVE Life(c)'
  BY DEF Lives
<1>1. Life(c)
  BY DEF Lives
<1>2. CASE ServerStep
  <2>1. UNCHANGED <<task, ran>> /\ Moves(c)
    BY <1>2, ServerMoves
  <2>2. log'[c] # log[c] => log'[c] # <<>>
    BY <1>0, <2>1, AppendedDiffers DEF Moves
  <2>3. log'[c] # <<>> => ident'[c] \in Agents
    BY <1>0, <1>1, <2>1 DEF Moves, Life, Early, Serving
  <2>4. Ack \notin Sent(c)' => Unstarted(c)'
    BY <1>1, <2>1, SentMoves DEF Moves, Life, Unstarted
  <2>5. \A g \in {Registrar(c), Notifier(c)} :
          task'[g].pc # "off" => task'[g].to = ident'[c]
    <3>1. CASE ident'[c] = ident[c]
      BY <1>1, <2>1, <3>1 DEF Life
    <3>2. CASE ident'[c] # ident[c]
      <4>1. log[c] = <<>>
        BY <1>0, <1>1, <2>1, <3>2 DEF Moves, Life, Early
      <4> QED BY <1>1, <2>1, <4>1, NothingSent DEF Life, Unstarted
    <3> QED BY <3>1, <3>2
  <2> QED BY <1>1, <2>1, <2>3, <2>4, <2>5 DEF Moves, Life, Early
<1>3. ASSUME UNCHANGED <<handler, ident, log, ran>>,
             callbacks' \subseteq callbacks,
             \A g \in {Registrar(c), Notifier(c)} :
               \/ task'[g] = task[g]
               \/ /\ task'[g].pc # "off" => task'[g].to = ident[c]
                  /\ Ack \in Sent(c)
      PROVE  Life(c)'
  <2>1. Sent(c)' = Sent(c)
    BY <1>3 DEF Sent
  <2> QED BY <1>1, <1>3, <2>1 DEF Life, Unstarted, Early
<1>4. CASE UNCHANGED allVars
  BY <1>3, <1>4 DEF allVars, vars, masterVars
<1>5. CASE Callback
  <2>1. PICK d \in Conns :
          \/ OnAgentRegister(d) \/ OnAgentDisconnect(d)
          \/ \E v \in Versions \cup {NoVersion} : OnAgentHeartbeat(d, v)
    BY <1>5 DEF Callback
  <2>2. /\ ident[d] \in Agents /\ callbacks' \subseteq callbacks
        /\ UNCHANGED <<handler, ident, log>>
    BY <2>1, CallbackFrame, CallbackMoves
  <2>3. ASSUME NEW g \in Senders, Started(g, ident[d]),
               g \in {Registrar(d), Notifier(d)}, Ack \in Sent(d)
        PROVE  \A h \in {Registrar(c), Notifier(c)} :
                 \/ task'[h] = task[h]
                 \/ /\ task'[h].pc # "off" => task'[h].to = ident[c]
                    /\ Ack \in Sent(c)
    <3>1. (\A h \in Senders \ {g} : task'[h] = task[h])
            /\ task'[g].to = ident[d]
      BY <2>2, <2>3, StartedTask
    <3> QED BY <2>3, <3>1, SenderNames
  <2>4. CASE OnRegister(d) \in callbacks /\ Started(Registrar(d), ident[d])
               /\ UNCHANGED ran
    <3>1. Ack \in Sent(d)
      BY <2>4 DEF Lives, Life, Unstarted
    <3> QED BY <1>3, <2>2, <2>3, <2>4, <3>1, SenderNames
  <2>5. ASSUME NEW v \in Versions \cup {NoVersion},
               OnHeartbeat(d, v) \in callbacks,
               ran' = ran \cup {OnHeartbeat(d, v)},
               Started(Notifier(d), ident[d]) \/ UNCHANGED task
        PROVE  Life(c)'
    <3>1. Ack \in Sent(d)
      BY <2>5 DEF Lives, Life, Unstarted
    <3>2. OnDisconnect(c) \in ran' <=> OnDisconnect(c) \in ran
      BY <2>5, KindsDiffer
    <3>3. \A g \in {Registrar(c), Notifier(c)} :
            \/ task'[g] = task[g]
            \/ /\ task'[g].pc # "off" => task'[g].to = ident[c]
               /\ Ack \in Sent(c)
      BY <2>3, <2>5, <3>1, SenderNames
    <3> QED BY <1>1, <2>2, <3>2, <3>3 DEF Life, Unstarted, Early, Sent
  <2>6. CASE /\ OnDisconnect(d) \in callbacks \ callbacks'
             /\ ran' = ran \cup {OnDisconnect(d)} /\ UNCHANGED task
    <3>1. OnDisconnect(c) \in ran' =>
            OnDisconnect(c) \in ran \/ OnDisconnect(c) \in callbacks \ callbacks'
      BY <2>6, KindsDiffer
    <3> QED BY <1>1, <2>2, <2>6, <3>1 DEF Life, Unstarted, Early, Sent
  <2> QED BY <2>1, <2>4, <2>5, <2>6, CallbackMoves
<1>6. CASE Distribution
  <2>1. PICK g \in Senders : \/ ReadAddress(g) \/ ReadRules(g) \/ Deliver(g)
                             \/ \E d \in Conns : FinishDelivery(g, d)
    BY <1>6 DEF Distribution
  <2>2. /\ UNCHANGED <<handler, ident, callbacks, ran>>
        /\ task[g].pc # "off"
        /\ \A h \in Senders \ {g} : task'[h] = task[h]
        /\ task'[g] = Off \/ task'[g].to = task[g].to
        /\ \/ log' = log
           \/ /\ task[g].to \in Connected
              /\ log' = [log EXCEPT ![agents[task[g].to].channel] =
                                      Append(@, task[g].msg)]
    BY <2>1, DistributionFrame
  <2>3. \A h \in {Registrar(c), Notifier(c)} :
          \/ task'[h] = task[h]
          \/ /\ task'[h].pc # "off" => task'[h].to = ident[c]
             /\ Ack \in Sent(c)
    <3> SUFFICES ASSUME NEW h \in {Registrar(c), Notifier(c)},
                        task'[h] # task[h]
                 PROVE  /\ task'[h].pc # "off" => task'[h].to = ident[c]
                        /\ Ack \in Sent(c)
      OBVIOUS
    <3>1. h = g
      BY <2>2, SenderNames
    <3>2. task[h].pc # "off" /\ (task'[h] = Off \/ task'[h].to = task[h].to)
      BY <2>2, <3>1
    <3>3. task[h].to = ident[c] /\ Ack \in Sent(c)
      BY <1>1, <3>2 DEF Life, Unstarted
    <3>4. Off.pc = "off"
      BY DEF Off
    <3> QED BY <3>2, <3>3, <3>4
  <2>4. CASE log'[c] = log[c]
    <3>1. Sent(c)' = Sent(c)
      BY <2>4 DEF Sent
    <3> QED BY <1>1, <2>2, <2>3, <2>4, <3>1 DEF Life, Unstarted, Early
  <2>5. CASE log'[c] # log[c]
    <3>1. task[g].to \in Connected /\ agents[task[g].to].channel = c
      BY <1>0, <2>2, <2>5
    <3>2. ident[c] \in Agents
      BY <3>1, EntryNamed DEF Connected
    <3>3. log[c] \in Seq(Commands \cup {Ack})
            /\ task[g].msg \in Commands \cup {Ack}
      BY <1>0 DEF MasterInv, MasterTypeOK
    <3>4. log'[c] # <<>>
      BY <1>0, <2>2, <2>5, <3>1, <3>3, AppendedDiffers
    <3>5. Sent(c) \subseteq Sent(c)'
      BY <2>2, <3>1, SentGrows
    <3> QED BY <1>1, <2>2, <2>3, <3>2, <3>4, <3>5
            DEF Life, Unstarted, Early
  <2> QED BY <2>4, <2>5
<1>7. CASE Reload
  <2>1. \A g \in {Registrar(c), Notifier(c)} : task'[g] = task[g]
    BY <1>7, ReloadFrame, StartedTask, SenderNames
  <2> QED BY <1>3, <1>7, <2>1, ReloadFrame
<1> QED BY <1>2, <1>4, <1>5, <1>6, <1>7 DEF MasterNext

-----------------------------------------------------------------------------
(***************************************************************************)
(* The ACK first.  Who writes on a connection before its ACK is the reload *)
(* that runs, or carries a message for the agent from an earlier           *)
(* connection: one that has had its ACK, and that the map, where this      *)
(* connection is, has no more and never will again.                        *)
(***************************************************************************)
Calm == round # "notify" => task[Reloader].pc = "off"

Earlier(d, c) == ident[d] = ident[c] /\ ~Early(d) /\ ~Owns(ident[d], d)

Overtaken(c) ==
  /\ log[c] = <<>> => ahead[c] = {}
  /\ log[c] # <<>> /\ ahead[c] = {} => log[c][1] = Ack
  /\ \A g \in ahead[c] :
       \/ g = Reloader /\ triggers > 0
       \/ \E d \in Conns \ {c} :
            g \in {Registrar(d), Notifier(d)} /\ Earlier(d, c)

AckInv == /\ Staged /\ OneRegistrar /\ Lives
          /\ Calm /\ \A c \in Conns : Overtaken(c)

LEMMA CalmKept ==
  ASSUME MasterInv, Staged, OneRegistrar, Calm, [MasterNext]_allVars,
         "register" \in Hooks
  PROVE  Calm'
<1>1. CASE ServerStep \/ UNCHANGED allVars
  BY <1>1, ServerFrame DEF Calm, allVars, masterVars, reloadVars
<1>2. CASE Callback
  <2>1. PICK c \in Conns :
          \/ OnAgentRegister(c) \/ OnAgentDisconnect(c)
          \/ \E v \in Versions \cup {NoVersion} : OnAgentHeartbeat(c, v)
    BY <1>2 DEF Callback
  <2>2. round' = round /\ task'[Reloader] = task[Reloader]
    BY <2>1, CallbackFrame, StartedTask, SenderNames DEF reloadVars
  <2> QED BY <2>2 DEF Calm
<1>3. CASE Distribution
  <2>1. PICK g \in Senders : \/ ReadAddress(g) \/ ReadRules(g) \/ Deliver(g)
                             \/ \E c \in Conns : FinishDelivery(g, c)
    BY <1>3 DEF Distribution
  <2>2. /\ round' = round /\ task[g].pc # "off"
        /\ \A h \in Senders \ {g} : task'[h] = task[h]
    BY <2>1, DistributionFrame DEF reloadVars
  <2> QED BY <2>2, SenderNames DEF Calm
<1>4. CASE Reload
  BY <1>4 DEF Calm, Reload, EditConfig, TriggerReload, LoadConfig, ListAgents,
              EndReload, NotifyAgent
<1> QED BY <1>1, <1>2, <1>3, <1>4 DEF MasterNext

(***************************************************************************)
(* A connection that has registered and is not, or no longer, in the map   *)
(* stays out of it: only a REGISTER inserts, and a connection has one.     *)
(***************************************************************************)
LEMMA LeftForGood ==
  ASSUME MasterInv, ServerStep, NEW d \in Conns, ~Early(d),
         ident[d] \in Agents, ~Owns(ident[d], d)
  PROVE  ident'[d] = ident[d] /\ ~Early(d)' /\ ~Owns(ident[d], d)'
<1> DEFINE a == ident[d]
<1> USE DEF MasterInv, MasterTypeOK, TypeOK
<1>1. ident'[d] = ident[d] /\ ~Early(d)'
  BY ServerMoves DEF Moves, Early
<1>2. ASSUME NEW c \in Conns, AcceptRegister(c)
      PROVE  agents'[a] = agents[a] \/ agents'[a].channel # d
  <2>1. handler[c] = "first"
    BY <1>2 DEF AcceptRegister
  <2>2. c # d
    BY <2>1 DEF Early
  <2>3. PICK b \in Agents, v \in Versions \cup {NoVersion} :
          agents' = [agents EXCEPT ![b] = [channel |-> c, version |-> v]]
    BY <1>2 DEF AcceptRegister
  <2> QED BY <2>2, <2>3
<1>3. ASSUME NEW c \in Conns, RemoveAgent(c)
      PROVE  agents'[a] \in {agents[a], NoEntry}
  BY <1>3 DEF RemoveAgent
<1>4. ASSUME CloseAllAgents \/ CloseListener
      PROVE  agents'[a] \in {agents[a], NoEntry}
  BY <1>4 DEF CloseAllAgents, CloseListener
<1>5. ASSUME NEW c \in Conns,
             \/ AgentSide(c) \/ RejectFirst(c) \/ SendAck(c) \/ AckFails(c)
             \/ ReceiveOther(c) \/ LoseConnection(c)
      PROVE  agents' = agents
  BY <1>5 DEF AgentSide, Dial, SayHello, ReadAnswer, ReadCommand, Report,
              Hangup, RejectFirst, SendAck, AckFails, ReceiveOther,
              LoseConnection
<1>6. ASSUME NEW c \in Conns, ReceiveHeartbeat(c)
      PROVE  /\ agents'[a] = NoEntry <=> agents[a] = NoEntry
             /\ agents[a] # NoEntry => agents'[a].channel = agents[a].channel
  BY <1>6, HeartbeatKeepsChannels
<1>7. agents'[a] # NoEntry =>
        agents'[a].channel # d
          \/ (agents[a] # NoEntry /\ agents[a].channel = agents'[a].channel)
  BY <1>2, <1>3, <1>4, <1>5, <1>6 DEF ServerStep, LockStep
<1> QED BY <1>1, <1>7 DEF Owns

LEMMA EarlierKept ==
  ASSUME MasterInv, Lives, ServerStep, NEW c \in Conns, NEW d \in Conns,
         ident[c] \in Agents, Earlier(d, c)
  PROVE  Earlier(d, c)'
<1>1. ident'[c] = ident[c]
  BY ServerMoves DEF Moves, Lives, Life, Early, MasterInv, MasterTypeOK
<1>2. ident[d] \in Agents /\ ~Early(d) /\ ~Owns(ident[d], d)
  BY DEF Earlier
<1>3. ident'[d] = ident[d] /\ ~Early(d)' /\ ~Owns(ident[d], d)'
  BY <1>2, LeftForGood
<1> QED BY <1>1, <1>3 DEF Earlier, Owns

(***************************************************************************)
(* Who is about to write on a connection that has not had its ACK.         *)
(***************************************************************************)
LEMMA WriterNamed ==
  ASSUME MasterInv, AckInv, NEW g \in Senders, task[g].pc # "off",
         task[g].to \in Connected,
         NEW c \in Conns, agents[task[g].to].channel = c, Ack \notin Sent(c)
  PROVE  \/ g = Reloader /\ triggers > 0
         \/ \E d \in Conns \ {c} :
              g \in {Registrar(d), Notifier(d)} /\ Earlier(d, c)
<1>1. ident[c] = task[g].to
  BY EntryNamed
<1>2. CASE g = Reloader
  <2>1. round = "notify"
    BY <1>2 DEF AckInv, Calm
  <2>2. triggers \in Nat /\ waiting \in Nat /\ Reloads <= triggers
    BY DEF MasterInv, MasterTypeOK
  <2> QED BY <1>2, <2>1, <2>2 DEF Reloads
<1>3. CASE g # Reloader
  <2>1. PICK d \in Conns : g \in {Registrar(d), Notifier(d)}
    BY <1>3, MasterAssumption
  <2>2. task[g].to = ident[d]
    BY <2>1 DEF AckInv, Lives, Life
  <2>3. Ack \in Sent(d)
    BY <2>1 DEF AckInv, Lives, Life, Unstarted
  <2>4. d # c /\ ident[d] = ident[c]
    BY <1>1, <2>2, <2>3
  <2>5. ~Early(d)
    <3>1. ident[d] \in Agents /\ NoAgent \notin Agents
      BY <2>2, CommAssumption DEF Connected
    <3> QED BY <3>1 DEF AckInv, Lives, Life
  <2>6. ~Owns(ident[d], d)
    BY <2>2, <2>4 DEF Owns
  <2> QED BY <2>1, <2>4, <2>5, <2>6 DEF Earlier
<1> QED BY <1>2, <1>3

LEMMA OvertakenKept ==
  ASSUME MasterInv, AckInv, [MasterNext]_allVars, NEW c \in Conns
  PROVE  Overtaken(c)'
<1>0. /\ log \in [Conns -> Seq(Commands \cup {Ack})]
      /\ ahead \in [Conns -> SUBSET Senders]
      /\ triggers \in Nat
  BY DEF MasterInv, MasterTypeOK
<1>1. Overtaken(c) /\ Lives /\ (log[c] # <<>> => ident[c] \in Agents)
  BY DEF AckInv, Lives, Life
<1>2. ASSUME UNCHANGED <<agents, handler, ident, log, ahead>>,
             triggers > 0 => triggers' > 0
      PROVE  Overtaken(c)'
  BY <1>1, <1>2 DEF Overtaken, Earlier, Early, Owns
<1>3. CASE ServerStep
  <2>1. UNCHANGED <<triggers, ahead>> /\ Moves(c)
    BY <1>3, ServerMoves DEF ServerStep, masterVars
  <2>2. log[c] \in Seq(Commands \cup {Ack})
    BY <1>0
  <2>3. CASE log[c] = <<>>
    <3>1. ahead'[c] = {}
      BY <1>1, <2>1, <2>3 DEF Overtaken
    <3>2. log'[c] # <<>> => log'[c] = Append(<<>>, Ack)
      BY <2>1, <2>3 DEF Moves
    <3> QED BY <3>1, <3>2 DEF Overtaken
  <2>4. CASE log[c] # <<>>
    <3>1. log'[c] # <<>> /\ log'[c][1] = log[c][1]
      BY <2>1, <2>2, <2>4 DEF Moves
    <3>2. \A d \in Conns : Earlier(d, c) => Earlier(d, c)'
      BY <1>1, <1>3, <2>4, EarlierKept
    <3> QED BY <1>1, <2>1, <2>4, <3>1, <3>2 DEF Overtaken
  <2> QED BY <2>3, <2>4
<1>4. CASE UNCHANGED allVars
  BY <1>2, <1>4 DEF allVars, vars, masterVars, reloadVars
<1>5. CASE Callback
  <2>1. UNCHANGED ahead
    BY <1>5 DEF Callback, OnAgentRegister, OnAgentDisconnect, OnAgentHeartbeat
  <2> QED BY <1>2, <1>5, <2>1, CallbackFrame DEF Callback, AckInv, reloadVars
<1>6. CASE Distribution
  <2>1. PICK g \in Senders : \/ ReadAddress(g) \/ ReadRules(g) \/ Deliver(g)
                             \/ \E d \in Conns : FinishDelivery(g, d)
    BY <1>6 DEF Distribution
  <2>2. /\ UNCHANGED <<agents, handler, ident, triggers>>
        /\ task[g].pc # "off"
    BY <2>1, DistributionFrame DEF AckInv, reloadVars
  <2>3. \A d \in Conns : Earlier(d, c)' <=> Earlier(d, c)
    BY <2>2 DEF Earlier, Early, Owns
  <2>4. CASE ReadAddress(g) \/ ReadRules(g) \/ Deliver(g)
    BY <1>2, <2>2, <2>4 DEF ReadAddress, ReadRules, Deliver
  <2>5. ASSUME NEW d \in Conns, FinishDelivery(g, d), d # c
        PROVE  Overtaken(c)'
    <3>1. log'[c] = log[c] /\ ahead'[c] = ahead[c]
      BY <1>0, <2>5 DEF FinishDelivery
    <3> QED BY <1>1, <2>2, <2>3, <3>1 DEF Overtaken
  <2>6. CASE FinishDelivery(g, c)
    <3>1. /\ task[g].to \in Connected /\ agents[task[g].to].channel = c
      BY <2>6 DEF FinishDelivery, WriteMessage, AckInv, Staged
    <3>2. /\ log'[c] = Append(log[c], send[g].msg)
          /\ log[c] \in Seq(Commands \cup {Ack})
          /\ send[g].msg \in Commands \cup {Ack}
      BY <1>0, <2>6 DEF FinishDelivery, MasterInv, MasterTypeOK, TypeOK
    <3>3. log'[c] # <<>> /\ (log[c] # <<>> => log'[c][1] = log[c][1])
      <4>1. /\ Len(log'[c]) = Len(log[c]) + 1 /\ Len(log[c]) \in Nat
            /\ \A i \in 1..Len(log[c]) : log'[c][i] = log[c][i]
            /\ log[c] # <<>> => 1 \in 1..Len(log[c])
        BY <3>2
      <4> QED BY <3>2, <4>1, AppendedDiffers
    <3>4. CASE Ack \in Sent(c)
      <4>1. ahead' = ahead /\ log[c] # <<>>
        BY <2>6, <3>4, NothingSent DEF FinishDelivery
      <4> QED BY <1>1, <2>2, <2>3, <3>3, <4>1 DEF Overtaken
    <3>5. CASE Ack \notin Sent(c)
      <4>1. ahead'[c] = ahead[c] \cup {g}
        BY <1>0, <2>6, <3>5 DEF FinishDelivery
      <4>2. \/ g = Reloader /\ triggers > 0
            \/ \E d \in Conns \ {c} :
                 g \in {Registrar(d), Notifier(d)} /\ Earlier(d, c)
        BY <2>2, <3>1, <3>5, WriterNamed
      <4> QED BY <1>1, <2>2, <2>3, <3>3, <4>1, <4>2 DEF Overtaken
    <3> QED BY <3>4, <3>5
  <2> QED BY <2>1, <2>4, <2>5, <2>6
<1>7. CASE Reload
  <2>1. UNCHANGED ahead /\ (triggers' = triggers \/ triggers' = triggers + 1)
    BY <1>7 DEF Reload, EditConfig, TriggerReload, LoadConfig, ListAgents,
                EndReload, NotifyAgent
  <2> QED BY <1>0, <1>2, <1>7, <2>1, ReloadFrame
<1> QED BY <1>3, <1>4, <1>5, <1>6, <1>7 DEF MasterNext

(***************************************************************************)
(* "The agent must receive REGISTER_ACK first": the first message on a     *)
(* connection is the ACK unless a reload, or a callback of an earlier      *)
(* connection of the same agent that the map has no more, gets ahead of    *)
(* it, in any interleaving of any number of agents, connections and        *)
(* reloads.  No other callback ever does.                                  *)
(***************************************************************************)
THEOREM MasterAckBeforeRules ==
  ASSUME "register" \in Hooks
  PROVE  MasterSpec => []AckBeforeRules
<1>1. MasterInit => AckInv
  <2> SUFFICES ASSUME MasterInit PROVE AckInv
    OBVIOUS
  <2>1. \A g \in Senders : task[g].pc = "off"
    BY DEF MasterInit, Off
  <2>2. Staged
    BY <2>1 DEF MasterInit, Init, Staged, Idle
  <2>3. OneRegistrar /\ Lives /\ Calm
    BY <2>1, SenderNames DEF MasterInit, Init, OneRegistrar, Lives, Life,
                             Unstarted, Calm
  <2>4. \A c \in Conns : Overtaken(c)
    BY DEF MasterInit, Overtaken
  <2> QED BY <2>2, <2>3, <2>4 DEF AckInv
<1>2. MasterInv /\ AckInv /\ [MasterNext]_allVars => AckInv'
  BY StagedKept, OneRegistrarKept, LivesKept, CalmKept, OvertakenKept
     DEF AckInv
<1>3. AckInv => AckBeforeRules
  BY DEF AckInv, Overtaken, Earlier, AckBeforeRules
<1> QED BY <1>1, <1>2, <1>3, MasterSafe, PTL DEF MasterSpec

-----------------------------------------------------------------------------
(***************************************************************************)
(* The notices.  Those sent to an agent and those on their way to it are   *)
(* no more than the disconnect callbacks that ran for it, and one if       *)
(* updateNotified has it.                                                  *)
(***************************************************************************)
Mine(a) == {c \in Conns : ident[c] = a}

IsNotice(c, i) == i \in 1..Len(log[c]) /\ log[c][i] = Update

NoticesOf(a) == {p \in Conns \X Nat : ident[p[1]] = a /\ IsNotice(p[1], p[2])}
OnTheWay(a) == {c \in Mine(a) : task[Notifier(c)].pc # "off"}
Gone(a) == {c \in Mine(a) : OnDisconnect(c) \in ran}

Budget(a) ==
  /\ IsFiniteSet(NoticesOf(a)) /\ IsFiniteSet(OnTheWay(a))
  /\ IsFiniteSet(Gone(a))
  /\ Cardinality(NoticesOf(a)) + Cardinality(OnTheWay(a))
       <= Cardinality(Gone(a)) + (IF a \in notified THEN 1 ELSE 0)

(* Only onAgentHeartbeat's goroutines carry a notice. *)
Carriers == \A g \in Senders :
  task[g].pc \in {"deliver", "sending"} /\ task[g].msg = Update
    => \E c \in Conns : g = Notifier(c)

NoticeInv == /\ Staged /\ OneRegistrar /\ Lives
             /\ Carriers /\ \A a \in Agents : Budget(a)

LEMMA Messages ==
  /\ Update \in Commands /\ Update # Ack
  /\ \A g \in Gens, k \in BOOLEAN : Config(g, k) # Update
<1>1. Update.type = "UPDATE_AVAILABLE" /\ Ack.type = "REGISTER_ACK"
  BY DEF Update, Ack
<1>2. \A g \in Gens, k \in BOOLEAN : Config(g, k).type = "CONFIG_UPDATE"
  BY DEF Config
<1> QED BY <1>1, <1>2, MasterAssumption

LEMMA CarriersKept ==
  ASSUME MasterInv, Staged, OneRegistrar, Carriers, [MasterNext]_allVars
  PROVE  Carriers'
<1>1. CASE UNCHANGED task
  BY <1>1 DEF Carriers
<1>2. ASSUME NEW g \in Senders, NEW a \in Agents, Started(g, a),
             task'[g].pc = "address" \/ \E c \in Conns : g = Notifier(c)
      PROVE  Carriers'
  BY <1>2, StartedTask DEF Carriers
<1>3. CASE ServerStep \/ UNCHANGED allVars
  BY <1>1, <1>3, ServerMoves DEF allVars, masterVars
<1>4. CASE Callback
  <2>1. PICK c \in Conns :
          \/ OnAgentRegister(c) \/ OnAgentDisconnect(c)
          \/ \E v \in Versions \cup {NoVersion} : OnAgentHeartbeat(c, v)
    BY <1>4 DEF Callback
  <2> QED BY <1>1, <1>2, <2>1, CallbackFrame, SenderNames
<1>5. CASE Distribution
  <2>1. PICK g \in Senders : \/ ReadAddress(g) \/ ReadRules(g) \/ Deliver(g)
                             \/ \E c \in Conns : FinishDelivery(g, c)
    BY <1>5 DEF Distribution
  <2>2. \A h \in Senders \ {g} : task'[h] = task[h]
    BY <2>1, DistributionFrame
  <2>3. /\ rules \in Gens /\ task[g].known \in BOOLEAN
        /\ Off.pc = "off"
    BY DEF MasterInv, MasterTypeOK, Off
  <2>4. \/ task'[g].pc \notin {"deliver", "sending"}
        \/ task'[g].msg = Config(rules, task[g].known)
        \/ /\ task[g].pc \in {"deliver", "sending"}
           /\ task'[g].msg = task[g].msg
    BY <2>1, <2>3, DistributionFrame
  <2>5. task'[g].pc \in {"deliver", "sending"} /\ task'[g].msg = Update
          => \E c \in Conns : g = Notifier(c)
    BY <2>3, <2>4, Messages DEF Carriers
  <2> QED BY <2>2, <2>5 DEF Carriers
<1>6. CASE Reload
  BY <1>1, <1>2, <1>6, ReloadFrame, SenderNames
<1> QED BY <1>3, <1>4, <1>5, <1>6 DEF MasterNext

(***************************************************************************)
(* What a message written on a connection adds to the notices.             *)
(***************************************************************************)
LEMMA NoticeAdded ==
  ASSUME MasterInv, NEW c \in Conns, NEW m, NEW a \in Agents,
         log' = [log EXCEPT ![c] = Append(@, m)], ident' = ident
  PROVE  /\ m # Update \/ ident[c] # a => NoticesOf(a)' = NoticesOf(a)
         /\ m = Update /\ ident[c] = a =>
              /\ NoticesOf(a)' = NoticesOf(a) \cup {<<c, Len(log[c]) + 1>>}
              /\ <<c, Len(log[c]) + 1>> \notin NoticesOf(a)
<1>1. /\ log[c] \in Seq(Commands \cup {Ack}) /\ log'[c] = Append(log[c], m)
      /\ \A d \in Conns \ {c} : log'[d] = log[d]
  BY DEF MasterInv, MasterTypeOK
<1>2. /\ Len(log'[c]) = Len(log[c]) + 1 /\ Len(log[c]) \in Nat
      /\ log'[c][Len(log[c]) + 1] = m
      /\ \A i \in 1..Len(log[c]) : log'[c][i] = log[c][i]
  BY <1>1
<1>3. \A i \in Nat : IsNotice(c, i)' <=>
        IsNotice(c, i) \/ (i = Len(log[c]) + 1 /\ m = Update)
  BY <1>2 DEF IsNotice
<1>4. \A d \in Conns \ {c}, i \in Nat : IsNotice(d, i)' <=> IsNotice(d, i)
  BY <1>1 DEF IsNotice
<1>5. ~IsNotice(c, Len(log[c]) + 1)
  BY <1>2 DEF IsNotice
<1>6. \A p \in Conns \X Nat : p = <<p[1], p[2]>> /\ p[1] \in Conns /\ p[2] \in Nat
  OBVIOUS
<1>7. ASSUME m # Update \/ ident[c] # a
      PROVE  NoticesOf(a)' = NoticesOf(a)
  BY <1>3, <1>4, <1>6, <1>7 DEF NoticesOf
<1>8. ASSUME m = Update, ident[c] = a
      PROVE  /\ NoticesOf(a)' = NoticesOf(a) \cup {<<c, Len(log[c]) + 1>>}
             /\ <<c, Len(log[c]) + 1>> \notin NoticesOf(a)
  <2>1. Len(log[c]) + 1 \in Nat
    BY <1>2
  <2>2. <<c, Len(log[c]) + 1>> \notin NoticesOf(a)
    BY <1>5 DEF NoticesOf
  <2>3. \A p \in Conns \X Nat :
          ident[p[1]] = a /\ IsNotice(p[1], p[2])' <=>
            \/ ident[p[1]] = a /\ IsNotice(p[1], p[2])
            \/ p = <<c, Len(log[c]) + 1>>
    BY <1>3, <1>4, <1>6, <1>8
  <2> QED BY <1>8, <2>1, <2>2, <2>3 DEF NoticesOf
<1> QED BY <1>7, <1>8

LEMMA BudgetSame ==
  ASSUME NEW a \in Agents, Budget(a), NoticesOf(a)' = NoticesOf(a),
         OnTheWay(a)' = OnTheWay(a), Gone(a)' = Gone(a),
         a \in notified => a \in notified'
  PROVE  Budget(a)'
<1>1. /\ Cardinality(NoticesOf(a)) \in Nat /\ Cardinality(OnTheWay(a)) \in Nat
      /\ Cardinality(Gone(a)) \in Nat
  BY FS_CardinalityType DEF Budget
<1> QED BY <1>1 DEF Budget

(* A step that adds no more to the notices than it takes from those on the *)
(* way keeps the budget.                                                   *)
LEMMA BudgetBalanced ==
  ASSUME NEW a \in Agents, Budget(a), Gone(a)' = Gone(a), notified' = notified,
         IsFiniteSet(NoticesOf(a)'), IsFiniteSet(OnTheWay(a)'),
         Cardinality(NoticesOf(a)') + Cardinality(OnTheWay(a)')
           <= Cardinality(NoticesOf(a)) + Cardinality(OnTheWay(a))
  PROVE  Budget(a)'
<1> DEFINE had == Cardinality(NoticesOf(a)) + Cardinality(OnTheWay(a))
           has == Cardinality(NoticesOf(a)') + Cardinality(OnTheWay(a)')
           may == Cardinality(Gone(a)) + (IF a \in notified THEN 1 ELSE 0)
<1>1. /\ Cardinality(NoticesOf(a)) \in Nat /\ Cardinality(OnTheWay(a)) \in Nat
      /\ Cardinality(NoticesOf(a)') \in Nat /\ Cardinality(OnTheWay(a)') \in Nat
      /\ Cardinality(Gone(a)) \in Nat
  BY FS_CardinalityType DEF Budget
<1>2. had \in Nat /\ has \in Nat /\ may \in Nat
  BY <1>1
<1>3. had <= may /\ has <= had
  BY DEF Budget
<1>4. IsFiniteSet(Gone(a)')
  BY DEF Budget
<1>5. has <= may
  <2> HIDE DEF had, has, may
  <2> QED BY <1>2, <1>3
<1> QED BY <1>4, <1>5 DEF Budget

LEMMA BudgetKeptByServer ==
  ASSUME MasterInv, Lives, ServerStep, NEW a \in Agents, Budget(a)
  PROVE  Budget(a)'
<1>0. /\ log \in [Conns -> Seq(Commands \cup {Ack})]
      /\ NoAgent \notin Agents
  BY DEF MasterInv, MasterTypeOK
<1>1. UNCHANGED <<notified, task, ran>> /\ \A c \in Conns : Moves(c)
  BY ServerMoves
<1>2. ASSUME NEW c \in Conns, NEW i \in Nat
      PROVE  IsNotice(c, i)' <=> IsNotice(c, i)
  <2>1. log'[c] = log[c] \/ log'[c] = Append(log[c], Ack)
    BY <1>1 DEF Moves
  <2>2. log[c] \in Seq(Commands \cup {Ack})
    BY <1>0
  <2>3. CASE log'[c] = Append(log[c], Ack)
    <3>1. /\ Len(log'[c]) = Len(log[c]) + 1 /\ Len(log[c]) \in Nat
          /\ log'[c][Len(log[c]) + 1] = Ack
          /\ \A j \in 1..Len(log[c]) : log'[c][j] = log[c][j]
      BY <2>2, <2>3
    <3> QED BY <3>1, Messages DEF IsNotice
  <2> QED BY <2>1, <2>3 DEF IsNotice
<1>3. ASSUME NEW c \in Conns
      PROVE  \/ ident'[c] = ident[c]
             \/ /\ log[c] = <<>> /\ task[Notifier(c)].pc = "off"
                /\ OnDisconnect(c) \notin ran
  <2>1. CASE ident'[c] = ident[c]
    BY <2>1
  <2>2. CASE ident'[c] # ident[c]
    <3>1. log[c] = <<>> /\ OnDisconnect(c) \notin ran
      BY <1>0, <1>1, <2>2 DEF Moves, Lives, Life, Early
    <3> QED BY <3>1, NothingSent DEF Lives, Life, Unstarted
  <2> QED BY <2>1, <2>2
<1>4. ASSUME NEW c \in Conns, NEW i \in Nat
      PROVE  ident'[c] = a /\ IsNotice(c, i)' <=> ident[c] = a /\ IsNotice(c, i)
  BY <1>2, <1>3 DEF IsNotice
<1>5. \A p \in Conns \X Nat : p[1] \in Conns /\ p[2] \in Nat
  OBVIOUS
<1>6. NoticesOf(a)' = NoticesOf(a)
  BY <1>4, <1>5 DEF NoticesOf
<1>7. OnTheWay(a)' = OnTheWay(a)
  <2>1. \A c \in Conns :
          ident'[c] = a /\ task'[Notifier(c)].pc # "off" <=>
          ident[c] = a /\ task[Notifier(c)].pc # "off"
    <3>1. CASE UNCHANGED ident
      BY <1>1, <3>1
    <3>2. \A c \in Conns : \/ ident'[c] = ident[c]
                           \/ /\ ident[c] = NoAgent
                              /\ task[Notifier(c)].pc = "off"
      BY <1>0, <1>1, <1>3 DEF Moves, Lives, Life, Early
    <3> QED BY <1>1, <3>2
  <2> QED BY <2>1 DEF OnTheWay, Mine
<1>8. Gone(a)' = Gone(a)
  BY <1>1, <1>3 DEF Gone, Mine
<1> QED BY <1>1, <1>6, <1>7, <1>8, BudgetSame

LEMMA BudgetKeptByCallback ==
  ASSUME MasterInv, OneRegistrar, Lives, Callback, NEW a \in Agents, Budget(a)
  PROVE  Budget(a)'
<1>1. PICK c \in Conns :
        \/ OnAgentRegister(c) \/ OnAgentDisconnect(c)
        \/ \E v \in Versions \cup {NoVersion} : OnAgentHeartbeat(c, v)
  BY DEF Callback
<1>2. /\ ident[c] \in Agents
      /\ UNCHANGED <<ident, log>>
  BY <1>1, CallbackFrame
<1>3. NoticesOf(a)' = NoticesOf(a) /\ Mine(a)' = Mine(a)
  BY <1>2 DEF NoticesOf, IsNotice, Mine
<1>4. /\ Cardinality(NoticesOf(a)) \in Nat /\ Cardinality(OnTheWay(a)) \in Nat
      /\ Cardinality(Gone(a)) \in Nat
  BY FS_CardinalityType DEF Budget
<1>5. CASE /\ OnRegister(c) \in callbacks
           /\ Started(Registrar(c), ident[c]) /\ UNCHANGED <<notified, ran>>
  <2>1. \A d \in Conns : task'[Notifier(d)] = task[Notifier(d)]
    BY <1>2, <1>5, StartedTask, SenderNames
  <2>2. OnTheWay(a)' = OnTheWay(a) /\ Gone(a)' = Gone(a)
    BY <1>3, <1>5, <2>1 DEF OnTheWay, Gone, Mine
  <2> QED BY <1>3, <1>5, <2>2, BudgetSame
<1>6. ASSUME NEW v \in Versions \cup {NoVersion},
             ran' = ran \cup {OnHeartbeat(c, v)},
             \/ /\ Started(Notifier(c), ident[c])
                /\ ident[c] \notin notified
                /\ notified' = notified \cup {ident[c]}
             \/ /\ UNCHANGED task
                /\ notified' \in {notified, notified \cup {ident[c]}}
      PROVE  Budget(a)'
  <2>1. Gone(a)' = Gone(a)
    <3>1. \A d \in Conns : OnDisconnect(d) \in ran' <=> OnDisconnect(d) \in ran
      BY <1>6, KindsDiffer
    <3> QED BY <1>3, <3>1 DEF Gone, Mine
  <2>2. CASE UNCHANGED task
    <3>1. OnTheWay(a)' = OnTheWay(a)
      BY <1>3, <2>2 DEF OnTheWay
    <3> QED BY <1>3, <1>6, <2>1, <3>1, BudgetSame
  <2>3. CASE /\ Started(Notifier(c), ident[c]) /\ ident[c] \notin notified
             /\ notified' = notified \cup {ident[c]}
    <3>1. /\ task[Notifier(c)].pc = "off" /\ task'[Notifier(c)].pc # "off"
          /\ \A d \in Conns \ {c} : task'[Notifier(d)] = task[Notifier(d)]
      <4>1. task[Notifier(c)].pc = "off"
        BY <2>3 DEF Started
      <4>2. Notifier(c) \in Senders
        BY SenderNames
      <4>3. /\ \A h \in Senders \ {Notifier(c)} : task'[h] = task[h]
            /\ task'[Notifier(c)].pc \in {"address", "deliver"}
        BY <1>2, <2>3, <4>2, StartedTask
      <4> QED BY <4>1, <4>3, SenderNames
    <3>2. CASE ident[c] # a
      <4>1. OnTheWay(a)' = OnTheWay(a)
        BY <1>3, <3>1, <3>2 DEF OnTheWay, Mine
      <4> QED BY <1>3, <2>1, <2>3, <4>1, BudgetSame
    <3>3. CASE ident[c] = a
      <4>1. OnTheWay(a)' = OnTheWay(a) \cup {c} /\ c \notin OnTheWay(a)
        BY <1>3, <3>1, <3>3 DEF OnTheWay, Mine
      <4>2. /\ IsFiniteSet(OnTheWay(a)')
            /\ Cardinality(OnTheWay(a)') = Cardinality(OnTheWay(a)) + 1
        BY <4>1, FS_AddElement DEF Budget
      <4>3. a \notin notified /\ a \in notified'
        BY <2>3, <3>3
      <4> QED BY <1>3, <1>4, <2>1, <4>2, <4>3 DEF Budget
    <3> QED BY <3>2, <3>3
  <2> QED BY <1>6, <2>2, <2>3
<1>7. CASE /\ OnDisconnect(c) \in callbacks \ callbacks'
           /\ ran' = ran \cup {OnDisconnect(c)}
           /\ notified' = notified \ {ident[c]} /\ UNCHANGED task
  <2>1. OnTheWay(a)' = OnTheWay(a)
    BY <1>3, <1>7 DEF OnTheWay
  <2>2. OnDisconnect(c) \notin ran
    BY <1>7 DEF Lives, Life
  <2>3. \A d \in Conns : OnDisconnect(d) \in ran' <=>
                           OnDisconnect(d) \in ran \/ d = c
    BY <1>7, KindsDiffer
  <2>4. CASE ident[c] # a
    <3>1. Gone(a)' = Gone(a) /\ (a \in notified => a \in notified')
      BY <1>3, <1>7, <2>3, <2>4 DEF Gone, Mine
    <3> QED BY <1>3, <2>1, <3>1, BudgetSame
  <2>5. CASE ident[c] = a
    <3>1. Gone(a)' = Gone(a) \cup {c} /\ c \notin Gone(a)
      BY <1>3, <2>2, <2>3, <2>5 DEF Gone, Mine
    <3>2. /\ IsFiniteSet(Gone(a)')
          /\ Cardinality(Gone(a)') = Cardinality(Gone(a)) + 1
      BY <3>1, FS_AddElement DEF Budget
    <3> QED BY <1>3, <1>4, <2>1, <3>2 DEF Budget
  <2> QED BY <2>4, <2>5
<1> QED BY <1>1, <1>5, <1>6, <1>7, CallbackMoves

LEMMA BudgetKeptByDistribution ==
  ASSUME MasterInv, Staged, Lives, Carriers, Distribution,
         NEW a \in Agents, Budget(a)
  PROVE  Budget(a)'
<1>1. PICK g \in Senders : \/ ReadAddress(g) \/ ReadRules(g) \/ Deliver(g)
                           \/ \E d \in Conns : FinishDelivery(g, d)
  BY DEF Distribution
<1>2. /\ UNCHANGED <<ident, notified, ran>>
      /\ task[g].pc # "off"
      /\ \A h \in Senders \ {g} : task'[h] = task[h]
      /\ \/ log' = log
         \/ /\ task[g].pc = "sending" /\ task'[g] = Off
            /\ task[g].to \in Connected
            /\ log' = [log EXCEPT ![agents[task[g].to].channel] =
                                    Append(@, task[g].msg)]
  BY <1>1, DistributionFrame
<1>3. Gone(a)' = Gone(a) /\ Mine(a)' = Mine(a)
  BY <1>2 DEF Gone, Mine
<1>4. /\ Cardinality(NoticesOf(a)) \in Nat /\ Cardinality(OnTheWay(a)) \in Nat
      /\ Cardinality(Gone(a)) \in Nat
  BY FS_CardinalityType DEF Budget
<1>5. \A c \in Conns : task'[Notifier(c)].pc # "off"
                         => task[Notifier(c)].pc # "off"
  BY <1>2, SenderNames
<1>6. /\ IsFiniteSet(OnTheWay(a)')
      /\ Cardinality(OnTheWay(a)') <= Cardinality(OnTheWay(a))
      /\ \A c \in Mine(a) : g = Notifier(c) /\ task'[g].pc = "off" =>
           Cardinality(OnTheWay(a)') + 1 <= Cardinality(OnTheWay(a))
  <2>1. OnTheWay(a)' \subseteq OnTheWay(a)
    BY <1>3, <1>5 DEF OnTheWay, Mine
  <2>2. /\ IsFiniteSet(OnTheWay(a)')
        /\ Cardinality(OnTheWay(a)') <= Cardinality(OnTheWay(a))
    BY <2>1, FS_Subset DEF Budget
  <2>3. ASSUME NEW c \in Mine(a), g = Notifier(c), task'[g].pc = "off"
        PROVE  Cardinality(OnTheWay(a)') + 1 <= Cardinality(OnTheWay(a))
    <3>1. c \in OnTheWay(a) /\ c \notin OnTheWay(a)'
      BY <1>2, <2>3 DEF OnTheWay
    <3>2. OnTheWay(a)' \subseteq OnTheWay(a) \ {c}
      BY <2>1, <3>1
    <3>3. /\ IsFiniteSet(OnTheWay(a) \ {c})
          /\ Cardinality(OnTheWay(a) \ {c}) = Cardinality(OnTheWay(a)) - 1
      BY <3>1, FS_RemoveElement DEF Budget
    <3>4. Cardinality(OnTheWay(a)') <= Cardinality(OnTheWay(a) \ {c})
      BY <3>2, <3>3, FS_Subset
    <3>5. Cardinality(OnTheWay(a)') \in Nat
      BY <2>2, FS_CardinalityType
    <3> QED BY <1>4, <3>3, <3>4, <3>5
  <2> QED BY <2>2, <2>3
<1>7. Cardinality(OnTheWay(a)') \in Nat
  BY <1>6, FS_CardinalityType
<1>8. CASE NoticesOf(a)' = NoticesOf(a)
  <2>1. Cardinality(NoticesOf(a)') + Cardinality(OnTheWay(a)')
          <= Cardinality(NoticesOf(a)) + Cardinality(OnTheWay(a))
    BY <1>4, <1>6, <1>7, <1>8
  <2>2. IsFiniteSet(NoticesOf(a)') /\ IsFiniteSet(OnTheWay(a)')
    BY <1>6, <1>8 DEF Budget
  <2> QED BY <1>2, <1>3, <2>1, <2>2, BudgetBalanced
<1>9. CASE NoticesOf(a)' # NoticesOf(a)
  <2> DEFINE c == agents[task[g].to].channel
  <2>1. /\ task[g].pc = "sending" /\ task'[g] = Off
        /\ task[g].to \in Connected
        /\ log' = [log EXCEPT ![c] = Append(@, task[g].msg)]
    BY <1>2, <1>9 DEF NoticesOf, IsNotice
  <2>2. c \in Conns /\ ident[c] = task[g].to
    BY <2>1, EntryNamed
  <2> HIDE DEF c
  <2>3. task[g].msg = Update /\ ident[c] = a
    <3>1. task[g].msg # Update \/ ident[c] # a
            => NoticesOf(a)' = NoticesOf(a)
      BY <1>2, <2>1, <2>2, NoticeAdded
    <3> QED BY <1>9, <3>1
  <2>4. PICK d \in Conns : g = Notifier(d)
    BY <2>1, <2>3 DEF Carriers
  <2>5. d \in Mine(a)
    BY <1>2, <2>2, <2>3, <2>4 DEF Lives, Life, Mine
  <2>6. Cardinality(OnTheWay(a)') + 1 <= Cardinality(OnTheWay(a))
    BY <1>6, <2>1, <2>4, <2>5 DEF Off
  <2>7. /\ NoticesOf(a)' = NoticesOf(a) \cup {<<c, Len(log[c]) + 1>>}
        /\ <<c, Len(log[c]) + 1>> \notin NoticesOf(a)
    BY <1>2, <2>1, <2>2, <2>3, NoticeAdded
  <2>8. /\ IsFiniteSet(NoticesOf(a)')
        /\ Cardinality(NoticesOf(a)') = Cardinality(NoticesOf(a)) + 1
    <3> DEFINE n == <<c, Len(log[c]) + 1>>
    <3>1. NoticesOf(a)' = NoticesOf(a) \cup {n} /\ n \notin NoticesOf(a)
      BY <2>7
    <3>2. IsFiniteSet(NoticesOf(a))
      BY DEF Budget
    <3> HIDE DEF n
    <3> QED BY <3>1, <3>2, FS_AddElement
  <2>9. Cardinality(NoticesOf(a)') + Cardinality(OnTheWay(a)')
          <= Cardinality(NoticesOf(a)) + Cardinality(OnTheWay(a))
    BY <1>4, <1>7, <2>6, <2>8
  <2> QED BY <1>2, <1>3, <1>6, <2>8, <2>9, BudgetBalanced
<1> QED BY <1>8, <1>9

LEMMA BudgetKeptByReload ==
  ASSUME MasterInv, Reload, NEW a \in Agents, Budget(a)
  PROVE  Budget(a)'
<1>1. /\ UNCHANGED <<ident, notified, log, ran>>
      /\ \A c \in Conns : task'[Notifier(c)] = task[Notifier(c)]
  BY ReloadFrame, StartedTask, SenderNames
<1> QED BY <1>1, BudgetSame
        DEF NoticesOf, IsNotice, OnTheWay, Gone, Mine

(***************************************************************************)
(* An agent is sent at most one notice more than disconnect callbacks ran  *)
(* for it, whatever the order in which heartbeats, reconnections and the   *)
(* callbacks of old connections are handled.                               *)
(***************************************************************************)
THEOREM MasterNoticesBounded ==
  ASSUME "register" \in Hooks
  PROVE  MasterSpec => []NoticesBounded
<1>1. MasterInit => NoticeInv
  <2> SUFFICES ASSUME MasterInit PROVE NoticeInv
    OBVIOUS
  <2>1. \A g \in Senders : task[g].pc = "off"
    BY DEF MasterInit, Off
  <2>2. Staged
    BY <2>1 DEF MasterInit, Init, Staged, Idle
  <2>3. OneRegistrar /\ Lives /\ Carriers
    BY <2>1, SenderNames DEF MasterInit, Init, OneRegistrar, Lives, Life,
                             Unstarted, Carriers
  <2>4. ASSUME NEW a \in Agents PROVE Budget(a)
    <3>1. OnTheWay(a) = {} /\ Gone(a) = {}
      BY <2>1, SenderNames DEF MasterInit, OnTheWay, Gone, Mine
    <3>2. \A c \in Conns, i \in Nat : ~IsNotice(c, i)
      BY DEF MasterInit, IsNotice
    <3>3. NoticesOf(a) = {}
      BY <3>2 DEF NoticesOf
    <3> QED BY <3>1, <3>3, FS_EmptySet DEF Budget
  <2> QED BY <2>2, <2>3, <2>4 DEF NoticeInv
<1>2. MasterInv /\ NoticeInv /\ [MasterNext]_allVars => NoticeInv'
  <2> SUFFICES ASSUME MasterInv, NoticeInv, [MasterNext]_allVars
               PROVE  NoticeInv'
    OBVIOUS
  <2>1. Staged' /\ OneRegistrar' /\ Lives' /\ Carriers'
    BY StagedKept, OneRegistrarKept, LivesKept, CarriersKept DEF NoticeInv
  <2>2. ASSUME NEW a \in Agents PROVE Budget(a)'
    <3>1. CASE UNCHANGED allVars
      BY <3>1 DEF NoticeInv, Budget, NoticesOf, IsNotice, OnTheWay, Gone,
                  Mine, allVars, vars, masterVars
    <3> QED BY <3>1, BudgetKeptByServer, BudgetKeptByCallback,
               BudgetKeptByDistribution, BudgetKeptByReload
            DEF NoticeInv, MasterNext
  <2> QED BY <2>1, <2>2 DEF NoticeInv
<1>3. MasterInv /\ NoticeInv => NoticesBounded
  <2> SUFFICES ASSUME MasterInv, NEW a \in Agents, Budget(a)
               PROVE  LET mine == {c \in Conns : ident[c] = a}
                          notices(c) == {i \in DOMAIN log[c] : log[c][i] = Update}
                      IN  Cardinality(UNION {{c} \X notices(c) : c \in mine})
                            <= 1 + Cardinality({c \in mine :
                                                  OnDisconnect(c) \in ran})
    BY DEF NoticeInv, NoticesBounded
  <2> DEFINE notices(c) == {i \in DOMAIN log[c] : log[c][i] = Update}
             sent == UNION {{c} \X notices(c) : c \in Mine(a)}
  <2>1. \A c \in Conns : DOMAIN log[c] = 1..Len(log[c]) /\ Len(log[c]) \in Nat
    BY DEF MasterInv, MasterTypeOK
  <2>2. sent = NoticesOf(a)
    <3>1. \A c \in Conns : notices(c) = {i \in Nat : IsNotice(c, i)}
      BY <2>1 DEF IsNotice
    <3>2. \A p : p \in sent <=>
            \E c \in Mine(a) : \E i \in notices(c) : p = <<c, i>>
      OBVIOUS
    <3>3. \A p : p \in NoticesOf(a) <=>
            \E c \in Mine(a) : \E i \in {j \in Nat : IsNotice(c, j)} :
              p = <<c, i>>
      BY DEF NoticesOf, Mine
    <3>4. \A c \in Mine(a) : c \in Conns
      BY DEF Mine
    <3> HIDE DEF notices, sent
    <3>5. \A p : p \in sent <=> p \in NoticesOf(a)
      BY <3>1, <3>2, <3>3, <3>4
    <3> QED BY <3>5
  <2>3. /\ Cardinality(NoticesOf(a)) \in Nat /\ Cardinality(OnTheWay(a)) \in Nat
        /\ Cardinality(Gone(a)) \in Nat
    BY FS_CardinalityType DEF Budget
  <2>4. Cardinality(NoticesOf(a)) <= 1 + Cardinality(Gone(a))
    BY <2>3 DEF Budget
  <2>5. Cardinality(sent) <= 1 + Cardinality(Gone(a))
    BY <2>2, <2>4
  <2> QED BY <2>5 DEF Gone, Mine
<1> QED BY <1>1, <1>2, <1>3, MasterSafe, PTL DEF MasterSpec
=============================================================================
