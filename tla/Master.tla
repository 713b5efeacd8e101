-------------------------------- MODULE Master --------------------------------
(***************************************************************************)
(* The master process (MasterServer of cmd/master.go) on top of its        *)
(* control-channel server, module CommServer: the callbacks run by the     *)
(* server, hot reload of the configuration, distribution of rules to the   *)
(* agents and the update notices.                                          *)
(*                                                                         *)
(* A configuration is known by its generation, the number of edits of the  *)
(* file; the rules an agent gets from it depend on whether the master      *)
(* found the agent's address (an agent that is not in the server's map     *)
(* has none, and then only the rules without a SOURCE apply).  The parser  *)
(* and the resolution of profiles are not in this module.                  *)
(***************************************************************************)
EXTENDS CommServer

CONSTANTS
  MaxGen,      \* bound: edits of the configuration
  MaxReloads,  \* bound: reloads triggered
  Common,      \* generations with a rule for every agent (no SOURCE)
  Addressed,   \* generations with a rule for the address of the agents
  Outdated,    \* versions older than the master's (needsUpdate)
  HasBinary    \* the distribution server has a binary to offer

Gens == 0..MaxGen
Config(g, known) == [type |-> "CONFIG_UPDATE", gen |-> g, known |-> known]
Update == [type |-> "UPDATE_AVAILABLE"]

(* The goroutines that send: onAgentRegister and onAgentHeartbeat of a *)
(* connection, and the one reload that holds reloadMu.                 *)
Registrar(c) == <<"register", c>>
Notifier(c) == <<"notify", c>>
Reloader == <<"reload">>

ASSUME MasterAssumption ==
  /\ MaxGen \in Nat /\ MaxReloads \in Nat
  /\ Common \subseteq Gens /\ Addressed \subseteq Gens
  /\ Outdated \subseteq Versions /\ HasBinary \in BOOLEAN
  /\ Commands = {Config(g, k) : g \in Gens, k \in BOOLEAN} \cup {Update}
  /\ Senders = {Registrar(c) : c \in Conns} \cup {Notifier(c) : c \in Conns}
                 \cup {Reloader}

VARIABLES
  status,      \* the registry: "absent", "online" or "offline" per agent
  notified,    \* updateNotified: agents sent UPDATE_AVAILABLE
  file,        \* generation of the configuration file
  rules,       \* generation in force: rules and cfg under ruleMu
  triggers,    \* reloads triggered so far
  waiting,     \* loadConfigAndNotify goroutines that wait for reloadMu
  round,       \* the reload that holds it: "idle", "loaded", "notify"
  left,        \* agents notifyAllAgents has still to serve
  task,        \* progress of each sending goroutine
  log,         \* history: what was written on each connection
  ahead,       \* history: who wrote on a connection before its ACK was
  ran          \* history: disconnect and heartbeat callbacks that have run

reloadVars == <<file, rules, triggers, waiting, round, left>>
masterVars == <<status, notified, reloadVars, task, log, ahead, ran>>
allVars == <<vars, masterVars>>

Off == [pc |-> "off", to |-> NoAgent, known |-> FALSE, msg |-> Update]

(* What was written on a connection. *)
Sent(c) == {log[c][i] : i \in 1..Len(log[c])}

(* The rule set an agent gets is not empty. *)
Applies(g, known) == g \in Common \/ (known /\ g \in Addressed)

MasterInit ==
  /\ Init
  /\ status = [a \in Agents |-> "absent"]
  /\ notified = {}
  /\ file = 0 /\ rules = 0
  /\ triggers = 0 /\ waiting = 0 /\ round = "idle" /\ left = {}
  /\ task = [g \in Senders |-> Off]
  /\ log = [c \in Conns |-> <<>>]
  /\ ahead = [c \in Conns |-> {}]
  /\ ran = {}

-----------------------------------------------------------------------------
(* The callbacks. *)

(* onAgentRegister looks the entry up, records the agent as online whether *)
(* or not it is still there, sleeps, and distributes.                      *)
OnAgentRegisterMutant(c) ==
  /\ FinishCallback(OnRegister(c))
  /\ status' = [status EXCEPT ![ident[c]] = "online"]
  /\ task' = IF status[ident[c]] = "online" THEN task
             ELSE [task EXCEPT ![Registrar(c)] =
                    [Off EXCEPT !.pc = "address", !.to = ident[c]]]
  /\ UNCHANGED <<notified, reloadVars, log, ahead, ran>>
OnAgentRegister(c) ==
  /\ FinishCallback(OnRegister(c))
  /\ status' = [status EXCEPT ![ident[c]] = "online"]
  /\ task' = [task EXCEPT ![Registrar(c)] =
               [Off EXCEPT !.pc = "address", !.to = ident[c]]]
  /\ UNCHANGED <<notified, reloadVars, log, ahead, ran>>

(* needsUpdate and LoadOrStore: the caller that stores sends the notice. *)
FirstNoticeMutant(a, v) == v \in Outdated
FirstNotice(a, v) == v \in Outdated /\ a \notin notified

OnAgentHeartbeat(c, v) ==
  /\ FinishCallback(OnHeartbeat(c, v))
  /\ task[Notifier(c)].pc = "off"
  /\ IF FirstNotice(ident[c], v)
     THEN /\ notified' = notified \cup {ident[c]}
          /\ task' = IF ~HasBinary THEN task ELSE
               [task EXCEPT ![Notifier(c)] =
                  [Off EXCEPT !.pc = "deliver", !.to = ident[c]]]
     ELSE UNCHANGED <<notified, task>>
  /\ ran' = ran \cup {OnHeartbeat(c, v)}
  /\ UNCHANGED <<status, reloadVars, log, ahead>>

(* onAgentDisconnect: SetOffline, and another notice is allowed. *)
OnAgentDisconnect(c) ==
  /\ FinishCallback(OnDisconnect(c))
  /\ status' = [status EXCEPT
       ![ident[c]] = IF @ = "absent" THEN "absent" ELSE "offline"]
  /\ notified' = notified \ {ident[c]}
  /\ ran' = ran \cup {OnDisconnect(c)}
  /\ UNCHANGED <<reloadVars, task, log, ahead>>

-----------------------------------------------------------------------------
(* distributeRulesToAgent and sendUpdateNotification, by goroutine g. *)

(* The agent's address, "" when the agent is not connected now. *)
ReadAddress(g) ==
  /\ task[g].pc = "address"
  /\ task' = [task EXCEPT ![g].pc = "rules",
                          ![g].known = task[g].to \in Connected]
  /\ UNCHANGED <<vars, status, notified, reloadVars, log, ahead, ran>>

(* The rules in force; an empty rule set is not sent. *)
ReadRules(g) ==
  /\ task[g].pc = "rules"
  /\ task' = [task EXCEPT ![g] =
       IF Applies(rules, task[g].known)
       THEN [@ EXCEPT !.pc = "deliver", !.msg = Config(rules, task[g].known)]
       ELSE Off]
  /\ UNCHANGED <<vars, status, notified, reloadVars, log, ahead, ran>>

(* SendToAgent: the connection the ID has now, or an error that is logged. *)
Deliver(g) ==
  /\ task[g].pc = "deliver"
  /\ IF task[g].to \in Connected
     THEN /\ SendToAgent(g, task[g].to, task[g].msg)
          /\ task' = [task EXCEPT ![g].pc = "sending"]
     ELSE /\ UNCHANGED vars
          /\ task' = [task EXCEPT ![g] = Off]
  /\ UNCHANGED <<status, notified, reloadVars, log, ahead, ran>>

FinishDelivery(g, c) ==
  /\ WriteMessage(g, c)
  /\ task' = [task EXCEPT ![g] = Off]
  /\ log' = [log EXCEPT ![c] = Append(@, send[g].msg)]
  /\ ahead' = IF Ack \in Sent(c) THEN ahead
              ELSE [ahead EXCEPT ![c] = @ \cup {g}]
  /\ UNCHANGED <<status, notified, reloadVars, ran>>

-----------------------------------------------------------------------------
(* Hot reload. *)

EditConfig ==
  /\ file < MaxGen
  /\ file' = file + 1
  /\ UNCHANGED <<vars, status, notified, rules, triggers, waiting, round,
                 left, task, log, ahead, ran>>

(* watchConfigFile sees a change, or ReloadConfig was called: a goroutine *)
(* is started and waits for reloadMu.                                     *)
TriggerReload ==
  /\ triggers < MaxReloads /\ life = "up"
  /\ triggers' = triggers + 1 /\ waiting' = waiting + 1
  /\ UNCHANGED <<vars, status, notified, file, rules, round, left, task, log,
                 ahead, ran>>

(* Reloads that were triggered and are not over. *)
Reloads == waiting + (IF round = "idle" THEN 0 ELSE 1)

(* loadConfig under reloadMu: the file is parsed and published, or does not *)
(* parse and the reload is over.  An edit may come between the reading and  *)
(* the publishing; that nothing older than what is in force is published is *)
(* NeverBackwards of ConfigWatch.                                           *)
LoadConfig ==
  /\ waiting > 0 /\ round = "idle"
  /\ waiting' = waiting - 1
  /\ \/ rules' \in rules..file /\ round' = "loaded"
     \/ UNCHANGED <<rules, round>>
  /\ UNCHANGED <<vars, status, notified, file, triggers, left, task, log,
                 ahead, ran>>

(* notifyAllAgents: the agents connected now ... *)
ListAgents ==
  /\ round = "loaded"
  /\ round' = "notify" /\ left' = Connected
  /\ UNCHANGED <<vars, status, notified, file, rules, triggers, waiting,
                 task, log, ahead, ran>>

(* ... are served one after the other, in the order of a map. *)
NotifyAgent(a) ==
  /\ round = "notify" /\ a \in left /\ task[Reloader].pc = "off"
  /\ left' = left \ {a}
  /\ task' = [task EXCEPT ![Reloader] =
               [Off EXCEPT !.pc = "address", !.to = a]]
  /\ UNCHANGED <<vars, status, notified, file, rules, triggers, waiting,
                 round, log, ahead, ran>>

EndReload ==
  /\ round = "notify" /\ left = {} /\ task[Reloader].pc = "off"
  /\ round' = "idle"
  /\ UNCHANGED <<vars, status, notified, file, rules, triggers, waiting,
                 left, task, log, ahead, ran>>

-----------------------------------------------------------------------------
(* Steps of the server that do not concern the master, with the history. *)
ServerStep ==
  \/ /\ \E c \in Conns :
          \/ AgentSide(c) \/ RejectFirst(c) \/ AckFails(c)
          \/ ReceiveOther(c) \/ LoseConnection(c) \/ LockStep(c)
     /\ UNCHANGED masterVars
  \/ \E c \in Conns : /\ SendAck(c)
                      /\ log' = [log EXCEPT ![c] = Append(@, Ack)]
                      /\ UNCHANGED <<status, notified, reloadVars, task,
                                     ahead, ran>>
  \/ (CloseAllAgents \/ CloseListener) /\ UNCHANGED masterVars

Callback == \E c \in Conns :
  \/ OnAgentRegister(c) \/ OnAgentDisconnect(c)
  \/ \E v \in Versions \cup {NoVersion} : OnAgentHeartbeat(c, v)

Distribution == \E g \in Senders :
  \/ ReadAddress(g) \/ ReadRules(g) \/ Deliver(g)
  \/ \E c \in Conns : FinishDelivery(g, c)

Reload == \/ EditConfig \/ TriggerReload \/ LoadConfig \/ ListAgents
          \/ EndReload \/ \E a \in Agents : NotifyAgent(a)

MasterNext == ServerStep \/ Callback \/ Distribution \/ Reload

MasterSpec == MasterInit /\ [][MasterNext]_allVars

-----------------------------------------------------------------------------
(* The types of the master's own state; no reload runs unless triggered. *)
MasterTypeOK ==
  /\ TypeOK
  /\ status \in [Agents -> {"absent", "online", "offline"}]
  /\ notified \subseteq Agents
  /\ file \in Gens /\ rules \in Gens
  /\ triggers \in 0..MaxReloads
  /\ waiting \in Nat /\ Reloads <= triggers
  /\ round \in {"idle", "loaded", "notify"} /\ left \subseteq Agents
  /\ task \in [Senders ->
       [pc : {"off", "address", "rules", "deliver", "sending"},
        to : Agents \cup {NoAgent}, known : BOOLEAN, msg : Commands]]
  /\ log \in [Conns -> Seq(Commands \cup {Ack})]
  /\ ahead \in [Conns -> SUBSET Senders]
  /\ ran \subseteq [kind : {"disconnect", "heartbeat"}, conn : Conns,
                     version : Versions \cup {NoVersion}]

(* No callback, distribution or reload is under way. *)
Quiet == /\ callbacks = {} /\ waiting = 0 /\ round = "idle"
         /\ \A g \in Senders : task[g].pc = "off"

(***************************************************************************)
(* Hot reload reaches everybody: when nothing is under way, every agent    *)
(* that is being served has been sent the rules in force on its present    *)
(* connection, whether the reload or its own registration sent them.  An   *)
(* agent that registers while a reload is under way is not missed.         *)
(***************************************************************************)
NewestRulesSent ==
  Quiet => \A a \in Connected :
    LET c == agents[a].channel
    IN  handler[c] = "loop" /\ Applies(rules, TRUE)
          => Config(rules, TRUE) \in Sent(c)

(***************************************************************************)
(* LoadOrStore hands out one notice until onAgentDisconnect takes it back: *)
(* over all its connections an agent is sent at most one UPDATE_AVAILABLE  *)
(* more than disconnect callbacks ran for it.                              *)
(***************************************************************************)
NoticesBounded ==
  \A a \in Agents :
    LET mine == {c \in Conns : ident[c] = a}
        notices(c) == {i \in DOMAIN log[c] : log[c][i] = Update}
    IN  Cardinality(UNION {{c} \X notices(c) : c \in mine})
          <= 1 + Cardinality({c \in mine : OnDisconnect(c) \in ran})

(***************************************************************************)
(* handleConnection: "the agent must receive REGISTER_ACK first".  The     *)
(* entry is in the map before the ACK is written, so somebody can get      *)
(* ahead of it: only a reload, or a callback of an earlier connection of   *)
(* the same agent, one that the map has no more.  Never a callback of the  *)
(* connection itself or of another agent; and if nobody does, the ACK is   *)
(* the first message.                                                      *)
(***************************************************************************)
AckBeforeRules ==
  \A c \in Conns :
    /\ log[c] # <<>> /\ ahead[c] = {} => log[c][1] = Ack
    /\ \A g \in ahead[c] :
         \/ g = Reloader /\ triggers > 0
         \/ \E d \in Conns \ {c} :
              /\ g \in {Registrar(d), Notifier(d)} /\ ident[d] = ident[c]
              /\ ~Owns(ident[d], d)

(***************************************************************************)
(* README: the master pushes updates to all connected agents.  When        *)
(* nothing is under way, the LAST rules sent to a served agent, the ones   *)
(* it runs, are those in force.                                            *)
(***************************************************************************)
LastRulesInForce ==
  Quiet => \A a \in Connected :
    LET c == agents[a].channel
        configs == {i \in DOMAIN log[c] : log[c][i].type = "CONFIG_UPDATE"}
    IN  handler[c] = "loop" /\ configs # {} /\ Applies(rules, TRUE) =>
          \E i \in configs : /\ log[c][i].gen = rules
                             /\ \A j \in configs : j <= i
=============================================================================
