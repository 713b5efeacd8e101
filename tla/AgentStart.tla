------------------------------ MODULE AgentStart ------------------------------
(***************************************************************************)
(* How an agent process starts (cmd/main.go) from its command line, from   *)
(* to.conf and from instructions.conf, and what of it survives a crash.    *)
(*                                                                         *)
(* The settings (master, PSK, ID) are one value, the text the operator     *)
(* gave; Loaded is what LoadAgentConf makes of a text it finds in the      *)
(* file, where a value ends at " #".  Rules are known by the generation    *)
(* the master sent.  What the agent does once it runs is in AgentConn and  *)
(* AgentRules; here it is connected or standalone.                         *)
(***************************************************************************)
EXTENDS Naturals

CONSTANTS
  Settings,    \* texts of settings
  Loaded,      \* what LoadAgentConf reads back of each
  Accepted,    \* settings the master accepts
  Strong,      \* settings whose PSK ValidatePSKStrength accepts
  Sets,        \* rule sets the master may send
  Expiring,    \* those that come with a TTL
  MasterConf,  \* a to.conf in the format of the master
  None, Torn

ASSUME StartAssumption ==
  /\ Loaded \in [Settings -> Settings]
  /\ Accepted \subseteq Settings /\ Strong \subseteq Settings
  /\ Expiring \subseteq Sets
  /\ None \notin Settings \cup Sets \cup {MasterConf}
  /\ Torn \notin Settings \cup Sets \cup {MasterConf}
  /\ MasterConf \notin Settings /\ None # Torn

VARIABLES
  conf, confTmp, confJob,     \* to.conf
  instr, instrTmp, instrJob,  \* instructions.conf
  agent,      \* the process, see Phases
  cfg,        \* its settings
  rules,      \* its rules in force
  ended       \* history: how a start without arguments has just failed

Conf == INSTANCE SaveFile WITH
  Values <- Settings \cup {MasterConf}, Tidy <- TRUE,
  file <- conf, tmp <- confTmp, job <- confJob
Instr == INSTANCE SaveFile WITH
  Values <- Sets, Tidy <- FALSE,
  file <- instr, tmp <- instrTmp, job <- instrJob

confVars == <<conf, confTmp, confJob>>
instrVars == <<instr, instrTmp, instrJob>>
startVars == <<confVars, instrVars, agent, cfg, rules, ended>>

(* A process saves to.conf, dials, falls back to instructions.conf, and is *)
(* connected, or has lost its master or never had one ("standalone") and   *)
(* goes on trying, or tries no more ("alone").                             *)
Trying == {"lost", "standalone"}
Phases == {"down", "saving", "connect", "fallback", "connected", "alone"}
            \cup Trying

StartInit ==
  /\ conf \in {None, MasterConf} /\ confTmp = None /\ confJob = Conf!Idle
  /\ instr = None /\ instrTmp = None /\ instrJob = Instr!Idle
  /\ agent = "down" /\ cfg = None /\ rules = None
  /\ ended = "no"

-----------------------------------------------------------------------------
(* handleAgentMode: the settings given are saved first ... *)
StartWithFlags(s) ==
  /\ agent = "down"
  /\ Conf!BeginSave(s)
  /\ agent' = "saving" /\ cfg' = s /\ ended' = "no"
  /\ UNCHANGED <<instrVars, rules>>

(* ... step by step ... *)
SaveConf ==
  /\ agent = "saving" /\ Conf!SaveStep
  /\ UNCHANGED <<instrVars, agent, cfg, rules, ended>>

(* ... and, saved or not, the agent starts: startAgent refuses a weak PSK *)
(* before anything else.                                                  *)
StartAfterSave ==
  /\ agent = "saving" /\ confJob.pc = "idle"
  /\ IF cfg \in Strong
     THEN agent' = "connect" /\ UNCHANGED cfg
     ELSE agent' = "down" /\ cfg' = None
  /\ UNCHANGED <<confVars, instrVars, rules, ended>>

(* tryAutoStart with a to.conf of an agent. *)
StartFromConf ==
  /\ agent = "down" /\ conf \in Settings
  /\ IF Loaded[conf] \in Strong
     THEN agent' = "connect" /\ cfg' = Loaded[conf] /\ ended' = "no"
     ELSE ended' = "weak" /\ UNCHANGED <<agent, cfg>>
  /\ UNCHANGED <<confVars, instrVars, rules>>

(* tryAutoStart without to.conf prints the usage; with one in the format of *)
(* the master it starts a master, and no agent.                             *)
StartWithoutConf ==
  /\ agent = "down" /\ conf \notin Settings
  /\ ended' = IF conf = None THEN "usage" ELSE "not an agent"
  /\ UNCHANGED <<confVars, instrVars, agent, cfg, rules>>

-----------------------------------------------------------------------------
(* NewAgent: dial and register; up says whether there is a master. *)
NewAgent(up) ==
  /\ agent = "connect"
  /\ \/ up /\ cfg \in Accepted /\ agent' = "connected"
     \/ agent' = "fallback"
  /\ UNCHANGED <<confVars, instrVars, cfg, rules, ended>>

(* startStandaloneWithLogger: the rules kept from the last time, or none. *)
(* newStandaloneAgent takes them when they have expired, too.  Only rules *)
(* with a TTL start ttlReconnectLoop, which ends for good when they have  *)
(* expired already and it runs before Start has set isRunning.            *)
StartStandalone ==
  /\ agent = "fallback"
  /\ IF instr \in Sets
     THEN /\ agent' \in {"alone"} \cup {p \in {"standalone"} : instr \in Expiring}
          /\ rules' = instr /\ UNCHANGED <<cfg, ended>>
     ELSE /\ agent' = "down" /\ cfg' = None /\ ended' = "no instructions"
          /\ UNCHANGED rules
  /\ UNCHANGED <<confVars, instrVars>>

(* reconnectToMaster registers: for ttlReconnectLoop or after a loss. *)
Rejoin(up) ==
  /\ agent \in Trying
  /\ up /\ cfg \in Accepted
  /\ agent' = "connected"
  /\ UNCHANGED <<confVars, instrVars, cfg, rules, ended>>

(* receiveMessages fails; that nobody tries again is in AgentConn. *)
LoseMaster ==
  /\ agent = "connected" /\ instrJob.pc = "idle"
  /\ agent' \in {"lost", "alone"}
  /\ UNCHANGED <<confVars, instrVars, cfg, rules, ended>>

(* receiveMessages: CONFIG_UPDATE is applied, then saved. *)
ConfigUpdate(r) ==
  /\ agent = "connected" /\ Instr!BeginSave(r)
  /\ rules' = r
  /\ UNCHANGED <<confVars, agent, cfg, ended>>

SaveInstructions ==
  /\ Instr!SaveStep
  /\ UNCHANGED <<confVars, agent, cfg, rules, ended>>

(* The agent is stopped or crashes, possibly while it saves a file. *)
AgentCrash ==
  /\ agent # "down"
  /\ Conf!EndProcess /\ Instr!EndProcess
  /\ agent' = "down" /\ cfg' = None /\ rules' = None
  /\ UNCHANGED ended

(* What concerns neither the master nor the end of the process. *)
StartStep ==
  \/ \E s \in Settings : StartWithFlags(s)
  \/ SaveConf \/ StartAfterSave \/ StartFromConf \/ StartWithoutConf
  \/ StartStandalone \/ SaveInstructions

-----------------------------------------------------------------------------
StartTypeOK ==
  /\ Conf!SaveTypeOK /\ Instr!SaveTypeOK
  /\ agent \in Phases
  /\ cfg \in Settings \cup {None} /\ rules \in Sets \cup {None}
  /\ ended \in {"no", "weak", "usage", "not an agent", "no instructions"}
  /\ agent = "down" <=> cfg = None
  /\ confJob.pc # "idle" => agent = "saving" /\ confJob.value = cfg
  /\ instrJob.pc # "idle" => agent = "connected"
=============================================================================
