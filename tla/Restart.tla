-------------------------------- MODULE Restart --------------------------------
(***************************************************************************)
(* A master and an agent over crashes and restarts of both: what the files *)
(* to.conf, instructions.conf and agents.json are good for.  The           *)
(* connection between the two is in CommServer and AgentConn; here it is   *)
(* there as long as both processes are.                                    *)
(***************************************************************************)
EXTENDS AgentStart, Registry

CONSTANT Self   \* the record of the agent

ASSUME RestartAssumption == Self \in Agents

VARIABLES
  linked,    \* the agent has a connection to the master process of now
  calls,     \* callbacks of the master that have been started
  seasoned   \* history: both files of the agent have been saved

restartVars == <<startVars, registryVars, linked, calls, seasoned>>

RestartInit == /\ StartInit /\ RegistryInit
               /\ linked = FALSE /\ calls = {} /\ seasoned = FALSE

(* The agent registers: the first time, from standalone mode, or again. *)
Joins ==
  /\ NewAgent(master = "up") \/ Rejoin(master = "up")
  /\ linked' = (agent' = "connected")
  /\ calls' = IF linked' THEN calls \cup {"register"} ELSE calls
  /\ UNCHANGED <<registryVars, seasoned>>

(* The agent leaves; a master that is still there notices. *)
Leaves ==
  /\ LoseMaster \/ AgentCrash
  /\ linked' = FALSE
  /\ calls' = IF linked THEN calls \cup {"disconnect"} ELSE calls
  /\ UNCHANGED <<registryVars, seasoned>>

(* A configuration arrives, which may be the last of a master that is gone. *)
Updated ==
  /\ \E r \in Sets : ConfigUpdate(r)
  /\ UNCHANGED <<registryVars, linked, calls, seasoned>>

AgentStep ==
  /\ StartStep
  /\ seasoned' = (seasoned \/ (conf' \in Settings /\ instr' \in Sets))
  /\ UNCHANGED <<registryVars, linked, calls>>

(* The callbacks of cmd/master.go, in any order. *)
Callback ==
  /\ \/ "register" \in calls /\ Upsert(Self) /\ calls' = calls \ {"register"}
     \/ /\ "disconnect" \in calls /\ calls' = calls \ {"disconnect"}
        /\ IF records[Self] # Never THEN SetOffline(Self)
           ELSE saving = "no" /\ UNCHANGED registryVars
  /\ UNCHANGED <<startVars, linked, seasoned>>

(* A master that ends takes its callbacks and its connections along. *)
MasterStep ==
  /\ RegistryStep
  /\ calls' = IF master' = "up" THEN calls ELSE {}
  /\ linked' = (linked /\ master' = "up")
  /\ UNCHANGED <<startVars, seasoned>>

RestartNext ==
  Joins \/ Leaves \/ Updated \/ AgentStep \/ Callback \/ MasterStep

RestartSpec == RestartInit /\ [][RestartNext]_restartVars

-----------------------------------------------------------------------------
RestartTypeOK == /\ StartTypeOK /\ RegistryTypeOK
                 /\ linked \in BOOLEAN /\ seasoned \in BOOLEAN
                 /\ calls \subseteq {"register", "disconnect"}
                 /\ linked => master = "up" /\ agent = "connected"

(***************************************************************************)
(* to.conf and instructions.conf are "written atomically (temp file +      *)
(* rename) so a crash during the write never leaves a corrupt config       *)
(* behind": each implements the abstract AtomicFile.                       *)
(***************************************************************************)
ConfAtomic == Conf!Atomic!Spec
InstructionsAtomic == Instr!Atomic!Spec

(***************************************************************************)
(* "Subsequent runs: just run trafficorch with no arguments."  An agent    *)
(* that has once saved its settings and its rules always comes back, with  *)
(* or without a master and whatever the crashes in between, unless what    *)
(* is read back of its settings has a PSK that is too weak.  It comes back *)
(* with rules whose TTL has run out as well: newStandaloneAgent logs a     *)
(* warning and goes on, where ARCHITECTURE.md:476 ("verify it exists and   *)
(* is not expired") and README.md:229 ("exists and not expired") have such *)
(* a start refused.  This is what the code does, not what they promise.    *)
(***************************************************************************)
ComesBack ==
  seasoned => conf \in Settings /\ (Loaded[conf] \in Strong => ended = "no")
=============================================================================
