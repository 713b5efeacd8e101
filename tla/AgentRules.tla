------------------------------ MODULE AgentRules ------------------------------
(***************************************************************************)
(* The rules an agent carries out (applyRules, startTraffic, stopTraffic   *)
(* and executeTraffic of cmd/agent.go) and the sockets of its "listen"     *)
(* rules (ListenerManager of pkg/traffic/listener.go).                     *)
(*                                                                         *)
(* Rules are applied by the receiver of the control connection and, in     *)
(* standalone mode, once by Start.  Applying is several critical sections: *)
(* stop all listeners, swap the context of the traffic, open the new       *)
(* listeners one after the other, spawn the traffic.  Each "connect" rule  *)
(* is carried out by a worker, which looks at its context, dials and       *)
(* waits.  A listener told to stop is closed by a goroutine of its own.    *)
(***************************************************************************)
EXTENDS Naturals, FiniteSets

CONSTANTS
  Keys,         \* what one can listen on, "tcp:8080"
  Targets,      \* "connect" rules
  Listeners,    \* listeners; used again once closed and forgotten
  Contexts,     \* contexts; used again once nobody refers to them
  None,         \* nil
  PromptStart   \* no rules arrive before Start has applied the saved ones

RuleSets == [listen : SUBSET Keys, connect : SUBSET Targets]
NoRules == [listen |-> {}, connect |-> {}]
Appliers == {"start", "receive"}

ASSUME RulesAssumption ==
  /\ None \notin Listeners \cup Contexts \cup Keys
  /\ PromptStart \in BOOLEAN

VARIABLES
  main,         \* Start and Stop: "created", "running", "stop", "cancel", "down"
  isRunning,
  table,        \* ListenerManager.listeners: key -> listener
  listener,     \* per listener: its key, its socket is open, stopChan closed
  trafficCancel,\* the context a.trafficCancel cancels
  cancelled,    \* contexts that are done
  currentRules,
  saved,        \* the rules in instructions.conf
  applier,      \* per goroutine that applies: pc, rules, context, keys left
  worker,       \* executeSingleRule, per context and rule
  late          \* history: dials begun after the context was cancelled

vars == <<main, isRunning, table, listener, trafficCancel, cancelled,
          currentRules, saved, applier, worker, late>>

listenVars == <<table, listener>>
trafficVars == <<trafficCancel, cancelled, worker, late>>

Waiting == [pc |-> "idle", rules |-> NoRules, ctx |-> None, todo |-> {}]
Closed == [key |-> None, open |-> FALSE, asked |-> FALSE]

Init ==
  /\ main = "created" /\ isRunning = FALSE
  /\ table = [k \in Keys |-> None]
  /\ listener = [l \in Listeners |-> Closed]
  /\ trafficCancel = None /\ cancelled = {}
  /\ saved \in RuleSets /\ currentRules = saved
  /\ applier = [p \in Appliers |-> Waiting]
  /\ worker = [c \in Contexts |-> [t \in Targets |-> "none"]]
  /\ late = [c \in Contexts |-> [t \in Targets |-> 0]]

-----------------------------------------------------------------------------
(* ListenerManager. *)

(* StopAll: every listener is told to stop and forgotten.  Its socket is *)
(* closed later.                                                         *)
StopAllNoStop ==
  /\ table' = [k \in Keys |-> None]
  /\ UNCHANGED listener
StopAllNoDelete ==
  /\ listener' = [l \in Listeners |->
       IF listener[l].open /\ table[listener[l].key] = l
       THEN [listener[l] EXCEPT !.asked = TRUE] ELSE listener[l]]
  /\ UNCHANGED table
StopAll ==
  /\ table' = [k \in Keys |-> None]
  /\ listener' = [l \in Listeners |->
       IF listener[l].open /\ table[listener[l].key] = l
       THEN [listener[l] EXCEPT !.asked = TRUE] ELSE listener[l]]

InUse(k) == \E l \in Listeners : listener[l].open /\ listener[l].key = k
Forgotten(l) == ~listener[l].open /\ \A k \in Keys : table[k] # l

(* StartListener: nothing when the key is in the table; an error, which is *)
(* logged, when the port cannot be bound.                                  *)
StartListener(k) ==
  \/ table[k] # None /\ UNCHANGED listenVars
  \/ table[k] = None /\ InUse(k) /\ UNCHANGED listenVars
  \/ /\ table[k] = None /\ ~InUse(k)
     /\ \E l \in Listeners :
          /\ Forgotten(l)
          /\ table' = [table EXCEPT ![k] = l]
          /\ listener' = [listener EXCEPT
               ![l] = [key |-> k, open |-> TRUE, asked |-> FALSE]]

(* The goroutine that waits for stopChan closes the socket. *)
CloseSocket(l) ==
  /\ listener[l].open /\ listener[l].asked
  /\ listener' = [listener EXCEPT ![l] = Closed]
  /\ UNCHANGED <<main, isRunning, table, trafficVars, currentRules, saved,
                 applier>>

(* Accept or ReadFrom fails: the loop closes the socket and ends; the *)
(* table is not told.                                                 *)
AcceptFails(l) ==
  /\ listener[l].open /\ ~listener[l].asked
  /\ listener' = [listener EXCEPT ![l] = Closed]
  /\ UNCHANGED <<main, isRunning, table, trafficVars, currentRules, saved,
                 applier>>

-----------------------------------------------------------------------------
(* The context of the traffic, under a.mu. *)

Live(c) == \E t \in Targets : worker[c][t] # "none"
Fresh(c) == /\ c # trafficCancel /\ ~Live(c)
            /\ \A p \in Appliers : applier[p].ctx # c

(* "if a.trafficCancel != nil { a.trafficCancel() }" *)
Cancelled == cancelled \cup ({trafficCancel} \ {None})

(* The context in force is cancelled and replaced by c. *)
SwapContextMutant(c) ==
  /\ Fresh(c)
  /\ trafficCancel' = c
  /\ cancelled' = cancelled \ {c}
  /\ late' = [late EXCEPT ![c] = [t \in Targets |-> 0]]
SwapContext(c) ==
  /\ Fresh(c)
  /\ trafficCancel' = c
  /\ cancelled' = Cancelled \ {c}
  /\ late' = [late EXCEPT ![c] = [t \in Targets |-> 0]]

(* "go a.executeTraffic(ctx, rules)": one worker per rule. *)
Spawn(c, targets) ==
  worker' = [worker EXCEPT
    ![c] = [t \in Targets |-> IF t \in targets THEN "check" ELSE @[t]]]

-----------------------------------------------------------------------------
(* applyRules by goroutine p. *)

Apply(p, rules) ==
  applier' = [applier EXCEPT ![p] = [Waiting EXCEPT !.pc = "stopAll",
                                                    !.rules = rules]]

ApplyStopAll(p) ==
  /\ applier[p].pc = "stopAll"
  /\ StopAll
  /\ applier' = [applier EXCEPT ![p].pc = "swap"]
  /\ UNCHANGED <<main, isRunning, trafficVars, currentRules, saved>>

ApplySwap(p) ==
  /\ applier[p].pc = "swap"
  /\ \E c \in Contexts :
       /\ SwapContext(c)
       /\ applier' = [applier EXCEPT
            ![p] = [@ EXCEPT !.pc = "listen", !.ctx = c,
                             !.todo = applier[p].rules.listen]]
  /\ currentRules' = applier[p].rules
  /\ UNCHANGED <<main, isRunning, listenVars, worker, saved>>

ApplyListen(p) ==
  /\ applier[p].pc = "listen"
  /\ \E k \in applier[p].todo :
       /\ StartListener(k)
       /\ applier' = [applier EXCEPT ![p].todo = @ \ {k}]
  /\ UNCHANGED <<main, isRunning, trafficVars, currentRules, saved>>

ApplySpawn(p) ==
  /\ applier[p].pc = "listen" /\ applier[p].todo = {}
  /\ Spawn(applier[p].ctx, applier[p].rules.connect)
  /\ applier' = [applier EXCEPT ![p] =
       IF p = "receive" THEN [@ EXCEPT !.pc = "save", !.ctx = None] ELSE Waiting]
  /\ UNCHANGED <<main, isRunning, listenVars, trafficCancel, cancelled, late,
                 currentRules, saved>>

(* saveInstructions, after a CONFIG_UPDATE; its failure is logged. *)
SaveInstructions(p) ==
  /\ applier[p].pc = "save"
  /\ saved' \in {saved, applier[p].rules}
  /\ applier' = [applier EXCEPT ![p] = Waiting]
  /\ UNCHANGED <<main, isRunning, listenVars, trafficVars, currentRules>>

-----------------------------------------------------------------------------
(* Start and receiveMessages. *)

(* Standalone, Start applies the rules of instructions.conf. *)
Start ==
  /\ main = "created"
  /\ main' = "running" /\ isRunning' = TRUE
  /\ Apply("start", saved) \/ UNCHANGED applier
  /\ UNCHANGED <<listenVars, trafficVars, currentRules, saved>>

(* The receiver reads a message.  Once isRunning is FALSE it reads at most *)
(* the one it was waiting for, until Stop closes the connection.           *)
MayReceive ==
  /\ main \notin {"created", "down"}
  /\ applier["receive"].pc = "idle"
  /\ PromptStart => applier["start"].pc = "idle"

ReceiveConfigUpdate ==
  /\ MayReceive
  /\ \E rules \in RuleSets : Apply("receive", rules)
  /\ UNCHANGED <<main, isRunning, listenVars, trafficVars, currentRules, saved>>

(* startTraffic: the traffic is replaced, the listeners stay. *)
ReceiveTrafficStart ==
  /\ MayReceive /\ isRunning
  /\ \E c \in Contexts, targets \in SUBSET Targets :
       SwapContext(c) /\ Spawn(c, targets)
  /\ UNCHANGED <<main, isRunning, listenVars, currentRules, saved, applier>>

CancelTraffic == trafficCancel' = None /\ cancelled' = Cancelled

(* stopTraffic *)
ReceiveTrafficStop ==
  /\ MayReceive
  /\ CancelTraffic
  /\ UNCHANGED <<main, isRunning, listenVars, worker, late, currentRules,
                 saved, applier>>

-----------------------------------------------------------------------------
(* executeSingleRule, for rule t in context c. *)

workerOthers == <<main, isRunning, listenVars, trafficCancel, cancelled,
                  currentRules, saved, applier>>
Step(c, t, pc) == worker' = [worker EXCEPT ![c][t] = pc]

CheckMutant(c, t) ==
  /\ worker[c][t] = "check"
  /\ Step(c, t, IF isRunning /\ c \notin cancelled THEN "dial" ELSE "wait")
  /\ UNCHANGED <<workerOthers, late>>
Check(c, t) ==
  /\ worker[c][t] = "check"
  /\ Step(c, t, IF isRunning /\ c \notin cancelled THEN "dial" ELSE "none")
  /\ UNCHANGED <<workerOthers, late>>

(* A connection; it may be the last one of a rule with a COUNT. *)
DialTarget(c, t) ==
  /\ worker[c][t] = "dial"
  /\ Step(c, t, "wait") \/ Step(c, t, "none")
  /\ late' = IF c \in cancelled THEN [late EXCEPT ![c][t] = @ + 1] ELSE late
  /\ UNCHANGED workerOthers

(* The interval passes, or the context is done; with both, either. *)
WaitMutant(c, t) ==
  /\ worker[c][t] = "wait"
  /\ Step(c, t, "dial")
  /\ UNCHANGED <<workerOthers, late>>
Wait(c, t) ==
  /\ worker[c][t] = "wait"
  /\ Step(c, t, "check") \/ (c \in cancelled /\ Step(c, t, "none"))
  /\ UNCHANGED <<workerOthers, late>>

-----------------------------------------------------------------------------
(* Stop: the flag, the listeners, the traffic; then the client is closed. *)
StopFlag ==
  /\ main = "running"
  /\ main' = "stop" /\ isRunning' = FALSE
  /\ UNCHANGED <<listenVars, trafficVars, currentRules, saved, applier>>

StopListeners ==
  /\ main = "stop"
  /\ main' = "cancel" /\ StopAll
  /\ UNCHANGED <<isRunning, trafficVars, currentRules, saved, applier>>

StopTraffic ==
  /\ main = "cancel"
  /\ main' = "down" /\ CancelTraffic
  /\ UNCHANGED <<isRunning, listenVars, worker, late, currentRules, saved,
                 applier>>

-----------------------------------------------------------------------------
ApplyStep(p) == \/ ApplyStopAll(p) \/ ApplySwap(p) \/ ApplyListen(p)
                \/ ApplySpawn(p) \/ SaveInstructions(p)
WorkerStep(c, t) == Check(c, t) \/ DialTarget(c, t) \/ Wait(c, t)

Next == \/ Start \/ StopFlag \/ StopListeners \/ StopTraffic
        \/ ReceiveConfigUpdate \/ ReceiveTrafficStart \/ ReceiveTrafficStop
        \/ \E p \in Appliers : ApplyStep(p)
        \/ \E l \in Listeners : CloseSocket(l) \/ AcceptFails(l)
        \/ \E c \in Contexts, t \in Targets : WorkerStep(c, t)

Spec == Init /\ [][Next]_vars

(* The Go scheduler runs every goroutine that can run; a dial ends by its *)
(* timeout.  No message and no signal need ever arrive.                   *)
FairSpec ==
  /\ Spec
  /\ \A p \in Appliers : WF_vars(ApplyStep(p))
  /\ \A l \in Listeners : WF_vars(CloseSocket(l))
  /\ \A c \in Contexts, t \in Targets : WF_vars(WorkerStep(c, t))
  /\ WF_vars(StopListeners) /\ WF_vars(StopTraffic)

-----------------------------------------------------------------------------
(* The types of the agent's rules and listeners; what a.trafficCancel holds *)
(* has not been cancelled.                                                 *)
TypeOK ==
  /\ main \in {"created", "running", "stop", "cancel", "down"}
  /\ isRunning \in BOOLEAN
  /\ table \in [Keys -> Listeners \cup {None}]
  /\ listener \in [Listeners -> [key : Keys \cup {None}, open : BOOLEAN,
                                 asked : BOOLEAN]]
  /\ trafficCancel \in Contexts \cup {None}
  /\ cancelled \subseteq Contexts \ {trafficCancel}
  /\ currentRules \in RuleSets /\ saved \in RuleSets
  /\ applier \in [Appliers ->
       [pc : {"idle", "stopAll", "swap", "listen", "save"}, rules : RuleSets,
        ctx : Contexts \cup {None}, todo : SUBSET Keys]]
  /\ worker \in [Contexts -> [Targets -> {"none", "check", "dial", "wait"}]]
  /\ late \in [Contexts -> [Targets -> Nat]]

(***************************************************************************)
(* No socket escapes the manager: one that is open and was not told to     *)
(* stop is the one the table has for its key.  Otherwise nothing could     *)
(* ever close it, and its port would be taken until the agent exits.       *)
(***************************************************************************)
SocketsTracked ==
  \A l \in Listeners :
    listener[l].open /\ ~listener[l].asked => table[listener[l].key] = l

(***************************************************************************)
(* No traffic escapes the agent: workers whose context is not cancelled    *)
(* are those a.trafficCancel cancels, even when Stop, TRAFFIC_START or     *)
(* another applyRules came between the swap and the spawn.                 *)
(***************************************************************************)
TrafficTracked ==
  \A c \in Contexts : Live(c) /\ c \notin cancelled => c = trafficCancel

(***************************************************************************)
(* applyRules: "old rules do not continue running alongside new ones".     *)
(* A worker looks at its context before it dials, not while: a rule that   *)
(* was replaced connects once more at most.                                *)
(***************************************************************************)
OneLateDial == \A c \in Contexts, t \in Targets : late[c][t] <= 1

(***************************************************************************)
(* Once rules have been applied, the agent listens on nothing they do not  *)
(* ask for, sockets on their way to be closed aside.                       *)
(***************************************************************************)
NoStaleListeners ==
  (\A p \in Appliers : applier[p].pc \in {"idle", "save"}) =>
    {k \in Keys : table[k] # None} \subseteq currentRules.listen

(* A rule that was replaced or stopped is not carried out for ever; after *)
(* Stop no rule is, those an unfinished applyRules started included.      *)
OldTrafficEnds ==
  /\ \A c \in Contexts : (c \in cancelled) ~> ~Live(c)
  /\ (main = "down") ~> \A c \in Contexts : ~Live(c)
=============================================================================
