--------------------------- MODULE AgentRulesProofs ---------------------------
(***************************************************************************)
(* Proofs about AgentRules: its type invariant, and that neither a socket  *)
(* nor a worker ever gets out of reach of what would stop it.              *)
(*                                                                         *)
(* SocketsTracked needs to know that an open listener has a key.           *)
(* TrafficTracked needs to know the same fact of the context an unfinished *)
(* applyRules holds: its workers are still to be spawned, and by then the  *)
(* context may have been cancelled, but not forgotten.                     *)
(*                                                                         *)
(* Then what becomes of replaced rules: each dials once more at most, and, *)
(* where one goroutine at a time applies rules (PromptStart), none of      *)
(* their listeners is kept.                                                *)
(***************************************************************************)
EXTENDS AgentRules, TLAPS

Keyed == \A l \in Listeners : listener[l].open => listener[l].key \in Keys

Held == \A p \in Appliers :
  /\ applier[p].pc = "listen" => applier[p].ctx \in Contexts
  /\ applier[p].ctx # None /\ applier[p].ctx \notin cancelled
       => applier[p].ctx = trafficCancel

Inv == TypeOK /\ Keyed /\ SocketsTracked /\ Held /\ TrafficTracked

Listening == Keyed /\ SocketsTracked
Trafficking == Held /\ TrafficTracked

(* StopAll keeps the manager's state well formed and its sockets tracked: *)
(* what it forgets it has told to stop.                                   *)
LEMMA StopAllTracks ==
  ASSUME TypeOK, Listening, StopAll
  PROVE  /\ table' \in [Keys -> Listeners \cup {None}]
         /\ listener' \in [Listeners -> [key : Keys \cup {None},
                                         open : BOOLEAN, asked : BOOLEAN]]
         /\ Listening'
<1>1. ASSUME NEW l \in Listeners
      PROVE  /\ listener'[l] \in [key : Keys \cup {None}, open : BOOLEAN,
                                  asked : BOOLEAN]
             /\ listener'[l].key = listener[l].key
             /\ listener'[l].open = listener[l].open
             /\ listener[l].open => listener'[l].asked
  <2>1. listener[l] \in [key : Keys \cup {None}, open : BOOLEAN,
                         asked : BOOLEAN]
    BY DEF TypeOK
  <2>2. listener'[l] = IF listener[l].open /\ table[listener[l].key] = l
                       THEN [listener[l] EXCEPT !.asked = TRUE] ELSE listener[l]
    BY DEF StopAll
  <2>3. CASE listener[l].open /\ table[listener[l].key] = l
    BY <2>1, <2>2, <2>3
  <2>4. CASE ~(listener[l].open /\ table[listener[l].key] = l)
    BY <2>1, <2>2, <2>4 DEF Listening, SocketsTracked
  <2>5. QED
    BY <2>3, <2>4
<1>2. /\ table' \in [Keys -> Listeners \cup {None}]
      /\ listener' = [l \in Listeners |-> listener'[l]]
  BY DEF StopAll
<1>3. listener' \in [Listeners -> [key : Keys \cup {None}, open : BOOLEAN,
                                   asked : BOOLEAN]]
  BY <1>1, <1>2
<1>4. Keyed'
  BY <1>1 DEF Listening, Keyed
<1>5. QED
  BY <1>1, <1>2, <1>3, <1>4 DEF Listening, SocketsTracked

(* StartListener adds a socket together with its entry, or nothing. *)
LEMMA StartListenerTracks ==
  ASSUME TypeOK, Listening, NEW k \in Keys, StartListener(k)
  PROVE  /\ table' \in [Keys -> Listeners \cup {None}]
         /\ listener' \in [Listeners -> [key : Keys \cup {None},
                                         open : BOOLEAN, asked : BOOLEAN]]
         /\ Listening'
<1>1. CASE UNCHANGED listenVars
  BY <1>1 DEF TypeOK, Listening, Keyed, SocketsTracked, listenVars
<1>2. CASE /\ table[k] = None /\ ~InUse(k)
           /\ \E l \in Listeners :
                /\ Forgotten(l)
                /\ table' = [table EXCEPT ![k] = l]
                /\ listener' = [listener EXCEPT
                     ![l] = [key |-> k, open |-> TRUE, asked |-> FALSE]]
  BY <1>2, RulesAssumption
     DEF TypeOK, Listening, Keyed, SocketsTracked, InUse, Forgotten
<1>3. QED
  BY <1>1, <1>2 DEF StartListener

(* Replacing the context cancels the old one, so what is not cancelled is *)
(* the new one.                                                           *)
LEMMA SwapTracks ==
  ASSUME TypeOK, Trafficking, NEW c \in Contexts, SwapContext(c),
         UNCHANGED worker
  PROVE  /\ trafficCancel' \in Contexts \cup {None}
         /\ cancelled' \subseteq Contexts \ {trafficCancel'}
         /\ late' \in [Contexts -> [Targets -> Nat]]
         /\ TrafficTracked'
         /\ \A p \in Appliers :
              applier[p].ctx # None /\ applier[p].ctx \notin cancelled'
                => applier[p].ctx = trafficCancel'
  BY RulesAssumption
     DEF TypeOK, Trafficking, Held, TrafficTracked, SwapContext, Cancelled,
         Fresh, Live

(* Steps that touch the listeners only. *)
LEMMA ListenerSteps ==
  ASSUME Inv, NEW l \in Listeners, CloseSocket(l) \/ AcceptFails(l)
  PROVE  Inv'
<1>1. /\ listener' = [listener EXCEPT ![l] = Closed]
      /\ UNCHANGED <<main, isRunning, table, trafficCancel, cancelled, worker,
                     late, currentRules, saved, applier>>
  BY DEF CloseSocket, AcceptFails, trafficVars
<1>2. TypeOK'
  BY <1>1 DEF Inv, TypeOK, Closed
<1>3. Keyed' /\ SocketsTracked'
  BY <1>1 DEF Inv, TypeOK, Keyed, SocketsTracked, Closed
<1>4. Held' /\ TrafficTracked'
  BY <1>1 DEF Inv, Held, TrafficTracked, Live
<1>5. QED
  BY <1>2, <1>3, <1>4 DEF Inv

(* Steps of a worker. *)
LEMMA WorkerSteps ==
  ASSUME Inv, NEW c \in Contexts, NEW t \in Targets, WorkerStep(c, t)
  PROVE  Inv'
<1>1. /\ worker[c][t] # "none"
      /\ \E pc \in {"none", "check", "dial", "wait"} : Step(c, t, pc)
      /\ late' \in {late, [late EXCEPT ![c][t] = @ + 1]}
      /\ UNCHANGED <<main, isRunning, table, listener, trafficCancel,
                     cancelled, currentRules, saved, applier>>
  BY DEF WorkerStep, Check, DialTarget, Wait, workerOthers, listenVars
<1>2. TypeOK'
  BY <1>1 DEF Inv, TypeOK, Step
<1>3. Keyed' /\ SocketsTracked' /\ Held'
  BY <1>1 DEF Inv, Keyed, SocketsTracked, Held
<1>4. \A d \in Contexts : (Live(d))' => Live(d)
  BY <1>1 DEF Inv, TypeOK, Step, Live
<1>5. TrafficTracked'
  BY <1>1, <1>4 DEF Inv, TrafficTracked
<1>6. QED
  BY <1>2, <1>3, <1>5 DEF Inv

(* Start, the flag of Stop, and a message that begins or ends an applyRules. *)
LEMMA ControlSteps ==
  ASSUME Inv,
         \/ Start \/ StopFlag \/ ReceiveConfigUpdate
         \/ \E p \in Appliers : SaveInstructions(p)
  PROVE  Inv'
<1>1. UNCHANGED <<table, listener, trafficCancel, cancelled, worker, late,
                  currentRules>>
  BY DEF Start, StopFlag, ReceiveConfigUpdate, SaveInstructions, listenVars,
         trafficVars
<1> DEFINE Record ==
       [pc : {"idle", "stopAll", "swap", "listen", "save"}, rules : RuleSets,
        ctx : Contexts \cup {None}, todo : SUBSET Keys]
<1>2. /\ main' \in {"created", "running", "stop", "cancel", "down"}
      /\ isRunning' \in BOOLEAN
  BY DEF Inv, TypeOK, Start, StopFlag, ReceiveConfigUpdate, SaveInstructions
<1>3. \A p \in Appliers : applier[p].rules \in RuleSets
  BY DEF Inv, TypeOK
<1>4. saved' \in RuleSets
  BY <1>3 DEF Inv, TypeOK, Start, StopFlag, ReceiveConfigUpdate,
              SaveInstructions
<1>5. \/ UNCHANGED applier
      \/ \E p \in Appliers : applier' = [applier EXCEPT ![p] = Waiting]
      \/ \E p \in Appliers, rules \in RuleSets : Apply(p, rules)
  BY DEF Inv, TypeOK, Start, StopFlag, ReceiveConfigUpdate, SaveInstructions,
         Appliers
<1>6. \E r \in Record, p \in Appliers :
         /\ r.ctx = None /\ r.pc # "listen"
         /\ UNCHANGED applier \/ applier' = [applier EXCEPT ![p] = r]
  <2>1. Waiting \in Record /\ Waiting.ctx = None /\ Waiting.pc # "listen"
    BY DEF Waiting, NoRules, RuleSets
  <2>2. ASSUME NEW rules \in RuleSets
        PROVE  LET r == [Waiting EXCEPT !.pc = "stopAll", !.rules = rules]
               IN  r \in Record /\ r.ctx = None /\ r.pc # "listen"
    BY DEF Waiting
  <2>3. QED
    BY <1>5, <2>1, <2>2 DEF Apply, Appliers
<1>7. applier \in [Appliers -> Record]
  BY DEF Inv, TypeOK
<1>8. applier' \in [Appliers -> Record]
  BY <1>6, <1>7
<1>9. TypeOK'
  BY <1>1, <1>2, <1>4, <1>8 DEF Inv, TypeOK
<1>10. Keyed' /\ SocketsTracked' /\ TrafficTracked'
  BY <1>1 DEF Inv, Keyed, SocketsTracked, TrafficTracked, Live
<1>11. Held'
  BY <1>1, <1>6, <1>7 DEF Inv, Held
<1>12. QED
  BY <1>9, <1>10, <1>11 DEF Inv

(* The remaining steps of Stop and TRAFFIC_STOP. *)
LEMMA StopSteps ==
  ASSUME Inv, StopListeners \/ StopTraffic \/ ReceiveTrafficStop
  PROVE  Inv'
<1>1. CASE StopListeners
  <2>1. StopAll /\ main' = "cancel"
        /\ UNCHANGED <<isRunning, trafficCancel, cancelled, worker, late,
                       currentRules, saved, applier>>
    BY <1>1 DEF StopListeners, trafficVars
  <2>2. TypeOK' /\ Keyed' /\ SocketsTracked'
    BY <2>1, StopAllTracks DEF Inv, Listening, TypeOK
  <2>3. Held' /\ TrafficTracked'
    BY <2>1 DEF Inv, Held, TrafficTracked, Live
  <2>4. QED
    BY <2>2, <2>3 DEF Inv
<1>2. CASE StopTraffic \/ ReceiveTrafficStop
  <2>1. /\ CancelTraffic /\ main' \in {"down", main}
        /\ UNCHANGED <<isRunning, table, listener, worker, late, currentRules,
                       saved, applier>>
    BY <1>2 DEF StopTraffic, ReceiveTrafficStop, listenVars
  <2>2. TypeOK' /\ Keyed' /\ SocketsTracked'
    BY <2>1, RulesAssumption
       DEF Inv, TypeOK, Keyed, SocketsTracked, CancelTraffic, Cancelled
  <2>3. Held' /\ TrafficTracked'
    BY <2>1, RulesAssumption
       DEF Inv, TypeOK, Held, TrafficTracked, CancelTraffic, Cancelled, Live
  <2>4. QED
    BY <2>2, <2>3 DEF Inv
<1>3. QED
  BY <1>1, <1>2

(* TRAFFIC_START swaps the context and spawns at once. *)
LEMMA TrafficStartStep ==
  ASSUME Inv, ReceiveTrafficStart
  PROVE  Inv'
<1>1. PICK c \in Contexts, targets \in SUBSET Targets :
        SwapContext(c) /\ Spawn(c, targets)
  BY DEF ReceiveTrafficStart
<1>2. UNCHANGED <<main, isRunning, table, listener, currentRules, saved,
                  applier>>
  BY DEF ReceiveTrafficStart, listenVars
<1>3. worker' \in [Contexts -> [Targets -> {"none", "check", "dial", "wait"}]]
  BY <1>1 DEF Inv, TypeOK, Spawn
<1>4. TypeOK'
  BY <1>1, <1>2, <1>3, RulesAssumption
     DEF Inv, TypeOK, SwapContext, Cancelled
<1>5. Keyed' /\ SocketsTracked'
  BY <1>2 DEF Inv, Keyed, SocketsTracked
<1>6. Held'
  BY <1>1, <1>2, RulesAssumption
     DEF Inv, TypeOK, Held, SwapContext, Cancelled, Fresh
<1>7. \A d \in Contexts : d # c => (Live(d))' = Live(d)
  BY <1>1 DEF Inv, TypeOK, Spawn, Live
<1>8. TrafficTracked'
  BY <1>1, <1>7, RulesAssumption
     DEF Inv, TypeOK, TrafficTracked, SwapContext, Cancelled
<1>9. QED
  BY <1>4, <1>5, <1>6, <1>8 DEF Inv

(* What an update of one applier keeps. *)
LEMMA ApplierUpdate ==
  ASSUME Inv, NEW p \in Appliers,
         NEW pc \in {"idle", "stopAll", "swap", "listen", "save"},
         NEW ctx \in Contexts \cup {None}, NEW todo \in SUBSET Keys,
         applier' = [applier EXCEPT
           ![p] = [@ EXCEPT !.pc = pc, !.ctx = ctx, !.todo = todo]]
  PROVE  /\ applier' \in [Appliers ->
              [pc : {"idle", "stopAll", "swap", "listen", "save"},
               rules : RuleSets, ctx : Contexts \cup {None}, todo : SUBSET Keys]]
         /\ \A q \in Appliers \ {p} : applier'[q] = applier[q]
         /\ applier'[p].pc = pc /\ applier'[p].ctx = ctx
<1> DEFINE r == [applier[p] EXCEPT !.pc = pc, !.ctx = ctx, !.todo = todo]
           Record == [pc : {"idle", "stopAll", "swap", "listen", "save"},
                      rules : RuleSets, ctx : Contexts \cup {None},
                      todo : SUBSET Keys]
<1>1. applier \in [Appliers -> Record]
  BY DEF Inv, TypeOK
<1>2. r \in Record /\ r.pc = pc /\ r.ctx = ctx
  BY <1>1
<1>3. applier' = [applier EXCEPT ![p] = r]
  OBVIOUS
<1>4. QED
  BY <1>1, <1>2, <1>3

(* The steps of applyRules. *)
LEMMA ApplySteps ==
  ASSUME Inv, NEW p \in Appliers,
         ApplyStopAll(p) \/ ApplySwap(p) \/ ApplyListen(p) \/ ApplySpawn(p)
  PROVE  Inv'
<1> DEFINE Upd(pc, ctx, todo) ==
      applier' = [applier EXCEPT
        ![p] = [@ EXCEPT !.pc = pc, !.ctx = ctx, !.todo = todo]]
<1>0. /\ applier[p] \in [pc : {"idle", "stopAll", "swap", "listen", "save"},
                         rules : RuleSets, ctx : Contexts \cup {None},
                         todo : SUBSET Keys]
      /\ applier[p].rules.listen \in SUBSET Keys
      /\ applier[p].pc \in {"idle", "stopAll", "swap", "listen", "save"}
      /\ applier[p].ctx \in Contexts \cup {None}
      /\ applier[p].todo \in SUBSET Keys
  BY DEF Inv, TypeOK, RuleSets
<1>1. CASE ApplyStopAll(p)
  <2>1. /\ StopAll
        /\ UNCHANGED <<main, isRunning, trafficCancel, cancelled, worker, late,
                       currentRules, saved>>
    BY <1>1 DEF ApplyStopAll, trafficVars
  <2>3. /\ applier' \in [Appliers ->
             [pc : {"idle", "stopAll", "swap", "listen", "save"},
              rules : RuleSets, ctx : Contexts \cup {None}, todo : SUBSET Keys]]
        /\ \A q \in Appliers \ {p} : applier'[q] = applier[q]
        /\ applier'[p].pc = "swap" /\ applier'[p].ctx = applier[p].ctx
    <3> DEFINE r == [applier[p] EXCEPT !.pc = "swap"]
    <3>1. /\ r \in [pc : {"idle", "stopAll", "swap", "listen", "save"},
                    rules : RuleSets, ctx : Contexts \cup {None},
                    todo : SUBSET Keys]
          /\ r.pc = "swap" /\ r.ctx = applier[p].ctx
      BY <1>0
    <3>2. applier' = [applier EXCEPT ![p] = r]
      BY <1>1 DEF ApplyStopAll
    <3>3. QED
      BY <3>1, <3>2 DEF Inv, TypeOK
  <2>4. TypeOK' /\ Keyed' /\ SocketsTracked'
    BY <2>1, <2>3, StopAllTracks DEF Inv, Listening, TypeOK
  <2>5. Held' /\ TrafficTracked'
    BY <2>1, <2>3 DEF Inv, Held, TrafficTracked, Live
  <2>6. QED
    BY <2>4, <2>5 DEF Inv
<1>2. CASE ApplySwap(p)
  <2>1. PICK c \in Contexts :
          /\ SwapContext(c)
          /\ Upd("listen", c, applier[p].rules.listen)
    BY <1>2 DEF ApplySwap
  <2>2. /\ UNCHANGED <<main, isRunning, table, listener, worker, saved>>
        /\ currentRules' \in RuleSets
    BY <1>0, <1>2 DEF ApplySwap, listenVars
  <2>3. /\ applier' \in [Appliers ->
             [pc : {"idle", "stopAll", "swap", "listen", "save"},
              rules : RuleSets, ctx : Contexts \cup {None}, todo : SUBSET Keys]]
        /\ \A q \in Appliers \ {p} : applier'[q] = applier[q]
        /\ applier'[p].pc = "listen" /\ applier'[p].ctx = c
    BY <1>0, <2>1, ApplierUpdate
  <2>4. /\ trafficCancel' = c
        /\ cancelled' \subseteq Contexts \ {trafficCancel'}
        /\ late' \in [Contexts -> [Targets -> Nat]]
        /\ TrafficTracked'
        /\ \A q \in Appliers :
             applier[q].ctx # None /\ applier[q].ctx \notin cancelled'
               => applier[q].ctx = trafficCancel'
    BY <2>1, <2>2, SwapTracks DEF Inv, Trafficking, SwapContext
  <2>5. TypeOK'
    BY <2>2, <2>3, <2>4 DEF Inv, TypeOK
  <2>6. Keyed' /\ SocketsTracked'
    BY <2>2 DEF Inv, Keyed, SocketsTracked
  <2>7. Held'
    BY <2>3, <2>4 DEF Inv, Held
  <2>8. QED
    BY <2>4, <2>5, <2>6, <2>7 DEF Inv
<1>3. CASE ApplyListen(p)
  <2>1. PICK k \in applier[p].todo :
          /\ StartListener(k)
          /\ applier' = [applier EXCEPT ![p].todo = @ \ {k}]
    BY <1>3 DEF ApplyListen
  <2>2. UNCHANGED <<main, isRunning, trafficCancel, cancelled, worker, late,
                    currentRules, saved>>
    BY <1>3 DEF ApplyListen, trafficVars
  <2>4. /\ applier' \in [Appliers ->
             [pc : {"idle", "stopAll", "swap", "listen", "save"},
              rules : RuleSets, ctx : Contexts \cup {None}, todo : SUBSET Keys]]
        /\ \A q \in Appliers \ {p} : applier'[q] = applier[q]
        /\ applier'[p].pc = applier[p].pc /\ applier'[p].ctx = applier[p].ctx
    <3> DEFINE r == [applier[p] EXCEPT !.todo = applier[p].todo \ {k}]
    <3>1. /\ r \in [pc : {"idle", "stopAll", "swap", "listen", "save"},
                    rules : RuleSets, ctx : Contexts \cup {None},
                    todo : SUBSET Keys]
          /\ r.pc = applier[p].pc /\ r.ctx = applier[p].ctx
      BY <1>0
    <3>2. applier' = [applier EXCEPT ![p] = r]
      BY <2>1
    <3>3. QED
      BY <3>1, <3>2 DEF Inv, TypeOK
  <2>5. k \in Keys
    BY <1>0
  <2>6. TypeOK' /\ Keyed' /\ SocketsTracked'
    BY <2>1, <2>2, <2>4, <2>5, StartListenerTracks DEF Inv, Listening, TypeOK
  <2>7. Held' /\ TrafficTracked'
    BY <2>2, <2>4 DEF Inv, Held, TrafficTracked, Live
  <2>8. QED
    BY <2>6, <2>7 DEF Inv
<1>4. CASE ApplySpawn(p)
  <2> DEFINE c == applier[p].ctx
  <2>1. /\ c \in Contexts
        /\ Spawn(c, applier[p].rules.connect)
        /\ UNCHANGED <<main, isRunning, table, listener, trafficCancel,
                       cancelled, late, currentRules, saved>>
    BY <1>4 DEF ApplySpawn, Inv, Held, listenVars
  <2>2. /\ applier' \in [Appliers ->
             [pc : {"idle", "stopAll", "swap", "listen", "save"},
              rules : RuleSets, ctx : Contexts \cup {None}, todo : SUBSET Keys]]
        /\ \A q \in Appliers \ {p} : applier'[q] = applier[q]
        /\ applier'[p].pc # "listen" /\ applier'[p].ctx = None
    <3>1. CASE p = "receive"
      <4>1. Upd("save", None, applier[p].todo)
        BY <1>0, <1>4, <3>1 DEF ApplySpawn, Inv, TypeOK
      <4>2. QED
        BY <1>0, <4>1, ApplierUpdate
    <3>2. CASE p # "receive"
      BY <1>4, <3>2 DEF ApplySpawn, Inv, TypeOK, Waiting, NoRules, RuleSets
    <3>3. QED
      BY <3>1, <3>2
  <2>3. worker' \in [Contexts -> [Targets -> {"none", "check", "dial", "wait"}]]
    BY <2>1 DEF Inv, TypeOK, Spawn
  <2>4. TypeOK'
    BY <2>1, <2>2, <2>3 DEF Inv, TypeOK
  <2>5. Keyed' /\ SocketsTracked'
    BY <2>1 DEF Inv, Keyed, SocketsTracked
  <2>6. Held'
    BY <2>1, <2>2 DEF Inv, Held
  <2>7. \A d \in Contexts : d # c => (Live(d))' = Live(d)
    BY <2>1 DEF Inv, TypeOK, Spawn, Live
  <2>8. c \notin cancelled => c = trafficCancel
    BY <2>1, RulesAssumption DEF Inv, Held
  <2>9. TrafficTracked'
    BY <2>1, <2>7, <2>8 DEF Inv, TrafficTracked
  <2>10. QED
    BY <2>4, <2>5, <2>6, <2>9 DEF Inv
<1>5. QED
  BY <1>1, <1>2, <1>3, <1>4

LEMMA StepKeepsInv ==
  ASSUME Inv, [Next]_vars
  PROVE  Inv'
<1>1. CASE UNCHANGED vars
  BY <1>1 DEF Inv, vars, TypeOK, Keyed, SocketsTracked, Held, TrafficTracked,
              Live
<1>2. CASE Next
  BY <1>2, ListenerSteps, WorkerSteps, ControlSteps, StopSteps,
     TrafficStartStep, ApplySteps
     DEF Next, ApplyStep
<1>3. QED
  BY <1>1, <1>2

(* The invariant of AgentRules holds in every reachable state. *)
THEOREM RulesSafe == Spec => []Inv
<1>1. Init => Inv
  <2> SUFFICES ASSUME Init PROVE Inv
    OBVIOUS
  <2>1. Waiting \in [pc : {"idle", "stopAll", "swap", "listen", "save"},
                    rules : RuleSets, ctx : Contexts \cup {None},
                    todo : SUBSET Keys]
    BY DEF Waiting, NoRules, RuleSets
  <2>2. TypeOK
    BY <2>1 DEF Init, TypeOK, Closed
  <2>3. Keyed /\ SocketsTracked
    BY DEF Init, Keyed, SocketsTracked, Closed
  <2>4. Held /\ TrafficTracked
    BY DEF Init, Held, TrafficTracked, Live, Waiting
  <2>5. QED
    BY <2>2, <2>3, <2>4 DEF Inv
<1>2. Inv /\ [Next]_vars => Inv'
  BY StepKeepsInv
<1>3. QED
  BY <1>1, <1>2, PTL DEF Spec

(* Type correctness of applyRules, the listener manager and the workers; a *)
(* cancelled context is never the one a.trafficCancel holds.               *)
THEOREM RulesTypes == Spec => []TypeOK
<1>1. Inv => TypeOK
  BY DEF Inv
<1>2. QED
  BY <1>1, RulesSafe, PTL

(* StopAll of a later applyRules or of Stop reaches every open socket. *)
THEOREM RulesSocketsTracked == Spec => []SocketsTracked
<1>1. Inv => SocketsTracked
  BY DEF Inv
<1>2. QED
  BY <1>1, RulesSafe, PTL

(* a.trafficCancel reaches all traffic that is not cancelled already. *)
THEOREM RulesTrafficTracked == Spec => []TrafficTracked
<1>1. Inv => TrafficTracked
  BY DEF Inv
<1>2. QED
  BY <1>1, RulesSafe, PTL

-----------------------------------------------------------------------------
(* Late dials.  A worker that is about to dial found its context alive when *)
(* it looked, so none of its dials has been late yet.                      *)
LateCounted == \A c \in Contexts, t \in Targets :
  /\ late[c][t] <= 1
  /\ c \notin cancelled \/ worker[c][t] = "dial" => late[c][t] = 0

LEMMA StepKeepsLateCounted ==
  ASSUME Inv, LateCounted, [Next]_vars
  PROVE  LateCounted'
<1> USE DEF Inv, TypeOK, LateCounted
<1>1. CASE UNCHANGED <<cancelled, worker, late>>
  BY <1>1
<1>2. CASE StopTraffic \/ ReceiveTrafficStop
  BY <1>2 DEF StopTraffic, ReceiveTrafficStop, CancelTraffic, Cancelled
<1>3. ASSUME NEW c \in Contexts, SwapContext(c), UNCHANGED worker
      PROVE  LateCounted'
  BY <1>3 DEF SwapContext, Cancelled, Fresh, Live
<1>4. CASE ReceiveTrafficStart
  <2>1. PICK c \in Contexts, targets \in SUBSET Targets :
          SwapContext(c) /\ Spawn(c, targets)
    BY <1>4 DEF ReceiveTrafficStart
  <2>2. \A d \in Contexts, t \in Targets :
          worker'[d][t] = "dial" => worker[d][t] = "dial"
    BY <2>1 DEF Spawn
  <2>3. \A d \in Contexts, t \in Targets :
          worker[d][t] = "dial" => late'[d][t] = late[d][t]
    BY <2>1 DEF SwapContext, Fresh, Live
  <2>4. \A d \in Contexts, t \in Targets :
          late'[d][t] \in {0, late[d][t]} /\ (d \notin cancelled'
            => d \notin cancelled \/ late'[d][t] = 0)
    BY <2>1 DEF SwapContext, Cancelled
  <2>5. QED
    BY <2>2, <2>3, <2>4
<1>5. ASSUME NEW p \in Appliers, ApplySpawn(p)
      PROVE  LateCounted'
  <2>1. UNCHANGED <<cancelled, late>>
        /\ Spawn(applier[p].ctx, applier[p].rules.connect)
    BY <1>5 DEF ApplySpawn
  <2>2. \A d \in Contexts, t \in Targets :
          worker'[d][t] = "dial" => worker[d][t] = "dial"
    BY <2>1 DEF Spawn
  <2>3. QED
    BY <2>1, <2>2
<1>6. ASSUME NEW c \in Contexts, NEW t \in Targets, WorkerStep(c, t)
      PROVE  LateCounted'
  <2>1. CASE Check(c, t)
    BY <2>1 DEF Check, Step, workerOthers
  <2>2. CASE DialTarget(c, t)
    BY <2>2 DEF DialTarget, Step, workerOthers
  <2>3. CASE Wait(c, t)
    <3>1. PICK pc \in {"check", "none"} : worker' = [worker EXCEPT ![c][t] = pc]
      BY <2>3 DEF Wait, Step
    <3>2. UNCHANGED <<cancelled, late>>
      BY <2>3 DEF Wait, workerOthers
    <3>3. \A d \in Contexts, u \in Targets :
            worker'[d][u] = "dial" => worker[d][u] = "dial"
      BY <3>1
    <3>4. QED
      BY <3>2, <3>3
  <2>4. QED
    BY <1>6, <2>1, <2>2, <2>3 DEF WorkerStep
<1>7. ASSUME NEW p \in Appliers, ApplyStep(p), ~ApplySpawn(p)
      PROVE  LateCounted'
  <2>1. CASE ApplySwap(p)
    BY <1>3, <2>1 DEF ApplySwap
  <2>2. CASE ~ApplySwap(p)
    BY <1>1, <1>7, <2>2 DEF ApplyStep, ApplyStopAll, ApplyListen,
                            SaveInstructions, trafficVars
  <2>3. QED
    BY <2>1, <2>2
<1>8. CASE \/ Start \/ StopFlag \/ StopListeners \/ ReceiveConfigUpdate
           \/ \E l \in Listeners : CloseSocket(l) \/ AcceptFails(l)
  BY <1>1, <1>8 DEF Start, StopFlag, StopListeners, ReceiveConfigUpdate,
                    CloseSocket, AcceptFails, trafficVars
<1>9. QED
  BY <1>1, <1>2, <1>4, <1>5, <1>6, <1>7, <1>8 DEF Next, vars

(* A rule that was replaced connects once more at most, however often and *)
(* by whom the rules are replaced.                                        *)
THEOREM RulesOneLateDial == Spec => []OneLateDial
<1>1. Init => LateCounted
  BY DEF Init, LateCounted
<1>2. Inv /\ LateCounted /\ [Next]_vars => LateCounted'
  BY StepKeepsLateCounted
<1>3. LateCounted => OneLateDial
  BY DEF LateCounted, OneLateDial
<1>4. QED
  BY <1>1, <1>2, <1>3, RulesSafe, PTL DEF Spec

-----------------------------------------------------------------------------
(* Stale listeners.  With PromptStart one goroutine at a time applies      *)
(* rules, and the table is empty from its StopAll until the rules that are *)
(* in force are the ones it opens.                                         *)
Listens == {k \in Keys : table[k] # None}

OneApplier ==
  /\ main = "created" => \A p \in Appliers : applier[p].pc = "idle"
  /\ applier["start"].pc = "idle" \/ applier["receive"].pc = "idle"

Current ==
  /\ Listens \subseteq currentRules.listen
  /\ \A p \in Appliers :
       /\ applier[p].pc = "swap" => Listens = {}
       /\ applier[p].pc = "listen" => applier[p].todo \subseteq currentRules.listen

LEMMA StepKeepsOneApplier ==
  ASSUME PromptStart, Inv, OneApplier, [Next]_vars
  PROVE  OneApplier'
<1> USE DEF Inv, TypeOK, OneApplier, Appliers
<1>1. CASE UNCHANGED <<main, applier>>
  BY <1>1
<1>2. CASE Start \/ ReceiveConfigUpdate
  BY <1>2 DEF Start, ReceiveConfigUpdate, MayReceive, Apply
<1>3. ASSUME NEW p \in Appliers, ApplyStep(p)
      PROVE  OneApplier'
  <2>1. applier[p].pc # "idle" /\ UNCHANGED main
    BY <1>3 DEF ApplyStep, ApplyStopAll, ApplySwap, ApplyListen, ApplySpawn,
                SaveInstructions
  <2>2. \A q \in Appliers \ {p} : applier'[q] = applier[q]
    BY <1>3 DEF ApplyStep, ApplyStopAll, ApplySwap, ApplyListen, ApplySpawn,
                SaveInstructions
  <2>3. QED
    BY <2>1, <2>2
<1>4. CASE StopFlag \/ StopListeners \/ StopTraffic
  BY <1>4 DEF StopFlag, StopListeners, StopTraffic
<1>5. CASE \/ ReceiveTrafficStart \/ ReceiveTrafficStop
           \/ \E l \in Listeners : CloseSocket(l) \/ AcceptFails(l)
           \/ \E c \in Contexts, t \in Targets : WorkerStep(c, t)
  BY <1>1, <1>5 DEF ReceiveTrafficStart, ReceiveTrafficStop, CloseSocket,
                    AcceptFails, WorkerStep, Check, DialTarget, Wait,
                    workerOthers
<1>6. QED
  BY <1>1, <1>2, <1>3, <1>4, <1>5 DEF Next, vars

LEMMA StepKeepsCurrent ==
  ASSUME Inv, OneApplier, Current, [Next]_vars
  PROVE  Current'
<1> USE DEF Inv, TypeOK, Current, Listens, Appliers
<1>1. CASE UNCHANGED <<table, currentRules, applier>>
  BY <1>1
<1>2. CASE Start \/ ReceiveConfigUpdate
  <2>1. \A rules : [Waiting EXCEPT !.pc = "stopAll", !.rules = rules].pc
                     = "stopAll"
    BY DEF Waiting
  <2>2. \A p \in Appliers :
          applier'[p].pc = "stopAll" \/ applier'[p] = applier[p]
    <3>1. \/ UNCHANGED applier
          \/ \E q \in Appliers, rules \in RuleSets : applier' = [applier EXCEPT
               ![q] = [Waiting EXCEPT !.pc = "stopAll", !.rules = rules]]
      BY <1>2 DEF Start, ReceiveConfigUpdate, Apply
    <3>2. ASSUME NEW q \in Appliers, NEW r, r.pc = "stopAll",
                 applier' = [applier EXCEPT ![q] = r], NEW p \in Appliers
          PROVE  applier'[p].pc = "stopAll" \/ applier'[p] = applier[p]
      BY <3>2
    <3>3. QED
      BY <2>1, <3>1, <3>2
  <2>3. UNCHANGED <<table, currentRules>>
    BY <1>2 DEF Start, ReceiveConfigUpdate, listenVars
  <2>4. QED
    BY <2>2, <2>3
<1>3. CASE StopListeners
  BY <1>3 DEF StopListeners, StopAll
<1>4. ASSUME NEW p \in Appliers, ApplyStep(p)
      PROVE  Current'
  <2>0. \A q \in Appliers \ {p} :
          applier'[q] = applier[q] /\ applier[q].pc = "idle"
    BY <1>4 DEF OneApplier, ApplyStep, ApplyStopAll, ApplySwap, ApplyListen,
                ApplySpawn, SaveInstructions
  <2>1. CASE ApplyStopAll(p)
    BY <2>0, <2>1 DEF ApplyStopAll, StopAll
  <2>2. CASE ApplySwap(p)
    <3>1. /\ applier[p].pc = "swap" /\ UNCHANGED table
          /\ currentRules' = applier[p].rules
          /\ applier'[p].pc = "listen"
          /\ applier'[p].todo = applier[p].rules.listen
      BY <2>2 DEF ApplySwap, listenVars
    <3>2. QED
      BY <2>0, <3>1
  <2>3. CASE ApplyListen(p)
    <3>1. PICK k \in applier[p].todo :
            /\ StartListener(k)
            /\ applier' = [applier EXCEPT ![p].todo = @ \ {k}]
      BY <2>3 DEF ApplyListen
    <3>2. applier[p].pc = "listen" /\ UNCHANGED currentRules
      BY <2>3 DEF ApplyListen
    <3>3. Listens' \subseteq Listens \cup {k}
      BY <3>1 DEF StartListener, listenVars
    <3>4. applier'[p].pc = "listen" /\ applier'[p].todo \subseteq applier[p].todo
      BY <3>1, <3>2
    <3>5. QED
      BY <2>0, <3>1, <3>2, <3>3, <3>4
  <2>4. CASE ApplySpawn(p) \/ SaveInstructions(p)
    <3>1. UNCHANGED <<table, currentRules>>
      BY <2>4 DEF ApplySpawn, SaveInstructions, listenVars
    <3>2. \/ applier' = [applier EXCEPT ![p] = Waiting]
          \/ applier' = [applier EXCEPT ![p] =
               [applier[p] EXCEPT !.pc = "save", !.ctx = None]]
      BY <2>4 DEF ApplySpawn, SaveInstructions
    <3>3. [applier[p] EXCEPT !.pc = "save", !.ctx = None].pc = "save"
      OBVIOUS
    <3> DEFINE r == [applier[p] EXCEPT !.pc = "save", !.ctx = None]
    <3>4. applier'[p] = Waiting \/ applier'[p] = r
      <4> HIDE DEF r
      <4>1. DOMAIN applier = Appliers
        OBVIOUS
      <4>2. applier' = [applier EXCEPT ![p] = Waiting]
              \/ applier' = [applier EXCEPT ![p] = r]
        BY <3>2 DEF r
      <4>3. QED
        BY ONLY <4>1, <4>2, p \in Appliers
    <3>6. Waiting.pc = "idle"
      BY DEF Waiting
    <3>7. applier'[p].pc \in {"idle", "save"}
      BY ONLY <3>3, <3>4, <3>6
    <3>5. QED
      BY <2>0, <3>1, <3>7
  <2>5. QED
    BY <1>4, <2>1, <2>2, <2>3, <2>4 DEF ApplyStep
<1>5. CASE \/ StopFlag \/ StopTraffic \/ ReceiveTrafficStart
           \/ ReceiveTrafficStop
           \/ \E l \in Listeners : CloseSocket(l) \/ AcceptFails(l)
           \/ \E c \in Contexts, t \in Targets : WorkerStep(c, t)
  BY <1>1, <1>5 DEF StopFlag, StopTraffic, ReceiveTrafficStart,
                    ReceiveTrafficStop, CloseSocket, AcceptFails, WorkerStep,
                    Check, DialTarget, Wait, workerOthers, listenVars
<1>6. QED
  BY <1>1, <1>2, <1>3, <1>4, <1>5 DEF Next, vars

(* Once rules have been applied, the agent listens on nothing they do not *)
(* ask for: no listener of replaced rules is kept.                        *)
THEOREM RulesNoStaleListeners ==
  ASSUME PromptStart
  PROVE  Spec => []NoStaleListeners
<1>1. Init => OneApplier /\ Current
  BY DEF Init, OneApplier, Current, Listens, Appliers, Waiting
<1>2. Inv /\ OneApplier /\ Current /\ [Next]_vars => OneApplier' /\ Current'
  BY StepKeepsOneApplier, StepKeepsCurrent
<1>3. Current => NoStaleListeners
  BY DEF Current, Listens, NoStaleListeners
<1>4. QED
  BY <1>1, <1>2, <1>3, RulesSafe, PTL DEF Spec
=============================================================================
