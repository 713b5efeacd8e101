---------------------------- MODULE AgentConnProofs ----------------------------
(***************************************************************************)
(* Proofs about AgentConn, for any number of sessions, under PromptStart:  *)
(* no dial completes between the two statements of Start.  One goroutine   *)
(* at a time drives the connection; it holds a token, which receiver and   *)
(* reconnector hand to each other.  The invariant says who has it before   *)
(* Start, and what the holder knows of the client that is installed.       *)
(* At the end: a running agent drops the token in one place only.          *)
(***************************************************************************)
EXTENDS AgentConn, TLAPS

USE AgentAssumption

(***************************************************************************)
(* Until Start has spawned its goroutines only the TTL goroutine of a      *)
(* standalone agent runs, and it installs nothing.                         *)
(***************************************************************************)
BeforeRunning ==
  main \in {"created", "starting"} =>
    /\ \A k \in Receivers : rx[k] = NoLoop
    /\ \A r \in Receivers : rc[r] = NoRc
    /\ rc[Ttl].pc \notin {"spawn", "spawnHb"}
    /\ main = "created" =>
         ~isRunning /\ rc[Ttl].pc \in {"none", "wait", "cas", "loop", "exit"}
    /\ IF standalone THEN client = None
       ELSE rc[Ttl] = NoRc /\ client \in Sessions /\ connStop[client] = 0

(* A receiver belongs to the installed client. *)
ReceiverInv ==
  \A k \in Receivers : Receiving(k) =>
    /\ rx[k].stop = client /\ client \in Sessions /\ connStop[client] = 0
    /\ rx[k].pc # "capture" => rx[k].client = client

(***************************************************************************)
(* A reconnector works because the installed client is dead, and says so   *)
(* to its heartbeat loop; the session it makes is untouched.               *)
(***************************************************************************)
ReconnectorInv ==
  \A r \in Reconnectors :
    /\ rc[r].pc \in {"install", "spawn", "spawnHb"} => rc[r].sess \in Sessions
    /\ rc[r].pc \in {"install", "spawn"} => connStop[rc[r].sess] = 0
    /\ rc[r].pc = "spawn" => rc[r].sess = client
    /\ rc[r].pc = "spawnHb" => \/ rc[r].sess = client
                               \/ connStop[rc[r].sess] > 0
    /\ Trying(r) /\ rc[r].pc # "spawn" =>
         client = None \/ connStop[client] > 0

(* A heartbeat loop of a client that is no longer installed will exit. *)
HeartbeatInv ==
  \A k \in Receivers :
    /\ hb[k].pc # "none" => hb[k].stop \in Sessions
    /\ hb[k].pc # "none" /\ hb[k].stop # client => connStop[hb[k].stop] > 0

Inv == /\ TypeOK
       /\ OneDriver
       /\ BeforeRunning
       /\ ReceiverInv
       /\ ReconnectorInv
       /\ HeartbeatInv
       /\ HeartbeatPaired

(***************************************************************************)
(* Steps of the network and of Stop, and the first of Start, touch neither *)
(* goroutines nor sessions.                                                *)
(***************************************************************************)
LEMMA Elsewhere ==
  ASSUME Inv, TypeOK', UNCHANGED <<standalone, client, connStop, rx, hb, rc>>,
         \/ UNCHANGED <<main, isRunning>>
         \/ main = "created" /\ main' = "starting"
         \/ main' \notin {"created", "starting"}
  PROVE  Inv'
<1> USE DEF Inv
<1>1. OneDriver' /\ ReceiverInv'
  BY DEF OneDriver, ReceiverInv, Receiving, Trying
<1>2. BeforeRunning'
  BY DEF BeforeRunning
<1>3. ReconnectorInv' /\ HeartbeatInv' /\ HeartbeatPaired'
  BY DEF ReconnectorInv, HeartbeatInv, HeartbeatPaired, Trying
<1> QED BY <1>1, <1>2, <1>3

LEMMA OutsideSteps ==
  ASSUME Inv, StartFlag \/ StopFlag \/ StopSteps \/ \E s \in Sessions : Lose(s)
  PROVE  Inv'
<1>1. TypeOK
  BY DEF Inv
<1>2. CASE StartFlag
  <2>1. TypeOK'
    BY <1>1, <1>2 DEF StartFlag, TypeOK, MainSteps
  <2> QED BY <1>2, <2>1, Elsewhere DEF StartFlag
<1>3. CASE StopFlag
  <2>1. TypeOK'
    BY <1>1, <1>3 DEF StopFlag, TypeOK, MainSteps, stopOthers
  <2> QED BY <1>3, <2>1, Elsewhere DEF StopFlag, stopOthers
<1>4. CASE StopSteps
  <2>1. TypeOK'
    BY <1>1, <1>4 DEF StopSteps, StopChan, StopCapture, StopClose, TypeOK,
                      MainSteps, stopOthers
  <2> QED BY <1>4, <2>1, Elsewhere
          DEF StopSteps, StopChan, StopCapture, StopClose, stopOthers
<1>5. ASSUME NEW s \in Sessions, Lose(s)
      PROVE  Inv'
  <2>1. TypeOK'
    BY <1>1, <1>5 DEF Lose, TypeOK
  <2> QED BY <1>5, <2>1, Elsewhere DEF Lose
<1> QED BY <1>2, <1>3, <1>4, <1>5

(***************************************************************************)
(* Start of a connected agent hands the token to the first receiver.       *)
(***************************************************************************)
LEMMA StartModeStep ==
  ASSUME Inv, StartMode
  PROVE  Inv'
<1> USE DEF Inv
<1>1. CASE standalone
  <2>1. TypeOK'
    BY <1>1 DEF StartMode, TypeOK, MainSteps
  <2> QED BY <1>1, <2>1, Elsewhere DEF StartMode
<1>2. CASE ~standalone
  <2>1. /\ main = "starting" /\ main' = "running"
        /\ rx' = [rx EXCEPT ![Main] = Spawned(client)]
        /\ hb' = [hb EXCEPT ![Main] = Spawned(client)]
        /\ UNCHANGED <<isRunning, stopped, standalone, client, closing,
                       reconnecting, link, connStop, rc>>
    BY <1>2 DEF StartMode
  <2>2. /\ \A k \in Receivers : rx[k] = NoLoop
        /\ \A r \in Reconnectors : rc[r] = NoRc
        /\ client \in Sessions /\ connStop[client] = 0
    BY <1>2, <2>1 DEF BeforeRunning, Reconnectors
  <2>3. Spawned(client) \in Loops(RxSteps) /\ Spawned(client) \in Loops(HbSteps)
    BY <2>2 DEF Spawned, Loops, RxSteps, HbSteps
  <2>4. Main \in Receivers
    BY DEF Receivers
  <2>5. TypeOK'
    BY <2>1, <2>3 DEF TypeOK, MainSteps
  <2>6. \A k \in Receivers : rx'[k] = IF k = Main THEN Spawned(client) ELSE NoLoop
    BY <2>1, <2>2, <2>4 DEF TypeOK
  <2>7. OneDriver' /\ ReceiverInv'
    BY <2>1, <2>2, <2>6
    DEF OneDriver, ReceiverInv, Receiving, Trying, Spawned, NoLoop, NoRc
  <2>8. BeforeRunning'
    BY <2>1 DEF BeforeRunning
  <2>9. ReconnectorInv'
    BY <2>1 DEF ReconnectorInv, Trying
  <2>10. HeartbeatInv' /\ HeartbeatPaired'
    BY <2>1, <2>2, <2>4
    DEF HeartbeatInv, HeartbeatPaired, TypeOK, Spawned, HbSteps, Loops
  <2> QED BY <2>5, <2>7, <2>8, <2>9, <2>10
<1> QED BY <1>1, <1>2

(***************************************************************************)
(* A receiver keeps the token while it reads; when its read fails it drops *)
(* it, or hands it to the reconnector it spawns.                           *)
(***************************************************************************)
LEMMA ReceiverSteps ==
  ASSUME Inv, NEW k \in Receivers, RxStep(k)
  PROVE  Inv'
<1> USE DEF Inv
<1>1. Receiving(k)
  BY DEF RxStep, RxCapture, RxCheck, RxRead, RxError, Receiving
<1>2. /\ rx[k].stop = client /\ client \in Sessions /\ connStop[client] = 0
      /\ rx[k].pc # "capture" => rx[k].client = client
  BY <1>1 DEF ReceiverInv
<1>3. main \notin {"created", "starting"}
  BY <1>1 DEF BeforeRunning, Receiving, NoLoop
<1>4. /\ \A l \in Receivers : Receiving(l) => l = k
      /\ \A r \in Reconnectors : ~Trying(r)
  BY <1>1 DEF OneDriver
<1>5. UNCHANGED <<main, standalone, client, hb>>
  BY DEF RxStep, RxCapture, RxCheck, RxRead, RxError, rxOthers
<1>6. BeforeRunning'
  BY <1>3, <1>5 DEF BeforeRunning
<1>7. CASE RxCapture(k) \/ RxCheck(k) \/ RxRead(k)
  <2>1. /\ rx' \in [Receivers -> Loops(RxSteps)]
        /\ \A l \in Receivers \ {k} : rx'[l] = rx[l]
        /\ \/ rx'[k].pc = "none"
           \/ rx'[k].stop = client /\ rx'[k].client = client
    <3>1. rx \in [Receivers -> Loops(RxSteps)]
      BY DEF TypeOK
    <3>2. CASE RxCapture(k)
      BY <1>2, <3>1, <3>2 DEF RxCapture, Loops, RxSteps
    <3>3. CASE RxCheck(k)
      <4>1. CASE isRunning
        <5>1. rx' = [rx EXCEPT ![k] = [rx[k] EXCEPT !.pc = "read"]]
          BY <3>3, <4>1 DEF RxCheck
        <5>2. rx[k].pc # "capture"
          BY <3>3 DEF RxCheck
        <5> QED BY <1>2, <3>1, <5>1, <5>2 DEF Loops, RxSteps
      <4>2. CASE ~isRunning
        <5>1. rx' = [rx EXCEPT ![k] = NoLoop]
          BY <3>3, <4>2 DEF RxCheck
        <5> QED BY <3>1, <5>1 DEF Loops, RxSteps, NoLoop
      <4> QED BY <4>1, <4>2
    <3>4. CASE RxRead(k)
      BY <1>2, <3>1, <3>4 DEF RxRead, Loops, RxSteps
    <3> QED BY <1>7, <3>2, <3>3, <3>4
  <2>2. UNCHANGED <<isRunning, link, connStop, rc>>
    BY <1>7 DEF RxCapture, RxCheck, RxRead
  <2>3. UNCHANGED <<stopped, closing, reconnecting>>
    BY <1>7 DEF RxCapture, RxCheck, RxRead, rxOthers
  <2>4. TypeOK'
    BY <1>5, <2>1, <2>2, <2>3 DEF TypeOK
  <2>6. OneDriver'
    BY <1>4, <2>1, <2>2 DEF OneDriver, Receiving, Trying
  <2>7. ReceiverInv'
    BY <1>2, <1>4, <1>5, <2>1, <2>2 DEF ReceiverInv, Receiving
  <2>8. ReconnectorInv' /\ HeartbeatInv' /\ HeartbeatPaired'
    BY <1>5, <2>2 DEF ReconnectorInv, HeartbeatInv, HeartbeatPaired, Trying
  <2> QED BY <1>6, <2>4, <2>6, <2>7, <2>8
<1>8. CASE RxError(k)
  <2>0. rx[k].pc = "err" /\ rx[k].client = client
    BY <1>2, <1>8 DEF RxError
  <2>1. /\ connStop' = [connStop EXCEPT ![client] = connStop[client] + 1]
        /\ rx' = [rx EXCEPT ![k] = NoLoop]
        /\ link' = link \/ link' = [link EXCEPT ![client] = "dead"]
        /\ rc' = rc \/ rc' = [rc EXCEPT ![k] = [pc |-> "cas", sess |-> None]]
        /\ UNCHANGED <<stopped, closing, reconnecting, isRunning>>
    BY <1>2, <1>8, <2>0 DEF RxError, rxOthers
  <2>2. k \in Reconnectors
    BY DEF Reconnectors
  <2>3. TypeOK'
    <3>1. NoLoop \in Loops(RxSteps)
      BY DEF NoLoop, Loops, RxSteps
    <3>2. [pc |-> "cas", sess |-> None] \in [pc : RcSteps, sess : Sessions \cup {None}]
      BY DEF RcSteps
    <3>3. rx' \in [Receivers -> Loops(RxSteps)]
      BY <2>1, <3>1 DEF TypeOK
    <3>5. connStop' \in [Sessions -> 0..2]
      BY <1>2, <2>1 DEF TypeOK
    <3>4. rc' \in [Reconnectors -> [pc : RcSteps, sess : Sessions \cup {None}]]
      BY <2>1, <3>2 DEF TypeOK
    <3> QED BY <1>5, <2>1, <3>3, <3>4, <3>5 DEF TypeOK
  <2>4. \A l \in Receivers : ~Receiving(l)'
    BY <1>4, <2>1 DEF Receiving, NoLoop, TypeOK
  <2>5. \A r \in Reconnectors :
          rc'[r] = rc[r] \/ (r = k /\ rc'[r] = [pc |-> "cas", sess |-> None])
    BY <2>1, <2>2 DEF TypeOK
  <2>6. OneDriver' /\ ReceiverInv'
    BY <1>4, <2>4, <2>5 DEF OneDriver, ReceiverInv, Trying
  <2>7. ReconnectorInv'
    <3> SUFFICES ASSUME NEW r \in Reconnectors
                 PROVE  ReconnectorInv!(r)'
      BY DEF ReconnectorInv
    <3>1. CASE rc'[r] = rc[r]
      BY <1>2, <1>4, <1>5, <2>1, <3>1 DEF ReconnectorInv, Trying, TypeOK
    <3>2. CASE rc'[r] = [pc |-> "cas", sess |-> None]
      BY <1>2, <1>5, <2>1, <3>2 DEF TypeOK
    <3> QED BY <2>5, <3>1, <3>2
  <2>8. HeartbeatInv' /\ HeartbeatPaired'
    BY <1>2, <1>5, <2>1 DEF HeartbeatInv, HeartbeatPaired, TypeOK
  <2> QED BY <1>6, <2>3, <2>6, <2>7, <2>8
<1> QED BY <1>7, <1>8 DEF RxStep

(***************************************************************************)
(* Heartbeat loops touch nothing but themselves.                           *)
(***************************************************************************)
LEMMA HeartbeatSteps ==
  ASSUME Inv, NEW k \in Receivers, HbStep(k)
  PROVE  Inv'
<1> USE DEF Inv
<1>1. UNCHANGED <<main, isRunning, stopped, standalone, client, closing,
                  reconnecting, link, connStop, rx, rc>>
  BY DEF HbStep, HbCapture, HbExit, hbOthers
<1>2. hb \in [Receivers -> Loops(HbSteps)]
  BY DEF TypeOK
<1>3. hb[k].pc # "none"
  BY DEF HbStep, HbCapture, HbExit
<1>4. /\ hb' \in [Receivers -> Loops(HbSteps)]
      /\ \A l \in Receivers \ {k} : hb'[l] = hb[l]
      /\ \/ hb'[k].pc = "none"
         \/ hb'[k].stop = hb[k].stop /\ hb'[k].client = client
  <2>1. CASE HbCapture(k)
    BY <1>2, <2>1 DEF HbCapture, Loops, HbSteps, TypeOK
  <2>2. CASE HbExit(k)
    BY <1>2, <2>2 DEF HbExit, Loops, HbSteps, NoLoop
  <2> QED BY <2>1, <2>2 DEF HbStep
<1>5. TypeOK'
  BY <1>1, <1>4 DEF TypeOK
<1>6. OneDriver' /\ ReceiverInv' /\ BeforeRunning' /\ ReconnectorInv'
  BY <1>1 DEF OneDriver, ReceiverInv, BeforeRunning, ReconnectorInv,
              Receiving, Trying
<1>7. HeartbeatInv' /\ HeartbeatPaired'
  BY <1>1, <1>3, <1>4 DEF HeartbeatInv, HeartbeatPaired
<1> QED BY <1>5, <1>6, <1>7

(***************************************************************************)
(* A reconnector that moves on, or ends, without a session of its own.     *)
(***************************************************************************)
LEMMA ReconnectorMoves ==
  ASSUME Inv, NEW r \in Reconnectors, NEW pc \in RcSteps,
         rc' = [rc EXCEPT ![r].pc = pc], reconnecting' \in BOOLEAN,
         UNCHANGED <<main, isRunning, stopped, standalone, client, closing,
                     link, connStop, rx, hb>>,
         rc[r].pc # "spawn",
         Trying(r) \/ pc \in {"none", "exit"},
         pc \notin {"install", "spawn", "spawnHb"},
         main = "created" => pc \in {"none", "wait", "cas", "loop", "exit"},
         main \in {"created", "starting"} => r = Ttl /\ standalone
  PROVE  Inv'
<1> USE DEF Inv
<1>1. rc \in [Reconnectors -> [pc : RcSteps, sess : Sessions \cup {None}]]
  BY DEF TypeOK
<1>2. TypeOK'
  BY <1>1 DEF TypeOK
<1>3. /\ \A q \in Reconnectors \ {r} : rc'[q] = rc[q]
      /\ rc'[r].pc = pc
  BY <1>1
<1>4. OneDriver'
  BY <1>3 DEF OneDriver, Receiving, Trying
<1>5. BeforeRunning'
  BY <1>3 DEF BeforeRunning, Receivers, Reconnectors
<1>6. ReconnectorInv'
  BY <1>3 DEF ReconnectorInv, Trying
<1>7. ReceiverInv' /\ HeartbeatInv' /\ HeartbeatPaired'
  BY DEF ReceiverInv, HeartbeatInv, HeartbeatPaired, Receiving
<1> QED BY <1>2, <1>4, <1>5, <1>6, <1>7

(* Before Start is over, a reconnector that runs is the TTL goroutine's. *)
LEMMA EarlyReconnector ==
  ASSUME Inv, NEW r \in Reconnectors, rc[r].pc # "none",
         main \in {"created", "starting"}
  PROVE  r = Ttl /\ standalone
BY DEF Inv, BeforeRunning, NoRc, Reconnectors

LEMMA ReconnectorSteps ==
  ASSUME Inv, NEW r \in Reconnectors,
         \/ RcCas(r) \/ RcLoop(r) \/ RcFail(r) \/ RcRetry(r)
         \/ r = Ttl /\ TtlExpires
  PROVE  Inv'
<1>1. reconnecting \in BOOLEAN
  BY DEF Inv, TypeOK
<1>2. main = "created" => ~isRunning
  BY DEF Inv, BeforeRunning
<1>3. main = "created" /\ r = Ttl =>
        rc[r].pc \in {"none", "wait", "cas", "loop", "exit"}
  BY DEF Inv, BeforeRunning
<1>4. CASE RcCas(r)
  <2>1. PICK pc \in {"none", "loop"} : rc' = [rc EXCEPT ![r].pc = pc]
    BY <1>4 DEF RcCas, Goto
  <2> QED BY <1>4, <2>1, EarlyReconnector, ReconnectorMoves
          DEF RcCas, rcOthers, RcSteps, Trying
<1>5. CASE RcLoop(r)
  <2>1. PICK pc \in {"dial", "exit"} :
          rc' = [rc EXCEPT ![r].pc = pc] /\ (pc = "dial" => isRunning)
    BY <1>5 DEF RcLoop, Goto
  <2> QED BY <1>1, <1>2, <1>5, <2>1, EarlyReconnector, ReconnectorMoves
          DEF RcLoop, rcOthers, RcSteps, Trying
<1>6. CASE RcFail(r)
  BY <1>1, <1>3, <1>6, EarlyReconnector, ReconnectorMoves
  DEF RcFail, Goto, rcOthers, RcSteps, Trying
<1>7. CASE RcRetry(r)
  <2>1. PICK pc \in {"loop", "exit"} : rc' = [rc EXCEPT ![r].pc = pc]
    BY <1>7 DEF RcRetry, Goto
  <2> QED BY <1>1, <1>3, <1>7, <2>1, EarlyReconnector, ReconnectorMoves
          DEF RcRetry, rcOthers, RcSteps, Trying
<1>8. CASE r = Ttl /\ TtlExpires
  <2>1. PICK pc \in {"none", "cas"} : rc' = [rc EXCEPT ![r].pc = pc]
    BY <1>8 DEF TtlExpires, Goto
  <2> QED BY <1>1, <1>8, <2>1, EarlyReconnector, ReconnectorMoves
          DEF TtlExpires, rcOthers, RcSteps, Trying
<1> QED BY <1>4, <1>5, <1>6, <1>7, <1>8

(***************************************************************************)
(* Registering: the session is one that nothing else refers to.            *)
(***************************************************************************)
LEMMA ConnectStep ==
  ASSUME Inv, NEW r \in Reconnectors, RcConnect(r)
  PROVE  Inv'
<1> USE DEF Inv
<1>1. PICK s \in Sessions :
        /\ Free(s)
        /\ rc' = [rc EXCEPT ![r] = [pc |-> "install", sess |-> s]]
        /\ link' = [link EXCEPT ![s] = "up"]
        /\ connStop' = [connStop EXCEPT ![s] = 0]
  BY DEF RcConnect
<1>2. /\ rc[r].pc = "dial"
      /\ UNCHANGED <<main, isRunning, stopped, closing, standalone, client,
                     reconnecting, rx, hb>>
  BY DEF RcConnect, rcOthers
<1>3. TypeOK'
  <2>1. [pc |-> "install", sess |-> s] \in [pc : RcSteps, sess : Sessions \cup {None}]
    BY DEF RcSteps
  <2>2. rc' \in [Reconnectors -> [pc : RcSteps, sess : Sessions \cup {None}]]
    BY <1>1, <2>1 DEF TypeOK
  <2> QED BY <1>1, <1>2, <2>2 DEF TypeOK
<1>4. /\ \A q \in Reconnectors : rc'[q] =
            IF q = r THEN [pc |-> "install", sess |-> s] ELSE rc[q]
      /\ \A u \in Sessions : connStop'[u] = IF u = s THEN 0 ELSE connStop[u]
  BY <1>1 DEF TypeOK
<1>5. /\ s # client
      /\ \A k \in Receivers : rx[k].stop # s /\ hb[k].stop # s
      /\ \A q \in Reconnectors : rc[q].sess # s
  BY <1>1 DEF Free
<1>6. Trying(r)
  BY <1>2 DEF Trying
<1>7. OneDriver'
  BY <1>2, <1>4, <1>6 DEF OneDriver, Receiving, Trying
<1>8. BeforeRunning'
  BY <1>2, <1>4, <1>5, EarlyReconnector DEF BeforeRunning, Receivers, Reconnectors, NoRc
<1>9. ReceiverInv'
  BY <1>2, <1>4, <1>5 DEF ReceiverInv, Receiving
<1>10. ReconnectorInv'
  <2> SUFFICES ASSUME NEW q \in Reconnectors PROVE ReconnectorInv!(q)'
    BY DEF ReconnectorInv
  <2>1. client \in Sessions \cup {None}
    BY DEF TypeOK
  <2>2. CASE q = r
    BY <1>2, <1>4, <1>5, <1>6, <2>1, <2>2 DEF ReconnectorInv, Trying
  <2>3. CASE q # r
    BY <1>2, <1>4, <1>5, <2>1, <2>3 DEF ReconnectorInv, Trying
  <2> QED BY <2>2, <2>3
<1>11. HeartbeatInv' /\ HeartbeatPaired'
  BY <1>2, <1>4, <1>5 DEF HeartbeatInv, HeartbeatPaired, HbSteps
<1> QED BY <1>3, <1>7, <1>8, <1>9, <1>10, <1>11

(***************************************************************************)
(* The new client is installed while its reconnector has the token; the    *)
(* loops of the old one have been told.                                    *)
(***************************************************************************)
LEMMA InstallStep ==
  ASSUME Inv, PromptStart, NEW r \in Reconnectors, RcInstall(r)
  PROVE  Inv'
<1> USE DEF Inv
<1>1. /\ rc[r].pc = "install" /\ main # "starting"
      /\ rc' = [rc EXCEPT ![r].pc = "spawn"]
      /\ client' = rc[r].sess /\ standalone' = FALSE
      /\ UNCHANGED <<main, isRunning, stopped, closing, reconnecting, link,
                     connStop, rx, hb>>
  BY DEF RcInstall, Goto, rcOthers
<1>2. main \notin {"created", "starting"}
  BY <1>1, EarlyReconnector DEF BeforeRunning
<1>3. /\ rc[r].sess \in Sessions /\ connStop[rc[r].sess] = 0
      /\ client = None \/ connStop[client] > 0
  BY <1>1 DEF ReconnectorInv, Trying
<1>4. /\ \A q \in Reconnectors \ {r} : rc'[q] = rc[q] /\ ~Trying(q)
      /\ rc'[r].pc = "spawn" /\ rc'[r].sess = rc[r].sess
      /\ \A k \in Receivers : ~Receiving(k)
  BY <1>1 DEF OneDriver, Trying, TypeOK
<1>5. TypeOK'
  BY <1>1, <1>3 DEF TypeOK, RcSteps
<1>6. OneDriver' /\ BeforeRunning' /\ ReceiverInv'
  BY <1>1, <1>2, <1>4 DEF OneDriver, BeforeRunning, ReceiverInv, Receiving, Trying
<1>7. ReconnectorInv'
  <2> SUFFICES ASSUME NEW q \in Reconnectors PROVE ReconnectorInv!(q)'
    BY DEF ReconnectorInv
  <2>1. CASE q = r
    BY <1>1, <1>3, <1>4, <2>1
  <2>2. CASE q # r
    BY <1>1, <1>3, <1>4, <2>2, AgentAssumption
    DEF ReconnectorInv, Trying, Reconnectors, Receivers
  <2> QED BY <2>1, <2>2
<1>8. HeartbeatInv' /\ HeartbeatPaired'
  BY <1>1, <1>3, AgentAssumption
  DEF HeartbeatInv, HeartbeatPaired, HbSteps, Reconnectors, Receivers
<1> QED BY <1>5, <1>6, <1>7, <1>8

(***************************************************************************)
(* The reconnector hands the token to the receiver it spawns ...           *)
(***************************************************************************)
LEMMA SpawnRxStep ==
  ASSUME Inv, NEW r \in Reconnectors, RcSpawnRx(r)
  PROVE  Inv'
<1> USE DEF Inv
<1>1. /\ rc[r].pc = "spawn"
      /\ rc' = [rc EXCEPT ![r].pc = "spawnHb"]
      /\ rx' = [rx EXCEPT ![rc[r].sess] = Spawned(rc[r].sess)]
      /\ UNCHANGED <<main, isRunning, stopped, closing, standalone, client,
                     reconnecting, link, connStop, hb>>
  BY DEF RcSpawnRx, Goto, rcOthers
<1>2. /\ rc[r].sess = client /\ client \in Sessions /\ connStop[client] = 0
  BY <1>1 DEF ReconnectorInv
<1>3. main \notin {"created", "starting"}
  BY <1>1, EarlyReconnector DEF BeforeRunning
<1>4. /\ \A q \in Reconnectors \ {r} : rc'[q] = rc[q] /\ ~Trying(q)
      /\ rc'[r].pc = "spawnHb" /\ rc'[r].sess = client
      /\ \A k \in Receivers : ~Receiving(k)
  BY <1>1, <1>2 DEF OneDriver, Trying, TypeOK
<1>5. client \in Receivers
  BY <1>2 DEF Receivers
<1>6. Spawned(client) \in Loops(RxSteps)
  BY <1>2 DEF Spawned, Loops, RxSteps
<1>7. TypeOK'
  BY <1>1, <1>2, <1>6 DEF TypeOK, RcSteps
<1>8. \A k \in Receivers : rx'[k] = IF k = client THEN Spawned(client) ELSE rx[k]
  BY <1>1, <1>2 DEF TypeOK
<1>9. OneDriver' /\ BeforeRunning' /\ ReceiverInv'
  BY <1>1, <1>2, <1>3, <1>4, <1>5, <1>8
  DEF OneDriver, BeforeRunning, ReceiverInv, Receiving, Trying, Spawned
<1>10. ReconnectorInv' /\ HeartbeatInv' /\ HeartbeatPaired'
  BY <1>1, <1>2, <1>4
  DEF ReconnectorInv, HeartbeatInv, HeartbeatPaired, Trying
<1> QED BY <1>7, <1>9, <1>10

(***************************************************************************)
(* ... spawns the heartbeat loop, and ends.                                *)
(***************************************************************************)
LEMMA SpawnHbStep ==
  ASSUME Inv, NEW r \in Reconnectors, RcSpawnHb(r)
  PROVE  Inv'
<1> USE DEF Inv
<1> DEFINE s == rc[r].sess
<1>1. /\ rc[r].pc = "spawnHb"
      /\ rc' = [rc EXCEPT ![r].pc = "exit"]
      /\ hb' = [hb EXCEPT ![s] = Spawned(s)]
      /\ UNCHANGED <<main, isRunning, stopped, closing, standalone, client,
                     reconnecting, link, connStop, rx>>
  BY DEF RcSpawnHb, Goto, rcOthers
<1>2. s \in Sessions /\ (s = client \/ connStop[s] > 0)
  BY <1>1 DEF ReconnectorInv
<1>3. main \notin {"created", "starting"}
  BY <1>1, EarlyReconnector DEF BeforeRunning
<1>4. /\ \A q \in Reconnectors \ {r} : rc'[q] = rc[q]
      /\ rc'[r].pc = "exit"
  BY <1>1 DEF TypeOK
<1>5. s \in Receivers
  BY <1>2 DEF Receivers
<1>6. Spawned(s) \in Loops(HbSteps)
  BY <1>2 DEF Spawned, Loops, HbSteps
<1> HIDE DEF s
<1>7. TypeOK'
  BY <1>1, <1>6 DEF TypeOK, RcSteps
<1>8. \A k \in Receivers : hb'[k] = IF k = s THEN Spawned(s) ELSE hb[k]
  BY <1>1 DEF TypeOK
<1>9. OneDriver' /\ BeforeRunning' /\ ReceiverInv' /\ ReconnectorInv'
  BY <1>1, <1>3, <1>4
  DEF OneDriver, BeforeRunning, ReceiverInv, ReconnectorInv, Receiving, Trying
<1>10. HeartbeatInv' /\ HeartbeatPaired'
  BY <1>1, <1>2, <1>5, <1>8
  DEF HeartbeatInv, HeartbeatPaired, Spawned
<1> QED BY <1>7, <1>9, <1>10

LEMMA ExitStep ==
  ASSUME Inv, NEW r \in Reconnectors, RcExit(r)
  PROVE  Inv'
<1> USE DEF Inv
<1>1. /\ rc' = [rc EXCEPT ![r] = NoRc] /\ reconnecting' = FALSE
      /\ UNCHANGED <<main, isRunning, stopped, closing, standalone, client,
                     link, connStop, rx, hb>>
  BY DEF RcExit, rcOthers
<1>2. \A q \in Reconnectors : rc'[q] = IF q = r THEN NoRc ELSE rc[q]
  BY <1>1 DEF TypeOK
<1>3. NoRc \in [pc : RcSteps, sess : Sessions \cup {None}]
  BY DEF NoRc, RcSteps
<1>4. TypeOK'
  BY <1>1, <1>3 DEF TypeOK
<1>5. OneDriver' /\ ReceiverInv' /\ ReconnectorInv'
  BY <1>1, <1>2
  DEF OneDriver, ReceiverInv, ReconnectorInv, Receiving, Trying, NoRc
<1>6. BeforeRunning'
  BY <1>1, <1>2 DEF BeforeRunning, NoRc, Receivers, Reconnectors
<1>7. HeartbeatInv' /\ HeartbeatPaired'
  BY <1>1 DEF HeartbeatInv, HeartbeatPaired
<1> QED BY <1>4, <1>5, <1>6, <1>7

(***************************************************************************)
(* The invariant holds in every reachable state.                           *)
(***************************************************************************)
THEOREM AgentSafe ==
  ASSUME PromptStart
  PROVE  Spec => []Inv
<1>1. Init => Inv
  <2> SUFFICES ASSUME Init PROVE Inv
    OBVIOUS
  <2>1. TypeOK
    <3>1. NoLoop \in Loops(RxSteps) /\ NoLoop \in Loops(HbSteps)
      BY DEF NoLoop, Loops, RxSteps, HbSteps
    <3>2. /\ NoRc \in [pc : RcSteps, sess : Sessions \cup {None}]
          /\ \A p \in {"none", "wait"} : [NoRc EXCEPT !.pc = p]
               \in [pc : RcSteps, sess : Sessions \cup {None}]
      BY DEF NoRc, RcSteps
    <3>3. rc \in [Reconnectors -> [pc : RcSteps, sess : Sessions \cup {None}]]
      BY <3>2 DEF Init
    <3>4. link \in [Sessions -> {"none", "up", "dead"}]
      BY DEF Init
    <3>5. /\ rx \in [Receivers -> Loops(RxSteps)]
          /\ hb \in [Receivers -> Loops(HbSteps)]
          /\ connStop \in [Sessions -> 0..2]
      BY <3>1 DEF Init
    <3>6. /\ main \in MainSteps /\ client \in Sessions \cup {None}
          /\ standalone \in BOOLEAN
      BY DEF Init, MainSteps
    <3>7. /\ isRunning \in BOOLEAN /\ stopped \in BOOLEAN
          /\ reconnecting \in BOOLEAN /\ closing \in Sessions \cup {None}
      BY DEF Init
    <3> QED BY <3>3, <3>4, <3>5, <3>6, <3>7 DEF TypeOK
  <2>2. \A r \in Reconnectors : r # Ttl => rc[r] = NoRc
    BY DEF Init
  <2>3. Ttl \in Reconnectors
    BY DEF Reconnectors
  <2>4. /\ rc[Ttl].pc \in {"none", "wait"}
        /\ ~standalone => rc[Ttl] = NoRc
    BY <2>3 DEF Init, NoRc
  <2>5. \A k \in Receivers : rx[k] = NoLoop /\ hb[k] = NoLoop
    BY DEF Init
  <2>6. BeforeRunning
    BY <2>2, <2>4, <2>5 DEF Init, BeforeRunning, Receivers, Reconnectors
  <2>7. OneDriver /\ ReceiverInv /\ HeartbeatInv /\ HeartbeatPaired
    BY <2>2, <2>4, <2>5 DEF OneDriver, ReceiverInv, HeartbeatInv,
                            HeartbeatPaired, Receiving, Trying, NoLoop, NoRc
  <2>8. ReconnectorInv
    BY <2>2, <2>4 DEF Init, ReconnectorInv, Trying, NoRc
  <2> QED BY <2>1, <2>6, <2>7, <2>8 DEF Inv
<1>2. Inv /\ [Next]_vars => Inv'
  <2> SUFFICES ASSUME Inv, [Next]_vars PROVE Inv'
    OBVIOUS
  <2>1. CASE UNCHANGED vars
    <3>1. TypeOK'
      BY <2>1 DEF Inv, TypeOK, vars
    <3> QED BY <2>1, <3>1, Elsewhere DEF vars
  <2>2. CASE StartSteps
    BY <2>2, OutsideSteps, StartModeStep DEF StartSteps
  <2>3. CASE TtlExpires
    BY <2>3, ReconnectorSteps DEF Reconnectors
  <2>4. ASSUME NEW r \in Reconnectors, RcStep(r) \/ RcConnect(r)
        PROVE  Inv'
    BY <2>4, ReconnectorSteps, ConnectStep, InstallStep, SpawnRxStep,
       SpawnHbStep, ExitStep DEF RcStep
  <2> QED BY <2>1, <2>2, <2>3, <2>4, OutsideSteps, ReceiverSteps,
             HeartbeatSteps DEF Next
<1> QED BY <1>1, <1>2, PTL DEF Spec

(***************************************************************************)
(* The state of the agent is well typed; no connStop is closed twice.      *)
(***************************************************************************)
THEOREM AgentTypes ==
  ASSUME PromptStart
  PROVE  Spec => []TypeOK
<1>1. Inv => TypeOK
  BY DEF Inv
<1> QED BY <1>1, AgentSafe, PTL

(***************************************************************************)
(* At any time at most one goroutine reads from the master or tries to     *)
(* reach it, through any number of failures and reconnections.             *)
(***************************************************************************)
THEOREM AgentOneDriver ==
  ASSUME PromptStart
  PROVE  Spec => []OneDriver
<1>1. Inv => OneDriver
  BY DEF Inv
<1> QED BY <1>1, AgentSafe, PTL

(***************************************************************************)
(* The receiver and its connStop belong to the same connection.            *)
(***************************************************************************)
THEOREM AgentReceiverPaired ==
  ASSUME PromptStart
  PROVE  Spec => []ReceiverPaired
<1>1. Inv => ReceiverPaired
  BY DEF Inv, ReceiverInv, ReceiverPaired
<1> QED BY <1>1, AgentSafe, PTL

(***************************************************************************)
(* A heartbeat loop that writes to another connection than its own exits.  *)
(***************************************************************************)
THEOREM AgentHeartbeatPaired ==
  ASSUME PromptStart
  PROVE  Spec => []HeartbeatPaired
<1>1. Inv => HeartbeatPaired
  BY DEF Inv
<1> QED BY <1>1, AgentSafe, PTL

-----------------------------------------------------------------------------
(***************************************************************************)
(* Stop closes stopChan after it has cleared isRunning, and Start does not *)
(* set it again.                                                           *)
(***************************************************************************)
StopOrder ==
  /\ stopped => main \in {"stop", "close", "stopped"}
  /\ main \in {"stopChan", "stop", "close", "stopped"} => ~isRunning

LEMMA StopOrderKept == StopOrder /\ [Next]_vars => StopOrder'
<1> SUFFICES ASSUME StopOrder, [Next]_vars PROVE StopOrder'
  OBVIOUS
<1>1. CASE StartSteps \/ StopFlag \/ StopSteps
  BY <1>1 DEF StopOrder, StartSteps, StartFlag, StartMode, StopFlag, StopSteps,
              StopChan, StopCapture, StopClose, stopOthers
<1>2. CASE UNCHANGED <<main, stopped, isRunning>>
  BY <1>2 DEF StopOrder
<1>3. ASSUME NEW r \in Reconnectors, RcStep(r) \/ RcConnect(r)
      PROVE  UNCHANGED <<main, stopped, isRunning>>
  BY <1>3 DEF RcStep, RcConnect, RcCas, RcLoop, RcFail, RcRetry, RcInstall,
              RcSpawnRx, RcSpawnHb, RcExit, rcOthers
<1>4. ASSUME NEW k \in Receivers, RxStep(k) \/ HbStep(k)
      PROVE  UNCHANGED <<main, stopped, isRunning>>
  BY <1>4 DEF RxStep, RxCapture, RxCheck, RxRead, RxError, rxOthers,
              HbStep, HbCapture, HbExit, hbOthers
<1> QED BY <1>1, <1>2, <1>3, <1>4
        DEF Next, vars, TtlExpires, Lose, rcOthers

(* Whoever drives the connection goes on or hands it over. *)
HandsOver ==
  /\ \A k \in Receivers : Receiving(k) => Drives'
  /\ \A r \in Reconnectors : Trying(r) => Drives'

LEMMA StepHandsOver ==
  ASSUME Inv, StopOrder, [Next]_vars, isRunning,
         ~\E r \in Reconnectors : rc[r].pc = "cas" /\ reconnecting
  PROVE  HandsOver
<1>0. /\ rx \in [Receivers -> Loops(RxSteps)]
      /\ rc \in [Reconnectors -> [pc : RcSteps, sess : Sessions \cup {None}]]
      /\ ~stopped
  BY DEF Inv, TypeOK, StopOrder
<1>1. CASE UNCHANGED <<rx, rc>>
  BY <1>1 DEF HandsOver, Drives, Receiving, Trying
<1>2. CASE StartSteps
  <2>1. rc' = rc /\ (rx' = rx \/ rx' = [rx EXCEPT ![Main] = Spawned(client)])
    BY <1>2 DEF StartSteps, StartFlag, StartMode
  <2>2. Main \in Receivers /\ Spawned(client).pc = "capture"
    BY DEF Receivers, Spawned
  <2>3. CASE rx' = [rx EXCEPT ![Main] = Spawned(client)]
    <3>1. Receiving(Main)'
      BY <1>0, <2>2, <2>3 DEF Receiving
    <3> QED BY <2>2, <3>1 DEF HandsOver, Drives
  <2> QED BY <1>1, <2>1, <2>3
<1>3. ASSUME NEW k \in Receivers, RxStep(k)
      PROVE  HandsOver
  <2>1. /\ \A l \in Receivers \ {k} : rx'[l] = rx[l]
        /\ k \in Reconnectors
    BY <1>0, <1>3 DEF RxStep, RxCapture, RxCheck, RxRead, RxError, Reconnectors
  <2>2. CASE RxError(k)
    <3>1. rc' = [rc EXCEPT ![k] = [pc |-> "cas", sess |-> None]]
      BY <2>2 DEF RxError
    <3>2. rc'[k].pc = "cas"
      BY <1>0, <2>1, <3>1
    <3> QED BY <2>1, <3>2 DEF HandsOver, Drives, Trying
  <2>3. CASE RxCapture(k) \/ RxCheck(k) \/ RxRead(k)
    <3>1. rc' = rc
      BY <2>3 DEF RxCapture, RxCheck, RxRead
    <3>2. rx'[k].pc \in {"check", "read", "err"}
      <4> rx[k] \in [pc : RxSteps, stop : Sessions \cup {None},
                     client : Sessions \cup {None}]
        BY <1>0 DEF Loops
      <4>1. CASE RxCapture(k)
        BY <1>0, <4>1 DEF RxCapture
      <4>2. CASE RxCheck(k)
        BY <1>0, <4>2 DEF RxCheck
      <4>3. CASE RxRead(k)
        BY <1>0, <4>3 DEF RxRead
      <4> QED BY <2>3, <4>1, <4>2, <4>3
    <3> QED BY <3>2 DEF HandsOver, Drives, Receiving
  <2> QED BY <1>3, <2>2, <2>3 DEF RxStep
<1>4. ASSUME NEW r \in Reconnectors, UNCHANGED rx,
             \A q \in Reconnectors \ {r} : rc'[q] = rc[q],
             Trying(r) => Trying(r)'
      PROVE  HandsOver
  BY <1>4 DEF HandsOver, Drives, Receiving, Trying
<1>5. ASSUME NEW r \in Reconnectors, NEW p, Goto(r, p)
      PROVE  /\ \A q \in Reconnectors \ {r} : rc'[q] = rc[q]
             /\ rc'[r].pc = p
  BY <1>0, <1>5 DEF Goto
<1>6. CASE TtlExpires
  <2>1. Ttl \in Reconnectors
    BY DEF Reconnectors
  <2>2. Goto(Ttl, "cas") /\ UNCHANGED rx
    BY <1>0, <1>6 DEF TtlExpires
  <2>3. rc'[Ttl].pc = "cas" /\ \A q \in Reconnectors \ {Ttl} : rc'[q] = rc[q]
    BY <1>5, <2>1, <2>2
  <2> QED BY <1>4, <2>1, <2>2, <2>3 DEF Trying
<1>7. ASSUME NEW r \in Reconnectors,
             RcCas(r) \/ RcLoop(r) \/ RcFail(r) \/ RcRetry(r) \/ RcInstall(r)
      PROVE  HandsOver
  <2>1. PICK p \in {"loop", "dial", "retry", "spawn"} : Goto(r, p)
    BY <1>0, <1>7 DEF RcCas, RcLoop, RcFail, RcRetry, RcInstall
  <2>2. UNCHANGED rx
    BY <1>7 DEF RcCas, RcLoop, RcFail, RcRetry, RcInstall
  <2>3. rc'[r].pc = p /\ \A q \in Reconnectors \ {r} : rc'[q] = rc[q]
    BY <1>5, <2>1
  <2> QED BY <1>4, <2>2, <2>3 DEF Trying
<1>8. ASSUME NEW r \in Reconnectors, RcConnect(r)
      PROVE  HandsOver
  <2>1. PICK s \in Sessions :
          rc' = [rc EXCEPT ![r] = [pc |-> "install", sess |-> s]]
    BY <1>8 DEF RcConnect
  <2>2. /\ rc'[r].pc = "install" /\ \A q \in Reconnectors \ {r} : rc'[q] = rc[q]
        /\ UNCHANGED rx
    BY <1>0, <1>8, <2>1 DEF RcConnect
  <2> QED BY <1>4, <2>2 DEF Trying
<1>9. ASSUME NEW r \in Reconnectors, RcSpawnRx(r)
      PROVE  HandsOver
  <2>1. rc[r].sess \in Sessions
    BY <1>9 DEF RcSpawnRx, Inv, ReconnectorInv
  <2>2. rc[r].sess \in Receivers /\ Spawned(rc[r].sess).pc = "capture"
    BY <2>1 DEF Receivers, Spawned
  <2>3. rx'[rc[r].sess].pc = "capture"
    BY <1>0, <1>9, <2>2 DEF RcSpawnRx
  <2> QED BY <2>2, <2>3 DEF HandsOver, Drives, Receiving
<1>10. ASSUME NEW r \in Reconnectors, RcSpawnHb(r) \/ RcExit(r)
       PROVE  HandsOver
  <2>1. /\ UNCHANGED rx /\ ~Trying(r)
        /\ \A q \in Reconnectors \ {r} : rc'[q] = rc[q]
    BY <1>0, <1>10 DEF RcSpawnHb, RcExit, Goto, Trying
  <2> QED BY <1>4, <2>1
<1>11. CASE \/ UNCHANGED vars \/ StopFlag \/ StopSteps
            \/ \E s \in Sessions : Lose(s)
            \/ \E k \in Receivers : HbStep(k)
  BY <1>1, <1>11 DEF vars, StopFlag, StopSteps, StopChan, StopCapture,
                     StopClose, stopOthers, Lose, HbStep, HbCapture, HbExit,
                     hbOthers
<1> QED BY <1>2, <1>3, <1>6, <1>7, <1>8, <1>9, <1>10, <1>11 DEF Next, RcStep

(***************************************************************************)
(* A running agent stops driving its connection only by the collision of   *)
(* two reconnectors, never because a reconnection failed or succeeded.     *)
(***************************************************************************)
THEOREM AgentGivesUpOnCollision ==
  ASSUME PromptStart
  PROVE  Spec => GivesUpOnCollision
<1>1. Init => StopOrder
  BY DEF Init, StopOrder
<1>2. Inv /\ StopOrder /\ [Next]_vars
        => [GivesUp => \E r \in Reconnectors :
                         rc[r].pc = "cas" /\ reconnecting]_vars
  BY StepHandsOver DEF HandsOver, GivesUp, Drives
<1> QED BY <1>1, <1>2, StopOrderKept, AgentSafe, PTL
        DEF Spec, GivesUpOnCollision
=============================================================================
