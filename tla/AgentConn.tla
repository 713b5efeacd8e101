------------------------------ MODULE AgentConn ------------------------------
(***************************************************************************)
(* How an agent keeps its connection to the master (Agent of cmd/agent.go).*)
(*                                                                         *)
(* Start spawns, in connected mode, a receiver (receiveMessages) and a     *)
(* heartbeat loop for the connection NewAgent registered.  A receiver      *)
(* whose read fails spawns a reconnector (reconnectToMaster), which dials  *)
(* until it has registered again and spawns the next receiver and          *)
(* heartbeat loop.  In standalone mode the TTL goroutine, started before   *)
(* Start, becomes a reconnector when the TTL expires.  Stop ends them all. *)
(*                                                                         *)
(* A session is one registered connection with its connStop channel.  The  *)
(* receiver, heartbeat loop and reconnector are named by the session they  *)
(* were spawned for; those Start spawns are named Main.                    *)
(***************************************************************************)
EXTENDS Naturals

CONSTANTS
  Sessions,     \* a session may be used again when nothing refers to it
  None,         \* no session
  Main,         \* the goroutines Start spawns
  Ttl,          \* the goroutine newStandaloneAgent spawns
  PromptStart   \* no dial completes between two statements of Start

Receivers == Sessions \cup {Main}
Reconnectors == Receivers \cup {Ttl}

ASSUME AgentAssumption ==
  /\ None \notin Reconnectors
  /\ Main \notin Sessions /\ Ttl \notin Receivers
  /\ PromptStart \in BOOLEAN

VARIABLES
  main,          \* Start and Stop: see MainSteps
  isRunning,
  stopped,       \* stopChan is closed
  standalone,
  client,        \* a.client and a.connStop: the session last installed
  closing,       \* the client Stop has read and will close
  reconnecting,  \* the flag of reconnectToMaster
  link,          \* state of each session's socket: "none", "up", "dead"
  connStop,      \* how often the connStop of a session was closed
  rx,            \* receivers: program counter, connStop, client
  hb,            \* heartbeat loops: the same
  rc             \* reconnectors: program counter, session registered

vars == <<main, isRunning, stopped, standalone, client, closing,
          reconnecting, link, connStop, rx, hb, rc>>

MainSteps == {"created", "starting", "running",
              "stop", "stopChan", "close", "stopped"}
RxSteps == {"none", "capture", "check", "read", "err"}
HbSteps == {"none", "capture", "run"}
RcSteps == {"none", "wait", "cas", "loop", "dial", "retry", "install",
            "spawn", "spawnHb", "exit"}

(* pc = "none": no such goroutine, not yet or not any more. *)
NoLoop == [pc |-> "none", stop |-> None, client |-> None]
Spawned(s) == [pc |-> "capture", stop |-> s, client |-> None]
NoRc == [pc |-> "none", sess |-> None]

-----------------------------------------------------------------------------
(* NewAgent has registered a first session, or newStandaloneAgent has read *)
(* instructions.conf and, if it has a TTL, spawned ttlReconnectLoop.       *)
Init ==
  /\ main = "created" /\ isRunning = FALSE /\ stopped = FALSE
  /\ closing = None /\ reconnecting = FALSE
  /\ connStop = [s \in Sessions |-> 0]
  /\ rx = [k \in Receivers |-> NoLoop]
  /\ hb = [k \in Receivers |-> NoLoop]
  /\ \/ /\ standalone = FALSE
        /\ client \in Sessions
        /\ link = [s \in Sessions |-> IF s = client THEN "up" ELSE "none"]
        /\ rc = [r \in Reconnectors |-> NoRc]
     \/ /\ standalone = TRUE
        /\ client = None
        /\ link = [s \in Sessions |-> "none"]
        /\ \E p \in {"none", "wait"} :
             rc = [r \in Reconnectors |->
                     IF r = Ttl THEN [NoRc EXCEPT !.pc = p] ELSE NoRc]

-----------------------------------------------------------------------------
(* Start. *)

StartFlag ==
  /\ main = "created"
  /\ main' = "starting" /\ isRunning' = TRUE
  /\ UNCHANGED <<stopped, standalone, client, closing, reconnecting, link,
                 connStop, rx, hb, rc>>

(* standalone is read without the lock. *)
StartMode ==
  /\ main = "starting"
  /\ main' = "running"
  /\ IF standalone THEN UNCHANGED <<rx, hb>>
     ELSE /\ rx' = [rx EXCEPT ![Main] = Spawned(client)]
          /\ hb' = [hb EXCEPT ![Main] = Spawned(client)]
  /\ UNCHANGED <<isRunning, stopped, standalone, client, closing,
                 reconnecting, link, connStop, rc>>

(* The peer, the network or the idle deadline ends a connection. *)
Lose(s) ==
  /\ link[s] = "up"
  /\ link' = [link EXCEPT ![s] = "dead"]
  /\ UNCHANGED <<main, isRunning, stopped, standalone, client, closing,
                 reconnecting, connStop, rx, hb, rc>>

-----------------------------------------------------------------------------
(* receiveMessages, goroutine k. *)

rxOthers == <<main, stopped, standalone, client, closing, reconnecting, hb>>

RxCapture(k) ==
  /\ rx[k].pc = "capture"
  /\ rx' = [rx EXCEPT ![k].pc = "check", ![k].client = client]
  /\ UNCHANGED <<rxOthers, isRunning, link, connStop, rc>>

RxCheckMutant(k) ==
  /\ rx[k].pc = "check"
  /\ rx' = [rx EXCEPT ![k].pc = "read"]
  /\ UNCHANGED <<rxOthers, isRunning, link, connStop, rc>>
RxCheck(k) ==
  /\ rx[k].pc = "check"
  /\ rx' = [rx EXCEPT ![k] = IF isRunning THEN [@ EXCEPT !.pc = "read"]
                                          ELSE NoLoop]
  /\ UNCHANGED <<rxOthers, isRunning, link, connStop, rc>>

(* A message is read and handled, or the read fails. *)
RxReadMutant(k) ==
  /\ rx[k].pc = "read" /\ link[rx[k].client] = "up"
  /\ rx' = [rx EXCEPT ![k].pc = "check"]
  /\ UNCHANGED <<rxOthers, isRunning, link, connStop, rc>>
RxRead(k) ==
  /\ rx[k].pc = "read"
  /\ rx' = [rx EXCEPT ![k].pc =
              IF link[rx[k].client] = "up" THEN "check" ELSE "err"]
  /\ UNCHANGED <<rxOthers, isRunning, link, connStop, rc>>

(* close(connStop); unless the agent shuts down, the client is closed and *)
(* a reconnector spawned.                                                 *)
RxErrorNoClose(k) ==
  /\ rx[k].pc = "err"
  /\ rx' = [rx EXCEPT ![k] = NoLoop]
  /\ IF isRunning
     THEN /\ link' = [link EXCEPT ![rx[k].client] = "dead"]
          /\ rc' = [rc EXCEPT ![k] = [pc |-> "cas", sess |-> None]]
     ELSE UNCHANGED <<link, rc>>
  /\ UNCHANGED <<rxOthers, isRunning, connStop>>
RxErrorNoReturn(k) ==
  /\ rx[k].pc = "err"
  /\ connStop' = [connStop EXCEPT ![rx[k].stop] = @ + 1]
  /\ rx' = [rx EXCEPT ![k].pc = "check"]
  /\ IF isRunning
     THEN /\ link' = [link EXCEPT ![rx[k].client] = "dead"]
          /\ rc' = [rc EXCEPT ![k] = [pc |-> "cas", sess |-> None]]
     ELSE UNCHANGED <<link, rc>>
  /\ UNCHANGED <<rxOthers, isRunning>>
RxError(k) ==
  /\ rx[k].pc = "err"
  /\ connStop' = [connStop EXCEPT ![rx[k].stop] = @ + 1]
  /\ rx' = [rx EXCEPT ![k] = NoLoop]
  /\ IF isRunning
     THEN /\ link' = [link EXCEPT ![rx[k].client] = "dead"]
          /\ rc' = [rc EXCEPT ![k] = [pc |-> "cas", sess |-> None]]
     ELSE UNCHANGED <<link, rc>>
  /\ UNCHANGED <<rxOthers, isRunning>>

-----------------------------------------------------------------------------
(* sendHeartbeatLoop, goroutine k.  A heartbeat changes nothing here. *)

hbOthers == <<main, isRunning, stopped, standalone, client, closing,
              reconnecting, link, connStop, rx, rc>>

HbCapture(k) ==
  /\ hb[k].pc = "capture"
  /\ hb' = [hb EXCEPT ![k].pc = "run", ![k].client = client]
  /\ UNCHANGED hbOthers

HbExit(k) ==
  /\ hb[k].pc = "run"
  /\ ~isRunning \/ stopped \/ connStop[hb[k].stop] > 0
  /\ hb' = [hb EXCEPT ![k] = NoLoop]
  /\ UNCHANGED hbOthers

-----------------------------------------------------------------------------
(* reconnectToMaster, goroutine r. *)

rcOthers == <<main, isRunning, stopped, closing>>
Goto(r, pc) == rc' = [rc EXCEPT ![r].pc = pc]

(* ttlReconnectLoop: the TTL expires (it may have long ago), or stopChan. *)
TtlExpires ==
  /\ rc[Ttl].pc = "wait"
  /\ Goto(Ttl, IF stopped THEN "none" ELSE "cas") \/ Goto(Ttl, "cas")
  /\ UNCHANGED <<rcOthers, standalone, client, reconnecting, link, connStop,
                 rx, hb>>

(* CompareAndSwap(&reconnecting, 0, 1). *)
RcCas(r) ==
  /\ rc[r].pc = "cas"
  /\ reconnecting' = TRUE
  /\ Goto(r, IF reconnecting THEN "none" ELSE "loop")
  /\ UNCHANGED <<rcOthers, standalone, client, link, connStop, rx, hb>>

RcLoop(r) ==
  /\ rc[r].pc = "loop"
  /\ Goto(r, IF isRunning THEN "dial" ELSE "exit")
  /\ UNCHANGED <<rcOthers, standalone, client, reconnecting, link, connStop,
                 rx, hb>>

(* Nothing refers to session s any more. *)
Free(s) ==
  /\ link[s] # "up" /\ client # s
  /\ \A k \in Receivers : rx[k].stop # s /\ hb[k].stop # s
  /\ rx[s].pc = "none" /\ hb[s].pc = "none" /\ rc[s].pc = "none"
  /\ \A r \in Reconnectors : rc[r].sess # s

(* NewAgentClient and Register succeed, on a session with a new connStop. *)
RcConnect(r) ==
  /\ rc[r].pc = "dial"
  /\ \E s \in Sessions :
       /\ Free(s)
       /\ rc' = [rc EXCEPT ![r] = [pc |-> "install", sess |-> s]]
       /\ link' = [link EXCEPT ![s] = "up"]
       /\ connStop' = [connStop EXCEPT ![s] = 0]
  /\ UNCHANGED <<rcOthers, standalone, client, reconnecting, rx, hb>>

(* One of them fails. *)
RcFail(r) ==
  /\ rc[r].pc = "dial"
  /\ Goto(r, "retry")
  /\ UNCHANGED <<rcOthers, standalone, client, reconnecting, link, connStop,
                 rx, hb>>

(* After the delay, or at once when stopChan is closed. *)
RcRetryMutant(r) ==
  /\ rc[r].pc = "retry"
  /\ Goto(r, "exit")
  /\ UNCHANGED <<rcOthers, standalone, client, reconnecting, link, connStop,
                 rx, hb>>
RcRetry(r) ==
  /\ rc[r].pc = "retry"
  /\ Goto(r, "loop") \/ (stopped /\ Goto(r, "exit"))
  /\ UNCHANGED <<rcOthers, standalone, client, reconnecting, link, connStop,
                 rx, hb>>

RcInstallMutant(r) ==
  /\ rc[r].pc = "install"
  /\ PromptStart => main # "starting"
  /\ Goto(r, "spawn")
  /\ standalone' = FALSE
  /\ UNCHANGED <<rcOthers, client, reconnecting, link, connStop, rx, hb>>
RcInstall(r) ==
  /\ rc[r].pc = "install"
  /\ PromptStart => main # "starting"
  /\ Goto(r, "spawn")
  /\ client' = rc[r].sess
  /\ standalone' = FALSE
  /\ UNCHANGED <<rcOthers, reconnecting, link, connStop, rx, hb>>

RcSpawnRx(r) ==
  /\ rc[r].pc = "spawn"
  /\ Goto(r, "spawnHb")
  /\ rx' = [rx EXCEPT ![rc[r].sess] = Spawned(rc[r].sess)]
  /\ UNCHANGED <<rcOthers, standalone, client, reconnecting, link, connStop,
                 hb>>

RcSpawnHb(r) ==
  /\ rc[r].pc = "spawnHb"
  /\ Goto(r, "exit")
  /\ hb' = [hb EXCEPT ![rc[r].sess] = Spawned(rc[r].sess)]
  /\ UNCHANGED <<rcOthers, standalone, client, reconnecting, link, connStop,
                 rx>>

(* The deferred StoreInt32(&reconnecting, 0). *)
RcExit(r) ==
  /\ rc[r].pc = "exit"
  /\ rc' = [rc EXCEPT ![r] = NoRc]
  /\ reconnecting' = FALSE
  /\ UNCHANGED <<rcOthers, standalone, client, link, connStop, rx, hb>>

-----------------------------------------------------------------------------
(* Stop, called by Start when a signal arrives. *)

stopOthers == <<standalone, client, reconnecting, connStop, rx, hb, rc>>

StopFlag ==
  /\ main = "running"
  /\ main' = "stopChan" /\ isRunning' = FALSE
  /\ UNCHANGED <<stopOthers, stopped, closing, link>>

StopChan ==
  /\ main = "stopChan"
  /\ main' = "stop" /\ stopped' = TRUE
  /\ UNCHANGED <<stopOthers, isRunning, closing, link>>

(* The client is read under the lock ... *)
StopCapture ==
  /\ main = "stop"
  /\ main' = "close" /\ closing' = client
  /\ UNCHANGED <<stopOthers, isRunning, stopped, link>>

(* ... and closed outside it. *)
StopClose ==
  /\ main = "close"
  /\ main' = "stopped" /\ closing' = None
  /\ link' = IF closing = None THEN link ELSE [link EXCEPT ![closing] = "dead"]
  /\ UNCHANGED <<stopOthers, isRunning, stopped>>

-----------------------------------------------------------------------------
StartSteps == StartFlag \/ StartMode
StopSteps == StopChan \/ StopCapture \/ StopClose
RxStep(k) == RxCapture(k) \/ RxCheck(k) \/ RxRead(k) \/ RxError(k)
HbStep(k) == HbCapture(k) \/ HbExit(k)
RcStep(r) == \/ RcCas(r) \/ RcLoop(r) \/ RcFail(r) \/ RcRetry(r)
             \/ RcInstall(r) \/ RcSpawnRx(r) \/ RcSpawnHb(r) \/ RcExit(r)

Next == \/ StartSteps \/ StopFlag \/ StopSteps \/ TtlExpires
        \/ \E s \in Sessions : Lose(s)
        \/ \E k \in Receivers : RxStep(k) \/ HbStep(k)
        \/ \E r \in Reconnectors : RcStep(r) \/ RcConnect(r)

Spec == Init /\ [][Next]_vars

(***************************************************************************)
(* Every goroutine that can run is run.  The master is up again and again, *)
(* so an agent that keeps dialling connects: strong fairness of RcConnect. *)
(* Nothing is assumed of messages, signals and lost connections.           *)
(***************************************************************************)
Fairness ==
  /\ WF_vars(StartSteps) /\ WF_vars(StopSteps) /\ WF_vars(TtlExpires)
  /\ \A k \in Receivers : WF_vars(RxStep(k)) /\ WF_vars(HbStep(k))
  /\ \A r \in Reconnectors : WF_vars(RcStep(r)) /\ SF_vars(RcConnect(r))

FairSpec == Spec /\ Fairness

-----------------------------------------------------------------------------
Loops(steps) == [pc : steps, stop : Sessions \cup {None},
                 client : Sessions \cup {None}]

(* The types of the agent's state; a connStop closed twice is a panic. *)
TypeOK ==
  /\ main \in MainSteps
  /\ isRunning \in BOOLEAN /\ stopped \in BOOLEAN
  /\ standalone \in BOOLEAN /\ reconnecting \in BOOLEAN
  /\ client \in Sessions \cup {None} /\ closing \in Sessions \cup {None}
  /\ link \in [Sessions -> {"none", "up", "dead"}]
  /\ connStop \in [Sessions -> 0..2]
  /\ rx \in [Receivers -> Loops(RxSteps)]
  /\ hb \in [Receivers -> Loops(HbSteps)]
  /\ rc \in [Reconnectors -> [pc : RcSteps, sess : Sessions \cup {None}]]

(* A receiver that is alive, a reconnector that may still make one. *)
Receiving(k) == rx[k].pc \in {"capture", "check", "read", "err"}
Trying(r) == rc[r].pc \in {"wait", "cas", "loop", "dial", "retry",
                           "install", "spawn"}

(***************************************************************************)
(* One goroutine at a time drives the connection: two receivers would read *)
(* alternate messages of the master, a receiver next to a reconnector      *)
(* would end with two registrations under one agent ID.                    *)
(***************************************************************************)
OneDriver ==
  /\ \A k, l \in Receivers : Receiving(k) /\ Receiving(l) => k = l
  /\ \A q, r \in Reconnectors : Trying(q) /\ Trying(r) => q = r
  /\ \A k \in Receivers, r \in Reconnectors : ~(Receiving(k) /\ Trying(r))

(***************************************************************************)
(* receiveMessages captures the client after it was spawned; it is the     *)
(* client of its own session, whose connStop is still open, so that a      *)
(* failed read closes the right channel, and closes it once.               *)
(***************************************************************************)
ReceiverPaired ==
  \A k \in Receivers :
    /\ Receiving(k) => connStop[rx[k].stop] = 0
    /\ Receiving(k) /\ rx[k].pc # "capture" => rx[k].client = rx[k].stop

(***************************************************************************)
(* A heartbeat loop scheduled late may capture the client of a newer       *)
(* session.  Then its own connStop is closed already, and it exits.        *)
(***************************************************************************)
HeartbeatPaired ==
  \A k \in Receivers :
    hb[k].pc = "run" /\ hb[k].client # hb[k].stop => connStop[hb[k].stop] > 0

Drives == \/ \E k \in Receivers : Receiving(k)
          \/ \E r \in Reconnectors : Trying(r)

(***************************************************************************)
(* While the agent runs it stops driving its connection for two reasons    *)
(* only: the reconnector finds the flag of another one still set, or the   *)
(* TTL goroutine ran before Start.                                         *)
(***************************************************************************)
GivesUp == Drives /\ ~Drives' /\ isRunning
GivesUpOnCollision ==
  [][GivesUp => \E r \in Reconnectors : rc[r].pc = "cas" /\ reconnecting]_vars

Up == \E s \in Sessions : link[s] = "up"

(* A running agent that is still driven is connected again, unless it *)
(* collides or is stopped.                                            *)
DrivenAgentReconnects ==
  (main = "running" /\ Drives) ~> (Up \/ ~Drives \/ main # "running")

(* Stop ends every goroutine, whatever it interrupts. *)
StopEndsAll ==
  (main = "stopChan") ~>
    /\ main = "stopped"
    /\ \A k \in Receivers : rx[k].pc = "none" /\ hb[k].pc = "none"
    /\ \A r \in Reconnectors : rc[r].pc = "none"
=============================================================================
