------------------------------ MODULE DiskProofs ------------------------------
(***************************************************************************)
(* What the program leaves on disk: proofs about Restart (the files of the *)
(* agent and the registry of the master, over any number of crashes and    *)
(* restarts, for every set of settings, rules and agents) and about Logger *)
(* (for every number of files and lines).                                  *)
(***************************************************************************)
EXTENDS Restart, Logger, TLAPS

(***************************************************************************)
(* The files of the agent and the registry.                                *)
(***************************************************************************)
(* agents.json against the records, and the records against the history. *)
RecordsKept ==
  /\ FileFollowsRecords /\ FirstSeenPreserved /\ RefusedOnlyAfterHarm
  /\ ~harmed /\ ~dirty => master # "refused" /\ json # Empty
  /\ ~harmed /\ master = "up" => \A a \in seen : records[a] # Never
  /\ ~harmed /\ ~dirty => IF json = Missing THEN seen = {}
                          ELSE /\ json \in Book
                               /\ \A a \in seen : json[a] # Never
                               /\ \A a \in Agents : json[a] # Never => json[a].first
  /\ dirty => master = "up"

(* A process that runs was started, and what it needs stays on disk. *)
Startable ==
  /\ agent # "down" => ended = "no"
  /\ seasoned => /\ conf \in Settings /\ instr \in Sets
                 /\ ended = "no" \/ (ended = "weak" /\ Loaded[conf] \notin Strong)

Restartable == RestartTypeOK /\ RecordsKept /\ Startable

-----------------------------------------------------------------------------
(* The registry alone. *)
LEMMA RegistryKept ==
  ASSUME RegistryTypeOK, RecordsKept, Self \in Agents,
         \/ RegistryStep \/ Upsert(Self) \/ SetOffline(Self)
         \/ UNCHANGED registryVars
  PROVE  RegistryTypeOK' /\ RecordsKept'
<1> USE RegistryAssumption
<1> USE DEF RegistryTypeOK, RecordsKept, FileFollowsRecords, FirstSeenPreserved,
            RefusedOnlyAfterHarm, Book, Blank
<1>1. CASE New
  BY <1>1 DEF New
<1>2. CASE OpenJson
  BY <1>2 DEF OpenJson
<1>3. CASE WriteJson
  BY <1>3 DEF WriteJson
<1>4. CASE MasterCrash
  BY <1>4 DEF MasterCrash
<1>5. CASE Repair
  BY <1>5 DEF Repair
<1>6. CASE Upsert(Self)
  <2> DEFINE new == [status |-> "online",
                     first |-> IF records[Self] = Never THEN Self \notin seen
                               ELSE records[Self].first]
  <2>1. /\ records' = [records EXCEPT ![Self] = new] /\ seen' = seen \cup {Self}
        /\ dirty' = TRUE /\ saving' = "open" /\ UNCHANGED <<json, master, harmed>>
        /\ master = "up"
    BY <1>6 DEF Upsert
  <2>2. new \in Record
    BY DEF Record
  <2>3. ~harmed => new.first
    <3>1. CASE records[Self] = Never
      BY <2>1, <3>1
    <3>2. CASE records[Self] # Never
      <4>1. ~harmed => records[Self].first
        BY <3>2
      <4> QED BY <3>2, <4>1
    <3> QED BY <3>1, <3>2
  <2> HIDE DEF new
  <2>4. records' \in Book /\ \A a \in Agents : records'[a] =
                          IF a = Self THEN new ELSE records[a]
    BY <2>1, <2>2
  <2>5. RegistryTypeOK'
    BY <2>1, <2>4
  <2>6. FirstSeenPreserved'
    BY <2>1, <2>3, <2>4
  <2>7. ~harmed => \A a \in seen' : records'[a] # Never
    BY <2>1, <2>2, <2>4
  <2> QED BY <2>1, <2>5, <2>6, <2>7
<1>7. CASE SetOffline(Self)
  BY <1>7 DEF SetOffline, Record
<1>8. CASE UNCHANGED registryVars
  BY <1>8 DEF registryVars
<1> QED BY <1>1, <1>2, <1>3, <1>4, <1>5, <1>6, <1>7, <1>8 DEF RegistryStep, SaveStep

-----------------------------------------------------------------------------
(* The two files of the agent.  What keeps SaveTypeOK is a step of the     *)
(* abstract file as well.                                                  *)
LEMMA ConfStep ==
  ASSUME Conf!SaveTypeOK,
         \/ \E s \in Settings : Conf!BeginSave(s)
         \/ Conf!SaveStep \/ Conf!EndProcess \/ UNCHANGED confVars
  PROVE  Conf!SaveTypeOK' /\ [Conf!Atomic!NextFile]_<<conf, confJob.value>>
<1> USE StartAssumption
<1> USE DEF Conf!SaveTypeOK, Conf!Steps, Conf!Idle
<1>1. CASE \E s \in Settings : Conf!BeginSave(s)
  BY <1>1 DEF Conf!BeginSave, Conf!Atomic!NextFile, Conf!Atomic!Begin
<1>2. CASE Conf!CreateTmp
  BY <1>2 DEF Conf!CreateTmp, Conf!Atomic!NextFile, Conf!Atomic!Abandon
<1>3. CASE Conf!WriteTmp
  BY <1>3 DEF Conf!WriteTmp, Conf!Atomic!NextFile, Conf!Atomic!Abandon
<1>4. CASE Conf!RenameTmp
  BY <1>4 DEF Conf!RenameTmp, Conf!Atomic!NextFile, Conf!Atomic!Abandon, Conf!Atomic!Commit
<1>5. CASE Conf!EndProcess
  BY <1>5 DEF Conf!EndProcess, Conf!Atomic!NextFile, Conf!Atomic!Abandon
<1>6. CASE UNCHANGED confVars
  BY <1>6 DEF confVars
<1> QED BY <1>1, <1>2, <1>3, <1>4, <1>5, <1>6 DEF Conf!SaveStep

LEMMA InstrStep ==
  ASSUME Instr!SaveTypeOK,
         \/ \E r \in Sets : Instr!BeginSave(r)
         \/ Instr!SaveStep \/ Instr!EndProcess \/ UNCHANGED instrVars
  PROVE  Instr!SaveTypeOK' /\ [Instr!Atomic!NextFile]_<<instr, instrJob.value>>
<1> USE StartAssumption
<1> USE DEF Instr!SaveTypeOK, Instr!Steps, Instr!Idle
<1>1. CASE \E r \in Sets : Instr!BeginSave(r)
  BY <1>1 DEF Instr!BeginSave, Instr!Atomic!NextFile, Instr!Atomic!Begin
<1>2. CASE Instr!CreateTmp
  BY <1>2 DEF Instr!CreateTmp, Instr!Atomic!NextFile, Instr!Atomic!Abandon
<1>3. CASE Instr!WriteTmp
  BY <1>3 DEF Instr!WriteTmp, Instr!Atomic!NextFile, Instr!Atomic!Abandon
<1>4. CASE Instr!RenameTmp
  BY <1>4 DEF Instr!RenameTmp, Instr!Atomic!NextFile, Instr!Atomic!Abandon,
              Instr!Atomic!Commit
<1>5. CASE Instr!EndProcess
  BY <1>5 DEF Instr!EndProcess, Instr!Atomic!NextFile, Instr!Atomic!Abandon
<1>6. CASE UNCHANGED instrVars
  BY <1>6 DEF instrVars
<1> QED BY <1>1, <1>2, <1>3, <1>4, <1>5, <1>6 DEF Instr!SaveStep

-----------------------------------------------------------------------------
(* What every step of the whole does to each of the files. *)
LEMMA FileSteps ==
  ASSUME StartTypeOK, [RestartNext]_restartVars
  PROVE  /\ \/ \E s \in Settings : Conf!BeginSave(s)
            \/ Conf!SaveStep \/ Conf!EndProcess \/ UNCHANGED confVars
         /\ \/ \E r \in Sets : Instr!BeginSave(r)
            \/ Instr!SaveStep \/ Instr!EndProcess \/ UNCHANGED instrVars
         /\ \/ RegistryStep \/ Upsert(Self) \/ SetOffline(Self)
            \/ UNCHANGED registryVars
<1>1. CASE Joins
  BY <1>1 DEF Joins, NewAgent, Rejoin
<1>2. CASE Leaves
  BY <1>2 DEF Leaves, LoseMaster, AgentCrash
<1>3. CASE Updated
  BY <1>3 DEF Updated, ConfigUpdate
<1>4. CASE AgentStep
  BY <1>4 DEF AgentStep, StartStep, StartWithFlags, SaveConf, StartAfterSave,
              StartFromConf, StartWithoutConf, StartStandalone, SaveInstructions
<1>5. CASE Callback
  BY <1>5 DEF Callback, startVars
<1>6. CASE MasterStep
  BY <1>6 DEF MasterStep, startVars
<1>7. CASE UNCHANGED restartVars
  BY <1>7 DEF restartVars, startVars
<1> QED BY <1>1, <1>2, <1>3, <1>4, <1>5, <1>6, <1>7 DEF RestartNext

LEMMA JobHasValue ==
  ASSUME Instr!SaveTypeOK, instrJob.pc # "idle" PROVE instrJob.value \in Sets
<1>1. instrJob # Instr!Idle
  BY DEF Instr!Idle
<1> QED BY <1>1 DEF Instr!SaveTypeOK

(* The phases of the agent, given that the files keep their types. *)
LEMMA StartKept ==
  ASSUME RestartTypeOK, Startable, Conf!SaveTypeOK', Instr!SaveTypeOK',
         [RestartNext]_restartVars
  PROVE  /\ StartTypeOK' /\ Startable'
         /\ linked' \in BOOLEAN /\ seasoned' \in BOOLEAN
         /\ calls' \subseteq {"register", "disconnect"}
         /\ linked' => master' = "up" /\ agent' = "connected"
<1> USE StartAssumption
<1> USE DEF RestartTypeOK, StartTypeOK, Startable, Phases, Trying
<1>1. CASE Joins
  BY <1>1 DEF Joins, NewAgent, Rejoin, registryVars, confVars, instrVars
<1>2. CASE Leaves
  <2> USE DEF registryVars, confVars, instrVars
  <2>1. CASE LoseMaster
    BY <1>2, <2>1 DEF Leaves, LoseMaster
  <2>2. CASE AgentCrash
    <3>1. /\ conf' = conf /\ instr' = instr /\ ended' = ended
          /\ confJob' = Conf!Idle /\ instrJob' = Instr!Idle
          /\ agent' = "down" /\ cfg' = None /\ rules' = None
      BY <2>2 DEF AgentCrash, Conf!EndProcess, Instr!EndProcess
    <3>2. /\ linked' = FALSE /\ seasoned' = seasoned
          /\ calls' \subseteq {"register", "disconnect"}
      BY <1>2 DEF Leaves
    <3>3. StartTypeOK'
      BY <3>1 DEF Conf!Idle, Instr!Idle
    <3>4. Startable'
      BY <2>2, <3>1, <3>2 DEF AgentCrash
    <3> QED BY <3>2, <3>3, <3>4
  <2> QED BY <1>2, <2>1, <2>2 DEF Leaves
<1>3. CASE Updated
  BY <1>3 DEF Updated, ConfigUpdate, Instr!BeginSave, Instr!Idle, registryVars,
              confVars
<1>4. CASE AgentStep
  <2> USE DEF registryVars, confVars, instrVars
  <2>0. /\ UNCHANGED <<master, linked, calls>>
        /\ seasoned' = (seasoned \/ (conf' \in Settings /\ instr' \in Sets))
    BY <1>4 DEF AgentStep
  <2>1. CASE \E s \in Settings : StartWithFlags(s)
    <3> PICK s \in Settings : StartWithFlags(s)
      BY <2>1
    <3>1. /\ agent = "down" /\ agent' = "saving" /\ cfg' = s /\ ended' = "no"
          /\ confJob' = [pc |-> "create", value |-> s]
          /\ UNCHANGED <<conf, instr, instrTmp, instrJob, rules>>
      BY DEF StartWithFlags, Conf!BeginSave
    <3>2. StartTypeOK'
      BY <3>1
    <3> QED BY <2>0, <3>1, <3>2
  <2>2. CASE SaveConf
    BY <2>0, <2>2 DEF SaveConf, Conf!SaveStep, Conf!CreateTmp, Conf!WriteTmp,
                      Conf!RenameTmp, Conf!Idle, Conf!SaveTypeOK
  <2>3. CASE StartAfterSave
    BY <2>0, <2>3 DEF StartAfterSave
  <2>4. CASE StartFromConf
    BY <2>0, <2>4 DEF StartFromConf
  <2>5. CASE StartWithoutConf
    BY <2>0, <2>5 DEF StartWithoutConf
  <2>6. CASE StartStandalone
    BY <2>0, <2>6 DEF StartStandalone
  <2>7. CASE SaveInstructions
    <3>1. /\ UNCHANGED <<conf, confTmp, confJob, agent, cfg, rules, ended>>
          /\ instrJob.pc # "idle"
      BY <2>7 DEF SaveInstructions, Instr!SaveStep, Instr!CreateTmp,
                  Instr!WriteTmp, Instr!RenameTmp
    <3>2. instr' \in {instr} \cup Sets
      <4>1. instrJob.pc = "rename" => instrTmp = instrJob.value
        BY DEF Instr!SaveTypeOK
      <4>2. instrJob.value \in Sets
        BY <3>1, JobHasValue
      <4> QED BY <2>7, <4>1, <4>2 DEF SaveInstructions, Instr!SaveStep,
                 Instr!CreateTmp, Instr!WriteTmp, Instr!RenameTmp
    <3>3. StartTypeOK'
      BY <3>1
    <3> QED BY <2>0, <3>1, <3>2, <3>3
  <2> QED BY <1>4, <2>1, <2>2, <2>3, <2>4, <2>5, <2>6, <2>7 DEF AgentStep, StartStep
<1>5. CASE Callback
  BY <1>5 DEF Callback, startVars, confVars, instrVars, registryVars, Upsert, SetOffline
<1>6. CASE MasterStep
  BY <1>6 DEF MasterStep, startVars, confVars, instrVars
<1>7. CASE UNCHANGED restartVars
  BY <1>7 DEF restartVars, startVars, confVars, instrVars, registryVars
<1> QED BY <1>1, <1>2, <1>3, <1>4, <1>5, <1>6, <1>7 DEF RestartNext

-----------------------------------------------------------------------------
LEMMA RestartableInit == RestartInit => Restartable
<1> SUFFICES ASSUME RestartInit PROVE Restartable
  OBVIOUS
<1> USE StartAssumption, RegistryAssumption
<1> USE DEF RestartInit, StartInit, RegistryInit, Conf!Idle, Instr!Idle
<1>1. StartTypeOK
  BY DEF StartTypeOK, Conf!SaveTypeOK, Instr!SaveTypeOK, Conf!Idle, Instr!Idle, Phases
<1>2. RestartTypeOK
  BY <1>1 DEF RestartTypeOK, RegistryTypeOK, Book, Blank
<1>3. RecordsKept
  BY DEF RecordsKept, FileFollowsRecords, FirstSeenPreserved, RefusedOnlyAfterHarm, Blank
<1> QED BY <1>2, <1>3 DEF Restartable, Startable

LEMMA RestartableKept ==
  Restartable /\ [RestartNext]_restartVars =>
    /\ Restartable'
    /\ [Conf!Atomic!NextFile]_<<conf, confJob.value>>
    /\ [Instr!Atomic!NextFile]_<<instr, instrJob.value>>
<1> SUFFICES ASSUME Restartable, [RestartNext]_restartVars
             PROVE  /\ Restartable'
                    /\ [Conf!Atomic!NextFile]_<<conf, confJob.value>>
                    /\ [Instr!Atomic!NextFile]_<<instr, instrJob.value>>
  OBVIOUS
<1>1. /\ StartTypeOK /\ Conf!SaveTypeOK /\ Instr!SaveTypeOK /\ RegistryTypeOK
      /\ RestartTypeOK /\ RecordsKept /\ Startable
  BY DEF Restartable, RestartTypeOK, StartTypeOK
<1>2. Conf!SaveTypeOK' /\ [Conf!Atomic!NextFile]_<<conf, confJob.value>>
  BY <1>1, FileSteps, ConfStep
<1>3. Instr!SaveTypeOK' /\ [Instr!Atomic!NextFile]_<<instr, instrJob.value>>
  BY <1>1, FileSteps, InstrStep
<1>4. RegistryTypeOK' /\ RecordsKept'
  BY <1>1, FileSteps, RegistryKept, RestartAssumption
<1>5. /\ StartTypeOK' /\ Startable'
      /\ linked' \in BOOLEAN /\ seasoned' \in BOOLEAN
      /\ calls' \subseteq {"register", "disconnect"}
      /\ linked' => master' = "up" /\ agent' = "connected"
  BY <1>1, <1>2, <1>3, StartKept
<1> QED BY <1>2, <1>3, <1>4, <1>5 DEF Restartable, RestartTypeOK

(* Every state of the composition has its type. *)
THEOREM RestartTypes == RestartSpec => []RestartTypeOK
<1>1. Restartable => RestartTypeOK
  BY DEF Restartable
<1> QED BY <1>1, RestartableInit, RestartableKept, PTL DEF RestartSpec

(***************************************************************************)
(* Saving by way of a renamed temporary file implements the atomic         *)
(* replacement of to.conf and of instructions.conf, whatever call fails    *)
(* and wherever the process ends.                                          *)
(***************************************************************************)
THEOREM ConfRefines == RestartSpec => ConfAtomic
<1>1. RestartInit => Conf!Atomic!InitFile
  BY DEF RestartInit, StartInit, Conf!Idle, Conf!Atomic!InitFile
<1> QED BY <1>1, RestartableInit, RestartableKept, PTL DEF RestartSpec, ConfAtomic, Conf!Atomic!Spec

THEOREM InstructionsRefine == RestartSpec => InstructionsAtomic
<1>1. RestartInit => Instr!Atomic!InitFile
  BY DEF RestartInit, StartInit, Instr!Idle, Instr!Atomic!InitFile
<1> QED BY <1>1, RestartableInit, RestartableKept, PTL
        DEF RestartSpec, InstructionsAtomic, Instr!Atomic!Spec

(* An agent that has saved both its files starts again by itself. *)
THEOREM AgentComesBack == RestartSpec => []ComesBack
<1>1. Restartable => ComesBack
  BY DEF Restartable, Startable, ComesBack
<1> QED BY <1>1, RestartableInit, RestartableKept, PTL DEF RestartSpec

(* agents.json says what the master has recorded. *)
THEOREM FileHasRecords == RestartSpec => []FileFollowsRecords
<1>1. Restartable => FileFollowsRecords
  BY DEF Restartable, RecordsKept
<1> QED BY <1>1, RestartableInit, RestartableKept, PTL DEF RestartSpec

(* FirstSeen survives every restart that no unfinished save came before. *)
THEOREM FirstSeenKept == RestartSpec => []FirstSeenPreserved
<1>1. Restartable => FirstSeenPreserved
  BY DEF Restartable, RecordsKept
<1> QED BY <1>1, RestartableInit, RestartableKept, PTL DEF RestartSpec

(* A master is refused its own registry only after an unfinished save. *)
THEOREM RefusalMeansHarm == RestartSpec => []RefusedOnlyAfterHarm
<1>1. Restartable => RefusedOnlyAfterHarm
  BY DEF Restartable, RecordsKept
<1> QED BY <1>1, RestartableInit, RestartableKept, PTL DEF RestartSpec

-----------------------------------------------------------------------------
(***************************************************************************)
(* The log.  The three properties need to know that the line being logged  *)
(* is in no file yet (Fresh), and that the loop of rotateLocked never      *)
(* meets a file in the place it moves another one to, but for the oldest   *)
(* (RoomMade); it runs with no log open.                                   *)
(***************************************************************************)
Busy == pc \in {"close", "shift", "open", "write"}

Fresh == Busy => /\ count \in 1..MaxLines
                 /\ \A i \in Files : count \notin lines[i]
                 /\ count \notin dropped

RoomMade ==
  pc = "shift" => /\ handle = "nil" /\ shift <= MaxFiles - 1
                  /\ shift < MaxFiles - 1 => shift + 1 \notin present

Rotated == /\ LoggerTypeOK /\ Fresh /\ RoomMade
        /\ NoLineVanishes /\ InOrder /\ OldestDroppedFirst

LEMMA RotationInit == LoggerInit => Rotated
  <1> SUFFICES ASSUME LoggerInit PROVE Rotated
    OBVIOUS
  <1> USE LoggerAssumption DEF LoggerInit, Files
  <1>1. LoggerTypeOK
    BY DEF LoggerTypeOK
  <1>2. Fresh /\ RoomMade
    BY DEF Fresh, Busy, RoomMade
  <1>3. InOrder /\ OldestDroppedFirst
    BY DEF InOrder, OldestDroppedFirst
  <1>4. NoLineVanishes
    BY DEF NoLineVanishes
  <1> QED
    BY <1>1, <1>2, <1>3, <1>4 DEF Rotated

(* The lines kept, with the union spelled out. *)
LEMMA KeptMember ==
  \A l : l \in Kept <=> \E i \in Files : l \in lines[i]
  BY DEF Kept

LEMMA KeptMemberNext ==
  \A l : l \in Kept' <=> \E i \in Files : l \in lines'[i]
  BY DEF Kept

(***************************************************************************)
(* A rename to the next higher number, the one thing that moves lines.     *)
(***************************************************************************)
LEMMA RenameSafe ==
  ASSUME LoggerTypeOK, InOrder, OldestDroppedFirst,
         NEW i \in Files, i + 1 \in Files, RenameTo(i, i + 1),
         i + 1 < MaxFiles => i + 1 \notin present
  PROVE  /\ lines' \in [Files -> SUBSET (1..count)]
         /\ dropped' \subseteq 1..count
         /\ \A f \in Files : f \notin present' => lines'[f] = {}
         /\ InOrder' /\ OldestDroppedFirst'
         /\ Kept \cup dropped = Kept' \cup dropped'
  <1> USE LoggerAssumption DEF Files, LoggerTypeOK, RenameTo
  <1>1. \A f \in Files : lines'[f] = IF f = i + 1 THEN lines[i]
                                     ELSE IF f = i THEN {} ELSE lines[f]
    OBVIOUS
  <1>2. /\ lines' \in [Files -> SUBSET (1..count)]
        /\ dropped' \subseteq 1..count
        /\ \A f \in Files : f \notin present' => lines'[f] = {}
    BY <1>1
  <1>3. InOrder'
    BY <1>1 DEF InOrder
  <1>4. OldestDroppedFirst'
    <2> SUFFICES ASSUME NEW old \in dropped', NEW kept \in Kept'
                 PROVE  old < kept
      BY DEF OldestDroppedFirst
    <2>1. PICK f \in Files : kept \in lines'[f]
      BY KeptMemberNext
    <2>2. kept \in Kept
      BY <1>1, <2>1, KeptMember
    <2>3. CASE old \in dropped
      BY <2>2, <2>3 DEF OldestDroppedFirst
    <2>4. CASE old \in lines[i + 1]
      <3>1. i + 1 = MaxFiles
        BY <2>4
      <3>2. PICK g \in Files : g < i + 1 /\ kept \in lines[g]
        BY <1>1, <2>1, <3>1
      <3> QED
        BY <2>4, <3>2 DEF InOrder
    <2> QED
      BY <2>3, <2>4
  <1>5. Kept \cup dropped = Kept' \cup dropped'
    <2>1. \A l \in Kept \cup dropped : l \in Kept' \cup dropped'
      BY <1>1, KeptMember, KeptMemberNext
    <2>2. \A l \in Kept' \cup dropped' : l \in Kept \cup dropped
      BY <1>1, KeptMember, KeptMemberNext
    <2> QED
      BY <2>1, <2>2
  <1> QED
    BY <1>2, <1>3, <1>4, <1>5

-----------------------------------------------------------------------------
(* What a step leaves alone that the properties look at. *)
LEMMA SameFiles ==
  ASSUME Rotated, UNCHANGED <<lines, dropped>>
  PROVE  InOrder' /\ OldestDroppedFirst' /\ Kept' = Kept
  BY DEF Rotated, InOrder, OldestDroppedFirst, Kept

LEMMA NewLoggerSafe == ASSUME Rotated, NewLogger PROVE Rotated'
  <1> USE LoggerAssumption DEF NewLogger, OpenFile, history
  <1>1. LoggerTypeOK'
    BY DEF Rotated, LoggerTypeOK, Files
  <1>2. Fresh' /\ RoomMade'
    BY DEF Fresh, Busy, RoomMade
  <1>3. NoLineVanishes'
    BY SameFiles DEF Rotated, NoLineVanishes
  <1> QED
    BY <1>1, <1>2, <1>3, SameFiles DEF Rotated

LEMMA LogSafe == ASSUME Rotated, Log PROVE Rotated'
  <1> USE LoggerAssumption DEF Log
  <1>1. pc' \in {"open", "write", "close"}
    OBVIOUS
  <1>2. LoggerTypeOK'
    BY <1>1 DEF Rotated, LoggerTypeOK, Files
  <1>3. Fresh' /\ RoomMade'
    <2>1. \A i \in Files : count + 1 \notin lines[i]
      BY DEF Rotated, LoggerTypeOK
    <2>2. count + 1 \notin dropped
      BY DEF Rotated, LoggerTypeOK
    <2> QED
      BY <1>1, <2>1, <2>2 DEF Rotated, LoggerTypeOK, Fresh, Busy, RoomMade
  <1>4. NoLineVanishes'
    <2>1. 1..count' = (1..count) \cup {count'}
      BY DEF Rotated, LoggerTypeOK
    <2> QED
      BY <1>1, <2>1, SameFiles DEF Rotated, NoLineVanishes
  <1> QED
    BY <1>2, <1>3, <1>4, SameFiles DEF Rotated

LEMMA CloseForRotationSafe == ASSUME Rotated, CloseForRotation PROVE Rotated'
  <1> USE LoggerAssumption DEF CloseForRotation, history
  <1>1. LoggerTypeOK'
    BY DEF Rotated, LoggerTypeOK, Files
  <1>2. Fresh' /\ RoomMade'
    BY DEF Rotated, LoggerTypeOK, Files, Fresh, Busy, RoomMade
  <1>3. NoLineVanishes'
    BY SameFiles DEF Rotated, NoLineVanishes
  <1> QED
    BY <1>1, <1>2, <1>3, SameFiles DEF Rotated

LEMMA ShiftFileSafe == ASSUME Rotated, ShiftFile PROVE Rotated'
  <1> USE LoggerAssumption DEF ShiftFile
  <1>1. CASE shift \in present /\ RenameTo(shift, shift + 1) /\ shift' = shift - 1
             /\ UNCHANGED pc
    <2>1. /\ shift \in Files /\ shift + 1 \in Files
          /\ shift + 1 < MaxFiles => shift + 1 \notin present
      BY <1>1 DEF Rotated, LoggerTypeOK, RoomMade, Files
    <2>2. /\ lines' \in [Files -> SUBSET (1..count)]
          /\ dropped' \subseteq 1..count
          /\ \A f \in Files : f \notin present' => lines'[f] = {}
          /\ InOrder' /\ OldestDroppedFirst'
          /\ Kept \cup dropped = Kept' \cup dropped'
      BY <1>1, <2>1, RenameSafe DEF Rotated
    <2>3. LoggerTypeOK'
      BY <1>1, <2>1, <2>2 DEF Rotated, LoggerTypeOK, RenameTo, Files
    <2>4. Fresh'
      BY <1>1, <2>1 DEF Rotated, LoggerTypeOK, Fresh, Busy, RenameTo, Files
    <2>5. RoomMade'
      BY <1>1, <2>1 DEF Rotated, LoggerTypeOK, RoomMade, RenameTo, Files
    <2>6. NoLineVanishes'
      BY <1>1, <2>2 DEF Rotated, NoLineVanishes
    <2> QED
      BY <2>2, <2>3, <2>4, <2>5, <2>6 DEF Rotated
  <1>2. CASE /\ shift \notin present /\ UNCHANGED <<lines, present, dropped>>
             /\ shift' = shift - 1 /\ UNCHANGED pc
    <2>1. LoggerTypeOK'
      BY <1>2 DEF Rotated, LoggerTypeOK, Files
    <2>2. Fresh' /\ RoomMade'
      BY <1>2 DEF Rotated, LoggerTypeOK, Files, Fresh, Busy, RoomMade
    <2>3. NoLineVanishes'
      BY <1>2, SameFiles DEF Rotated, NoLineVanishes
    <2> QED
      BY <1>2, <2>1, <2>2, <2>3, SameFiles DEF Rotated
  <1>3. CASE pc' = "write" /\ UNCHANGED <<shift, lines, present, dropped>>
    <2>1. LoggerTypeOK'
      BY <1>3 DEF Rotated, LoggerTypeOK, Files
    <2>2. Fresh' /\ RoomMade'
      BY <1>3 DEF Rotated, Fresh, Busy, RoomMade
    <2>3. NoLineVanishes'
      BY <1>3, SameFiles DEF Rotated, NoLineVanishes
    <2> QED
      BY <1>3, <2>1, <2>2, <2>3, SameFiles DEF Rotated
  <1> QED
    BY <1>1, <1>2, <1>3

LEMMA MoveLogSafe == ASSUME Rotated, MoveLog PROVE Rotated'
  <1> USE LoggerAssumption DEF MoveLog
  <1>1. CASE RenameTo(0, 1) /\ pc' = "open"
    <2>1. /\ 0 \in Files /\ 0 + 1 \in Files /\ 0 + 1 = 1
          /\ 0 + 1 < MaxFiles => 0 + 1 \notin present
      BY <1>1 DEF Rotated, LoggerTypeOK, RoomMade, Files
    <2>2. /\ lines' \in [Files -> SUBSET (1..count)]
          /\ dropped' \subseteq 1..count
          /\ \A f \in Files : f \notin present' => lines'[f] = {}
          /\ InOrder' /\ OldestDroppedFirst'
          /\ Kept \cup dropped = Kept' \cup dropped'
      BY <1>1, <2>1, RenameSafe DEF Rotated
    <2>3. LoggerTypeOK'
      BY <1>1, <2>1, <2>2 DEF Rotated, LoggerTypeOK, RoomMade, RenameTo, Files
    <2>4. Fresh' /\ RoomMade'
      BY <1>1, <2>1 DEF Rotated, LoggerTypeOK, Fresh, Busy, RoomMade, RenameTo, Files
    <2>5. NoLineVanishes'
      BY <1>1, <2>2 DEF Rotated, NoLineVanishes
    <2> QED
      BY <2>2, <2>3, <2>4, <2>5 DEF Rotated
  <1>2. CASE UNCHANGED <<lines, present, dropped>> /\ pc' = "write"
    <2>1. LoggerTypeOK'
      BY <1>2 DEF Rotated, LoggerTypeOK, Files
    <2>2. Fresh' /\ RoomMade'
      BY <1>2 DEF Rotated, Fresh, Busy, RoomMade
    <2>3. NoLineVanishes'
      BY <1>2, SameFiles DEF Rotated, NoLineVanishes
    <2> QED
      BY <1>2, <2>1, <2>2, <2>3, SameFiles DEF Rotated
  <1> QED
    BY <1>1, <1>2

LEMMA ReopenFileSafe == ASSUME Rotated, ReopenFile PROVE Rotated'
  <1> USE LoggerAssumption DEF ReopenFile, OpenFile, history
  <1>1. LoggerTypeOK'
    <2>1. CASE OpenFile
      BY <2>1 DEF Rotated, LoggerTypeOK, Files
    <2>2. CASE UNCHANGED <<lines, present, handle>>
      BY <2>2 DEF Rotated, LoggerTypeOK, Files
    <2> QED
      BY <2>1, <2>2
  <1>2. Fresh' /\ RoomMade'
    BY DEF Rotated, Fresh, Busy, RoomMade
  <1>3. NoLineVanishes'
    BY SameFiles DEF Rotated, NoLineVanishes
  <1> QED
    BY <1>1, <1>2, <1>3, SameFiles DEF Rotated

LEMMA WriteLineSafe == ASSUME Rotated, WriteLine PROVE Rotated'
  <1> USE LoggerAssumption DEF WriteLine
  <1>1. count \in 1..count /\ 0 \in Files /\ Fresh
    BY DEF Rotated, LoggerTypeOK, Fresh, Busy, Files
  <1>2. LoggerTypeOK'
    BY <1>1 DEF Rotated, LoggerTypeOK
  <1>3. Fresh' /\ RoomMade'
    BY DEF Fresh, Busy, RoomMade
  <1>4. CASE lines' = [lines EXCEPT ![0] = @ \cup {count}] /\ UNCHANGED stderr
    <2>1. \A i \in Files : lines'[i] = IF i = 0 THEN lines[0] \cup {count} ELSE lines[i]
      BY <1>4 DEF Rotated, LoggerTypeOK
    <2>2. \A i \in Files : \A l \in lines[i] : l \in Nat /\ l < count
      BY <1>1 DEF Rotated, LoggerTypeOK, Fresh, Busy
    <2>3. \A l \in dropped : l \in Nat /\ l < count
      BY <1>1 DEF Rotated, LoggerTypeOK, Fresh, Busy
    <2>4. InOrder'
      BY <2>1, <2>2 DEF Rotated, InOrder, Files
    <2>5. \A l : l \in Kept' <=> l \in Kept \/ l = count
      BY <1>1, <2>1, KeptMember, KeptMemberNext
    <2>6. OldestDroppedFirst'
      BY <2>3, <2>5 DEF Rotated, OldestDroppedFirst
    <2>7. NoLineVanishes'
      BY <1>4, <2>5 DEF Rotated, NoLineVanishes
    <2> QED
      BY <1>2, <1>3, <2>4, <2>6, <2>7 DEF Rotated
  <1>5. CASE stderr' = stderr \cup {count} /\ UNCHANGED lines
    <2>1. NoLineVanishes'
      BY <1>5, SameFiles DEF Rotated, NoLineVanishes
    <2> QED
      BY <1>2, <1>3, <1>5, <2>1, SameFiles DEF Rotated
  <1> QED
    BY <1>4, <1>5

LEMMA CloseSafe == ASSUME Rotated, Close PROVE Rotated'
  <1> USE DEF Close, history
  <1>1. LoggerTypeOK' /\ Fresh' /\ RoomMade'
    BY DEF Rotated, LoggerTypeOK, Files, Fresh, Busy, RoomMade
  <1>2. NoLineVanishes'
    BY SameFiles DEF Rotated, NoLineVanishes
  <1> QED
    BY <1>1, <1>2, SameFiles DEF Rotated

LEMMA CrashSafe == ASSUME Rotated, Crash PROVE Rotated'
  <1> USE DEF Crash
  <1>1. pc # "idle" => count \in 1..count
    BY DEF Rotated, LoggerTypeOK, Fresh, Busy
  <1>2. LoggerTypeOK'
    BY <1>1 DEF Rotated, LoggerTypeOK, Files
  <1>3. Fresh' /\ RoomMade'
    BY DEF Fresh, Busy, RoomMade
  <1>4. NoLineVanishes'
    BY SameFiles DEF Rotated, NoLineVanishes
  <1> QED
    BY <1>2, <1>3, <1>4, SameFiles DEF Rotated

LEMMA RotationKept == Rotated /\ [LoggerNext]_vars => Rotated'
  <1> SUFFICES ASSUME Rotated, [LoggerNext]_vars PROVE Rotated'
    OBVIOUS
  <1>1. CASE UNCHANGED vars
    BY <1>1, SameFiles
       DEF Rotated, vars, LoggerTypeOK, Files, Fresh, Busy, RoomMade, NoLineVanishes
  <1> QED
    BY <1>1, NewLoggerSafe, LogSafe, CloseForRotationSafe, ShiftFileSafe,
       MoveLogSafe, ReopenFileSafe, WriteLineSafe, CloseSafe, CrashSafe
       DEF LoggerNext

LEMMA LogsRotated == LoggerSpec => []Rotated
  BY RotationInit, RotationKept, PTL DEF LoggerSpec

(* Every state has the types of Logger. *)
THEOREM LoggerTypes == LoggerSpec => []LoggerTypeOK
  <1>1. Rotated => LoggerTypeOK
    BY DEF Rotated
  <1> QED
    BY <1>1, LogsRotated, PTL

(* Log loses no line, whatever fails: see NoLineVanishes. *)
THEOREM LoggerNoLineVanishes == LoggerSpec => []NoLineVanishes
  <1>1. Rotated => NoLineVanishes
    BY DEF Rotated
  <1> QED
    BY <1>1, LogsRotated, PTL

(* The files of rotateLocked are in order, however often it was cut short. *)
THEOREM LoggerInOrder == LoggerSpec => []InOrder
  <1>1. Rotated => InOrder
    BY DEF Rotated
  <1> QED
    BY <1>1, LogsRotated, PTL

(* rotateLocked drops the oldest lines first. *)
THEOREM LoggerOldestDroppedFirst == LoggerSpec => []OldestDroppedFirst
  <1>1. Rotated => OldestDroppedFirst
    BY DEF Rotated
  <1> QED
    BY <1>1, LogsRotated, PTL
=============================================================================
