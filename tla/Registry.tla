------------------------------- MODULE Registry -------------------------------
(***************************************************************************)
(* The agent registry (pkg/registry/registry.go): the records of a master  *)
(* process and the file agents.json, which save rewrites in place.         *)
(*                                                                         *)
(* A record is its status and whether FirstSeen is indeed the time when    *)
(* the agent was seen first; the fields that only describe the agent, and  *)
(* LastSeen, which UpdateSeen changes without a save, are left out.  An    *)
(* operation holds mu to the end of its save, so one is under way at a     *)
(* time; os.WriteFile empties the file and then fills it, and the process  *)
(* may end, or the disk be full, in between.  Nobody looks at the error.   *)
(***************************************************************************)
CONSTANTS
  Agents,
  Never,     \* no record
  Missing,   \* there is no agents.json
  Empty      \* agents.json was emptied, and perhaps filled in part

Record == [status : {"online", "offline"}, first : BOOLEAN]
Book == [Agents -> Record \cup {Never}]
Blank == [a \in Agents |-> Never]

ASSUME RegistryAssumption ==
  Never \notin Record /\ Missing \notin Book /\ Empty \notin Book /\ Missing # Empty

VARIABLES
  records,   \* records of the process
  json,      \* agents.json
  master,    \* "down", "up", or "refused": NewMasterServer failed
  saving,    \* progress of save: "no", "open", "write"
  dirty,     \* history: since its last save, records changed or a save failed
  seen,      \* history: agents recorded so far
  harmed     \* history: agents.json lost what had been recorded

registryVars == <<records, json, master, saving, dirty, seen, harmed>>

RegistryInit ==
  /\ records = Blank /\ json = Missing /\ master = "down" /\ saving = "no"
  /\ dirty = FALSE /\ seen = {} /\ harmed = FALSE

-----------------------------------------------------------------------------
(* New: a missing file is an empty registry, one that does not parse is an *)
(* error, and the master does not start.                                   *)
NewMutant ==
  /\ master = "down"
  /\ IF json \in {Missing, Empty}
     THEN master' = "refused" /\ UNCHANGED records
     ELSE /\ master' = "up"
          /\ records' = json
  /\ UNCHANGED <<json, saving, dirty, seen, harmed>>
New ==
  /\ master = "down"
  /\ IF json = Empty
     THEN master' = "refused" /\ UNCHANGED records
     ELSE /\ master' = "up"
          /\ records' = IF json = Missing THEN Blank ELSE json
  /\ UNCHANGED <<json, saving, dirty, seen, harmed>>

(* Upsert keeps FirstSeen of a record there is. *)
UpsertMutant(a) ==
  /\ master = "up" /\ saving = "no"
  /\ records' = [records EXCEPT
       ![a] = [status |-> "online", first |-> a \notin seen]]
  /\ seen' = seen \cup {a}
  /\ saving' = "open" /\ dirty' = TRUE
  /\ UNCHANGED <<json, master, harmed>>
Upsert(a) ==
  /\ master = "up" /\ saving = "no"
  /\ records' = [records EXCEPT
       ![a] = [status |-> "online",
               first |-> IF @ = Never THEN a \notin seen ELSE @.first]]
  /\ seen' = seen \cup {a}
  /\ saving' = "open" /\ dirty' = TRUE
  /\ UNCHANGED <<json, master, harmed>>

SetOfflineMutant(a) ==
  /\ master = "up" /\ saving = "no" /\ records[a] # Never
  /\ records' = [records EXCEPT ![a].status = "offline"]
  /\ UNCHANGED <<json, master, saving, dirty, seen, harmed>>
SetOffline(a) ==
  /\ master = "up" /\ saving = "no" /\ records[a] # Never
  /\ records' = [records EXCEPT ![a].status = "offline"]
  /\ saving' = "open" /\ dirty' = TRUE
  /\ UNCHANGED <<json, master, seen, harmed>>

(* save: the file is opened and emptied ... *)
OpenJson ==
  /\ saving = "open"
  /\ \/ json' = Empty /\ saving' = "write"
     \/ saving' = "no" /\ UNCHANGED json
  /\ UNCHANGED <<records, master, dirty, seen, harmed>>

(* ... and written, if the disk has room. *)
WriteJson ==
  /\ saving = "write" /\ saving' = "no"
  /\ \/ json' = records /\ dirty' = FALSE
     \/ UNCHANGED <<json, dirty>>
  /\ UNCHANGED <<records, master, seen, harmed>>

(* The process ends; what had not been saved is lost. *)
MasterCrash ==
  /\ master = "up"
  /\ master' = "down" /\ saving' = "no" /\ records' = Blank
  /\ harmed' = (harmed \/ dirty) /\ dirty' = FALSE
  /\ UNCHANGED <<json, seen>>

(* The operator removes a file that cannot be read and starts again. *)
Repair ==
  /\ master = "refused"
  /\ json' = Missing /\ master' = "down"
  /\ UNCHANGED <<records, saving, dirty, seen, harmed>>

SaveStep == OpenJson \/ WriteJson
RegistryStep == New \/ SaveStep \/ MasterCrash \/ Repair

-----------------------------------------------------------------------------
RegistryTypeOK ==
  /\ records \in Book /\ json \in Book \cup {Missing, Empty}
  /\ master \in {"down", "up", "refused"}
  /\ saving \in {"no", "open", "write"}
  /\ dirty \in BOOLEAN /\ harmed \in BOOLEAN /\ seen \subseteq Agents
  /\ saving # "no" => master = "up" /\ dirty

(***************************************************************************)
(* agents.json is what --status and the next master read.  When no save    *)
(* is under way and none has failed since the last change, it has every    *)
(* record of the running master.                                           *)
(***************************************************************************)
FileFollowsRecords ==
  master = "up" /\ ~dirty =>
    json = records \/ (json = Missing /\ records = Blank)

(***************************************************************************)
(* "FirstSeen is preserved for existing records", over every restart: as   *)
(* long as no crash came before the end of a save, a record still has the  *)
(* time at which its agent was seen first.                                 *)
(***************************************************************************)
FirstSeenPreserved ==
  ~harmed => \A a \in Agents : records[a] # Never => records[a].first

(***************************************************************************)
(* A master refuses to start only over a file that a save in place left    *)
(* unfinished: a crash, or a disk that was full, had come before.          *)
(***************************************************************************)
RefusedOnlyAfterHarm == master = "refused" => harmed
=============================================================================
