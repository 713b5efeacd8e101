------------------------------- MODULE SaveFile -------------------------------
(***************************************************************************)
(* Saving a file by way of a temporary one that is renamed, as             *)
(* SaveAgentConf (pkg/config/agent_conf.go) and SaveInstructionsConf       *)
(* (pkg/config/instructions_conf.go) do.  Every call may fail, and the     *)
(* process may end between two of them.                                    *)
(***************************************************************************)
CONSTANTS
  Values,   \* what may be saved
  None,     \* there is no such file
  Torn,     \* a file written in part, or empty
  Tidy      \* a write that fails removes the temporary file

VARIABLES
  file,     \* what is under the name proper
  tmp,      \* what is under the temporary name
  job       \* the save under way: its next step and its value

Idle == [pc |-> "idle", value |-> None]
Steps == {"create", "write", "rename"}

SaveTypeOK ==
  /\ file \in Values \cup {None} /\ tmp \in Values \cup {None, Torn}
  /\ job \in {Idle} \cup [pc : Steps, value : Values]
  /\ job.pc = "rename" => tmp = job.value

(* The value is put together first. *)
BeginSave(v) ==
  /\ job.pc = "idle"
  /\ job' = [pc |-> "create", value |-> v]
  /\ UNCHANGED <<file, tmp>>

(* The temporary file is created or emptied. *)
CreateTmpMutant ==
  /\ job.pc = "create"
  /\ file' = Torn /\ job' = [job EXCEPT !.pc = "write"]
  /\ UNCHANGED tmp
CreateTmp ==
  /\ job.pc = "create"
  /\ \/ tmp' = Torn /\ job' = [job EXCEPT !.pc = "write"]
     \/ job' = Idle /\ UNCHANGED tmp
  /\ UNCHANGED file

(* It is written and closed. *)
WriteTmpMutant ==
  /\ job.pc = "write"
  /\ tmp' \in {job.value, Torn} /\ job' = [job EXCEPT !.pc = "rename"]
  /\ UNCHANGED file
WriteTmp ==
  /\ job.pc = "write"
  /\ \/ tmp' = job.value /\ job' = [job EXCEPT !.pc = "rename"]
     \/ tmp' = (IF Tidy THEN None ELSE Torn) /\ job' = Idle
  /\ UNCHANGED file

(* It takes the place of the file proper, or is removed. *)
RenameTmp ==
  /\ job.pc = "rename"
  /\ file' \in {tmp, file}
  /\ tmp' = None /\ job' = Idle

SaveStep == CreateTmp \/ WriteTmp \/ RenameTmp

(* The process ends: what is on disk stays. *)
EndProcess == job' = Idle /\ UNCHANGED <<file, tmp>>

(* What was saved last, for a reader of the file: all of it, or nothing. *)
Atomic == INSTANCE AtomicFile WITH content <- file, pending <- job.value
=============================================================================
