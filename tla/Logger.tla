-------------------------------- MODULE Logger --------------------------------
(***************************************************************************)
(* The rotating file logger (pkg/logging/logger.go).                       *)
(*                                                                         *)
(* Log runs under the mutex from its first check to its last write, so the *)
(* goroutines that log are one caller here.  What a test does not reach is *)
(* a rotation cut short, by a call that fails or by the end of the         *)
(* process: every rename is a step of its own.  A line is its number in    *)
(* the order of the calls of Log; a file is the set of its lines, and its  *)
(* size is their number.  File 0 is the log, file i the one named path.i.  *)
(***************************************************************************)
EXTENDS Naturals, FiniteSets

CONSTANTS
  MaxFiles,   \* maxFiles: rotated files kept
  MaxSize,    \* maxSize, in lines
  MaxLines    \* bound: lines logged

ASSUME LoggerAssumption ==
  MaxFiles \in Nat \ {0} /\ MaxSize \in Nat \ {0} /\ MaxLines \in Nat

VARIABLES
  lines,      \* lines of each file
  present,    \* files that exist
  handle,     \* Logger.file: "nil", "open" or "closed"
  pc,         \* progress of the call of Log under way
  shift,      \* rotateLocked: the file the loop moves next
  count,      \* history: lines for which Log was called
  stderr,     \* history: lines written to stderr
  dropped,    \* history: lines of files a rename replaced
  cut         \* history: lines whose call a crash cut short

vars == <<lines, present, handle, pc, shift, count, stderr, dropped, cut>>
history == <<count, stderr, dropped, cut>>

Files == 0..MaxFiles
Kept == UNION {lines[i] : i \in Files}

LoggerInit ==
  /\ lines = [i \in Files |-> {}] /\ present = {}
  /\ handle = "nil" /\ pc = "down" /\ shift = 0
  /\ count = 0 /\ stderr = {} /\ dropped = {} /\ cut = {}

-----------------------------------------------------------------------------
(* os.Rename replaces what has the new name. *)
RenameTo(i, j) ==
  /\ lines' = [lines EXCEPT ![j] = lines[i], ![i] = {}]
  /\ present' = (present \ {i}) \cup {j}
  /\ dropped' = dropped \cup lines[j]

(* openFileLocked: append to the log, or create it. *)
OpenFile ==
  /\ handle' = "open" /\ present' = present \cup {0}
  /\ UNCHANGED lines

-----------------------------------------------------------------------------
(* NewLogger at the start of the process, which ends if that fails. *)
NewLogger ==
  /\ pc = "down"
  /\ OpenFile /\ pc' = "idle"
  /\ UNCHANGED <<shift, history>>

(* Log, up to what rotateLocked finds: no file, one to be rotated, or     *)
(* nothing to do, be it because the file is small or because Stat fails   *)
(* on a file that was closed.                                             *)
Log ==
  /\ pc = "idle" /\ count < MaxLines
  /\ count' = count + 1
  /\ pc' = IF handle = "nil" THEN "open"
           ELSE IF handle = "closed" \/ Cardinality(lines[0]) < MaxSize
                THEN "write" ELSE "close"
  /\ UNCHANGED <<lines, present, handle, shift, stderr, dropped, cut>>

(* The file is closed before it is renamed; if that fails the rotation is  *)
(* given up, with a file that is no longer usable.                         *)
CloseForRotation ==
  /\ pc = "close"
  /\ \/ handle' = "nil" /\ pc' = "shift" /\ shift' = MaxFiles - 1
     \/ handle' = "closed" /\ pc' = "write" /\ UNCHANGED shift
  /\ UNCHANGED <<lines, present, history>>

(* The loop that makes room for path.1, from the oldest file down. *)
ShiftFileMutant ==
  /\ pc = "shift" /\ shift > 0
  /\ \/ /\ IF shift \in present THEN RenameTo(shift, shift + 1)
           ELSE UNCHANGED <<lines, present, dropped>>
        /\ shift' = shift - 1 /\ UNCHANGED pc
     \/ /\ shift \in present
        /\ shift' = shift - 1 /\ UNCHANGED <<pc, lines, present, dropped>>
  /\ UNCHANGED <<handle, count, stderr, cut>>
ShiftFile ==
  /\ pc = "shift" /\ shift > 0
  /\ \/ /\ IF shift \in present THEN RenameTo(shift, shift + 1)
           ELSE UNCHANGED <<lines, present, dropped>>
        /\ shift' = shift - 1 /\ UNCHANGED pc
     \/ /\ shift \in present
        /\ pc' = "write" /\ UNCHANGED <<shift, lines, present, dropped>>
  /\ UNCHANGED <<handle, count, stderr, cut>>

(* Then the log becomes path.1 and a new one is opened. *)
MoveLogMutant ==
  /\ pc = "shift" /\ shift = 0
  /\ lines' = [lines EXCEPT ![1] = lines[0]] /\ present' = present \cup {1}
  /\ dropped' = dropped \cup lines[1] /\ pc' = "open"
  /\ UNCHANGED <<handle, shift, count, stderr, cut>>
MoveLog ==
  /\ pc = "shift" /\ shift = 0
  /\ \/ RenameTo(0, 1) /\ pc' = "open"
     \/ pc' = "write" /\ UNCHANGED <<lines, present, dropped>>
  /\ UNCHANGED <<handle, shift, count, stderr, cut>>

ReopenFile ==
  /\ pc = "open" /\ pc' = "write"
  /\ \/ OpenFile
     \/ UNCHANGED <<lines, present, handle>>
  /\ UNCHANGED <<shift, history>>

(* The line goes to the file, or to stderr if there is none or the write *)
(* fails.                                                                *)
WriteLineMutant ==
  /\ pc = "write" /\ pc' = "idle"
  /\ \/ /\ handle = "open"
        /\ lines' = [lines EXCEPT ![0] = @ \cup {count}]
        /\ UNCHANGED stderr
     \/ UNCHANGED <<lines, stderr>>
  /\ UNCHANGED <<present, handle, shift, count, dropped, cut>>
WriteLine ==
  /\ pc = "write" /\ pc' = "idle"
  /\ \/ /\ handle = "open"
        /\ lines' = [lines EXCEPT ![0] = @ \cup {count}]
        /\ UNCHANGED stderr
     \/ stderr' = stderr \cup {count} /\ UNCHANGED lines
  /\ UNCHANGED <<present, handle, shift, count, dropped, cut>>

(* Close at the end of main; goroutines that still run may log after it. *)
Close ==
  /\ pc = "idle" /\ handle = "open"
  /\ handle' = "closed"
  /\ UNCHANGED <<lines, present, pc, shift, history>>

(* The process ends, possibly in the middle of a call. *)
Crash ==
  /\ pc # "down"
  /\ pc' = "down" /\ handle' = "nil"
  /\ cut' = IF pc = "idle" THEN cut ELSE cut \cup {count}
  /\ UNCHANGED <<lines, present, shift, count, stderr, dropped>>

LoggerNext == \/ NewLogger \/ Log \/ CloseForRotation \/ ShiftFile \/ MoveLog
              \/ ReopenFile \/ WriteLine \/ Close \/ Crash

LoggerSpec == LoggerInit /\ [][LoggerNext]_vars

-----------------------------------------------------------------------------
(* Types; what is not present has no lines; only an existing log is open. *)
LoggerTypeOK ==
  /\ lines \in [Files -> SUBSET (1..count)]
  /\ present \subseteq Files
  /\ \A i \in Files : i \notin present => lines[i] = {}
  /\ handle \in {"nil", "open", "closed"}
  /\ pc \in {"down", "idle", "close", "shift", "open", "write"}
  /\ shift \in 0..MaxFiles
  /\ count \in Nat /\ count <= MaxLines
  /\ stderr \subseteq 1..count /\ dropped \subseteq 1..count
  /\ cut \subseteq 1..count
  /\ handle = "open" => 0 \in present

(***************************************************************************)
(* The fall-back to stderr: "so the message is not silently dropped".  A   *)
(* line whose call of Log has returned is in a file, was written to        *)
(* stderr, or was in a file that rotation replaced.                        *)
(***************************************************************************)
NoLineVanishes ==
  1..count \subseteq Kept \cup stderr \cup dropped \cup cut
                     \cup (IF pc \in {"down", "idle"} THEN {} ELSE {count})

(***************************************************************************)
(* Reading path.N, ..., path.1 and the log one after the other gives the   *)
(* lines in the order they were logged, however rotations were cut short.  *)
(***************************************************************************)
InOrder ==
  \A i, j \in Files : i < j =>
    \A older \in lines[j], newer \in lines[i] : older < newer

(***************************************************************************)
(* Rotation drops the oldest lines first: no line is replaced while an     *)
(* older one is still kept.                                                *)
(***************************************************************************)
OldestDroppedFirst ==
  \A old \in dropped, kept \in Kept : old < kept
=============================================================================
