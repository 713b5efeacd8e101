------------------------------ MODULE SelfUpdate ------------------------------
(***************************************************************************)
(* The self-update of an agent on Unix: Apply and applyUpdate of           *)
(* pkg/update, started by UPDATE_AVAILABLE (Agent.applyUpdate), with       *)
(* crashes and restarts of the agent at any point.                         *)
(*                                                                         *)
(* Every UPDATE_AVAILABLE starts a goroutine, and all of them use the same *)
(* three names: the binary, ".new" and ".bak".  A file is two blocks,      *)
(* written one after the other.  A goroutine that has a file open for      *)
(* writing keeps it when it is renamed or removed; a file without a name   *)
(* is seen by nobody else and is left out.                                 *)
(***************************************************************************)
EXTENDS Naturals

CONSTANTS
  Updates,   \* goroutines of applyUpdate
  None

Names == {"cur", "bak", "tmp"}
Blocks == 1..2
Whole(b) == [k \in Blocks |-> b]

(* What runs, and what a block may hold: the binary of a former version,  *)
(* the one the agent was started from, the one the master announced, or   *)
(* anything else a download may bring.                                    *)
Images == {"older", "old", "new", "junk"}
Contents == [Blocks -> Images \cup {"gap"}]

ASSUME UpdateAssumption == None \notin Contents \cup Names

VARIABLES
  compatible,  \* the new binary runs on this machine
  proc,        \* the image that runs, or "down"
  starting,    \* startAgent has not looked for ".bak" yet
  file,        \* name -> contents
  update,      \* per goroutine: pc, the name of the file it has open for
               \* writing, what it downloads, next block
  overlapped,  \* history: two updates were under way at the same time
  restore      \* history: since the process started, whether a backup could
               \* not be renamed back ("failed"), and another update has been
               \* announced since ("retried")

surroundings == <<compatible, proc, starting, overlapped>>
others == <<surroundings, restore>>
vars == <<others, file, update>>

Idle == [pc |-> "idle", fd |-> None, body |-> "new", next |-> 1]
Busy(u) == update[u].pc # "idle"

(* A ".bak" of an earlier update may be there. *)
Init ==
  /\ compatible \in BOOLEAN
  /\ proc = "old" /\ starting = TRUE
  /\ \E bak \in {None, Whole("older")} :
       file = [n \in Names |-> CASE n = "cur" -> Whole("old")
                                 [] n = "bak" -> bak
                                 [] n = "tmp" -> None]
  /\ update = [u \in Updates |-> Idle]
  /\ overlapped = FALSE /\ restore = "fine"

(* Goroutine u goes on to pc; or returns. *)
Goto(u, pc) == [update EXCEPT ![u].pc = pc, ![u].fd = None]
Return(u) == [update EXCEPT ![u] = Idle]

(* What the goroutines have open once the names have changed. *)
Followed(updates, from, to) ==
  [w \in Updates |-> [updates[w] EXCEPT
     !.fd = IF @ = from THEN to ELSE IF @ = to THEN None ELSE @]]

(* rename(2); a target that is there is replaced. *)
Rename(from, to, updates) ==
  /\ file' = [file EXCEPT ![to] = file[from], ![from] = None]
  /\ update' = Followed(updates, from, to)

(* os.Remove of the download, whoever it belongs to; u returns. *)
RemoveTemp(u) ==
  /\ file' = [file EXCEPT !["tmp"] = None]
  /\ update' = Followed(Return(u), "tmp", None)

(* The backup is renamed back, if there is one and the rename succeeds: its *)
(* error is ignored.  u returns.                                            *)
Restore(u) ==
  \/ file["bak"] # None /\ Rename("bak", "cur", Return(u)) /\ UNCHANGED restore
  \/ /\ UNCHANGED file /\ update' = Return(u)
     /\ restore' = IF restore = "fine" THEN "failed" ELSE restore

-----------------------------------------------------------------------------
(* Apply. *)

(* "go a.applyUpdate(updateMsg)": the master announces its version to an *)
(* agent with an older one, which has registered.                        *)
Announce(u) ==
  /\ proc \in {"older", "old"} /\ ~starting /\ ~Busy(u)
  /\ update' = Goto(u, "open")
  /\ overlapped' = (overlapped \/ \E w \in Updates : Busy(w))
  /\ restore' = IF restore = "fine" THEN "fine" ELSE "retried"
  /\ UNCHANGED <<compatible, proc, starting, file>>

(* No answer, another status than 200, or ".new" cannot be created. *)
DownloadFails(u) ==
  /\ update[u].pc = "open"
  /\ update' = Return(u)
  /\ UNCHANGED <<file, others>>

(* O_CREATE|O_TRUNC: a ".new" that is there is emptied. *)
OpenTemp(u) ==
  /\ update[u].pc = "open"
  /\ file' = [file EXCEPT !["tmp"] = Whole("gap")]
  /\ \E body \in {"new", "junk"} :
       update' = [update EXCEPT
         ![u] = [pc |-> "copy", fd |-> "tmp", body |-> body, next |-> 1]]
  /\ UNCHANGED others

Copy(u) ==
  /\ update[u].pc = "copy" /\ update[u].next \in Blocks
  /\ file' = [n \in Names |->
       IF n = update[u].fd
       THEN [file[n] EXCEPT ![update[u].next] = update[u].body] ELSE file[n]]
  /\ update' = [update EXCEPT ![u].next = @ + 1]
  /\ UNCHANGED others

CopyFails(u) ==
  /\ update[u].pc = "copy"
  /\ RemoveTemp(u)
  /\ UNCHANGED others

CloseTemp(u) ==
  /\ update[u].pc = "copy" /\ update[u].next \notin Blocks
  /\ update' = Goto(u, "verify")
  /\ UNCHANGED <<file, others>>

(* BinaryChecksum of what now has the name ".new"; on any error and any *)
(* mismatch it is removed.                                              *)
VerifyMutant(u) ==
  /\ update[u].pc = "verify"
  /\ \/ file["tmp"] # None /\ update' = Goto(u, "backup") /\ UNCHANGED file
     \/ RemoveTemp(u)
  /\ UNCHANGED others
Verify(u) ==
  /\ update[u].pc = "verify"
  /\ \/ /\ file["tmp"] = Whole("new")
        /\ update' = Goto(u, "backup") /\ UNCHANGED file
     \/ RemoveTemp(u)
  /\ UNCHANGED others

-----------------------------------------------------------------------------
(* applyUpdate.  A rename fails when its source is gone, and may fail for *)
(* other reasons.                                                         *)

BackupMutant(u) ==
  /\ update[u].pc = "backup"
  /\ \/ /\ file["cur"] # None
        /\ update' = Goto(u, "place") /\ UNCHANGED file
     \/ RemoveTemp(u)
  /\ UNCHANGED others
Backup(u) ==
  /\ update[u].pc = "backup"
  /\ \/ file["cur"] # None /\ Rename("cur", "bak", Goto(u, "place"))
     \/ RemoveTemp(u)
  /\ UNCHANGED others

Place(u) ==
  /\ update[u].pc = "place"
  /\ \/ /\ file["tmp"] # None /\ Rename("tmp", "cur", Goto(u, "exec"))
        /\ UNCHANGED restore
     \/ Restore(u)
  /\ UNCHANGED surroundings

(* The image that starts under the name of the binary; one that was not *)
(* downloaded whole may do anything.                                    *)
Starts(p) ==
  /\ file["cur"] # None
  /\ IF p = "junk" THEN \A b \in Images \ {"junk"} : file["cur"] # Whole(b)
     ELSE file["cur"] = Whole(p) /\ (p = "new" => compatible)

(* syscall.Exec: the new image replaces the process, with every goroutine. *)
(* A file that is open for writing cannot be executed.                     *)
Exec(u) ==
  /\ update[u].pc = "exec"
  /\ \A w \in Updates : update[w].fd # "cur"
  /\ \E p \in Images : Starts(p) /\ proc' = p
  /\ starting' = TRUE /\ restore' = "fine"
  /\ update' = [w \in Updates |-> Idle]
  /\ UNCHANGED <<compatible, file, overlapped>>

ExecFailsMutant(u) ==
  /\ update[u].pc = "exec"
  /\ update' = Return(u)
  /\ UNCHANGED <<file, others>>
ExecFails(u) ==
  /\ update[u].pc = "exec"
  /\ Restore(u)
  /\ UNCHANGED surroundings

-----------------------------------------------------------------------------
(* The surroundings. *)

(* The agent ends, at any point. *)
Crash ==
  /\ proc # "down"
  /\ proc' = "down" /\ update' = [w \in Updates |-> Idle]
  /\ UNCHANGED <<compatible, starting, file, overlapped, restore>>

Restart ==
  /\ proc = "down"
  /\ \E p \in Images : Starts(p) /\ proc' = p
  /\ starting' = TRUE /\ restore' = "fine"
  /\ UNCHANGED <<compatible, file, update, overlapped>>

(* startAgent removes the backup of a previous update; an error is ignored. *)
CleanBackup ==
  /\ proc # "down" /\ starting
  /\ starting' = FALSE
  /\ file' \in {file, [file EXCEPT !["bak"] = None]}
  /\ UNCHANGED <<compatible, proc, update, overlapped, restore>>

(* Nothing starts: the operator puts the backup in place. *)
Recover ==
  /\ proc = "down" /\ file["bak"] # None
  /\ \A p \in Images : ~Starts(p)
  /\ Rename("bak", "cur", update)
  /\ UNCHANGED others

-----------------------------------------------------------------------------
UpdateStep(u) ==
  \/ Announce(u) \/ DownloadFails(u) \/ OpenTemp(u) \/ Copy(u) \/ CopyFails(u)
  \/ CloseTemp(u) \/ Verify(u) \/ Backup(u) \/ Place(u) \/ Exec(u)
  \/ ExecFails(u)

Next == (\E u \in Updates : UpdateStep(u)) \/ Crash \/ Restart
        \/ CleanBackup \/ Recover

Spec == Init /\ [][Next]_vars

-----------------------------------------------------------------------------
(* The types of the update's state: whoever writes to a file writes to one *)
(* that is there.                                                          *)
TypeOK ==
  /\ compatible \in BOOLEAN /\ overlapped \in BOOLEAN /\ starting \in BOOLEAN
  /\ restore \in {"fine", "failed", "retried"}
  /\ proc \in Images \cup {"down"}
  /\ file \in [Names -> Contents \cup {None}]
  /\ update \in [Updates ->
       [pc : {"idle", "open", "copy", "verify", "backup", "place", "exec"},
        fd : Names \cup {None}, body : {"new", "junk"}, next : 1..3]]
  /\ \A u \in Updates : update[u].fd # None => file[update[u].fd] # None

(***************************************************************************)
(* Apply: "on failure ... the current binary is left unchanged".  When no  *)
(* update is under way, what runs is what a restart would start, unless    *)
(* the rename that puts the backup back has failed itself: applyUpdate     *)
(* ignores that, but then what runs is still the backup, until another     *)
(* update is announced.  As long as updates have not overlapped.           *)
(***************************************************************************)
BinaryMatches ==
  ~overlapped /\ proc # "down" /\ (\A u \in Updates : ~Busy(u)) =>
    /\ restore = "fine" => file["cur"] = Whole(proc)
    /\ restore = "failed" => file["bak"] = Whole(proc)

(***************************************************************************)
(* Whichever calls fail, and whenever the agent dies, a binary that runs   *)
(* on this machine, the one the agent had or the new one, is still there   *)
(* under its name or as ".bak", as long as updates have not overlapped and *)
(* a process whose restoring rename has failed starts no other update.     *)
(* The code does not ensure the latter: the next update takes whatever has *)
(* the name of the binary for the one to keep, and overwrites the backup.  *)
(***************************************************************************)
BinaryKept ==
  ~overlapped /\ restore # "retried" =>
    \E n \in {"cur", "bak"} :
      file[n] = Whole("old") \/ (compatible /\ file[n] = Whole("new"))

(***************************************************************************)
(* Nothing that was not verified is ever given the name of the binary or   *)
(* run, as long as updates have not overlapped.                            *)
(***************************************************************************)
OnlyVerified ==
  ~overlapped => /\ proc # "junk"
                 /\ file["cur"] \in {None, Whole("old"), Whole("new")}
=============================================================================
