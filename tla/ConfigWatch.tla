------------------------------ MODULE ConfigWatch ------------------------------
(***************************************************************************)
(* How the master follows its configuration on disk (cmd/master.go):       *)
(* watchConfigFile compares modification times, and every reload runs in a *)
(* goroutine of its own, one at a time under reloadMu, reads the config    *)
(* file and then the profiles file by file, publishes what it read, and    *)
(* keeps reloadMu until that has been sent to the agents.                  *)
(*                                                                         *)
(* The content of a file is known by the edit that made it.  Times are     *)
(* numbers, 0 is Go's zero time.  PROFILE_DIR does not change.  What the   *)
(* files mean for an agent is in ConfigFile and RuleSets, how the rules in  *)
(* force reach it in Master.                                               *)
(***************************************************************************)
EXTENDS Naturals, FiniteSets, FiniteSetsExt

CONSTANTS
  Config,      \* the config file
  Profiles,    \* names there may be in PROFILE_DIR
  InPlace,     \* files edited in place, the others are replaced
  MaxEdits,    \* bound: edits of the files
  MaxManual    \* bound: calls of ReloadConfig

ASSUME WatchAssumption ==
  /\ MaxEdits \in Nat /\ MaxManual \in Nat
  /\ Config \notin Profiles /\ InPlace \subseteq Profiles \cup {Config}

VARIABLES
  file,         \* every file: the edit it is from, its mtime, and whether
                \* it was written to the end
  edits,        \* edits so far
  watch,        \* watchConfigFile: "select", "profiles" (in a tick), "ended"
  changed, lastConf, lastSig,   \* its local variables
  fileWatcher,  \* the channel holds a request
  manual,       \* calls of ReloadConfig so far
  started,      \* goroutines that wait for reloadMu
  loads,        \* those that have it and read: where they are, what they
                \* have read
  notifying,    \* one has it and is in notifyAllAgents
  rules,        \* the configuration in force
  untold        \* history: the last edit left the times as the watcher has
                \* them, or came before it had any

disk == <<file, edits>>
watcher == <<watch, changed, lastConf, lastSig>>
loading == <<started, loads, notifying, rules>>
vars == <<disk, watcher, fileWatcher, manual, loading, untold>>

Files == {Config} \cup Profiles
Edits == 0..MaxEdits
Times == 0..(MaxEdits + 1)
Absent == [edit |-> 0, mtime |-> 0, whole |-> TRUE]

(* What a reader makes of files: which edit, and whether all of it. *)
Read(fs) == {<<f, file[f].edit, file[f].whole>> : f \in fs}
Present(fs) == {f \in fs : file[f] # Absent}
Content == Read(Present(Files))

(* latestProfileMod *)
latestProfileMod(d) == Max({d[p].mtime : p \in Profiles} \cup {0})

Init ==
  /\ file \in [Files -> {Absent, [edit |-> 0, mtime |-> 1, whole |-> TRUE]}]
  /\ file[Config] # Absent
  /\ edits = 0
  /\ watch = "select" /\ changed = FALSE /\ lastConf = 0 /\ lastSig = 0
  /\ fileWatcher = FALSE /\ manual = 0
  /\ started = 0 /\ loads = {} /\ notifying = FALSE
  /\ rules = Content
  /\ untold = FALSE

-----------------------------------------------------------------------------
(* The operator.  A file gets the time of the edit, or an old one when it  *)
(* is restored or moved in.                                                *)
Change(f, new) ==
  /\ edits < MaxEdits /\ edits' = edits + 1
  /\ file' = [file EXCEPT ![f] = new]
  /\ untold' = IF f = Config THEN lastConf = 0 \/ new.mtime = lastConf
               ELSE lastSig = 0 \/ latestProfileMod(file') = lastSig
  /\ UNCHANGED <<watcher, fileWatcher, manual, loading>>

Now == edits + 2

Replace(f, m) ==
  /\ f \notin InPlace
  /\ Change(f, [edit |-> edits + 1, mtime |-> m, whole |-> TRUE])

(* An editor that empties the file first. *)
BeginWrite(f) ==
  /\ f \in InPlace /\ file[f].whole
  /\ Change(f, [edit |-> edits + 1, mtime |-> Now, whole |-> FALSE])

EndWrite(f, m) ==
  /\ ~file[f].whole
  /\ Change(f, [edit |-> edits + 1, mtime |-> m, whole |-> TRUE])

Remove(f) == file[f] # Absent /\ file[f].whole /\ Change(f, Absent)

Edit == \E f \in Files :
  \/ \E m \in {1, Now} : Replace(f, m)
  \/ \E m \in {file[f].mtime, Now} : EndWrite(f, m)
  \/ BeginWrite(f) \/ Remove(f)

(* ReloadConfig: a request that is queued already is enough. *)
ReloadConfig ==
  /\ manual < MaxManual /\ manual' = manual + 1
  /\ fileWatcher' = TRUE /\ untold' = FALSE
  /\ UNCHANGED <<disk, watcher, loading>>

-----------------------------------------------------------------------------
(* watchConfigFile, a tick: the config file; a missing one is only logged ... *)
TickConfig ==
  LET m == file[Config].mtime
  IN  /\ watch = "select" /\ watch' = "profiles"
      /\ changed' = (m # 0 /\ m # lastConf /\ lastConf # 0)
      /\ lastConf' = IF m # 0 THEN m ELSE lastConf
      /\ UNCHANGED <<lastSig, disk, fileWatcher, manual, loading, untold>>

(* ... and the profiles. *)
TickProfilesMutant ==
  LET sig == latestProfileMod(file)
  IN  /\ watch = "profiles" /\ watch' = "select" /\ changed' = FALSE
      /\ lastSig' = sig
      /\ started' = IF changed \/ (lastSig # 0 /\ sig > lastSig)
                    THEN started + 1 ELSE started
      /\ UNCHANGED <<lastConf, disk, fileWatcher, manual, loads, notifying, rules,
                     untold>>
TickProfiles ==
  LET sig == latestProfileMod(file)
  IN  /\ watch = "profiles" /\ watch' = "select" /\ changed' = FALSE
      /\ lastSig' = sig
      /\ started' = IF changed \/ (lastSig # 0 /\ sig # lastSig)
                    THEN started + 1 ELSE started
      /\ UNCHANGED <<lastConf, disk, fileWatcher, manual, loads, notifying, rules,
                     untold>>

TakeRequest ==
  /\ watch = "select" /\ fileWatcher
  /\ fileWatcher' = FALSE /\ started' = started + 1
  /\ UNCHANGED <<disk, watcher, manual, loads, notifying, rules, untold>>

(* Stop closes done. *)
Stop ==
  /\ watch = "select" /\ watch' = "ended"
  /\ UNCHANGED <<disk, changed, lastConf, lastSig, fileWatcher, manual, loading,
                 untold>>

-----------------------------------------------------------------------------
(* loadConfigAndNotify.  A file that was not written to the end may parse, *)
(* as far as it goes, or not.                                              *)
loadOthers == <<disk, watcher, fileWatcher, manual, untold>>

(* reloadMu is locked and the config file parsed, or there is an error. *)
StartLoadMutant ==
  /\ started > 0 /\ started' = started - 1
  /\ \/ /\ file[Config] # Absent
        /\ loads' = loads \cup {[pc |-> "dir", got |-> Read({Config}), todo |-> {}]}
     \/ /\ file[Config] = Absent \/ ~file[Config].whole
        /\ UNCHANGED loads
  /\ UNCHANGED <<loadOthers, notifying, rules>>
StartLoadStuck ==
  /\ started > 0 /\ loads = {} /\ ~notifying /\ started' = started - 1
  /\ \/ /\ file[Config] # Absent
        /\ loads' = {[pc |-> "dir", got |-> Read({Config}), todo |-> {}]}
     \/ /\ file[Config] = Absent \/ ~file[Config].whole
        /\ loads' = {[pc |-> "error", got |-> {}, todo |-> {}]}
  /\ UNCHANGED <<loadOthers, notifying, rules>>
StartLoad ==
  /\ started > 0 /\ loads = {} /\ ~notifying /\ started' = started - 1
  /\ \/ /\ file[Config] # Absent
        /\ loads' = {[pc |-> "dir", got |-> Read({Config}), todo |-> {}]}
     \/ /\ file[Config] = Absent \/ ~file[Config].whole
        /\ UNCHANGED loads
  /\ UNCHANGED <<loadOthers, notifying, rules>>

Goes(l, k) == loads' = (loads \ {l}) \cup {k}

(* LoadProfileDir: what there is ... *)
ReadDir(l) ==
  /\ l.pc = "dir"
  /\ Goes(l, [l EXCEPT !.pc = "profiles", !.todo = Present(Profiles)])
  /\ UNCHANGED <<loadOthers, started, notifying, rules>>

(* ... one by one; one that cannot be read leaves no profile at all. *)
ReadProfile(l, p) ==
  /\ p \in l.todo
  /\ \/ /\ file[p] # Absent
        /\ Goes(l, [l EXCEPT !.got = @ \cup Read({p}), !.todo = @ \ {p}])
     \/ /\ file[p] = Absent \/ ~file[p].whole
        /\ Goes(l, [l EXCEPT !.got = {r \in @ : r[1] = Config}, !.todo = {}])
  /\ UNCHANGED <<loadOthers, started, notifying, rules>>

(* What was read is in force ... *)
Publish(l) ==
  /\ l.pc = "profiles" /\ l.todo = {}
  /\ rules' = l.got
  /\ loads' = loads \ {l} /\ notifying' = TRUE
  /\ UNCHANGED <<loadOthers, started>>

(* ... and has been sent to every agent, see Master: reloadMu is free again. *)
(* A send has no deadline, so this waits for each of them to read.           *)
Notified ==
  /\ notifying /\ notifying' = FALSE
  /\ UNCHANGED <<loadOthers, started, loads, rules>>

Load == \/ StartLoad
        \/ \E l \in loads : \/ ReadDir(l) \/ Publish(l)
                            \/ \E p \in Profiles : ReadProfile(l, p)

Watching == TickConfig \/ TickProfiles \/ TakeRequest \/ Stop
Next == Edit \/ ReloadConfig \/ Watching \/ Load \/ Notified

(* The ticker ticks; select does not pass over a channel that is ready for *)
(* ever; reading does not block.                                           *)
Spec == /\ Init /\ [][Next]_vars
        /\ WF_vars(TickConfig) /\ WF_vars(TickProfiles) /\ SF_vars(TakeRequest)
        /\ WF_vars(Load)

(* Agents read what they are sent, or are gone: an agent that stays connected *)
(* and silent would block the reload that sends to it, and all later ones.    *)
ReadingSpec == Spec /\ WF_vars(Notified)

-----------------------------------------------------------------------------
Contents == SUBSET (Files \X Edits \X BOOLEAN)

TypeOK ==
  /\ file \in [Files -> [edit : Edits, mtime : Times, whole : BOOLEAN]]
  /\ edits \in Edits /\ manual \in 0..MaxManual
  /\ watch \in {"select", "profiles", "ended"} /\ changed \in BOOLEAN
  /\ lastConf \in Times /\ lastSig \in Times
  /\ fileWatcher \in BOOLEAN /\ started \in Nat
  /\ loads \subseteq [pc : {"dir", "profiles"}, got : Contents,
                      todo : SUBSET Profiles]
  /\ notifying \in BOOLEAN /\ rules \in Contents /\ untold \in BOOLEAN

Readable == file[Config] # Absent /\ \A f \in Files : file[f].whole
InForce == rules = Content
Quiet == /\ watch = "select" /\ ~fileWatcher /\ started = 0 /\ loads = {}
         /\ lastConf = file[Config].mtime /\ lastSig = latestProfileMod(file)

(***************************************************************************)
(* "A reload is triggered whenever the config file or any .profile file is *)
(* modified, added, or removed", for every edit that gives the config file *)
(* a new time, or the directory a new latest one, once the watcher has a   *)
(* time to compare with: when nothing is under way, what is on disk is in  *)
(* force, whatever edits came between two reads of a reload.               *)
(***************************************************************************)
QuietMeansCurrent == Quiet /\ Readable /\ ~untold => InForce

(***************************************************************************)
(* Reloads overlap, but "cannot interleave": the configuration in force is *)
(* never replaced by an older one.                                         *)
(***************************************************************************)
EditOf(c) == CHOOSE e \in Edits : \E w \in BOOLEAN : <<Config, e, w>> \in c
NeverBackwards == [][EditOf(rules') >= EditOf(rules)]_vars

(***************************************************************************)
(* Every such edit takes effect, and so does every request for a reload,   *)
(* as long as the master runs, the files can be read in the end, and the   *)
(* agents read what they are sent (ReadingSpec): the code has no deadline  *)
(* for a send, and one silent agent keeps reloadMu locked for good.        *)
(***************************************************************************)
EditsTakeEffect ==
  [](watch # "ended") => <>[](untold \/ ~Readable \/ InForce)
=============================================================================
