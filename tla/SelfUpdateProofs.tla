--------------------------- MODULE SelfUpdateProofs ---------------------------
(***************************************************************************)
(* What is proved of SelfUpdate, for any number of updates and crashes.    *)
(***************************************************************************)
EXTENDS SelfUpdate, TLAPS

PCs == {"idle", "open", "copy", "verify", "backup", "place", "exec"}
Progress == [pc : PCs, fd : Names \cup {None}, body : {"new", "junk"}, next : 1..3]

(* Only the goroutine that copies has a file open, the download. *)
OpenFiles == \A u \in Updates :
  update[u].fd = IF update[u].pc = "copy" THEN "tmp" ELSE None

(* One update at a time, and only in an agent started from the old binary. *)
OneUpdate == \A u \in Updates : Busy(u) =>
  /\ proc = "old"
  /\ \A w \in Updates : Busy(w) => u = w

(* What an update has done so far. *)
Stages == \A u \in Updates :
  /\ update[u].pc = "backup" => file["tmp"] = Whole("new")
  /\ update[u].pc = "place" => file["tmp"] = Whole("new")
  /\ update[u].pc \in {"place", "exec"} /\ restore = "fine" =>
       file["bak"] = Whole("old")
  /\ update[u].pc = "exec" => file["cur"] = Whole("new")

(* What is under the name of the binary. *)
Binary ==
  /\ proc \in {"old", "new", "down"}
  /\ proc = "new" => /\ compatible /\ file["cur"] = Whole("new")
                     /\ restore = "fine"
  /\ proc = "old" /\ restore = "fine" =>
       \/ file["cur"] = Whole("old")
       \/ \E u \in Updates : update[u].pc \in {"place", "exec"}

(* What there is to restore: after a failure the backup is what runs, and *)
(* the next update may replace it.                                        *)
Backed ==
  /\ restore = "failed" =>
       /\ proc = "old" => file["bak"] = Whole("old")
       /\ \A u \in Updates : ~Busy(u)
  /\ restore = "retried" => file["bak"] \in {None, Whole("old"), Whole("new")}

Calm == ~overlapped => OpenFiles /\ OneUpdate /\ Stages /\ Binary /\ Backed
                         /\ BinaryKept /\ OnlyVerified

(* An agent that is down or starting updates nothing, and one that is *)
(* starting has not failed to restore anything.                       *)
Quiet == /\ starting \/ proc = "down" => \A u \in Updates : update[u] = Idle
         /\ starting => restore = "fine"

Safe == TypeOK /\ Quiet /\ Calm

-----------------------------------------------------------------------------
(* Files written whole are distinct, and are files. *)
LEMMA WholeFacts ==
  /\ \A b \in Images \cup {"gap"} : Whole(b) \in Contents /\ Whole(b) # None
  /\ \A b, c \in Images \cup {"gap"} : b # c => Whole(b) # Whole(c)
<1>1. \A b \in Images \cup {"gap"} : Whole(b) \in Contents
  BY DEF Whole, Contents
<1>2. \A b : Whole(b)[1] = b
  BY DEF Whole, Blocks
<1>3. QED
  BY <1>1, <1>2, UpdateAssumption

(* The part of the types that renaming and removing must keep. *)
FileTypes(f, updates) ==
  /\ f \in [Names -> Contents \cup {None}]
  /\ updates \in [Updates -> Progress]
  /\ \A u \in Updates : updates[u].fd # None => f[updates[u].fd] # None

LEMMA TypeParts ==
  TypeOK <=> /\ compatible \in BOOLEAN /\ overlapped \in BOOLEAN
             /\ starting \in BOOLEAN /\ restore \in {"fine", "failed", "retried"}
             /\ proc \in Images \cup {"down"}
             /\ FileTypes(file, update)
BY DEF TypeOK, FileTypes, Progress, PCs

(* Going on or returning keeps the types; so does waiting for the next step *)
(* with no file open.                                                       *)
LEMMA GotoTypes ==
  ASSUME FileTypes(file, update), NEW u \in Updates, NEW pc \in PCs
  PROVE  /\ FileTypes(file, Goto(u, pc)) /\ FileTypes(file, Return(u))
         /\ \A w \in Updates \ {u} : /\ Goto(u, pc)[w] = update[w]
                                     /\ Return(u)[w] = update[w]
         /\ Goto(u, pc)[u].pc = pc /\ Goto(u, pc)[u].fd = None
         /\ Return(u)[u] = Idle
<1>1. Idle \in Progress /\ Idle.fd = None
  BY DEF Idle, Progress, PCs
<1>2. [update[u] EXCEPT !.pc = pc, !.fd = None] \in Progress
  BY DEF FileTypes, Progress
<1>3. Goto(u, pc) = [update EXCEPT ![u] = [update[u] EXCEPT !.pc = pc, !.fd = None]]
  BY DEF Goto, FileTypes
<1>4. /\ Goto(u, pc) \in [Updates -> Progress]
      /\ Return(u) \in [Updates -> Progress]
      /\ \A w \in Updates \ {u} : /\ Goto(u, pc)[w] = update[w]
                                  /\ Return(u)[w] = update[w]
  BY <1>1, <1>2, <1>3 DEF Return, FileTypes
<1>5. Goto(u, pc)[u] = [update[u] EXCEPT !.pc = pc, !.fd = None]
  BY <1>3 DEF FileTypes
<1>6. /\ Goto(u, pc)[u].pc = pc /\ Goto(u, pc)[u].fd = None
      /\ Return(u)[u] = Idle
  BY <1>5 DEF Return, FileTypes, Progress
<1>7. FileTypes(file, Goto(u, pc))
  BY <1>4, <1>6 DEF FileTypes
<1>8. FileTypes(file, Return(u))
  BY <1>1, <1>4, <1>6 DEF FileTypes
<1>9. QED
  BY <1>4, <1>6, <1>7, <1>8

(* A file that is renamed stays open, one that is replaced is seen no more. *)
LEMMA RenameTypes ==
  ASSUME NEW from \in Names, NEW to \in Names, from # to,
         NEW updates, FileTypes(file, updates), file[from] # None,
         Rename(from, to, updates)
  PROVE  /\ FileTypes(file', update')
         /\ \A u \in Updates :
              update'[u] = [updates[u] EXCEPT
                !.fd = IF @ = from THEN to ELSE IF @ = to THEN None ELSE @]
<1>1. /\ file' = [file EXCEPT ![to] = file[from], ![from] = None]
      /\ update' = Followed(updates, from, to)
  BY DEF Rename
<1>2. file' \in [Names -> Contents \cup {None}]
  BY <1>1 DEF FileTypes
<1>3. \A n \in Names : file'[n] = IF n = from THEN None
                                ELSE IF n = to THEN file[from] ELSE file[n]
  BY <1>1 DEF FileTypes
<1>4. \A u \in Updates :
        /\ update'[u] = [updates[u] EXCEPT
             !.fd = IF @ = from THEN to ELSE IF @ = to THEN None ELSE @]
        /\ update'[u] \in Progress
        /\ update'[u].fd = IF updates[u].fd = from THEN to
                           ELSE IF updates[u].fd = to THEN None
                           ELSE updates[u].fd
  BY <1>1 DEF Followed, FileTypes, Progress
<1>5. update' \in [Updates -> Progress]
  BY <1>1, <1>4 DEF Followed
<1>6. ASSUME NEW u \in Updates, update'[u].fd # None
      PROVE  file'[update'[u].fd] # None
  <2>1. updates[u].fd \in Names \cup {None}
    BY DEF FileTypes, Progress
  <2>2. QED
    BY <1>3, <1>4, <1>6, <2>1, UpdateAssumption DEF FileTypes
<1>7. QED
  BY <1>2, <1>4, <1>5, <1>6 DEF FileTypes

LEMMA RemoveTypes ==
  ASSUME FileTypes(file, update), NEW u \in Updates, RemoveTemp(u)
  PROVE  /\ FileTypes(file', update')
         /\ file'["tmp"] = None
         /\ \A n \in Names \ {"tmp"} : file'[n] = file[n]
         /\ update'[u] = Idle
         /\ \A w \in Updates \ {u} :
              update'[w] = [update[w] EXCEPT
                !.fd = IF @ = "tmp" THEN None ELSE @]
<1> DEFINE ret == Return(u)
<1>1. /\ file' = [file EXCEPT !["tmp"] = None]
      /\ update' = Followed(ret, "tmp", None)
  BY DEF RemoveTemp
<1>2. /\ FileTypes(file, ret) /\ ret[u] = Idle
      /\ \A w \in Updates \ {u} : ret[w] = update[w]
  BY GotoTypes DEF PCs
<1> HIDE DEF ret
<1>3. \A w \in Updates :
        /\ update'[w] = [ret[w] EXCEPT !.fd = IF @ = "tmp" THEN None ELSE @]
        /\ update'[w] \in Progress
        /\ update'[w].fd = IF ret[w].fd = "tmp" THEN None ELSE ret[w].fd
  BY <1>1, <1>2 DEF Followed, FileTypes, Progress
<1>4. update'[u] = Idle
  BY <1>2, <1>3 DEF Idle
<1>5. /\ file' \in [Names -> Contents \cup {None}]
      /\ file'["tmp"] = None
      /\ \A n \in Names \ {"tmp"} : file'[n] = file[n]
  BY <1>1 DEF FileTypes, Names
<1>6. update' \in [Updates -> Progress]
  BY <1>1, <1>3 DEF Followed
<1>7. \A w \in Updates : update'[w].fd # None => file'[update'[w].fd] # None
  <2> TAKE w \in Updates
  <2>1. ret[w].fd \in Names \cup {None}
    BY <1>2 DEF FileTypes, Progress
  <2>2. QED
    BY <1>2, <1>3, <1>5, <2>1 DEF FileTypes
<1>8. QED
  BY <1>2, <1>3, <1>4, <1>5, <1>6, <1>7 DEF FileTypes

(* What Restore does to the files, and what it leaves when it fails; the *)
(* types are kept.                                                       *)
LEMMA RestoreTypes ==
  ASSUME FileTypes(file, update), NEW u \in Updates, Restore(u)
  PROVE  /\ FileTypes(file', update')
         /\ \/ UNCHANGED file /\ restore' = IF restore = "fine" THEN "failed"
                                             ELSE restore
            \/ /\ UNCHANGED restore /\ file["bak"] # None
               /\ file'["cur"] = file["bak"] /\ file'["bak"] = None
         /\ update'[u] = Idle
         /\ \A w \in Updates \ {u} :
              /\ update'[w].pc = update[w].pc
              /\ update[w].fd = None => update'[w].fd = None
<1> DEFINE ret == Return(u)
<1>1. /\ FileTypes(file, ret) /\ ret[u] = Idle
      /\ \A w \in Updates \ {u} : ret[w] = update[w]
  BY GotoTypes DEF PCs
<1>2. CASE /\ file["bak"] # None /\ Rename("bak", "cur", Return(u))
           /\ UNCHANGED restore
  <2>1. Rename("bak", "cur", ret)
    BY <1>2
  <2> HIDE DEF ret
  <2>2. /\ FileTypes(file', update')
        /\ \A w \in Updates :
             update'[w] = [ret[w] EXCEPT
               !.fd = IF @ = "bak" THEN "cur" ELSE IF @ = "cur" THEN None ELSE @]
    BY <1>1, <1>2, <2>1, RenameTypes DEF Names
  <2>3. file'["cur"] = file["bak"] /\ file'["bak"] = None
    BY <2>1, <1>1 DEF Rename, FileTypes, Names
  <2>4. update'[u] = Idle
    BY <1>1, <2>2, UpdateAssumption DEF Idle, Names
  <2>5. \A w \in Updates \ {u} :
          /\ update'[w].pc = update[w].pc
          /\ update[w].fd = None => update'[w].fd = None
    BY <1>1, <2>2, UpdateAssumption DEF FileTypes, Progress, Names
  <2>6. QED
    BY <1>2, <2>2, <2>3, <2>4, <2>5
<1>3. CASE /\ UNCHANGED file /\ update' = Return(u)
           /\ restore' = IF restore = "fine" THEN "failed" ELSE restore
  BY <1>1, <1>3
<1>4. QED
  BY <1>2, <1>3 DEF Restore

(* Under calm, when u has taken a step and stays in the process. *)
LEMMA CalmStep ==
  ASSUME NEW u \in Updates, Safe, ~overlapped, Busy(u),
         FileTypes(file', update'), UNCHANGED <<compatible, proc, restore>>,
         \A w \in Updates \ {u} : /\ update'[w].pc = update[w].pc
                                  /\ update[w].fd = None => update'[w].fd = None,
         update'[u].fd = IF update'[u].pc = "copy" THEN "tmp" ELSE None,
         update'[u].pc \in {"backup", "place"} => file'["tmp"] = Whole("new"),
         update'[u].pc = "exec" => file'["cur"] = Whole("new"),
         restore = "fine" =>
           /\ update'[u].pc \in {"place", "exec"} => file'["bak"] = Whole("old")
           /\ update'[u].pc \notin {"place", "exec"} => file'["cur"] = Whole("old"),
         restore = "retried" => file'["bak"] \in {None, Whole("old"), Whole("new")},
         file'["cur"] \in {None, Whole("old"), Whole("new")}
  PROVE  Calm'
<1>1. /\ proc = "old" /\ OpenFiles /\ restore \in {"fine", "retried"}
      /\ \A w \in Updates \ {u} : update[w].pc = "idle" /\ update[w].fd = None
  BY DEF Safe, TypeOK, Calm, OneUpdate, OpenFiles, Backed, Busy
<1>2. \A w \in Updates \ {u} : update'[w].pc = "idle" /\ update'[w].fd = None
  BY <1>1
<1>3. OpenFiles' /\ OneUpdate' /\ Stages'
  BY <1>1, <1>2 DEF OpenFiles, OneUpdate, Stages, Busy
<1>4. update'[u].pc \in PCs
  BY DEF FileTypes, Progress
<1>5. Binary' /\ Backed' /\ BinaryKept' /\ OnlyVerified'
  BY <1>1, <1>4 DEF Binary, Backed, BinaryKept, OnlyVerified, PCs
<1>6. QED
  BY <1>3, <1>5 DEF Calm

(* Before it renames the binary, an update leaves it alone. *)
LEMMA CalmBefore ==
  ASSUME NEW u \in Updates, Safe, ~overlapped, Busy(u)
  PROVE  /\ proc = "old" /\ restore \in {"fine", "retried"}
         /\ \A w \in Updates \ {u} : ~Busy(w) /\ update[w].fd = None
         /\ update[u].fd = IF update[u].pc = "copy" THEN "tmp" ELSE None
         /\ update[u].pc \in {"backup", "place"} => file["tmp"] = Whole("new")
         /\ update[u].pc = "exec" => file["cur"] = Whole("new")
         /\ restore = "fine" =>
              /\ update[u].pc \in {"place", "exec"} => file["bak"] = Whole("old")
              /\ update[u].pc \notin {"place", "exec"} => file["cur"] = Whole("old")
         /\ restore = "retried" =>
              file["bak"] \in {None, Whole("old"), Whole("new")}
         /\ file["cur"] \in {None, Whole("old"), Whole("new")}
BY DEF Safe, TypeOK, Calm, OneUpdate, OpenFiles, Busy, Binary, Backed, Stages,
       OnlyVerified
-----------------------------------------------------------------------------
(* Every step of an update keeps the types and the calm. *)

LEMMA AnnounceSafe ==
  ASSUME Safe, NEW u \in Updates, Announce(u) PROVE Safe'
<1>1. FileTypes(file, update)
  BY TypeParts DEF Safe
<1>2. /\ UNCHANGED <<compatible, proc, starting, file>> /\ update' = Goto(u, "open")
      /\ overlapped' = (overlapped \/ \E w \in Updates : Busy(w))
      /\ restore' = IF restore = "fine" THEN "fine" ELSE "retried"
      /\ proc \in {"older", "old"} /\ ~starting /\ ~Busy(u)
  BY DEF Announce
<1>3. /\ FileTypes(file, update') /\ update'[u].pc = "open" /\ update'[u].fd = None
      /\ \A w \in Updates \ {u} : update'[w] = update[w]
  BY <1>1, <1>2, GotoTypes DEF PCs
<1>4. overlapped' \in BOOLEAN /\ restore' \in {"fine", "failed", "retried"}
  BY <1>2 DEF Safe, TypeOK
<1>5. TypeOK'
  BY <1>2, <1>3, <1>4, TypeParts DEF Safe, TypeOK, FileTypes, Progress, PCs
<1>6. ASSUME ~overlapped' PROVE Calm'
  <2>1. ~overlapped /\ \A w \in Updates : update[w].pc = "idle"
    BY <1>2, <1>6 DEF Busy
  <2>2. /\ OpenFiles /\ Binary /\ Backed /\ BinaryKept /\ OnlyVerified
        /\ restore \in {"fine", "failed", "retried"}
    BY <2>1 DEF Safe, Calm, TypeOK
  <2>3. /\ proc = "old"
        /\ restore = "fine" => file["cur"] = Whole("old")
        /\ restore # "fine" => file["bak"] \in {None, Whole("old"), Whole("new")}
    BY <1>2, <2>1, <2>2 DEF Binary, Backed
  <2>4. \A w \in Updates \ {u} : update'[w].pc = "idle" /\ update'[w].fd = None
    BY <1>3, <2>1, <2>2 DEF OpenFiles
  <2>5. OpenFiles' /\ OneUpdate' /\ Stages'
    BY <1>2, <1>3, <2>3, <2>4 DEF OpenFiles, OneUpdate, Stages, Busy
  <2>6. Binary' /\ Backed' /\ BinaryKept' /\ OnlyVerified'
    BY <1>2, <2>1, <2>2, <2>3 DEF Binary, Backed, BinaryKept, OnlyVerified
  <2>7. QED
    BY <2>5, <2>6 DEF Calm
<1>7. Quiet'
  BY <1>2, <1>3 DEF Quiet, Safe
<1>8. QED
  BY <1>5, <1>6, <1>7 DEF Safe, Calm

(* The steps within Apply and applyUpdate: u was busy, and the process and *)
(* the history are as before.                                              *)
LEMMA KeptSafe ==
  ASSUME Safe, UNCHANGED surroundings, restore' \in {"fine", "failed", "retried"},
         FileTypes(file', update'), ~overlapped => Calm',
         \/ \E u \in Updates : Busy(u)
         \/ UNCHANGED restore /\ \A u \in Updates : update'[u] = Idle
  PROVE  Safe'
<1>1. TypeOK'
  BY TypeParts DEF Safe, TypeOK, FileTypes, Progress, PCs, surroundings
<1>2. Quiet'
  BY DEF Safe, Quiet, Busy, Idle, surroundings
<1>3. QED
  BY <1>1, <1>2 DEF Safe, Calm, surroundings

LEMMA OthersSafe ==
  ASSUME Safe, UNCHANGED others, FileTypes(file', update'), ~overlapped => Calm',
         \E u \in Updates : Busy(u) \/ \A w \in Updates : update'[w] = Idle
  PROVE  Safe'
BY KeptSafe DEF others, Safe, TypeOK

LEMMA DownloadSafe ==
  ASSUME Safe, NEW u \in Updates, DownloadFails(u) PROVE Safe'
<1>1. FileTypes(file, update) /\ Busy(u)
  BY TypeParts DEF Safe, DownloadFails, Busy
<1>2. /\ UNCHANGED <<file, others>>
      /\ update' = Return(u) /\ update[u].pc = "open"
  BY DEF DownloadFails, others
<1>3. /\ FileTypes(file', update') /\ update'[u] = Idle
      /\ \A w \in Updates \ {u} : update'[w] = update[w]
  BY <1>1, <1>2, GotoTypes DEF PCs
<1>4. ASSUME ~overlapped PROVE Calm'
  BY <1>1, <1>2, <1>3, <1>4, CalmBefore, CalmStep DEF Idle, others, surroundings
<1>5. QED
  BY <1>1, <1>2, <1>3, <1>4, OthersSafe

LEMMA OpenTempSafe ==
  ASSUME Safe, NEW u \in Updates, OpenTemp(u) PROVE Safe'
<1>1. FileTypes(file, update) /\ Busy(u)
  BY TypeParts DEF Safe, OpenTemp, Busy
<1>2. PICK body \in {"new", "junk"} :
        update' = [update EXCEPT
          ![u] = [pc |-> "copy", fd |-> "tmp", body |-> body, next |-> 1]]
  BY DEF OpenTemp
<1>3. /\ file' = [file EXCEPT !["tmp"] = Whole("gap")]
      /\ UNCHANGED others /\ update[u].pc = "open"
  BY DEF OpenTemp, others
<1>4. /\ Whole("gap") \in Contents /\ Whole("gap") # None
      /\ "tmp" \in Names /\ "cur" \in Names
  BY WholeFacts DEF Names
<1>5. /\ file' \in [Names -> Contents \cup {None}]
      /\ file'["tmp"] # None
      /\ \A n \in Names \ {"tmp"} : file'[n] = file[n]
  BY <1>1, <1>3, <1>4 DEF FileTypes
<1>6. [pc |-> "copy", fd |-> "tmp", body |-> body, next |-> 1] \in Progress
  BY DEF Progress, PCs, Names
<1>7. /\ update' \in [Updates -> Progress]
      /\ update'[u].pc = "copy" /\ update'[u].fd = "tmp"
      /\ \A w \in Updates \ {u} : update'[w] = update[w]
  BY <1>1, <1>2, <1>6 DEF FileTypes
<1>8. FileTypes(file', update')
  <2>1. \A w \in Updates : update'[w].fd \in Names \cup {None}
    BY <1>7 DEF Progress
  <2>2. QED
    BY <1>1, <1>5, <1>7, <2>1 DEF FileTypes
<1>9. ASSUME ~overlapped PROVE Calm'
  <2>1. file'["cur"] = file["cur"] /\ file'["bak"] = file["bak"]
    BY <1>4, <1>5 DEF Names
  <2>2. QED
    BY <1>1, <1>3, <1>7, <1>8, <1>9, <2>1, CalmBefore, CalmStep
       DEF others, surroundings
<1>10. QED
  BY <1>1, <1>3, <1>8, <1>9, OthersSafe

LEMMA CopySafe ==
  ASSUME Safe, NEW u \in Updates, Copy(u) PROVE Safe'
<1>1. FileTypes(file, update) /\ Busy(u)
  BY TypeParts DEF Safe, Copy, Busy
<1> DEFINE written(n) == [file[n] EXCEPT ![update[u].next] = update[u].body]
<1>2. /\ file' = [n \in Names |-> IF n = update[u].fd THEN written(n) ELSE file[n]]
      /\ update' = [update EXCEPT ![u].next = @ + 1]
      /\ UNCHANGED others
      /\ update[u].pc = "copy" /\ update[u].next \in Blocks
  BY DEF Copy, others
<1>3. /\ update[u].body \in Images
      /\ update[u].fd \in Names => file[update[u].fd] \in Contents
  BY <1>1, UpdateAssumption DEF FileTypes, Progress, Images
<1>4. update[u].fd \in Names => written(update[u].fd) \in Contents
  BY <1>2, <1>3 DEF Contents
<1>5. None \notin Contents
  BY UpdateAssumption
<1>6. file' \in [Names -> Contents \cup {None}]
  BY <1>1, <1>2, <1>4 DEF FileTypes
<1>7. \A n \in Names : file[n] # None => file'[n] # None
  BY <1>2, <1>4, <1>5
<1>8. /\ update' \in [Updates -> Progress]
      /\ \A w \in Updates : /\ update'[w].pc = update[w].pc
                            /\ update'[w].fd = update[w].fd
  BY <1>1, <1>2 DEF FileTypes, Progress, Blocks
<1>9. FileTypes(file', update')
  <2>1. \A w \in Updates : update[w].fd \in Names \cup {None}
    BY <1>1 DEF FileTypes, Progress
  <2>2. QED
    BY <1>1, <1>6, <1>7, <1>8, <2>1 DEF FileTypes
<1>10. ASSUME ~overlapped PROVE Calm'
  <2>1. update[u].fd = "tmp"
    BY <1>1, <1>2, <1>10, CalmBefore
  <2>2. file'["cur"] = file["cur"] /\ file'["bak"] = file["bak"]
    BY <1>2, <2>1 DEF Names
  <2>3. /\ update'[u].pc = "copy" /\ update'[u].fd = "tmp"
        /\ \A w \in Updates : /\ update'[w].pc = update[w].pc
                              /\ update[w].fd = None => update'[w].fd = None
        /\ UNCHANGED <<compatible, proc, restore>>
    BY <1>2, <1>8, <2>1 DEF others, surroundings
  <2>4. /\ restore = "fine" => file'["cur"] = Whole("old")
        /\ restore = "retried" => file'["bak"] \in {None, Whole("old"), Whole("new")}
        /\ file'["cur"] \in {None, Whole("old"), Whole("new")}
    BY <1>1, <1>2, <1>10, <2>2, CalmBefore
  <2>5. QED
    BY <1>1, <1>9, <1>10, <2>3, <2>4, CalmStep
<1>11. QED
  BY <1>1, <1>2, <1>9, <1>10, OthersSafe
(* An update that gives up before it renames the binary. *)
LEMMA RemoveSafe ==
  ASSUME Safe, NEW u \in Updates, Busy(u), RemoveTemp(u), UNCHANGED others,
         update[u].pc \notin {"place", "exec"}
  PROVE  Safe'
<1>1. FileTypes(file, update)
  BY TypeParts DEF Safe
<1>2. /\ FileTypes(file', update') /\ update'[u] = Idle
      /\ \A n \in Names \ {"tmp"} : file'[n] = file[n]
      /\ \A w \in Updates \ {u} :
           update'[w] = [update[w] EXCEPT !.fd = IF @ = "tmp" THEN None ELSE @]
  BY <1>1, RemoveTypes
<1>3. \A w \in Updates \ {u} :
        /\ update'[w].pc = update[w].pc
        /\ update[w].fd = None => update'[w].fd = None
  BY <1>1, <1>2 DEF FileTypes, Progress
<1>4. ASSUME ~overlapped PROVE Calm'
  <2>1. file'["cur"] = file["cur"] /\ file'["bak"] = file["bak"]
    BY <1>2 DEF Names
  <2>2. QED
    BY <1>2, <1>3, <1>4, <2>1, CalmBefore, CalmStep DEF Idle, others, surroundings
<1>5. QED
  BY <1>2, <1>4, OthersSafe

(* An update that goes on, with its file closed and the names unchanged. *)
LEMMA GotoSafe ==
  ASSUME Safe, NEW u \in Updates, Busy(u), UNCHANGED <<file, others>>,
         NEW pc \in {"verify", "backup"}, update' = Goto(u, pc),
         update[u].pc \notin {"place", "exec"},
         pc = "backup" => file["tmp"] = Whole("new")
  PROVE  Safe'
<1>1. FileTypes(file, update)
  BY TypeParts DEF Safe
<1>2. /\ FileTypes(file', update') /\ update'[u].pc = pc /\ update'[u].fd = None
      /\ \A w \in Updates \ {u} : update'[w] = update[w]
  BY <1>1, GotoTypes DEF PCs
<1>3. ASSUME ~overlapped PROVE Calm'
  BY <1>2, <1>3, CalmBefore, CalmStep DEF others, surroundings
<1>4. QED
  BY <1>1, <1>2, <1>3, OthersSafe

(* A failure once the binary has been renamed. *)
LEMMA RestoreSafe ==
  ASSUME Safe, NEW u \in Updates, Restore(u), UNCHANGED surroundings,
         update[u].pc \in {"place", "exec"}
  PROVE  Safe'
<1>1. FileTypes(file, update) /\ Busy(u) /\ restore \in {"fine", "failed", "retried"}
  BY TypeParts DEF Safe, TypeOK, Busy
<1>2. /\ FileTypes(file', update')
      /\ \/ UNCHANGED file /\ restore' = IF restore = "fine" THEN "failed"
                                          ELSE restore
         \/ /\ UNCHANGED restore /\ file["bak"] # None
            /\ file'["cur"] = file["bak"] /\ file'["bak"] = None
      /\ update'[u] = Idle
      /\ \A w \in Updates \ {u} :
           /\ update'[w].pc = update[w].pc
           /\ update[w].fd = None => update'[w].fd = None
  BY <1>1, RestoreTypes
<1>3. ASSUME ~overlapped PROVE Calm'
  <2>1. CASE restore' = restore
    <3>1. /\ restore \in {"fine", "retried"}
          /\ restore = "fine" => file["bak"] = Whole("old")
      BY <1>1, <1>3, CalmBefore
    <3>2. /\ restore = "fine" => file'["cur"] = Whole("old")
          /\ restore = "retried" => file'["bak"] \in {None, Whole("old"), Whole("new")}
          /\ file'["cur"] \in {None, Whole("old"), Whole("new")}
      BY <1>1, <1>2, <1>3, <2>1, <3>1, CalmBefore
    <3>3. QED
      BY <1>1, <1>2, <1>3, <2>1, <3>2, CalmStep DEF Idle, surroundings
  <2>2. CASE restore' # restore
    <3>1. restore = "fine" /\ restore' = "failed" /\ UNCHANGED file
      BY <1>2, <2>2
    <3>2. /\ proc = "old" /\ file["bak"] = Whole("old")
          /\ \A w \in Updates \ {u} : ~Busy(w) /\ update[w].fd = None
          /\ file["cur"] \in {None, Whole("old"), Whole("new")}
      BY <1>1, <1>3, <3>1, CalmBefore
    <3>3. \A w \in Updates : update'[w].pc = "idle" /\ update'[w].fd = None
      BY <1>2, <3>2 DEF Idle, Busy
    <3>4. OpenFiles' /\ OneUpdate' /\ Stages'
      BY <3>3 DEF OpenFiles, OneUpdate, Stages, Busy
    <3>5. Binary' /\ Backed' /\ BinaryKept' /\ OnlyVerified'
      BY <3>1, <3>2, <3>3 DEF Binary, Backed, BinaryKept, OnlyVerified, Busy,
         surroundings
    <3>6. QED
      BY <3>4, <3>5 DEF Calm
  <2>3. QED
    BY <2>1, <2>2
<1>4. restore' \in {"fine", "failed", "retried"}
  BY <1>1, <1>2
<1>5. QED
  BY <1>1, <1>2, <1>3, <1>4, KeptSafe

(* A rename by which an update goes on: of the binary to ".bak", and of the *)
(* download to the binary.                                                  *)
LEMMA RenameSafe ==
  ASSUME Safe, NEW u \in Updates, UNCHANGED others,
         NEW from \in Names, NEW to \in Names, NEW pc \in PCs,
         file[from] # None, Rename(from, to, Goto(u, pc)),
         \/ /\ from = "cur" /\ to = "bak" /\ pc = "place"
            /\ update[u].pc = "backup"
         \/ /\ from = "tmp" /\ to = "cur" /\ pc = "exec"
            /\ update[u].pc = "place"
  PROVE  Safe'
<1> DEFINE next == Goto(u, pc)
<1>1. FileTypes(file, update) /\ Busy(u)
  BY TypeParts DEF Safe, Busy
<1>2. /\ FileTypes(file, next) /\ next[u].pc = pc /\ next[u].fd = None
      /\ \A w \in Updates \ {u} : next[w] = update[w]
  BY <1>1, GotoTypes
<1>3. Rename(from, to, next)
  OBVIOUS
<1> HIDE DEF next
<1>4. /\ FileTypes(file', update')
      /\ \A w \in Updates :
           update'[w] = [next[w] EXCEPT
             !.fd = IF @ = from THEN to ELSE IF @ = to THEN None ELSE @]
  BY <1>2, <1>3, RenameTypes
<1>5. /\ \A w \in Updates :
           /\ update'[w].pc = next[w].pc
           /\ next[w].fd = None => update'[w].fd = None
  BY <1>2, <1>4, UpdateAssumption DEF FileTypes, Progress
<1>6. file' = [file EXCEPT ![to] = file[from], ![from] = None]
  BY <1>3 DEF Rename
<1>7. ASSUME ~overlapped PROVE Calm'
  <2>1. /\ file["tmp"] = Whole("new") /\ file["cur"] \in {None, Whole("old"), Whole("new")}
        /\ restore = "fine" =>
             /\ update[u].pc = "backup" => file["cur"] = Whole("old")
             /\ update[u].pc = "place" => file["bak"] = Whole("old")
        /\ restore = "retried" => file["bak"] \in {None, Whole("old"), Whole("new")}
    BY <1>1, <1>7, CalmBefore
  <2>2. /\ pc = "place" => /\ file'["bak"] = file["cur"] /\ file'["cur"] = None
                          /\ file'["tmp"] = Whole("new")
        /\ pc = "exec" => file'["bak"] = file["bak"] /\ file'["cur"] = Whole("new")
    BY <1>1, <1>6, <2>1 DEF FileTypes, Names
  <2>3. /\ \A w \in Updates \ {u} :
             /\ update'[w].pc = update[w].pc
             /\ update[w].fd = None => update'[w].fd = None
        /\ update'[u].pc = pc /\ update'[u].fd = None
    BY <1>2, <1>5
  <2>4. QED
    BY <1>1, <1>4, <1>7, <2>1, <2>2, <2>3, CalmStep DEF others, surroundings
<1>8. QED
  BY <1>1, <1>4, <1>7, OthersSafe

(* What is under the name starts, or the process ends. *)
LEMMA NewImage ==
  ASSUME ~overlapped, BinaryKept, OnlyVerified, Backed,
         UNCHANGED <<compatible, file, overlapped>>,
         proc' \in Images \cup {"down"}, Idle.pc = "idle",
         proc' # "down" => Starts(proc') /\ restore' = "fine",
         proc' = "down" => UNCHANGED restore,
         \A w \in Updates : update'[w] = Idle
  PROVE  Binary' /\ Backed' /\ BinaryKept' /\ OnlyVerified'
<1>1. /\ proc' \in {"old", "new", "down"}
      /\ proc' = "old" => file["cur"] = Whole("old")
      /\ proc' = "new" => compatible /\ file["cur"] = Whole("new")
  BY WholeFacts DEF Starts, OnlyVerified, Images
<1>2. Binary' /\ Backed'
  BY <1>1 DEF Binary, Backed, Busy
<1>3. BinaryKept' /\ OnlyVerified'
  BY <1>1 DEF BinaryKept, OnlyVerified
<1>4. QED
  BY <1>2, <1>3

(* The process is replaced, ends or starts. *)
LEMMA ProcessSafe ==
  ASSUME Safe, Crash \/ Restart \/ \E u \in Updates : Exec(u)
  PROVE  Safe'
<1>1. /\ UNCHANGED <<compatible, file, overlapped>>
      /\ proc' \in Images \cup {"down"} /\ starting' \in BOOLEAN
      /\ proc' # "down" => Starts(proc') /\ restore' = "fine"
      /\ proc' = "down" => UNCHANGED <<restore, starting>>
      /\ restore' \in {"fine", "failed", "retried"}
  BY DEF Crash, Restart, Exec, Safe, TypeOK, Images
<1>2. Idle \in Progress /\ Idle.fd = None /\ Idle.pc = "idle"
  BY DEF Idle, Progress, PCs
<1>3. CASE update' = [w \in Updates |-> Idle]
  <2>1. FileTypes(file', update')
    BY <1>1, <1>2, <1>3, TypeParts DEF Safe, FileTypes
  <2>2. TypeOK'
    BY <1>1, <2>1, TypeParts DEF Safe, TypeOK, FileTypes, Progress, PCs
  <2>3. ASSUME ~overlapped PROVE Calm'
    <3>1. \A w \in Updates : update'[w] = Idle
      BY <1>3
    <3>2. OpenFiles' /\ OneUpdate' /\ Stages'
      BY <1>2, <3>1 DEF OpenFiles, OneUpdate, Stages, Busy
    <3>3. Binary' /\ Backed' /\ BinaryKept' /\ OnlyVerified'
      BY <1>1, <1>2, <2>3, <3>1, NewImage DEF Safe, Calm
    <3>4. QED
      BY <3>2, <3>3 DEF Calm
  <2>4. QED
    BY <1>1, <1>3, <2>2, <2>3 DEF Safe, Quiet, Calm
<1>4. CASE Restart
  <2>1. UNCHANGED update /\ proc = "down"
    BY <1>4 DEF Restart
  <2>2. TypeOK'
    BY <1>1, <2>1 DEF Safe, TypeOK
  <2>3. ASSUME ~overlapped PROVE Calm'
    <3>1. /\ OpenFiles /\ BinaryKept /\ OnlyVerified /\ Backed
          /\ \A w \in Updates : update'[w] = Idle
      BY <2>1, <2>3 DEF Safe, Calm, Quiet
    <3>2. OpenFiles' /\ OneUpdate' /\ Stages'
      BY <1>2, <3>1 DEF OpenFiles, OneUpdate, Stages, Busy
    <3>3. Binary' /\ Backed' /\ BinaryKept' /\ OnlyVerified'
      BY <1>1, <1>2, <2>3, <3>1, NewImage
    <3>4. QED
      BY <3>2, <3>3 DEF Calm
  <2>4. QED
    BY <1>1, <2>1, <2>2, <2>3 DEF Safe, Quiet, Calm
<1>5. QED
  BY <1>3, <1>4 DEF Crash, Exec

(* A process that has started needs no backup. *)
LEMMA CleanSafe ==
  ASSUME Safe, CleanBackup PROVE Safe'
<1>1. /\ file' \in {file, [file EXCEPT !["bak"] = None]}
      /\ UNCHANGED <<compatible, proc, update, overlapped, restore>>
      /\ proc # "down" /\ starting /\ starting' = FALSE
  BY DEF CleanBackup
<1>2. restore = "fine" /\ \A u \in Updates : update[u] = Idle
  BY <1>1 DEF Safe, Quiet
<1>3. /\ file' \in [Names -> Contents \cup {None}]
      /\ file'["cur"] = file["cur"]
  BY <1>1 DEF Safe, TypeOK, Names
<1>4. TypeOK' /\ Quiet'
  <2>1. FileTypes(file', update')
    BY <1>1, <1>2, <1>3, TypeParts DEF Safe, FileTypes, Idle
  <2>2. TypeOK'
    BY <1>1, <2>1, TypeParts DEF Safe, TypeOK, FileTypes, Progress, PCs
  <2>3. Quiet'
    BY <1>1, <1>2 DEF Quiet
  <2>4. QED
    BY <2>2, <2>3
<1>5. ASSUME ~overlapped PROVE Calm'
  <2>1. OpenFiles' /\ OneUpdate' /\ Stages'
    BY <1>1, <1>2 DEF OpenFiles, OneUpdate, Stages, Busy, Idle
  <2>2. \/ proc = "old" /\ file["cur"] = Whole("old")
        \/ proc = "new" /\ compatible /\ file["cur"] = Whole("new")
    BY <1>1, <1>2, <1>5 DEF Safe, Calm, Binary, Idle
  <2>3. Binary' /\ Backed' /\ BinaryKept' /\ OnlyVerified'
    BY <1>1, <1>2, <1>3, <2>2 DEF Binary, Backed, BinaryKept, OnlyVerified
  <2>4. QED
    BY <2>1, <2>3 DEF Calm
<1>6. QED
  BY <1>1, <1>4, <1>5 DEF Safe, Calm

(* The operator puts the backup in place. *)
LEMMA RecoverSafe ==
  ASSUME Safe, Recover PROVE Safe'
<1>1. FileTypes(file, update)
  BY TypeParts DEF Safe
<1>2. /\ proc = "down" /\ file["bak"] # None /\ \A p \in Images : ~Starts(p)
      /\ Rename("bak", "cur", update) /\ UNCHANGED others
  BY DEF Recover
<1>3. /\ FileTypes(file', update')
      /\ \A w \in Updates :
           update'[w] = [update[w] EXCEPT
             !.fd = IF @ = "bak" THEN "cur" ELSE IF @ = "cur" THEN None ELSE @]
  BY <1>1, <1>2, RenameTypes DEF Names
<1>4. file'["cur"] = file["bak"] /\ file'["bak"] = None
  BY <1>1, <1>2 DEF Rename, FileTypes, Names
<1>5. ASSUME ~overlapped PROVE Calm'
  <2>1. /\ OpenFiles /\ OneUpdate /\ Stages /\ BinaryKept /\ OnlyVerified /\ Backed
        /\ restore \in {"fine", "failed", "retried"}
        /\ \A w \in Updates : update[w].pc = "idle" /\ update[w].fd = None
    BY <1>2, <1>5 DEF Safe, TypeOK, Calm, OneUpdate, OpenFiles, Busy
  <2>2. \A w \in Updates : update'[w].pc = "idle" /\ update'[w].fd = None
    BY <1>1, <1>3, <2>1, UpdateAssumption DEF FileTypes, Progress, Names
  <2>3. OpenFiles' /\ OneUpdate' /\ Stages'
    BY <2>2 DEF OpenFiles, OneUpdate, Stages, Busy
  <2>4. restore # "retried" => \/ file["bak"] = Whole("old")
                               \/ compatible /\ file["bak"] = Whole("new")
    <3>1. /\ file["cur"] # Whole("old")
          /\ ~(compatible /\ file["cur"] = Whole("new"))
      BY <1>2, WholeFacts DEF Starts, Images
    <3>2. QED
      BY <1>5, <2>1, <3>1 DEF BinaryKept
  <2>5. Binary' /\ Backed' /\ BinaryKept' /\ OnlyVerified'
    BY <1>2, <1>4, <2>1, <2>2, <2>4
       DEF Binary, Backed, BinaryKept, OnlyVerified, Busy, others, surroundings
  <2>6. QED
    BY <2>3, <2>5 DEF Calm
<1>6. \A w \in Updates : update'[w] = Idle
  BY <1>2, <1>3, UpdateAssumption DEF Safe, Quiet, Idle, Names
<1>7. QED
  BY <1>2, <1>3, <1>5, <1>6, KeptSafe DEF others, Safe, TypeOK
-----------------------------------------------------------------------------
LEMMA InitSafe == Init => Safe
<1> SUFFICES ASSUME Init PROVE Safe
  OBVIOUS
<1>1. PICK bak \in {None, Whole("older")} :
        file = [n \in Names |-> CASE n = "cur" -> Whole("old")
                                  [] n = "bak" -> bak
                                  [] n = "tmp" -> None]
  BY DEF Init
<1>2. /\ Whole("old") \in Contents /\ bak \in Contents \cup {None}
      /\ Whole("old") # Whole("new") /\ Whole("old") # None
  BY WholeFacts DEF Images
<1>3. /\ file \in [Names -> Contents \cup {None}]
      /\ file["cur"] = Whole("old")
  BY <1>1, <1>2 DEF Names
<1>4. /\ Idle \in Progress /\ Idle.fd = None /\ Idle.pc = "idle"
      /\ \A u \in Updates : update[u] = Idle
      /\ update \in [Updates -> Progress]
  BY DEF Init, Idle, Progress, PCs
<1>5. FileTypes(file, update)
  BY <1>3, <1>4 DEF FileTypes
<1>6. TypeOK
  BY <1>5, TypeParts DEF Init, Images
<1>7. OpenFiles /\ OneUpdate /\ Stages
  BY <1>4 DEF OpenFiles, OneUpdate, Stages, Busy
<1>8. Binary /\ Backed /\ BinaryKept /\ OnlyVerified
  BY <1>3 DEF Init, Binary, Backed, BinaryKept, OnlyVerified
<1>9. QED
  BY <1>4, <1>6, <1>7, <1>8 DEF Init, Safe, Quiet, Calm

LEMMA StepSafe == Safe /\ [Next]_vars => Safe'
<1> SUFFICES ASSUME Safe, [Next]_vars PROVE Safe'
  OBVIOUS
<1>1. CASE UNCHANGED vars
  BY <1>1 DEF vars, others, surroundings, Safe, TypeOK, Quiet, Calm, OpenFiles,
              OneUpdate, Stages, Binary, Backed, BinaryKept, OnlyVerified, Busy
<1>2. ASSUME NEW u \in Updates, UpdateStep(u) PROVE Safe'
  <2>1. CASE Announce(u)
    BY <2>1, AnnounceSafe
  <2>2. CASE DownloadFails(u)
    BY <2>2, DownloadSafe
  <2>3. CASE OpenTemp(u)
    BY <2>3, OpenTempSafe
  <2>4. CASE Copy(u)
    BY <2>4, CopySafe
  <2>5. CASE CopyFails(u)
    BY <2>5, RemoveSafe DEF CopyFails, Busy
  <2>6. CASE CloseTemp(u)
    BY <2>6, GotoSafe DEF CloseTemp, Busy
  <2>7. CASE Verify(u)
    BY <2>7, GotoSafe, RemoveSafe DEF Verify, Busy, others
  <2>8. CASE Backup(u)
    <3>1. /\ "cur" \in Names /\ "bak" \in Names /\ "place" \in PCs
      BY DEF Names, PCs
    <3>2. update[u].pc = "backup" /\ Busy(u) /\ UNCHANGED others
      BY <2>8 DEF Backup, Busy
    <3>3. CASE file["cur"] # None /\ Rename("cur", "bak", Goto(u, "place"))
      BY <3>1, <3>2, <3>3, RenameSafe
    <3>4. CASE RemoveTemp(u)
      BY <3>2, <3>4, RemoveSafe
    <3>5. QED
      BY <2>8, <3>3, <3>4 DEF Backup
  <2>9. CASE Place(u)
    <3>1. /\ "tmp" \in Names /\ "cur" \in Names /\ "exec" \in PCs
      BY DEF Names, PCs
    <3>2. update[u].pc = "place" /\ UNCHANGED surroundings
      BY <2>9 DEF Place
    <3>3. CASE /\ file["tmp"] # None /\ Rename("tmp", "cur", Goto(u, "exec"))
               /\ UNCHANGED restore
      BY <3>1, <3>2, <3>3, RenameSafe DEF others
    <3>4. CASE Restore(u)
      BY <3>2, <3>4, RestoreSafe
    <3>5. QED
      BY <2>9, <3>3, <3>4 DEF Place
  <2>10. CASE Exec(u)
    BY <2>10, ProcessSafe
  <2>11. CASE ExecFails(u)
    BY <2>11, RestoreSafe DEF ExecFails
  <2>12. QED
    BY <1>2, <2>1, <2>2, <2>3, <2>4, <2>5, <2>6, <2>7, <2>8, <2>9, <2>10,
       <2>11 DEF UpdateStep
<1>3. CASE Crash \/ Restart
  BY <1>3, ProcessSafe
<1>4. CASE Recover
  BY <1>4, RecoverSafe
<1>5. CASE CleanBackup
  BY <1>5, CleanSafe
<1>6. QED
  BY <1>1, <1>2, <1>3, <1>4, <1>5 DEF Next

(* The invariant: as long as updates have not overlapped, one at a time goes *)
(* through its stages, and the files are what its stage says, or what an     *)
(* earlier failure to rename the backup back has left of them.               *)
THEOREM UpdateSafe == Spec => []Safe
<1>1. QED
  BY InitSafe, StepSafe, PTL DEF Spec

(* Types of the self-update, overlapping updates included. *)
THEOREM UpdateTypes == Spec => []TypeOK
<1>1. Safe => TypeOK
  BY DEF Safe
<1>2. QED
  BY <1>1, UpdateSafe, PTL

(* A failed update leaves what runs under its name (Apply), or as ".bak" if *)
(* the rename that puts it back fails as well.                              *)
THEOREM UpdateBinaryMatches == Spec => []BinaryMatches
<1>1. Safe => BinaryMatches
  BY DEF Safe, Calm, Binary, Backed, BinaryMatches, Busy
<1>2. QED
  BY <1>1, UpdateSafe, PTL

(* An agent that dies at any point of an update can be started again, one    *)
(* that goes on updating after a failure to restore its binary excepted.     *)
THEOREM UpdateBinaryKept == Spec => []BinaryKept
<1>1. Safe => BinaryKept
  BY DEF Safe, Calm, BinaryKept
<1>2. QED
  BY <1>1, UpdateSafe, PTL

(* What was not verified never replaces the binary. *)
THEOREM UpdateOnlyVerified == Spec => []OnlyVerified
<1>1. Safe => OnlyVerified
  BY DEF Safe, Calm, OnlyVerified
<1>2. QED
  BY <1>1, UpdateSafe, PTL
=============================================================================
