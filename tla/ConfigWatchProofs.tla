-------------------------- MODULE ConfigWatchProofs --------------------------
(***************************************************************************)
(* Proofs about ConfigWatch, for any number of profiles, edits and         *)
(* reloads.  An edit that the watcher can tell is passed on from the times *)
(* of the files to the watcher, to a goroutine that waits for reloadMu, to *)
(* a load that has read nothing older, and into force: the invariant says  *)
(* that it never gets lost on the way.                                     *)
(***************************************************************************)
EXTENDS ConfigWatch, TLAPS, WellFoundedInduction

USE WatchAssumption

FileRecords == [edit : Edits, mtime : Nat, whole : BOOLEAN]
LoadRecords == [pc : {"dir", "profiles"}, got : Contents, todo : SUBSET Profiles]

(* The types, as far as the proofs need them; a file has a time unless it  *)
(* is missing, and one load has reloadMu.                                  *)
Shapes ==
  /\ file \in [Files -> FileRecords]
  /\ \A f \in Files : file[f] # Absent => file[f].mtime # 0
  /\ edits \in Edits /\ started \in Nat
  /\ \A f \in Files : file[f].edit <= edits
  /\ rules \in Contents /\ loads \subseteq LoadRecords
  /\ \A l, m \in loads : l = m

(***************************************************************************)
(* A load that has read nothing that was changed since.                    *)
(***************************************************************************)
Seen(l) == IF l.pc = "dir" THEN {Config}
           ELSE {Config} \cup (Present(Profiles) \ l.todo)

Fresh(l) == /\ l.got = Read(Seen(l)) /\ l.todo \subseteq Present(Profiles)
            /\ l.pc = "dir" => l.todo = {}

Told ==
  \/ lastConf # 0 /\ file[Config].mtime # lastConf
  \/ lastSig # 0 /\ latestProfileMod(file) # lastSig
  \/ changed /\ watch = "profiles"
  \/ fileWatcher \/ started > 0
  \/ \E l \in loads : Fresh(l)
  \/ InForce /\ loads = {}

NothingLost == ~untold /\ Readable => Told

(***************************************************************************)
(* The config file in what was read, and the order of its edits.           *)
(***************************************************************************)
ConfEdit(c, e) ==
  /\ e \in Edits /\ e <= edits
  /\ file[Config] # Absent => e <= file[Config].edit
  /\ \E w \in BOOLEAN : /\ <<Config, e, w>> \in c
                        /\ \A r \in c : r[1] = Config => r = <<Config, e, w>>

Ordered ==
  \E e \in Edits :
    /\ ConfEdit(rules, e)
    /\ \A l \in loads : \E d \in Edits : ConfEdit(l.got, d) /\ e <= d

LEMMA ReadShape ==
  ASSUME Shapes, NEW fs \in SUBSET Files
  PROVE  Read(fs) \in Contents
BY DEF Shapes, Read, Contents, FileRecords

(***************************************************************************)
(* An edit changes one file.                                               *)
(***************************************************************************)
LEMMA EditChanges ==
  ASSUME Shapes, Edit
  PROVE  \E f \in Files, new \in FileRecords :
           /\ Change(f, new)
           /\ new = Absent \/ (new.edit = edits + 1 /\ new.mtime # 0)
<1>1. edits + 1 \in Edits /\ edits \in Nat
  <2>1. PICK f \in Files : \E new : Change(f, new)
    BY DEF Edit, Replace, BeginWrite, EndWrite, Remove
  <2> QED BY <2>1 DEF Change, Shapes, Edits
<1>2. Now \in Nat /\ Now # 0
  BY <1>1 DEF Now
<1>3. Absent \in FileRecords
  BY DEF Absent, FileRecords, Edits
<1> DEFINE Rec(m, w) == [edit |-> edits + 1, mtime |-> m, whole |-> w]
<1>4. \A m \in Nat \ {0}, w \in BOOLEAN :
        /\ Rec(m, w) \in FileRecords
        /\ Rec(m, w).edit = edits + 1 /\ Rec(m, w).mtime # 0
  BY <1>1 DEF FileRecords
<1>5. PICK f \in Files :
        \/ \E m \in {1, Now} : Replace(f, m)
        \/ \E m \in {file[f].mtime, Now} : EndWrite(f, m)
        \/ BeginWrite(f) \/ Remove(f)
  BY DEF Edit
<1>6. file[f] \in FileRecords /\ (file[f] # Absent => file[f].mtime # 0)
  BY DEF Shapes
<1> SUFFICES \/ Change(f, Absent)
             \/ \E m \in Nat \ {0}, w \in BOOLEAN : Change(f, Rec(m, w))
  <2> HIDE DEF Rec
  <2> QED BY <1>3, <1>4
<1>7. CASE Remove(f)
  BY <1>7 DEF Remove
<1>8. ASSUME NEW m \in {1, Now}, Replace(f, m)
      PROVE  Change(f, Rec(m, TRUE)) /\ m \in Nat \ {0}
  BY <1>2, <1>8 DEF Replace
<1>9. ASSUME BeginWrite(f)
      PROVE  Change(f, Rec(Now, FALSE))
  BY <1>9 DEF BeginWrite
<1>10. ASSUME NEW m \in {file[f].mtime, Now}, EndWrite(f, m)
       PROVE  Change(f, Rec(m, TRUE)) /\ m \in Nat \ {0}
  <2>1. ~file[f].whole
    BY <1>10 DEF EndWrite
  <2>2. file[f] # Absent
    BY <2>1 DEF Absent
  <2> QED BY <1>2, <1>6, <1>10, <2>2 DEF EndWrite, FileRecords
<1> HIDE DEF Rec
<1> QED BY <1>2, <1>5, <1>7, <1>8, <1>9, <1>10

LEMMA Steps ==
  ASSUME Shapes, [Next]_vars
  PROVE  \/ Edit
         \/ /\ UNCHANGED disk
            /\ \/ UNCHANGED <<loads, rules>>
               \/ StartLoad
               \/ \E l \in loads : \/ ReadDir(l) \/ Publish(l)
                                   \/ \E p \in Profiles : ReadProfile(l, p)
BY DEF Next, Watching, Load, vars, ReloadConfig, TickConfig, TickProfiles,
       TakeRequest, Stop, StartLoad, ReadDir, Publish, ReadProfile, Notified,
       loading, loadOthers, disk

LEMMA ShapesKept ==
  ASSUME Shapes, [Next]_vars
  PROVE  Shapes'
<1>1. started' \in Nat
  <2>1. CASE Load
    <3>1. started' = started \/ (started > 0 /\ started' = started - 1)
      BY <2>1 DEF Load, StartLoad, ReadDir, Publish, ReadProfile
    <3> QED BY <3>1 DEF Shapes
  <2>2. CASE Edit
    BY <2>2 DEF Shapes, Edit, Replace, BeginWrite, EndWrite, Remove, Change,
                loading
  <2> QED BY <2>1, <2>2
          DEF Shapes, Next, Watching, vars, ReloadConfig, TickConfig,
              TickProfiles, TakeRequest, Stop, Notified, loading
<1>2. CASE Edit
  <2>1. PICK f \in Files, new \in FileRecords :
          /\ Change(f, new)
          /\ new = Absent \/ (new.edit = edits + 1 /\ new.mtime # 0)
    BY <1>2, EditChanges
  <2>2. /\ file' = [file EXCEPT ![f] = new]
        /\ edits' \in Edits /\ UNCHANGED <<loads, rules>>
    BY <2>1 DEF Change, Shapes, Edits, loading
  <2>3. /\ file' \in [Files -> FileRecords]
        /\ \A g \in Files : file'[g] # Absent => file'[g].mtime # 0
    BY <2>1, <2>2 DEF Shapes
  <2>4. \A g \in Files : file'[g].edit <= edits'
    <3>1. \A g \in Files : file[g].edit \in Nat /\ file[g].edit <= edits
      BY DEF Shapes, FileRecords, Edits
    <3>2. edits' = edits + 1 /\ edits \in Nat
      BY <2>1 DEF Change, Shapes, Edits
    <3>3. new.edit <= edits'
      BY <2>1, <3>2 DEF Absent
    <3> QED BY <2>2, <3>1, <3>2, <3>3 DEF Shapes
  <2> QED BY <1>1, <2>2, <2>3, <2>4 DEF Shapes
<1>3. ASSUME UNCHANGED disk, rules' \in Contents, loads' \subseteq LoadRecords,
             \A l, m \in loads' : l = m
      PROVE  Shapes'
  BY <1>1, <1>3 DEF Shapes, disk
<1>4. ASSUME UNCHANGED disk, UNCHANGED <<loads, rules>>
      PROVE  Shapes'
  BY <1>1, <1>4 DEF Shapes, disk
<1>5. CASE StartLoad
  <2> DEFINE l == [pc |-> "dir", got |-> Read({Config}), todo |-> {}]
  <2>1. l \in LoadRecords
    BY ReadShape DEF LoadRecords, Files
  <2>2. loads' \in {{}, {l}} /\ rules' = rules /\ UNCHANGED disk
    BY <1>5 DEF StartLoad, loadOthers, disk
  <2> HIDE DEF l
  <2> QED BY <1>3, <2>1, <2>2 DEF Shapes
<1>6. ASSUME NEW l \in loads, UNCHANGED disk,
             \/ rules' = rules /\ \E k \in LoadRecords : Goes(l, k)
             \/ rules' = l.got /\ loads' = loads \ {l}
      PROVE  Shapes'
  BY <1>3, <1>6 DEF Shapes, Goes, LoadRecords
<1>7. ASSUME NEW l \in loads
      PROVE  /\ l \in LoadRecords
             /\ \A t \in SUBSET Profiles :
                  [l EXCEPT !.pc = "profiles", !.todo = t] \in LoadRecords
             /\ \A g \in Contents, t \in SUBSET Profiles :
                  [l EXCEPT !.got = g, !.todo = t] \in LoadRecords
  BY DEF Shapes, LoadRecords
<1>8. ASSUME NEW l \in loads, ReadDir(l)
      PROVE  Shapes'
  <2>1. Present(Profiles) \in SUBSET Profiles
    BY DEF Present
  <2> QED BY <1>6, <1>7, <1>8, <2>1 DEF ReadDir, loadOthers, disk
<1>9. ASSUME NEW l \in loads, NEW p \in Profiles, ReadProfile(l, p)
      PROVE  Shapes'
  <2>1. l.got \in Contents /\ l.todo \in SUBSET Profiles
    BY <1>7 DEF LoadRecords
  <2>2. /\ l.got \cup Read({p}) \in Contents
        /\ {r \in l.got : r[1] = Config} \in Contents
    BY <2>1, ReadShape DEF Contents, Files
  <2>3. \E k \in LoadRecords : Goes(l, k)
    BY <1>7, <1>9, <2>1, <2>2 DEF ReadProfile
  <2> QED BY <1>6, <1>9, <2>3 DEF ReadProfile, loadOthers, disk
<1>10. ASSUME NEW l \in loads, Publish(l)
       PROVE  Shapes'
  BY <1>6, <1>10 DEF Publish, loadOthers, disk
<1> QED BY <1>2, <1>4, <1>5, <1>8, <1>9, <1>10, Steps

(***************************************************************************)
(* A load under reloadMu reads what there is, or gives up over a file that *)
(* is missing or half written.                                             *)
(***************************************************************************)
LEMMA LoadSteps ==
  ASSUME Shapes, NEW l \in loads
  PROVE  /\ loads = {l} /\ l \in LoadRecords
         /\ ReadDir(l) => \E k \in LoadRecords :
              /\ l.pc = "dir" /\ loads' = {k} /\ rules' = rules
              /\ k.pc = "profiles" /\ k.got = l.got /\ k.todo = Present(Profiles)
         /\ \A p \in Profiles : ReadProfile(l, p) => \E k \in LoadRecords :
              /\ loads' = {k} /\ rules' = rules /\ p \in l.todo /\ k.pc = l.pc
              /\ \/ /\ file[p] # Absent /\ k.got = l.got \cup Read({p})
                    /\ k.todo = l.todo \ {p}
                 \/ /\ file[p] = Absent \/ ~file[p].whole
                    /\ k.got = {r \in l.got : r[1] = Config} /\ k.todo = {}
         /\ Publish(l) => /\ l.pc = "profiles" /\ l.todo = {}
                          /\ rules' = l.got /\ loads' = {}
<1>1. loads = {l} /\ l \in LoadRecords
  BY DEF Shapes
<1>2. ASSUME ReadDir(l)
      PROVE  \E k \in LoadRecords :
              /\ l.pc = "dir" /\ loads' = {k} /\ rules' = rules
              /\ k.pc = "profiles" /\ k.got = l.got /\ k.todo = Present(Profiles)
  <2> DEFINE k == [l EXCEPT !.pc = "profiles", !.todo = Present(Profiles)]
  <2>1. /\ k \in LoadRecords /\ k.pc = "profiles" /\ k.got = l.got
        /\ k.todo = Present(Profiles)
    BY <1>1 DEF LoadRecords, Present
  <2>2. l.pc = "dir" /\ loads' = {k} /\ rules' = rules
    BY <1>1, <1>2 DEF ReadDir, Goes
  <2> HIDE DEF k
  <2> QED BY <2>1, <2>2
<1>3. ASSUME NEW p \in Profiles, ReadProfile(l, p)
      PROVE  \E k \in LoadRecords :
              /\ loads' = {k} /\ rules' = rules /\ p \in l.todo /\ k.pc = l.pc
              /\ \/ /\ file[p] # Absent /\ k.got = l.got \cup Read({p})
                    /\ k.todo = l.todo \ {p}
                 \/ /\ file[p] = Absent \/ ~file[p].whole
                    /\ k.got = {r \in l.got : r[1] = Config} /\ k.todo = {}
  <2> DEFINE j == [l EXCEPT !.got = @ \cup Read({p}), !.todo = @ \ {p}]
             k == [l EXCEPT !.got = {r \in @ : r[1] = Config}, !.todo = {}]
  <2>1. /\ l.got \in Contents /\ l.todo \in SUBSET Profiles
        /\ Read({p}) \in Contents
    BY <1>1, ReadShape DEF LoadRecords, Files
  <2>2. /\ l.got \cup Read({p}) \in Contents
        /\ {r \in l.got : r[1] = Config} \in Contents
    BY <2>1 DEF Contents
  <2>3. /\ j \in LoadRecords /\ j.pc = l.pc /\ j.todo = l.todo \ {p}
        /\ j.got = l.got \cup Read({p})
    BY <1>1, <2>1, <2>2 DEF LoadRecords
  <2>4. /\ k \in LoadRecords /\ k.pc = l.pc /\ k.todo = {}
        /\ k.got = {r \in l.got : r[1] = Config}
    BY <1>1, <2>1, <2>2 DEF LoadRecords
  <2>5. /\ p \in l.todo /\ rules' = rules
        /\ \/ file[p] # Absent /\ loads' = {j}
           \/ (file[p] = Absent \/ ~file[p].whole) /\ loads' = {k}
    BY <1>1, <1>3 DEF ReadProfile, Goes
  <2> HIDE DEF j, k
  <2> QED BY <2>3, <2>4, <2>5
<1>4. ASSUME Publish(l)
      PROVE  l.pc = "profiles" /\ l.todo = {} /\ rules' = l.got /\ loads' = {}
  BY <1>1, <1>4 DEF Publish
<1> QED BY <1>1, <1>2, <1>3, <1>4

LEMMA StartLoadStep ==
  ASSUME Shapes, StartLoad
  PROVE  /\ loads = {} /\ rules' = rules
         /\ \/ \E k \in LoadRecords :
                 /\ file[Config] # Absent /\ loads' = {k}
                 /\ k.pc = "dir" /\ k.got = Read({Config}) /\ k.todo = {}
            \/ /\ file[Config] = Absent \/ ~file[Config].whole
               /\ loads' = {}
<1> DEFINE k == [pc |-> "dir", got |-> Read({Config}), todo |-> {}]
<1>1. /\ k \in LoadRecords /\ k.pc = "dir" /\ k.got = Read({Config})
      /\ k.todo = {}
  BY ReadShape DEF LoadRecords, Files
<1>2. /\ loads = {} /\ rules' = rules
      /\ \/ file[Config] # Absent /\ loads' = {k}
         \/ (file[Config] = Absent \/ ~file[Config].whole) /\ loads' = {}
  BY DEF StartLoad
<1> HIDE DEF k
<1> QED BY <1>1, <1>2

LEMMA OrderedKept ==
  ASSUME Shapes, Ordered, [Next]_vars
  PROVE  /\ Ordered'
         /\ [EditOf(rules') >= EditOf(rules)]_vars
<1>0. \A c, e : ConfEdit(c, e) => EditOf(c) = e /\ e \in Nat
  BY DEF ConfEdit, EditOf, Edits
<1>1. PICK e \in Edits :
        /\ ConfEdit(rules, e)
        /\ \A l \in loads : \E d \in Edits : ConfEdit(l.got, d) /\ e <= d
  BY DEF Ordered
<1>2. CASE Edit
  <2>1. PICK f \in Files, new \in FileRecords :
          /\ Change(f, new)
          /\ new = Absent \/ (new.edit = edits + 1 /\ new.mtime # 0)
    BY <1>2, EditChanges
  <2>2. /\ file' = [file EXCEPT ![f] = new] /\ edits' = edits + 1
        /\ UNCHANGED <<loads, rules>>
    BY <2>1 DEF Change, loading
  <2>3. ASSUME NEW c, NEW d, ConfEdit(c, d)
        PROVE  ConfEdit(c, d)'
    <3>1. d \in Nat /\ edits \in Nat
      BY <2>3 DEF ConfEdit, Edits, Shapes
    <3>2. file'[Config] = file[Config] \/ file'[Config] = new
      BY <2>2 DEF Shapes, Files
    <3> QED BY <2>1, <2>2, <2>3, <3>1, <3>2 DEF ConfEdit
  <2> QED BY <1>0, <1>1, <2>2, <2>3 DEF Ordered
<1>3. ASSUME UNCHANGED disk, NEW c, NEW d
      PROVE  ConfEdit(c, d)' <=> ConfEdit(c, d)
  BY <1>3 DEF ConfEdit, disk
<1>4. CASE UNCHANGED disk /\ UNCHANGED <<loads, rules>>
  BY <1>0, <1>1, <1>3, <1>4 DEF Ordered
<1>5. CASE UNCHANGED disk /\ StartLoad
  <2>1. ASSUME file[Config] # Absent
        PROVE  \E d \in Edits : ConfEdit(Read({Config}), d) /\ e <= d
    <3>1. /\ file[Config] \in FileRecords /\ file[Config].edit \in Edits
          /\ file[Config].whole \in BOOLEAN
      BY DEF Shapes, Files, FileRecords
    <3>2. file[Config].edit <= edits
      BY DEF Shapes, Files
    <3> QED BY <1>1, <2>1, <3>1, <3>2 DEF ConfEdit, Read, Edits
  <2> QED BY <1>0, <1>1, <1>3, <1>5, <2>1, StartLoadStep DEF Ordered
<1>6. ASSUME UNCHANGED disk, NEW l \in loads, ReadDir(l)
      PROVE  Ordered' /\ rules' = rules
  BY <1>1, <1>3, <1>6, LoadSteps DEF Ordered
<1>7. ASSUME UNCHANGED disk, NEW l \in loads, NEW p \in Profiles,
             ReadProfile(l, p)
      PROVE  Ordered' /\ rules' = rules
  <2>1. PICK d \in Edits : ConfEdit(l.got, d) /\ e <= d
    BY <1>1
  <2>2. /\ ConfEdit(l.got \cup Read({p}), d)
        /\ ConfEdit({r \in l.got : r[1] = Config}, d)
    BY <2>1 DEF ConfEdit, Read
  <2>3. PICK k \in LoadRecords :
          /\ loads' = {k} /\ rules' = rules
          /\ \/ k.got = l.got \cup Read({p})
             \/ k.got = {r \in l.got : r[1] = Config}
    BY <1>7, LoadSteps
  <2>4. ConfEdit(k.got, d)
    BY <2>2, <2>3
  <2> QED BY <1>1, <1>3, <1>7, <2>1, <2>3, <2>4 DEF Ordered
<1>8. ASSUME UNCHANGED disk, NEW l \in loads, Publish(l)
      PROVE  Ordered' /\ EditOf(rules') >= EditOf(rules)
  BY <1>0, <1>1, <1>3, <1>8, LoadSteps DEF Ordered
<1> QED BY <1>0, <1>1, <1>2, <1>4, <1>5, <1>6, <1>7, <1>8, Steps

-----------------------------------------------------------------------------
(***************************************************************************)
(* A told edit stays on its way until it is in force.                      *)
(***************************************************************************)
LEMMA NothingLostKept ==
  ASSUME Shapes, NothingLost, [Next]_vars
  PROVE  NothingLost'
<1> SUFFICES ASSUME ~untold', Readable' PROVE Told'
  BY DEF NothingLost
<1>1. ASSUME UNCHANGED disk
      PROVE  /\ Readable /\ Content' = Content
             /\ latestProfileMod(file') = latestProfileMod(file)
             /\ \A l : Fresh(l)' <=> Fresh(l)
             /\ \A fs : Read(fs)' = Read(fs)
  BY <1>1 DEF disk, Readable, Content, Fresh, Seen, Read, Present
<1>2. CASE Edit
  <2>1. PICK f \in Files, new \in FileRecords : Change(f, new)
    BY <1>2, EditChanges
  <2>2. CASE f = Config
    <3>1. file'[Config] = new /\ lastConf' = lastConf
      BY <2>1, <2>2 DEF Change, Shapes, Files, watcher
    <3> QED BY <2>1, <2>2, <3>1 DEF Change, Told
  <2>3. CASE f # Config
    BY <2>1, <2>3 DEF Change, Told, watcher
  <2> QED BY <2>2, <2>3
<1>3. CASE ReloadConfig
  BY <1>3 DEF ReloadConfig, Told
<1>4. ASSUME UNCHANGED <<disk, untold>>
      PROVE  Told
  BY <1>1, <1>4 DEF NothingLost
<1>5. CASE UNCHANGED vars
  <2>1. UNCHANGED <<disk, untold>>
    BY <1>5 DEF vars
  <2>2. UNCHANGED <<lastConf, lastSig, changed, watch, fileWatcher, started,
                    loads, rules, file>>
    BY <1>5 DEF vars, watcher, loading, disk
  <2> QED BY <1>1, <1>4, <2>1, <2>2 DEF Told, InForce
<1>6. CASE TickConfig
  <2>1. UNCHANGED <<disk, untold>>
    BY <1>6 DEF TickConfig
  <2>2. file[Config].mtime # 0
    BY <1>1, <2>1 DEF Readable, Shapes, Files
  <2>3. UNCHANGED <<lastSig, fileWatcher, started, loads, rules, file>>
    BY <1>6 DEF TickConfig, loading, disk
  <2>4. CASE lastConf # 0 /\ file[Config].mtime # lastConf
    BY <1>6, <2>2, <2>4 DEF TickConfig, Told
  <2>5. ~(changed /\ watch = "profiles")
    BY <1>6 DEF TickConfig
  <2> QED BY <1>1, <1>4, <2>1, <2>3, <2>4, <2>5 DEF Told, InForce
<1>7. CASE TickProfiles
  <2>1. UNCHANGED <<disk, untold>>
    BY <1>7 DEF TickProfiles
  <2>2. UNCHANGED <<lastConf, fileWatcher, loads, rules, file>>
    BY <1>7 DEF TickProfiles, disk
  <2>3. /\ started \in Nat
        /\ started' = started \/ started' = started + 1
        /\ \/ changed
           \/ lastSig # 0 /\ latestProfileMod(file) # lastSig
           => started' = started + 1
    BY <1>7 DEF TickProfiles, Shapes
  <2>4. CASE \/ changed
             \/ lastSig # 0 /\ latestProfileMod(file) # lastSig
             \/ started > 0
    BY <2>3, <2>4 DEF Told
  <2>5. CASE ~ \/ changed
               \/ lastSig # 0 /\ latestProfileMod(file) # lastSig
               \/ started > 0
    BY <1>1, <1>4, <2>1, <2>2, <2>5 DEF Told, InForce
  <2> QED BY <2>4, <2>5
<1>8. CASE TakeRequest
  BY <1>8 DEF TakeRequest, Shapes, Told
<1>9. CASE Stop
  <2>1. UNCHANGED <<disk, untold>> /\ watch = "select"
    BY <1>9 DEF Stop
  <2>2. UNCHANGED <<lastConf, lastSig, fileWatcher, started, loads, rules,
                    file>>
    BY <1>9 DEF Stop, loading, disk
  <2> QED BY <1>1, <1>4, <2>1, <2>2 DEF Told, InForce
<1>10. CASE Load
  <2>1. /\ UNCHANGED <<disk, untold>>
        /\ UNCHANGED <<lastConf, lastSig, changed, watch, fileWatcher, file>>
    BY <1>10 DEF Load, StartLoad, ReadDir, Publish, ReadProfile, loadOthers,
                 watcher, disk
  <2>2. /\ Told /\ Readable
        /\ latestProfileMod(file') = latestProfileMod(file)
    BY <1>1, <1>4, <2>1
  <2>3. CASE \/ lastConf # 0 /\ file[Config].mtime # lastConf
             \/ lastSig # 0 /\ latestProfileMod(file) # lastSig
             \/ changed /\ watch = "profiles"
             \/ fileWatcher
    BY <2>1, <2>2, <2>3 DEF Told
  <2>4. file[Config] # Absent /\ \A f \in Files : file[f].whole
    BY <2>2 DEF Readable
  <2>5. CASE StartLoad
    <3>1. PICK k \in LoadRecords :
             loads' = {k} /\ k.pc = "dir" /\ k.got = Read({Config}) /\ k.todo = {}
      BY <2>4, <2>5, StartLoadStep DEF Files
    <3>2. Fresh(k)
      BY <3>1 DEF Fresh, Seen
    <3> QED BY <1>1, <2>1, <3>1, <3>2 DEF Told
  <2>6. ASSUME NEW l \in loads,
               \/ ReadDir(l) \/ Publish(l)
               \/ \E p \in Profiles : ReadProfile(l, p)
        PROVE  Told'
    <3>1. started' = started /\ loads = {l} /\ l \in LoadRecords
      BY <2>6, LoadSteps DEF ReadDir, Publish, ReadProfile
    <3>2. CASE started > 0
      BY <3>1, <3>2 DEF Told
    <3>3. CASE Fresh(l)
      <4>1. CASE ReadDir(l)
        <5>1. PICK k \in LoadRecords :
                /\ l.pc = "dir" /\ loads' = {k} /\ k.pc = "profiles"
                /\ k.got = l.got /\ k.todo = Present(Profiles)
          BY <4>1, LoadSteps
        <5>2. Seen(k) = {Config} /\ Seen(l) = {Config}
          BY <5>1 DEF Seen
        <5>3. Fresh(k)
          BY <3>3, <5>1, <5>2 DEF Fresh
        <5> QED BY <1>1, <2>1, <5>1, <5>3 DEF Told
      <4>2. ASSUME NEW p \in Profiles, ReadProfile(l, p)
            PROVE  Told'
        <5>1. p \in l.todo /\ l.pc # "dir"
          <6>1. p \in l.todo
            BY <4>2, LoadSteps
          <6> QED BY <3>3, <6>1 DEF Fresh
        <5>2. file[p] # Absent /\ file[p].whole
          BY <2>4, <3>3, <5>1 DEF Fresh, Present, Files
        <5>3. PICK k \in LoadRecords :
                /\ loads' = {k} /\ k.pc = l.pc
                /\ k.got = l.got \cup Read({p}) /\ k.todo = l.todo \ {p}
          BY <4>2, <5>2, LoadSteps
        <5>4. Seen(k) = Seen(l) \cup {p}
          BY <3>3, <5>1, <5>2, <5>3 DEF Seen, Fresh, Present
        <5>5. Read(Seen(l) \cup {p}) = Read(Seen(l)) \cup Read({p})
          BY DEF Read
        <5>6. Fresh(k)
          BY <3>3, <5>1, <5>3, <5>4, <5>5 DEF Fresh
        <5> QED BY <1>1, <2>1, <5>3, <5>6 DEF Told
      <4>3. CASE Publish(l)
        <5>1. /\ l.pc = "profiles" /\ l.todo = {} /\ rules' = l.got
              /\ loads' = {}
          BY <4>3, LoadSteps
        <5>2. Seen(l) = Present(Files)
          BY <2>4, <5>1 DEF Seen, Present, Files
        <5>3. rules' = Content
          BY <3>3, <5>1, <5>2 DEF Fresh, Content
        <5> QED BY <1>1, <2>1, <5>1, <5>3 DEF Told, InForce
      <4> QED BY <2>6, <4>1, <4>2, <4>3
    <3> QED BY <2>2, <2>3, <3>1, <3>2, <3>3 DEF Told
  <2> QED BY <1>10, <2>5, <2>6 DEF Load
<1>11. CASE Notified
  <2>1. UNCHANGED <<lastConf, lastSig, changed, watch, fileWatcher, started,
                    loads, rules, disk, file, untold>>
    BY <1>11 DEF Notified, loadOthers, disk, watcher
  <2> QED BY <1>1, <1>4, <2>1 DEF Told, InForce
<1> QED BY <1>2, <1>3, <1>5, <1>6, <1>7, <1>8, <1>9, <1>10, <1>11
        DEF Next, Watching

(***************************************************************************)
(* The invariant holds in every reachable state.                           *)
(***************************************************************************)
Safe == Shapes /\ Ordered /\ NothingLost

LEMMA SafeInit == Init => Safe
<1> SUFFICES ASSUME Init PROVE Safe
  OBVIOUS
<1> DEFINE New == [edit |-> 0, mtime |-> 1, whole |-> TRUE]
<1>1. /\ Absent \in FileRecords /\ New \in FileRecords
      /\ Absent.edit = 0 /\ New.edit = 0 /\ New.mtime = 1
  BY DEF Absent, FileRecords, Edits
<1>2. /\ file \in [Files -> {Absent, New}] /\ file[Config] # Absent
      /\ edits = 0 /\ started = 0 /\ loads = {} /\ rules = Content
  BY DEF Init
<1>3. \A f \in Files : file[f] \in {Absent, New}
  BY <1>2
<1>4. /\ file \in [Files -> FileRecords]
      /\ \A f \in Files : /\ file[f] # Absent => file[f].mtime # 0
                          /\ file[f].edit = 0
  <2> HIDE DEF New
  <2> QED BY <1>1, <1>2, <1>3
<1>5. 0 \in Edits
  BY DEF Edits
<1>6. Content \in Contents
  <2>1. \A fs \in SUBSET Files : Read(fs) \in Contents
    BY <1>4 DEF Read, Contents, FileRecords
  <2> QED BY <2>1 DEF Content, Present
<1>7. Shapes
  BY <1>2, <1>4, <1>5, <1>6 DEF Shapes
<1>8. Ordered
  <2>1. Config \in Present(Files)
    BY <1>2 DEF Present, Files
  <2>2. file[Config].edit = 0 /\ file[Config].whole \in BOOLEAN
    BY <1>4 DEF Files, FileRecords
  <2>3. ConfEdit(Content, 0)
    BY <1>2, <1>5, <2>1, <2>2 DEF ConfEdit, Content, Read
  <2> QED BY <1>2, <1>5, <2>3 DEF Ordered
<1>9. NothingLost
  BY <1>2 DEF NothingLost, Told, InForce
<1> QED BY <1>7, <1>8, <1>9 DEF Safe

THEOREM WatchSafe == Spec => []Safe
<1>1. Safe /\ [Next]_vars => Safe'
  BY ShapesKept, OrderedKept, NothingLostKept DEF Safe
<1> QED BY <1>1, SafeInit, PTL DEF Spec

(***************************************************************************)
(* When nothing is under way, what is on disk is in force: no edit that    *)
(* changes the times gets lost between the watcher's two reads, between    *)
(* the reads of a load, or between overlapping reloads.                    *)
(***************************************************************************)
THEOREM WatchQuietMeansCurrent == Spec => []QuietMeansCurrent
<1>1. Safe => QuietMeansCurrent
  BY DEF Safe, NothingLost, Told, QuietMeansCurrent, Quiet
<1> QED BY <1>1, WatchSafe, PTL

(***************************************************************************)
(* The configuration in force is never replaced by an older one.           *)
(***************************************************************************)
THEOREM WatchNeverBackwards == Spec => NeverBackwards
<1>1. Safe /\ [Next]_vars => [EditOf(rules') >= EditOf(rules)]_vars
  BY OrderedKept DEF Safe
<1> QED BY <1>1, WatchSafe, PTL DEF Spec, NeverBackwards

-----------------------------------------------------------------------------
(***************************************************************************)
(* The latest of some bounded times is one of them.                        *)
(***************************************************************************)
LEMMA MaxInSet ==
  ASSUME NEW n \in Nat, NEW S \in SUBSET (0..n), S # {}
  PROVE  Max(S) \in S
<1> DEFINE T == {n - x : x \in S}
           R == {ss \in Nat \X Nat : ss[1] < ss[2]}
<1>1. IsWellFoundedOn(R, Nat)
  BY NatLessThanWellFounded DEF OpToRel
<1>2. \A x \in S : x \in Nat /\ n - x \in Nat
  OBVIOUS
<1>3. T \subseteq Nat /\ T # {}
  BY <1>2
<1>4. PICK x \in T : \A y \in T : ~(<<y, x>> \in R)
  <2> HIDE DEF T, R
  <2> QED BY <1>1, <1>3, WFMin
<1>5. \A y \in T : ~(y < x)
  BY <1>3, <1>4
<1>6. PICK m \in S : x = n - m
  BY <1>4
<1>7. \A y \in S : ~(n - y < n - m)
  BY <1>5, <1>6
<1> HIDE DEF T, R
<1>8. \A y \in S : m >= y
  BY <1>2, <1>7
<1> QED BY <1>8 DEF Max

(***************************************************************************)
(* The state of the watcher and of the reloads is well typed; no time is   *)
(* later than that of the last edit.                                       *)
(***************************************************************************)
InTimes ==
  /\ \A f \in Files : file[f].mtime <= edits + 1
  /\ manual \in 0..MaxManual
  /\ watch \in {"select", "profiles", "ended"} /\ changed \in BOOLEAN
  /\ lastConf \in Times /\ lastSig \in Times
  /\ fileWatcher \in BOOLEAN /\ untold \in BOOLEAN /\ notifying \in BOOLEAN

LEMMA TimesBounded ==
  ASSUME Shapes, InTimes
  PROVE  /\ \A f \in Files : file[f].mtime \in Times
         /\ latestProfileMod(file) \in Times
<1>1. \A f \in Files : file[f].mtime \in Times
  BY DEF Shapes, InTimes, FileRecords, Times, Edits
<1>2. {file[p].mtime : p \in Profiles} \cup {0} \in SUBSET (0..(MaxEdits + 1))
  BY <1>1 DEF Files, Times
<1>3. MaxEdits + 1 \in Nat
  OBVIOUS
<1> DEFINE S == {file[p].mtime : p \in Profiles} \cup {0}
<1>4. Max(S) \in S
  <2>1. S # {} /\ S \in SUBSET (0..(MaxEdits + 1))
    BY <1>2
  <2> HIDE DEF S
  <2> QED BY <1>3, <2>1, MaxInSet
<1>5. latestProfileMod(file) \in 0..(MaxEdits + 1)
  BY <1>2, <1>4 DEF latestProfileMod
<1> QED BY <1>1, <1>5 DEF Times

LEMMA InTimesKept ==
  ASSUME Shapes, InTimes, [Next]_vars
  PROVE  InTimes'
<1>1. CASE Edit
  <2>1. PICK f \in Files :
          \/ \E m \in {1, Now} : Replace(f, m)
          \/ \E m \in {file[f].mtime, Now} : EndWrite(f, m)
          \/ BeginWrite(f) \/ Remove(f)
    BY <1>1 DEF Edit
  <2>2. /\ edits \in Nat /\ file[f].mtime \in Nat
        /\ file[f].mtime <= edits + 1
    BY DEF Shapes, InTimes, FileRecords, Edits
  <2>3. \E new : Change(f, new) /\ new.mtime <= edits + 2
    BY <2>1, <2>2 DEF Replace, EndWrite, BeginWrite, Remove, Absent, Now
  <2>4. PICK new : Change(f, new) /\ new.mtime <= edits + 2
    BY <2>3
  <2>5. edits' = edits + 1 /\ file' = [file EXCEPT ![f] = new]
    BY <2>4 DEF Change
  <2>6. \A g \in Files : /\ file[g].mtime \in Nat
                         /\ file[g].mtime <= edits + 1
    BY DEF Shapes, InTimes, FileRecords
  <2>7. \A g \in Files : file'[g].mtime <= edits' + 1
    BY <2>2, <2>4, <2>5, <2>6 DEF Shapes
  <2>8. untold' \in BOOLEAN
    BY <2>4 DEF Change
  <2> QED BY <2>4, <2>7, <2>8 DEF Change, InTimes, watcher, loading
<1>2. CASE Load \/ Notified \/ UNCHANGED vars
  <2>1. UNCHANGED loadOthers
    BY <1>2 DEF Load, StartLoad, ReadDir, Publish, ReadProfile, Notified, vars,
                loadOthers
  <2>2. notifying' \in BOOLEAN
    BY <1>2 DEF Load, StartLoad, ReadDir, Publish, ReadProfile, Notified, vars,
                loading, InTimes
  <2> QED BY <2>1, <2>2 DEF loadOthers, disk, watcher, InTimes
<1>3. CASE Watching
  BY <1>3, TimesBounded
     DEF Watching, TickConfig, TickProfiles, TakeRequest, Stop, InTimes, disk,
         watcher, loading, Files
<1>4. CASE ReloadConfig
  <2>1. manual' \in 0..MaxManual
    BY <1>4 DEF ReloadConfig, InTimes
  <2>2. /\ UNCHANGED <<file, edits, watch, changed, lastConf, lastSig>>
        /\ fileWatcher' = TRUE /\ untold' = FALSE
    BY <1>4 DEF ReloadConfig, disk, watcher
  <2>3. UNCHANGED notifying
    BY <1>4 DEF ReloadConfig, loading
  <2> QED BY <2>1, <2>2, <2>3 DEF InTimes
<1> QED BY <1>1, <1>2, <1>3, <1>4 DEF Next

THEOREM WatchTypes == Spec => []TypeOK
<1>1. Init => InTimes
  <2> SUFFICES ASSUME Init PROVE InTimes
    OBVIOUS
  <2>1. \A f \in Files : file[f].mtime \in {0, 1}
    BY DEF Init, Absent
  <2>2. edits = 0 /\ 0 \in Times /\ manual \in 0..MaxManual
    BY DEF Init, Times
  <2>3. /\ watch = "select" /\ changed = FALSE /\ lastConf = 0 /\ lastSig = 0
        /\ fileWatcher = FALSE /\ untold = FALSE /\ notifying = FALSE
    BY DEF Init
  <2>4. \A f \in Files : file[f].mtime <= edits + 1
    BY <2>1, <2>2
  <2> QED BY <2>2, <2>3, <2>4 DEF InTimes
<1>2. Safe /\ InTimes /\ [Next]_vars => InTimes'
  BY InTimesKept DEF Safe
<1>3. Safe /\ InTimes => TypeOK
  <2> SUFFICES ASSUME Shapes, InTimes PROVE TypeOK
    BY DEF Safe
  <2>1. file \in [Files -> [edit : Edits, mtime : Times, whole : BOOLEAN]]
    BY TimesBounded DEF Shapes, FileRecords
  <2> QED BY <2>1 DEF Shapes, InTimes, TypeOK, LoadRecords
<1> QED BY <1>1, <1>2, <1>3, WatchSafe, PTL DEF Spec
=============================================================================
