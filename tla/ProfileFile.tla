------------------------------ MODULE ProfileFile ------------------------------
(***************************************************************************)
(* How the master reads PROFILE_DIR (LoadProfileDir, LoadProfile,          *)
(* pkg/config/profile.go): the *.profile files in the order of their       *)
(* names, each line by line.                                               *)
(*                                                                         *)
(* A line is a section header, a key of [META], a rule with the fields     *)
(* that decide where it goes, or a rule line that parseProfileRuleLine     *)
(* refuses.  The order of the rules of a profile, their protocol, interval,*)
(* count and name are left out.                                            *)
(***************************************************************************)
EXTENDS Naturals, Sequences, FiniteSets, SequencesExt

CONSTANTS
  FileNames,        \* the files, without ".profile", as os.ReadDir sorts them
  ProfileLines,     \* lines they may hold
  MaxProfileLines   \* bound: lines of all of them

ASSUME ProfileFileAssumption ==
  /\ FileNames \in Seq(STRING) /\ FileNames # <<>> /\ MaxProfileLines \in Nat
  /\ \A l \in ProfileLines :
       /\ l.kind \in {"header", "meta", "rule", "refused"}
       /\ l.kind = "meta" => l.value \in STRING
       /\ l.kind = "rule" => l.rule.role \in {"listen", "connect"}

VARIABLES
  files,      \* history: the lines read of every file opened so far
  heading,    \* section
  profile,    \* the Profile under construction
  profiles,   \* the map LoadProfileDir fills
  loading     \* "reading", "loaded" or "error"

profilevars == <<files, heading, profile, profiles, loading>>

Section(name) == [kind |-> "header", name |-> name]
Meta(key, value) == [kind |-> "meta", key |-> key, value |-> value]
ProfileRule(role, src, dst, port) ==
  [kind |-> "rule", rule |-> [role |-> role, src |-> src, dst |-> dst, port |-> port]]
Refused == [kind |-> "refused"]

NewProfile == [name |-> "", extends |-> "", rules |-> {}]

ProfilesInit ==
  /\ files = <<<<>>>> /\ heading = "" /\ profile = NewProfile
  /\ profiles = [n \in {} |-> NewProfile] /\ loading = "reading"

(* A line counts in its own section only: keys in [META], rules in [RULES]; *)
(* a section may come twice and the last value of a key is kept.            *)
ReadMeta(l) ==
  /\ l.kind = "meta" /\ heading # "RULES"
  /\ profile' = IF heading # "META" THEN profile
                ELSE CASE l.key = "NAME" -> [profile EXCEPT !.name = l.value]
                       [] l.key = "EXTENDS" -> [profile EXCEPT !.extends = l.value]
                       [] OTHER -> profile
  /\ UNCHANGED <<heading, loading>>

ReadProfileRule(l) ==
  /\ l.kind = "rule"
  /\ profile' = IF heading = "RULES" THEN [profile EXCEPT !.rules = @ \cup {l.rule}]
                ELSE profile
  /\ UNCHANGED <<heading, loading>>

ReadSection(l) ==
  /\ l.kind = "header"
  /\ heading' = l.name
  /\ UNCHANGED <<profile, loading>>

(* Anything else in [RULES] ends LoadProfile, and LoadProfileDir with it. *)
ReadRefused(l) ==
  /\ l.kind = "refused" \/ (l.kind = "meta" /\ heading = "RULES")
  /\ loading' = IF heading = "RULES" THEN "error" ELSE loading
  /\ UNCHANGED <<heading, profile>>

LinesRead == FoldSeq(LAMBDA ls, n : Len(ls) + n, 0, files)

ReadProfileLine ==
  /\ loading = "reading" /\ LinesRead < MaxProfileLines
  /\ \E l \in ProfileLines \ Range(Last(files)) :
       /\ files' = [files EXCEPT ![Len(files)] = Append(@, l)]
       /\ ReadMeta(l) \/ ReadProfileRule(l) \/ ReadSection(l) \/ ReadRefused(l)
  /\ UNCHANGED profiles

(* The end of a file: the profile goes into the map under its name, which *)
(* is that of the file when no [META] gives one.                           *)
StoredMutant ==
  LET name == FileNames[Len(files)]
  IN [n \in DOMAIN profiles \cup {name} |-> IF n = name THEN profile ELSE profiles[n]]
Stored ==
  LET name == IF profile.name = "" THEN FileNames[Len(files)] ELSE profile.name
  IN [n \in DOMAIN profiles \cup {name} |-> IF n = name THEN profile ELSE profiles[n]]

EndOfProfile ==
  /\ loading = "reading"
  /\ profiles' = Stored
  /\ IF Len(files) = Len(FileNames)
       THEN loading' = "loaded" /\ UNCHANGED <<files, heading, profile>>
       ELSE /\ files' = Append(files, <<>>)
            /\ heading' = "" /\ profile' = NewProfile
            /\ UNCHANGED loading

LoadStep == ReadProfileLine \/ EndOfProfile
=============================================================================
