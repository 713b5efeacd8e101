------------------------------- MODULE RuleSets -------------------------------
(***************************************************************************)
(* From the files to the rules of an agent: the profiles and the config    *)
(* file are read (ConfigFile, ProfileFile) and distributeRulesToAgent      *)
(* (cmd/master.go) makes of them, with LookupAssignments,                  *)
(* ResolveProfileRules and FlattenProfile (pkg/config/profile.go), what an *)
(* agent is sent.  Neither file is read with an eye on the other, so a     *)
(* behaviour reads one of them, any there is, and has the other from a     *)
(* sample.                                                                 *)
(*                                                                         *)
(* A rule set is a set: the order of the rules and repeated ones do not    *)
(* matter to what is checked here.                                         *)
(***************************************************************************)
EXTENDS ConfigFile, ProfileFile

CONSTANTS
  Agents,           \* addresses of agents; "" is an agent whose address is unknown
  GroupOf,          \* "group:<tag>" -> its tag
  SampleText, SampleConfig,     \* a config file and what is read from it
  SampleFiles, SampleProfiles   \* profile files and what is read from them

vars == <<confvars, profilevars>>

Init ==
  \/ /\ ConfInit
     /\ files = SampleFiles /\ profiles = SampleProfiles
     /\ heading = "RULES" /\ profile = NewProfile /\ loading = "loaded"
  \/ /\ ProfilesInit
     /\ text = SampleText /\ conf = SampleConfig
     /\ section = "ASSIGNMENTS" /\ parse = "parsed"

Next ==
  \/ ParseStep /\ UNCHANGED profilevars
  \/ LoadStep /\ UNCHANGED confvars

Spec == Init /\ [][Next]_vars

Ready == parse = "parsed" /\ loading # "reading"

(***************************************************************************)
(* What the code makes of the files once they are read                     *)
(***************************************************************************)

(* loadConfig: no PROFILE_DIR, or one that does not load, means no profiles. *)
Profiles == IF conf.dir # "" /\ loading = "loaded" THEN profiles ELSE Empty

Rule(role, source, target, port) ==
  [role |-> role, source |-> source, target |-> target, port |-> port]

(* The rules of a profile and of its parents; {Fail} when a name is         *)
(* met twice or is not there.                                               *)
Fail == Rule("error", "", "", "")
FlattenProfile[call \in STRING \X SUBSET DOMAIN Profiles] ==
  LET name == call[1]
      seen == call[2]
      p == Profiles[name]
      parent == IF p.extends = "" THEN {} ELSE FlattenProfile[<<p.extends, seen \cup {name}>>]
  IN IF name \in seen \/ name \notin DOMAIN Profiles \/ parent = {Fail}
       THEN {Fail} ELSE parent \cup p.rules

(* resolvePlaceholder and resolveDestination, for the agent at ip. *)
resolvePlaceholder(value, ip) ==
  IF value = "SELF" THEN ip ELSE Get(conf.targets, value, value)

resolveDestination(dst, ip) ==
  CASE dst = "SELF" -> {ip}
    [] dst \in {"-", ""} -> {}
    [] dst = "ANY" -> Range(conf.targets)
    [] dst \in DOMAIN GroupOf -> Get(conf.tags, GroupOf[dst], {})
    [] OTHER -> {Get(conf.targets, dst, dst)}

ResolveRule(r, ip) ==
  IF r.role = "listen" THEN {Rule("listen", "", "", r.port)}
  ELSE IF resolvePlaceholder(r.src, ip) # ip THEN {}
  ELSE {Rule("connect", ip, d, r.port) : d \in resolveDestination(r.dst, ip) \ {"", "-"}}

(* The profiles of all the names, or {Fail} if one of them does not resolve. *)
ResolveProfileRules(names, ip) ==
  LET flat == {FlattenProfile[<<n, {}>>] : n \in Range(names) \ {""}}
  IN IF {Fail} \in flat THEN {Fail}
     ELSE UNION {ResolveRule(r, ip) : r \in UNION flat}

(* The assignment of the address itself, or else that of the first of its *)
(* names that a range over the map comes upon: any of them.               *)
Aliases(ip) == {n \in DOMAIN conf.targets : conf.targets[n] = ip}

LookupAssignmentsMutant(ip) ==
  LET found == DOMAIN conf.assigns \cap (Aliases(ip) \cup {ip})
  IN IF found = {} THEN {<<>>} ELSE {conf.assigns[n] : n \in found}
LookupAssignments(ip) ==
  LET found == DOMAIN conf.assigns \cap Aliases(ip)
  IN IF ip \in DOMAIN conf.assigns THEN {conf.assigns[ip]}
     ELSE IF found = {} THEN {<<>>}
     ELSE {conf.assigns[n] : n \in found}

(* The two parts of distributeRulesToAgent.  A profile that does not resolve *)
(* costs the agent all its profiles and none of its direct rules.            *)
FromProfiles(names, ip) ==
  IF Profiles = Empty \/ conf.assigns = Empty \/ ip = "" THEN {}
  ELSE ResolveProfileRules(names, ip) \ {Fail}

DirectRulesMutant(ip) ==
  UNION {CASE r.source = "" \/ ip = r.source -> {Rule("connect", r.source, r.target, r.port)}
           [] OTHER -> {Rule("listen", "", "", r.port)} : r \in Range(conf.rules)}
DirectRules(ip) ==
  UNION {CASE r.source = "" \/ ip = r.source -> {Rule("connect", r.source, r.target, r.port)}
           [] r.source # "" /\ ip = r.target /\ ip # r.source -> {Rule("listen", "", "", r.port)}
           [] OTHER -> {} : r \in Range(conf.rules)}

(* What the agent at ip may be sent; with no rules nothing is sent. *)
Updates(ip) ==
  {[ttl |-> conf.ttl, rules |-> FromProfiles(names, ip) \cup DirectRules(ip)] :
     names \in LookupAssignments(ip)}

(***************************************************************************)
(* What the files say, read as a whole                                     *)
(***************************************************************************)

(* The section a line stands in: the header nearest above it. *)
SectionAt(lines, i, kind) ==
  LET above == {j \in 1..i : lines[j].kind = kind}
  IN IF above = {} THEN "" ELSE lines[Max(above)].name

(* The value of the last of some lines. *)
LastOf(lines, is, default) == IF is = {} THEN default ELSE lines[Max(is)].value

(* The value of a key outside [ASSIGNMENTS]. *)
Value(lines, key, default) ==
  LastOf(lines, {i \in DOMAIN lines : /\ lines[i].kind = "pair" /\ lines[i].key = key
                                      /\ SectionAt(lines, i, "section") # "ASSIGNMENTS"},
         default)

(* The values of the file. *)
Values(lines) == {lines[i].value : i \in {j \in DOMAIN lines : lines[j].kind = "pair"}}

(* What a name in a rule stands for: a target, wherever it is defined. *)
AddressOf(lines, name) ==
  IF name \in Plain \ Keywords THEN Value(lines, name, name) ELSE name

(* The rule lines of the file, and of them those that name a source. *)
Written(lines) ==
  {lines[i].fields : i \in {j \in DOMAIN lines :
     /\ lines[j].kind = "rule" /\ ~lines[j].eq
     /\ SectionAt(lines, j, "section") # "ASSIGNMENTS"}}
HasSource(f) == f[2] \notin Numbers

(* A profile, told from the lines of a file: the values of [META], the rules. *)
MetaOf(lines, key) ==
  LastOf(lines, {i \in DOMAIN lines : /\ lines[i].kind = "meta" /\ lines[i].key = key
                                      /\ SectionAt(lines, i, "header") = "META"}, "")
NameOf(fs, k) == IF MetaOf(fs[k], "NAME") = "" THEN FileNames[k] ELSE MetaOf(fs[k], "NAME")
ParentOf(fs, k) == MetaOf(fs[k], "EXTENDS")
RulesIn(lines) ==
  {lines[i].rule : i \in {j \in DOMAIN lines :
     lines[j].kind = "rule" /\ SectionAt(lines, j, "header") = "RULES"}}

(* The last file of a name. *)
Newest(fs, k, name) ==
  /\ k \in DOMAIN fs /\ NameOf(fs, k) = name
  /\ \A j \in DOMAIN fs : NameOf(fs, j) = name => j <= k

(* The lines of descent of a profile: files, each extending the next, the    *)
(* last of which extends nothing.                                            *)
Lineages(fs, name) ==
  {s \in UNION {[1..n -> DOMAIN fs] : n \in 1..Len(fs)} :
     /\ Newest(fs, s[1], name)
     /\ \A i \in 2..Len(s) : /\ ParentOf(fs, s[i - 1]) # ""
                             /\ Newest(fs, s[i], ParentOf(fs, s[i - 1]))
     /\ ParentOf(fs, s[Len(s)]) = ""}

RulesAlong(fs, name) ==
  UNION {RulesIn(fs[k]) : k \in UNION {Range(s) : s \in Lineages(fs, name)}}

(* The rule that an accepted line gives, with addresses for its names. *)
Meant(lines, f) ==
  [source |-> IF Extended(f) THEN AddressOf(lines, f[1]) ELSE "",
   target |-> AddressOf(lines, IF Extended(f) THEN f[2] ELSE f[1]),
   port |-> IF Extended(f) THEN f[3] ELSE f[2]]

(* What has been read agrees with the lines it was read from. *)
ConfigAsWritten(lines, c) ==
  /\ DOMAIN c.targets \subseteq Plain \ Keywords
  /\ \A n \in Plain : Get(c.targets, n, n) = AddressOf(lines, n)
  /\ \A f \in Written(lines) : Acceptable(f)
  /\ Range(c.rules) = {Meant(lines, f) : f \in Written(lines)}
  /\ c.ttl = Value(lines, "TTL", "0") /\ c.ttl \in Numbers /\ c.psk # ""
  /\ UNION Range(c.tags) \subseteq Values(lines)
  /\ IsFiniteSet(DOMAIN c.assigns)
  /\ \A names \in Range(c.assigns) : names \in Seq(STRING) /\ "" \notin Range(names)

ProfilesRead(fs, ps) ==
  /\ fs \in Seq(Seq(ProfileLines)) /\ Len(fs) \in 1..Len(FileNames)
  /\ DOMAIN ps = {NameOf(fs, k) : k \in DOMAIN fs}
  /\ \A n \in DOMAIN ps, k \in DOMAIN fs : Newest(fs, k, n) =>
       ps[n].extends = ParentOf(fs, k) /\ ps[n].rules = RulesIn(fs[k])

(* The samples are what is read from files. *)
ASSUME SampleAssumption ==
  ConfigAsWritten(SampleText, SampleConfig) /\ ProfilesRead(SampleFiles, SampleProfiles)

(***************************************************************************)
(* Properties                                                              *)
(***************************************************************************)

(* The parsers, the maps they fill and the histories of what they read stay *)
(* in their domains, and a config that is used has a PSK and addresses for  *)
(* the names it defines.                                                    *)
TypeOK ==
  /\ parse \in {"reading", "parsed", "error"} /\ loading \in {"reading", "loaded", "error"}
  /\ Len(files) \in 1..Len(FileNames)
  /\ DOMAIN conf.targets \subseteq Plain /\ conf.ttl \in Numbers
  /\ UNION Range(conf.tags) \subseteq Values(text)
  /\ parse = "parsed" => conf.psk # ""
  /\ \A r \in Range(conf.rules) : r.port \in Ports

(* A rule line with a source is for two agents: the one at the source is told *)
(* to dial the target and the one at the target to listen, wherever the file  *)
(* defines the two names, and both with the last TTL of the file; unless the  *)
(* source is a target that is defined as empty, which the resolved rule does  *)
(* not tell from having none.                                                 *)
EndsServed ==
  Ready => \A f \in Written(text) : HasSource(f) =>
    LET a == AddressOf(text, f[1])  b == AddressOf(text, f[2]) IN
    /\ a \in Agents => \A u \in Updates(a) : Rule("connect", a, b, f[3]) \in u.rules
    /\ b \in Agents \ {a} /\ a # "" => \A u \in Updates(b) : Rule("listen", "", "", f[3]) \in u.rules
    /\ \A ip \in Agents : \A u \in Updates(ip) : u.ttl = Value(text, "TTL", "0")

(* No agent dials or listens on account of a rule line that is not about it: *)
(* each of its direct rules goes back to a line that names it, or to one     *)
(* without a source, or whose source is a target that is defined as empty:   *)
(* such a line makes every agent dial.                                       *)
NoForeignRules ==
  Ready => \A ip \in Agents : \A r \in DirectRules(ip) : \E f \in Written(text) :
    LET a == AddressOf(text, f[1])  b == AddressOf(text, f[2]) IN
    \/ r.role = "connect" /\ r.source = "" /\ (HasSource(f) => a = "")
    \/ r.role = "connect" /\ r.source = ip /\ a = ip /\ b = r.target /\ f[3] = r.port
    \/ r.role = "listen" /\ b = ip /\ a # ip /\ f[3] = r.port

(* The profiles of an agent do not depend on the order of a map: only an      *)
(* address with two assigned names and no assignment of its own is ambiguous. *)
LookupUnambiguous ==
  Ready => \A ip \in Agents :
    LET assigned == DOMAIN conf.assigns
    IN ip \in assigned \/ Cardinality(Aliases(ip) \cap assigned) <= 1
         => Cardinality(LookupAssignments(ip)) = 1

(* An agent gets, resolved for its address, the rules of the profiles it is   *)
(* assigned and of all they extend, as the files give them: a later file      *)
(* replaces an earlier one of the same name; and none at all if one of its    *)
(* profiles is missing, extends a missing one or extends itself in the end,   *)
(* or if any file of the directory is refused.                                *)
ProfilesAsWritten ==
  Ready => \A ip \in Agents \ {""} : \A names \in LookupAssignments(ip) :
    FromProfiles(names, ip) =
      IF \/ conf.dir = "" \/ loading = "error"
         \/ \E n \in Range(names) : Lineages(files, n) = {}
      THEN {}
      ELSE UNION {ResolveRule(r, ip) :
             r \in UNION {RulesAlong(files, n) : n \in Range(names)}}

(* README.md:363 and :374 give the simple format, TARGET PORT INTERVAL COUNT, *)
(* any number of seconds as INTERVAL: such a line makes every agent dial the  *)
(* port of the target.                                                        *)
SimpleRulesRead ==
  Ready => \A f \in Written(text) : ~HasSource(f) =>
    \A ip \in Agents : \A u \in Updates(ip) :
      Rule("connect", "", AddressOf(text, f[1]), f[2]) \in u.rules
=============================================================================
