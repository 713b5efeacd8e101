------------------------------ MODULE ConfigFile ------------------------------
(***************************************************************************)
(* How the master reads its config file (ParseExtendedConfigV2,            *)
(* pkg/config/parser_v2.go): line by line, in whatever section, and a      *)
(* second pass that replaces target names by their addresses.              *)
(*                                                                         *)
(* A line is a record: a section header, a pair key = value with the tags  *)
(* of its comment, a rule line with the four fields that follow the        *)
(* protocol (eq: its comment has a "="), or a line that is none of these   *)
(* and is refused.  Blank lines and comments are left out, and so are      *)
(* protocols, names, counts and intervals once they are checked.           *)
(***************************************************************************)
EXTENDS Naturals, Sequences, FiniteSets, SequencesExt

CONSTANTS
  ConfLines,   \* lines the file may hold
  MaxLines,    \* bound: lines of the file
  Numbers,     \* fields that strconv.Atoi reads as a number >= 0
  Ports,       \* those between 1 and maxPort
  Plain,       \* keys that pass allAlphaNumeric
  Listed,      \* values with commas, as sequences of names
  EnvPSK       \* TRAFFICORCH_PSK, "" when unset

ASSUME ConfigFileAssumption ==
  /\ MaxLines \in Nat /\ Ports \subseteq Numbers /\ "0" \in Numbers \ Ports
  /\ \A l \in ConfLines :
       /\ l.kind \in {"section", "pair", "rule", "broken"}
       /\ l.kind = "pair" => l.value \in STRING
       /\ l.kind = "rule" => \A i \in 1..4 : l.fields[i] # ""
  /\ \A v \in DOMAIN Listed : Listed[v] \in Seq(STRING) /\ "" \notin Range(Listed[v])

VARIABLES
  text,      \* history: the lines read so far
  section,   \* currentSection
  conf,      \* the MasterConfig under construction
  parse      \* "reading", "parsed" or "error"

confvars == <<text, section, conf, parse>>

(* The lines ParseExtendedConfigV2 tells apart. *)
Header(name) == [kind |-> "section", name |-> name]
Pair(key, value, tags) == [kind |-> "pair", key |-> key, value |-> value, tags |-> tags]
RuleLine(fields, eq) == [kind |-> "rule", fields |-> fields, eq |-> eq]
Broken == [kind |-> "broken"]

Empty == [x \in {} |-> x]
Put(f, k, v) == [x \in DOMAIN f \cup {k} |-> IF x = k THEN v ELSE f[x]]
Get(f, k, default) == IF k \in DOMAIN f THEN f[k] ELSE default

NewConfig == [psk |-> EnvPSK, ttl |-> "0", dir |-> "", rules |-> <<>>,
              targets |-> Empty, tags |-> Empty, assigns |-> Empty]

ConfInit ==
  /\ text = <<>> /\ section = "" /\ conf = NewConfig /\ parse = "reading"

(* A line is read and kept in c, or it is refused and ends the parser. *)
Keep(c) == conf' = c /\ UNCHANGED <<section, parse>>
Refuse == parse' = "error" /\ UNCHANGED <<section, conf>>

ReadHeader(l) ==
  /\ l.kind = "section"
  /\ section' = l.name
  /\ UNCHANGED <<conf, parse>>

(* The names of an assignment: the value split at commas. *)
Names(value) == IF value = "" THEN <<>> ELSE Get(Listed, value, <<value>>)

(* [ASSIGNMENTS]: any key but an empty one, a later line replaces an earlier. *)
ReadAssignment(l) ==
  /\ l.kind = "pair" /\ section = "ASSIGNMENTS"
  /\ Keep(IF l.key = "" THEN conf ELSE [conf EXCEPT !.assigns = Put(@, l.key, Names(l.value))])

(* PROFILE_DIR is relative to the directory of the file, which is never "". *)
Keywords == {"PORT", "TTL", "PSK", "PROFILE_DIR", "CONFIG"}

ReadSetting(l) ==
  /\ l.kind = "pair" /\ section # "ASSIGNMENTS"
  /\ CASE l.key = "PORT" -> IF l.value \in Ports THEN Keep(conf) ELSE Refuse
       [] l.key = "TTL" ->
            IF l.value \in Numbers THEN Keep([conf EXCEPT !.ttl = l.value]) ELSE Refuse
       [] l.key = "PSK" -> Keep([conf EXCEPT !.psk = l.value])
       [] l.key = "PROFILE_DIR" ->
            Keep([conf EXCEPT !.dir = IF l.value = "" THEN "." ELSE l.value])
       [] l.key = "CONFIG" -> Keep(conf)
       [] OTHER -> FALSE

(* Any other key defines a target, in any section but [ASSIGNMENTS]; a key *)
(* that is not plain is dropped in silence.  Tags only ever gain addresses. *)
AddTarget(l) ==
  [conf EXCEPT !.targets = Put(@, l.key, l.value),
               !.tags = [t \in DOMAIN @ \cup l.tags |->
                           Get(@, t, {}) \cup (IF t \in l.tags THEN {l.value} ELSE {})]]

ReadTarget(l) ==
  /\ l.kind = "pair" /\ section # "ASSIGNMENTS"
  /\ l.key \notin Keywords
  /\ Keep(IF l.key \in Plain THEN AddTarget(l) ELSE conf)

(* The heuristic: a port in the fourth column and a count in the fifth make *)
(* the line SOURCE DEST PORT COUNT, otherwise it is TARGET PORT INTERVAL    *)
(* COUNT.                                                                   *)
Extended(f) == f[3] \in Ports /\ (f[4] = "loop" \/ f[4] \in Numbers)
Count(s) == s = "loop" \/ s \in Numbers \ {"0"}

Acceptable(f) ==
  Count(f[4]) /\ (Extended(f) \/ (f[2] \in Ports /\ f[3] \in Numbers))

Parsed(f) ==
  IF Extended(f) THEN [source |-> f[1], target |-> f[2], port |-> f[3]]
                 ELSE [source |-> "", target |-> f[1], port |-> f[2]]

(* A "=" anywhere in a rule line makes it a pair whose key is not plain and *)
(* is no address.                                                          *)
ReadRule(l) ==
  /\ l.kind \in {"rule", "broken"}
  /\ IF section = "ASSIGNMENTS" THEN Keep(conf)
     ELSE IF l.kind = "broken" THEN Refuse
     ELSE IF l.eq THEN Keep(conf)
     ELSE IF ~Acceptable(l.fields) THEN Refuse
     ELSE Keep([conf EXCEPT !.rules = Append(@, Parsed(l.fields))])

ReadLine ==
  /\ parse = "reading" /\ Len(text) < MaxLines
  /\ \E l \in ConfLines \ Range(text) :
       /\ text' = Append(text, l)
       /\ ReadHeader(l) \/ ReadAssignment(l) \/ ReadSetting(l)
                        \/ ReadTarget(l) \/ ReadRule(l)

(* The second pass: names, one step deep, become addresses. *)
ResolvedMutant(r) == [r EXCEPT !.target = Get(conf.targets, @, @)]
Resolved(r) ==
  [r EXCEPT !.target = Get(conf.targets, @, @),
            !.source = IF @ = "" THEN "" ELSE Get(conf.targets, @, @)]

EndOfFileMutant ==
  /\ parse = "reading"
  /\ conf' = [conf EXCEPT !.rules = [i \in DOMAIN @ |-> Resolved(@[i])]]
  /\ parse' = "parsed"
  /\ UNCHANGED <<text, section>>

EndOfFile ==
  /\ parse = "reading"
  /\ conf' = [conf EXCEPT !.rules = [i \in DOMAIN @ |-> Resolved(@[i])]]
  /\ parse' = IF conf.psk = "" THEN "error" ELSE "parsed"
  /\ UNCHANGED <<text, section>>

ParseStep == ReadLine \/ EndOfFile
=============================================================================
