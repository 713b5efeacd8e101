---------------------------- MODULE RuleSetsProofs ----------------------------
(***************************************************************************)
(* Proofs about RuleSets, for files of any length and any sets of agents,  *)
(* names and values: what has been read from a file is what its lines say, *)
(* whatever their order and sections, and what an agent is sent follows    *)
(* from it.                                                                *)
(***************************************************************************)
EXTENDS RuleSets, FiniteSetTheorems, WellFoundedInduction, TLAPS

(***************************************************************************)
(* Numbers: a set of them has a smallest element, and a largest one below  *)
(* a bound.                                                                *)
(***************************************************************************)
LEMMA Smallest ==
  ASSUME NEW S \in SUBSET Nat, S # {}
  PROVE  \E x \in S : \A y \in S : x <= y
<1>1. PICK x \in S : \A y \in S : ~(<<y, x>> \in OpToRel(<, Nat))
  BY NatLessThanWellFounded, WFMin
<1>2. \A y \in S : ~(y < x)
  BY <1>1 DEF OpToRel
<1> QED BY <1>2

LEMMA Largest ==
  ASSUME NEW n \in Nat, NEW S \in SUBSET (1..n), S # {}
  PROVE  Max(S) \in S /\ \A y \in S : y <= Max(S)
<1> DEFINE below == {n - x : x \in S}
<1>0. below \in SUBSET Nat /\ below # {}
  <2>1. \A x \in S : n - x \in Nat
    OBVIOUS
  <2>2. PICK x \in S : TRUE
    OBVIOUS
  <2>3. n - x \in below
    BY <2>2
  <2> QED BY <2>1, <2>3
<1>1. PICK m \in below : \A y \in below : m <= y
  BY <1>0, Smallest
<1>2. PICK x \in S : m = n - x
  BY <1>1
<1>3. \A y \in S : x >= y
  <2> TAKE y \in S
  <2>1. n - y \in below
    OBVIOUS
  <2>2. m <= n - y
    BY <1>1, <2>1
  <2> QED BY <1>2, <2>2
<1> QED BY <1>3 DEF Max

LEMMA LargestAdded ==
  ASSUME NEW n \in Nat, NEW S \in SUBSET (1..n)
  PROVE  Max(S \cup {n + 1}) = n + 1
<1>1. \A x \in S \cup {n + 1} : (\A y \in S \cup {n + 1} : x >= y) <=> x = n + 1
  OBVIOUS
<1> QED BY <1>1 DEF Max

-----------------------------------------------------------------------------
(***************************************************************************)
(* Lines: what one more line changes in what the lines say.                *)
(***************************************************************************)
LEMMA SectionAdded ==
  ASSUME NEW Lines, NEW t \in Seq(Lines), NEW l \in Lines, NEW kind
  PROVE  /\ \A i \in 1..Len(t) : SectionAt(Append(t, l), i, kind) = SectionAt(t, i, kind)
         /\ SectionAt(Append(t, l), Len(t) + 1, kind) =
              IF l.kind = kind THEN l.name ELSE SectionAt(t, Len(t), kind)
<1> DEFINE u == Append(t, l)
<1> DEFINE above(s, i) == {j \in 1..i : s[j].kind = kind}
<1>1. /\ u \in Seq(Lines) /\ Len(u) = Len(t) + 1 /\ u[Len(t) + 1] = l
      /\ \A i \in 1..Len(t) : u[i] = t[i]
  OBVIOUS
<1>2. \A i \in 0..Len(t) : above(u, i) = above(t, i) /\ above(u, i) \in SUBSET (1..i)
  BY <1>1
<1>3. \A i \in 0..Len(t) : above(u, i) # {} => u[Max(above(u, i))] = t[Max(above(t, i))]
  <2> SUFFICES ASSUME NEW i \in 0..Len(t), above(u, i) # {}
               PROVE  u[Max(above(u, i))] = t[Max(above(t, i))]
    OBVIOUS
  <2>1. i \in Nat /\ above(u, i) = above(t, i) /\ above(u, i) \in SUBSET (1..i)
    BY <1>2
  <2> DEFINE S == above(u, i)
  <2>2. S \in SUBSET (1..i) /\ S # {} /\ i \in Nat
    BY <2>1
  <2> HIDE DEF S
  <2>3. Max(S) \in 1..i
    BY <2>2, Largest
  <2>4. Max(S) \in 1..Len(t)
    BY <2>3
  <2>5. u[Max(S)] = t[Max(S)]
    BY <1>1, <2>4
  <2> QED BY <2>1, <2>5 DEF S
<1>4. ASSUME l.kind # kind
      PROVE  above(u, Len(t) + 1) = above(u, Len(t))
  BY <1>1, <1>4
<1>5. ASSUME l.kind = kind
      PROVE  Max(above(u, Len(t) + 1)) = Len(t) + 1 /\ above(u, Len(t) + 1) # {}
  <2>1. above(u, Len(t) + 1) = above(u, Len(t)) \cup {Len(t) + 1}
    BY <1>1, <1>5
  <2>2. Len(t) \in Nat /\ above(u, Len(t)) \in SUBSET (1..Len(t))
    BY <1>2
  <2> QED BY <2>1, <2>2, LargestAdded
<1>6. \A i \in 1..Len(t) : SectionAt(u, i, kind) = SectionAt(t, i, kind)
  <2> TAKE i \in 1..Len(t)
  <2>1. i \in 0..Len(t)
    OBVIOUS
  <2>2. above(u, i) = above(t, i) /\ (above(u, i) # {} => u[Max(above(u, i))] = t[Max(above(t, i))])
    BY <1>2, <1>3, <2>1
  <2> QED BY <2>2 DEF SectionAt
<1>7. SectionAt(u, Len(t) + 1, kind) =
        IF l.kind = kind THEN l.name ELSE SectionAt(t, Len(t), kind)
  <2>1. CASE l.kind = kind
    BY <1>1, <1>5, <2>1 DEF SectionAt
  <2>2. CASE l.kind # kind
    <3>1. Len(t) \in 0..Len(t)
      <4>1. Len(t) \in Nat
        OBVIOUS
      <4> QED BY <4>1
    <3>2. /\ above(u, Len(t) + 1) = above(t, Len(t))
          /\ above(u, Len(t)) = above(t, Len(t))
          /\ above(u, Len(t)) # {} => u[Max(above(u, Len(t)))] = t[Max(above(t, Len(t)))]
      BY <1>2, <1>3, <1>4, <2>2, <3>1
    <3> QED BY <2>2, <3>2 DEF SectionAt
  <2> QED BY <2>1, <2>2
<1> QED BY <1>6, <1>7

LEMMA LastKept ==
  ASSUME NEW Lines, NEW t \in Seq(Lines), NEW l \in Lines,
         NEW is \in SUBSET (1..Len(t)), NEW default
  PROVE  LastOf(Append(t, l), is, default) = LastOf(t, is, default)
<1>1. ASSUME is # {}
      PROVE  Max(is) \in 1..Len(t)
  <2>1. Len(t) \in Nat
    OBVIOUS
  <2> QED BY <1>1, <2>1, Largest
<1>2. \A i \in 1..Len(t) : Append(t, l)[i] = t[i]
  OBVIOUS
<1> QED BY <1>1, <1>2 DEF LastOf

LEMMA LastReplaced ==
  ASSUME NEW Lines, NEW t \in Seq(Lines), NEW l \in Lines,
         NEW is \in SUBSET (1..Len(t)), NEW default
  PROVE  LastOf(Append(t, l), is \cup {Len(t) + 1}, default) = l.value
<1>1. Append(t, l)[Len(t) + 1] = l
  OBVIOUS
<1>2. Max(is \cup {Len(t) + 1}) = Len(t) + 1
  BY LargestAdded
<1> QED BY <1>1, <1>2 DEF LastOf

(* A pair outside [ASSIGNMENTS] gives its key its value, and nothing else does. *)
LEMMA ValueAdded ==
  ASSUME NEW Lines, NEW t \in Seq(Lines), NEW l \in Lines, NEW key, NEW default
  PROVE  Value(Append(t, l), key, default) =
           IF /\ l.kind = "pair" /\ l.key = key
              /\ SectionAt(t, Len(t), "section") # "ASSIGNMENTS"
           THEN l.value ELSE Value(t, key, default)
<1> DEFINE u == Append(t, l)
<1> DEFINE is(s) == {i \in DOMAIN s : /\ s[i].kind = "pair" /\ s[i].key = key
                                      /\ SectionAt(s, i, "section") # "ASSIGNMENTS"}
<1> DEFINE given == /\ l.kind = "pair" /\ l.key = key
                    /\ SectionAt(t, Len(t), "section") # "ASSIGNMENTS"
<1>1. /\ DOMAIN u = 1..Len(t) \cup {Len(t) + 1} /\ DOMAIN t = 1..Len(t)
      /\ u[Len(t) + 1] = l /\ \A i \in 1..Len(t) : u[i] = t[i]
  OBVIOUS
<1>2. /\ \A i \in 1..Len(t) : SectionAt(u, i, "section") = SectionAt(t, i, "section")
      /\ l.kind = "pair" =>
           SectionAt(u, Len(t) + 1, "section") = SectionAt(t, Len(t), "section")
  BY SectionAdded
<1>3. is(t) \in SUBSET (1..Len(t))
  BY <1>1
<1>4. is(u) = IF given THEN is(t) \cup {Len(t) + 1} ELSE is(t)
  BY <1>1, <1>2
<1>5. /\ LastOf(u, is(t), default) = LastOf(t, is(t), default)
      /\ LastOf(u, is(t) \cup {Len(t) + 1}, default) = l.value
  <2> DEFINE S == is(t)
  <2>1. S \in SUBSET (1..Len(t))
    BY <1>3
  <2> HIDE DEF S
  <2>2. LastOf(u, S, default) = LastOf(t, S, default)
    BY <2>1, LastKept
  <2>3. LastOf(u, S \cup {Len(t) + 1}, default) = l.value
    BY <2>1, LastReplaced
  <2> QED BY <2>2, <2>3 DEF S
<1>6. Value(u, key, default) = LastOf(u, is(u), default)
      /\ Value(t, key, default) = LastOf(t, is(t), default)
  BY DEF Value
<1> QED BY <1>4, <1>5, <1>6

LEMMA WrittenAdded ==
  ASSUME NEW Lines, NEW t \in Seq(Lines), NEW l \in Lines
  PROVE  Written(Append(t, l)) =
           IF /\ l.kind = "rule" /\ ~l.eq
              /\ SectionAt(t, Len(t), "section") # "ASSIGNMENTS"
           THEN Written(t) \cup {l.fields} ELSE Written(t)
<1> DEFINE u == Append(t, l)
<1>1. /\ DOMAIN u = 1..Len(t) \cup {Len(t) + 1} /\ DOMAIN t = 1..Len(t)
      /\ u[Len(t) + 1] = l /\ \A i \in 1..Len(t) : u[i] = t[i]
  OBVIOUS
<1>2. /\ \A i \in 1..Len(t) : SectionAt(u, i, "section") = SectionAt(t, i, "section")
      /\ l.kind = "rule" =>
           SectionAt(u, Len(t) + 1, "section") = SectionAt(t, Len(t), "section")
  BY SectionAdded
<1> HIDE DEF u
<1> QED BY <1>1, <1>2 DEF Written, u

LEMMA ValuesAdded ==
  ASSUME NEW Lines, NEW t \in Seq(Lines), NEW l \in Lines
  PROVE  /\ Values(t) \subseteq Values(Append(t, l))
         /\ l.kind = "pair" => l.value \in Values(Append(t, l))
<1>1. /\ DOMAIN Append(t, l) = 1..Len(t) \cup {Len(t) + 1} /\ DOMAIN t = 1..Len(t)
      /\ Append(t, l)[Len(t) + 1] = l
      /\ \A i \in 1..Len(t) : Append(t, l)[i] = t[i]
  OBVIOUS
<1> QED BY <1>1 DEF Values

(* A key in [META] has the value of its last line, and a rule counts in [RULES]. *)
LEMMA MetaAdded ==
  ASSUME NEW Lines, NEW t \in Seq(Lines), NEW l \in Lines, NEW key
  PROVE  MetaOf(Append(t, l), key) =
           IF /\ l.kind = "meta" /\ l.key = key
              /\ SectionAt(t, Len(t), "header") = "META"
           THEN l.value ELSE MetaOf(t, key)
<1> DEFINE u == Append(t, l)
<1> DEFINE is(s) == {i \in DOMAIN s : /\ s[i].kind = "meta" /\ s[i].key = key
                                      /\ SectionAt(s, i, "header") = "META"}
<1> DEFINE given == /\ l.kind = "meta" /\ l.key = key
                    /\ SectionAt(t, Len(t), "header") = "META"
<1>1. /\ DOMAIN u = 1..Len(t) \cup {Len(t) + 1} /\ DOMAIN t = 1..Len(t)
      /\ u[Len(t) + 1] = l /\ \A i \in 1..Len(t) : u[i] = t[i]
  OBVIOUS
<1>2. /\ \A i \in 1..Len(t) : SectionAt(u, i, "header") = SectionAt(t, i, "header")
      /\ l.kind = "meta" =>
           SectionAt(u, Len(t) + 1, "header") = SectionAt(t, Len(t), "header")
  BY SectionAdded
<1>3. is(t) \in SUBSET (1..Len(t))
  BY <1>1
<1>4. is(u) = IF given THEN is(t) \cup {Len(t) + 1} ELSE is(t)
  BY <1>1, <1>2
<1>5. /\ LastOf(u, is(t), "") = LastOf(t, is(t), "")
      /\ LastOf(u, is(t) \cup {Len(t) + 1}, "") = l.value
  <2> DEFINE S == is(t)
  <2>1. S \in SUBSET (1..Len(t))
    BY <1>3
  <2> HIDE DEF S
  <2>2. LastOf(u, S, "") = LastOf(t, S, "")
    BY <2>1, LastKept
  <2>3. LastOf(u, S \cup {Len(t) + 1}, "") = l.value
    BY <2>1, LastReplaced
  <2> QED BY <2>2, <2>3 DEF S
<1>6. MetaOf(u, key) = LastOf(u, is(u), "") /\ MetaOf(t, key) = LastOf(t, is(t), "")
  BY DEF MetaOf
<1> QED BY <1>4, <1>5, <1>6

LEMMA RulesAdded ==
  ASSUME NEW Lines, NEW t \in Seq(Lines), NEW l \in Lines
  PROVE  RulesIn(Append(t, l)) =
           IF l.kind = "rule" /\ SectionAt(t, Len(t), "header") = "RULES"
           THEN RulesIn(t) \cup {l.rule} ELSE RulesIn(t)
<1> DEFINE u == Append(t, l)
<1>1. /\ DOMAIN u = 1..Len(t) \cup {Len(t) + 1} /\ DOMAIN t = 1..Len(t)
      /\ u[Len(t) + 1] = l /\ \A i \in 1..Len(t) : u[i] = t[i]
  OBVIOUS
<1>2. /\ \A i \in 1..Len(t) : SectionAt(u, i, "header") = SectionAt(t, i, "header")
      /\ l.kind = "rule" =>
           SectionAt(u, Len(t) + 1, "header") = SectionAt(t, Len(t), "header")
  BY SectionAdded
<1> HIDE DEF u
<1> QED BY <1>1, <1>2 DEF RulesIn, u

(* An empty file says nothing. *)
LEMMA NothingWritten ==
  /\ \A kind : SectionAt(<<>>, 0, kind) = ""
  /\ \A key, default : Value(<<>>, key, default) = default
  /\ Written(<<>>) = {} /\ RulesIn(<<>>) = {}
  /\ \A key : MetaOf(<<>>, key) = ""
<1>1. DOMAIN <<>> = {} /\ 1..0 = {}
  OBVIOUS
<1>2. \A kind : SectionAt(<<>>, 0, kind) = ""
  BY <1>1 DEF SectionAt
<1>3. \A key, default : Value(<<>>, key, default) = default
  BY <1>1 DEF Value, LastOf
<1>4. Written(<<>>) = {} /\ RulesIn(<<>>) = {}
  BY <1>1 DEF Written, RulesIn
<1>5. \A key : MetaOf(<<>>, key) = ""
  BY <1>1 DEF MetaOf, LastOf
<1> QED BY <1>2, <1>3, <1>4, <1>5

-----------------------------------------------------------------------------
(***************************************************************************)
(* The config file.                                                        *)
(***************************************************************************)
(* While it is read, the names of the rules are not yet addresses. *)
Parsable(lines, rules) ==
  /\ \A f \in Written(lines) : Acceptable(f)
  /\ rules \in Seq({Parsed(f) : f \in Written(lines)})
  /\ Range(rules) = {Parsed(f) : f \in Written(lines)}

TargetsRead(lines, targets) ==
  /\ DOMAIN targets \subseteq Plain \ Keywords
  /\ \A n \in Plain \ Keywords : Get(targets, n, n) = Value(lines, n, n)

TtlRead(lines, ttl) == ttl = Value(lines, "TTL", "0") /\ ttl \in Numbers

TagsRead(lines, tags) == UNION Range(tags) \subseteq Values(lines)

AssignsRead(assigns) ==
  /\ IsFiniteSet(DOMAIN assigns)
  /\ \A names \in Range(assigns) : names \in Seq(STRING) /\ "" \notin Range(names)

ConfReading ==
  /\ text \in Seq(ConfLines)
  /\ section = SectionAt(text, Len(text), "section")
  /\ conf = [psk |-> conf.psk, ttl |-> conf.ttl, dir |-> conf.dir, rules |-> conf.rules,
              targets |-> conf.targets, tags |-> conf.tags, assigns |-> conf.assigns]
  /\ Parsable(text, conf.rules) /\ TargetsRead(text, conf.targets)
  /\ TtlRead(text, conf.ttl) /\ TagsRead(text, conf.tags) /\ AssignsRead(conf.assigns)

(* A config that was refused is kept as far as it was read. *)
ConfRefused ==
  /\ DOMAIN conf.targets \subseteq Plain /\ conf.ttl \in Numbers
  /\ UNION Range(conf.tags) \subseteq Values(text)
  /\ \A r \in Range(conf.rules) : r.port \in Ports

ConfInv ==
  /\ parse \in {"reading", "parsed", "error"}
  /\ parse = "reading" => ConfReading
  /\ parse = "parsed" => ConfigAsWritten(text, conf)
  /\ parse = "error" => ConfRefused

LEMMA PortParsed ==
  ASSUME NEW f, Acceptable(f)
  PROVE  Parsed(f).port \in Ports
BY DEF Acceptable, Parsed, Extended

LEMMA OneElement ==
  ASSUME NEW S, NEW x \in S
  PROVE  /\ <<x>> \in Seq(S) /\ Len(<<x>>) = 1 /\ <<x>>[1] = x
         /\ Range(<<x>>) = {x}
<1>1. <<x>> \in Seq(S) /\ Len(<<x>>) = 1 /\ <<x>>[1] = x
  OBVIOUS
<1>2. DOMAIN <<x>> = 1..1
  BY <1>1
<1> QED BY <1>1, <1>2 DEF Range

LEMMA FunctionIsSeq ==
  ASSUME NEW S, NEW n \in Nat, NEW s \in [1..n -> S]
  PROVE  s \in Seq(S) /\ Len(s) = n
OBVIOUS

LEMMA ElementsOf ==
  ASSUME NEW S, NEW s \in Seq(S)
  PROVE  (\A i \in 1..Len(s) : s[i] \in S) /\ (\A x \in Range(s) : x \in S)
<1>1. DOMAIN s = 1..Len(s) /\ \A i \in 1..Len(s) : s[i] \in S
  OBVIOUS
<1> QED BY <1>1 DEF Range

LEMMA NoElement == Range(<<>>) = {}
BY DEF Range

LEMMA ElementAdded ==
  ASSUME NEW S, NEW s \in Seq(S), NEW x \in S
  PROVE  /\ Append(s, x) \in Seq(S) /\ Len(Append(s, x)) = Len(s) + 1
         /\ Append(s, x)[Len(s) + 1] = x
         /\ \A k \in 1..Len(s) : Append(s, x)[k] = s[k]
OBVIOUS

LEMMA NamesRead ==
  ASSUME NEW value \in STRING
  PROVE  Names(value) \in Seq(STRING) /\ "" \notin Range(Names(value))
<1>1. CASE value = ""
  <2>1. <<>> \in Seq(STRING) /\ Range(<<>>) = {}
    BY DEF Range
  <2> QED BY <1>1, <2>1 DEF Names
<1>2. CASE value # "" /\ value \in DOMAIN Listed
  BY <1>2, ConfigFileAssumption DEF Names, Get
<1>3. CASE value # "" /\ value \notin DOMAIN Listed
  <2>1. <<value>> \in Seq(STRING) /\ Range(<<value>>) = {value}
    BY OneElement
  <2> QED BY <1>3, <2>1 DEF Names, Get
<1> QED BY <1>1, <1>2, <1>3

(* A line that is refused leaves what was read before it. *)
LEMMA LineRefused ==
  ASSUME ConfReading, NEW l \in ConfLines, text' = Append(text, l), Refuse
  PROVE  ConfInv'
<1>1. Values(text) \subseteq Values(text')
  BY ValuesAdded DEF ConfReading
<1>2. \A r \in Range(conf.rules) : r.port \in Ports
  <2>1. \A f \in Written(text) : Parsed(f).port \in Ports
    BY PortParsed DEF ConfReading, Parsable
  <2> QED BY <2>1 DEF ConfReading, Parsable
<1>3. ConfRefused'
  BY <1>1, <1>2 DEF ConfReading, ConfRefused, TargetsRead, TtlRead, TagsRead, Refuse
<1> QED BY <1>3 DEF ConfInv, Refuse

(* What a line changes is what it says, and the rest stays as it was. *)
LEMMA LineKept ==
  ASSUME ConfReading, parse = "reading", NEW l \in ConfLines, text' = Append(text, l),
         \/ ReadHeader(l) \/ ReadAssignment(l) \/ ReadSetting(l)
         \/ ReadTarget(l) \/ ReadRule(l),
         ~Refuse
  PROVE  ConfInv'
<1> DEFINE pair(key) == l.kind = "pair" /\ l.key = key /\ section # "ASSIGNMENTS"
<1>1. \A key, default :
        Value(text', key, default) = IF pair(key) THEN l.value ELSE Value(text, key, default)
  <2> TAKE key, default
  <2> QED BY ValueAdded DEF ConfReading
<1>2. Written(text') =
        IF l.kind = "rule" /\ ~l.eq /\ section # "ASSIGNMENTS"
        THEN Written(text) \cup {l.fields} ELSE Written(text)
  BY WrittenAdded DEF ConfReading
<1>3. /\ Values(text) \subseteq Values(text')
      /\ l.kind = "pair" => l.value \in Values(text')
  BY ValuesAdded DEF ConfReading
<1>4. SectionAt(text', Len(text'), "section") = IF l.kind = "section" THEN l.name ELSE section
  <2>1. Len(text') = Len(text) + 1
    BY DEF ConfReading
  <2> QED BY <2>1, SectionAdded DEF ConfReading
<1>5. text' \in Seq(ConfLines)
  BY DEF ConfReading
<1>6. /\ l.kind \in {"section", "pair", "rule", "broken"}
      /\ l.kind = "pair" => l.value \in STRING
  BY ConfigFileAssumption
<1>7. ASSUME Written(text') = Written(text), conf'.rules = conf.rules
      PROVE  Parsable(text', conf'.rules)
  BY <1>7 DEF ConfReading, Parsable
<1>8. ASSUME \A n \in Plain \ Keywords : ~pair(n), conf'.targets = conf.targets
      PROVE  TargetsRead(text', conf'.targets)
  BY <1>1, <1>8 DEF ConfReading, TargetsRead
<1>9. ASSUME ~pair("TTL"), conf'.ttl = conf.ttl
      PROVE  TtlRead(text', conf'.ttl)
  BY <1>1, <1>9 DEF ConfReading, TtlRead
<1>10. ASSUME conf'.tags = conf.tags
       PROVE  TagsRead(text', conf'.tags)
  BY <1>3, <1>10 DEF ConfReading, TagsRead
<1>11. ASSUME conf'.assigns = conf.assigns
       PROVE  AssignsRead(conf'.assigns)
  BY <1>11 DEF ConfReading
<1>12. ASSUME conf' = conf, UNCHANGED parse, Written(text') = Written(text),
              l.kind # "pair" \/ section = "ASSIGNMENTS",
              section' = SectionAt(text', Len(text'), "section")
       PROVE  ConfInv'
  <2>1. Parsable(text', conf'.rules) /\ TargetsRead(text', conf'.targets)
    BY <1>7, <1>8, <1>12
  <2>2. TtlRead(text', conf'.ttl) /\ TagsRead(text', conf'.tags) /\ AssignsRead(conf'.assigns)
    BY <1>9, <1>10, <1>11, <1>12
  <2>3. ConfReading'
    BY <1>5, <1>12, <2>1, <2>2 DEF ConfReading
  <2> QED BY <1>12, <2>3 DEF ConfInv
<1>13. CASE ReadHeader(l)
  <2>1. /\ l.kind = "section" /\ conf' = conf /\ UNCHANGED parse /\ section' = l.name
    BY <1>13 DEF ReadHeader
  <2> QED BY <1>2, <1>4, <1>12, <2>1
<1>14. CASE ReadAssignment(l)
  <2>1. l.kind = "pair" /\ section = "ASSIGNMENTS" /\ UNCHANGED <<section, parse>>
    BY <1>14 DEF ReadAssignment, Keep
  <2>2. Written(text') = Written(text) /\ section' = SectionAt(text', Len(text'), "section")
    BY <1>2, <1>4, <2>1
  <2>3. CASE l.key = ""
    BY <1>12, <1>14, <2>1, <2>2, <2>3 DEF ReadAssignment, Keep
  <2>4. CASE l.key # ""
    <3>1. conf' = [conf EXCEPT !.assigns = Put(conf.assigns, l.key, Names(l.value))]
      BY <1>14, <2>4 DEF ReadAssignment, Keep
    <3>2. /\ conf' = [psk |-> conf'.psk, ttl |-> conf'.ttl, dir |-> conf'.dir,
                      rules |-> conf'.rules, targets |-> conf'.targets,
                      tags |-> conf'.tags, assigns |-> conf'.assigns]
          /\ conf'.rules = conf.rules /\ conf'.targets = conf.targets
          /\ conf'.ttl = conf.ttl /\ conf'.tags = conf.tags
          /\ conf'.assigns = Put(conf.assigns, l.key, Names(l.value))
      BY <3>1 DEF ConfReading
    <3>3. AssignsRead(conf'.assigns)
      <4> DEFINE new == Put(conf.assigns, l.key, Names(l.value))
      <4>1. DOMAIN new = DOMAIN conf.assigns \cup {l.key}
        BY DEF Put
      <4>2. IsFiniteSet(DOMAIN new)
        BY <4>1, FS_AddElement DEF ConfReading, AssignsRead
      <4>3. \A n \in DOMAIN new : new[n] = IF n = l.key THEN Names(l.value) ELSE conf.assigns[n]
        BY DEF Put
      <4>4. Names(l.value) \in Seq(STRING) /\ "" \notin Range(Names(l.value))
        BY <1>6, <2>1, NamesRead
      <4>5. Range(new) \subseteq Range(conf.assigns) \cup {Names(l.value)}
        <5> HIDE DEF new
        <5> QED BY <4>1, <4>3 DEF Range
      <4> HIDE DEF new
      <4>6. AssignsRead(new)
        BY <4>2, <4>4, <4>5 DEF ConfReading, AssignsRead
      <4> QED BY <3>2, <4>6 DEF new
    <3>4. Parsable(text', conf'.rules) /\ TargetsRead(text', conf'.targets)
      BY <1>7, <1>8, <2>1, <2>2, <3>2
    <3>5. TtlRead(text', conf'.ttl) /\ TagsRead(text', conf'.tags)
      BY <1>9, <1>10, <2>1, <3>2
    <3>6. ConfReading'
      BY <1>5, <2>2, <3>2, <3>3, <3>4, <3>5 DEF ConfReading
    <3> QED BY <2>1, <3>6 DEF ConfInv
  <2> QED BY <2>3, <2>4
<1> DEFINE shaped(c) == c = [psk |-> c.psk, ttl |-> c.ttl, dir |-> c.dir, rules |-> c.rules,
                             targets |-> c.targets, tags |-> c.tags, assigns |-> c.assigns]
<1>15. CASE ReadSetting(l)
  <2>1. l.kind = "pair" /\ section # "ASSIGNMENTS" /\ l.key \in Keywords
    BY <1>15 DEF ReadSetting, Keywords
  <2>2. UNCHANGED <<section, parse>>
    BY <1>15 DEF ReadSetting, Keep
  <2>3. Written(text') = Written(text) /\ section' = SectionAt(text', Len(text'), "section")
    BY <1>2, <1>4, <2>1, <2>2
  <2>4. \A n \in Plain \ Keywords : ~pair(n)
    BY <2>1
  <2>5. shaped(conf')
    BY <1>15 DEF ReadSetting, Keep, ConfReading
  <2>6. /\ conf'.rules = conf.rules /\ conf'.targets = conf.targets
        /\ conf'.tags = conf.tags /\ conf'.assigns = conf.assigns
    BY <1>15 DEF ReadSetting, Keep, ConfReading
  <2>7. TtlRead(text', conf'.ttl)
    <3>1. CASE l.key = "TTL"
      <4>1. l.value \in Numbers /\ conf' = [conf EXCEPT !.ttl = l.value]
        BY <1>15, <3>1 DEF ReadSetting, Keep
      <4>2. conf'.ttl = l.value
        BY <4>1 DEF ConfReading
      <4> QED BY <1>1, <2>1, <3>1, <4>1, <4>2 DEF TtlRead
    <3>2. CASE l.key # "TTL"
      <4>1. conf'.ttl = conf.ttl
        BY <1>15, <3>2 DEF ReadSetting, Keep, ConfReading
      <4> QED BY <1>9, <3>2, <4>1
    <3> QED BY <3>1, <3>2
  <2>8. Parsable(text', conf'.rules) /\ TargetsRead(text', conf'.targets)
    BY <1>7, <1>8, <2>3, <2>4, <2>6
  <2>9. TagsRead(text', conf'.tags) /\ AssignsRead(conf'.assigns)
    BY <1>10, <1>11, <2>6
  <2>10. ConfReading'
    BY <1>5, <2>3, <2>5, <2>7, <2>8, <2>9 DEF ConfReading
  <2> QED BY <2>2, <2>10 DEF ConfInv
<1>16. CASE ReadTarget(l)
  <2>1. l.kind = "pair" /\ section # "ASSIGNMENTS" /\ l.key \notin Keywords
    BY <1>16 DEF ReadTarget
  <2>2. UNCHANGED <<section, parse>> /\ conf' = IF l.key \in Plain THEN AddTarget(l) ELSE conf
    BY <1>16 DEF ReadTarget, Keep
  <2>3. Written(text') = Written(text) /\ section' = SectionAt(text', Len(text'), "section")
    BY <1>2, <1>4, <2>1, <2>2
  <2>4. ~pair("TTL")
    BY <2>1 DEF Keywords
  <2>5. CASE l.key \in Plain
    <3> DEFINE tags == [t \in DOMAIN conf.tags \cup l.tags |->
                          Get(conf.tags, t, {}) \cup (IF t \in l.tags THEN {l.value} ELSE {})]
    <3>1. conf' = [conf EXCEPT !.targets = Put(conf.targets, l.key, l.value), !.tags = tags]
      BY <2>2, <2>5 DEF AddTarget
    <3> HIDE DEF tags
    <3>2. /\ shaped(conf') /\ conf'.rules = conf.rules /\ conf'.ttl = conf.ttl
          /\ conf'.assigns = conf.assigns /\ conf'.tags = tags
          /\ conf'.targets = Put(conf.targets, l.key, l.value)
      BY <3>1 DEF ConfReading
    <3>3. TargetsRead(text', conf'.targets)
      <4>1. DOMAIN Put(conf.targets, l.key, l.value) \subseteq Plain \ Keywords
        BY <2>1, <2>5 DEF Put, ConfReading, TargetsRead
      <4>2. ASSUME NEW n \in Plain \ Keywords
            PROVE  Get(Put(conf.targets, l.key, l.value), n, n) = Value(text', n, n)
        <5>1. Get(conf.targets, n, n) = Value(text, n, n)
          BY DEF ConfReading, TargetsRead
        <5>2. Value(text', n, n) = IF n = l.key THEN l.value ELSE Value(text, n, n)
          BY <1>1, <2>1
        <5>3. Get(Put(conf.targets, l.key, l.value), n, n) =
                IF n = l.key THEN l.value ELSE Get(conf.targets, n, n)
          BY DEF Get, Put
        <5> QED BY <5>1, <5>2, <5>3
      <4> QED BY <3>2, <4>1, <4>2 DEF TargetsRead
    <3>4. TagsRead(text', conf'.tags)
      <4>1. \A t \in DOMAIN conf.tags : conf.tags[t] \subseteq Values(text)
        BY DEF ConfReading, TagsRead, Range
      <4>2. l.value \in Values(text')
        BY <1>3, <2>1
      <4>3. \A t \in DOMAIN tags : tags[t] \subseteq Values(text')
        BY <1>3, <4>1, <4>2 DEF tags, Get
      <4> QED BY <3>2, <4>3 DEF TagsRead, Range
    <3>5. Parsable(text', conf'.rules) /\ TtlRead(text', conf'.ttl) /\ AssignsRead(conf'.assigns)
      BY <1>7, <1>9, <1>11, <2>3, <2>4, <3>2
    <3>6. ConfReading'
      BY <1>5, <2>3, <3>2, <3>3, <3>4, <3>5 DEF ConfReading
    <3> QED BY <2>2, <3>6 DEF ConfInv
  <2>6. CASE l.key \notin Plain
    <3>1. conf' = conf /\ \A n \in Plain \ Keywords : ~pair(n)
      BY <2>2, <2>6
    <3>2. Parsable(text', conf'.rules) /\ TargetsRead(text', conf'.targets)
      BY <1>7, <1>8, <2>3, <3>1
    <3>3. /\ TtlRead(text', conf'.ttl) /\ TagsRead(text', conf'.tags)
          /\ AssignsRead(conf'.assigns)
      BY <1>9, <1>10, <1>11, <2>4, <3>1
    <3>4. ConfReading'
      BY <1>5, <2>3, <3>1, <3>2, <3>3 DEF ConfReading
    <3> QED BY <2>2, <3>4 DEF ConfInv
  <2> QED BY <2>5, <2>6
<1>17. CASE ReadRule(l)
  <2>1. l.kind \in {"rule", "broken"} /\ UNCHANGED <<section, parse>>
    BY <1>17 DEF ReadRule, Keep
  <2>2. section' = SectionAt(text', Len(text'), "section") /\ \A key : ~pair(key)
    BY <1>4, <2>1
  <2>3. CASE conf' = conf /\ Written(text') = Written(text)
    BY <1>12, <2>1, <2>2, <2>3
  <2>4. CASE /\ l.kind = "rule" /\ ~l.eq /\ section # "ASSIGNMENTS" /\ Acceptable(l.fields)
             /\ conf' = [conf EXCEPT !.rules = Append(conf.rules, Parsed(l.fields))]
    <3>1. /\ shaped(conf') /\ conf'.ttl = conf.ttl /\ conf'.targets = conf.targets
          /\ conf'.assigns = conf.assigns /\ conf'.tags = conf.tags
          /\ conf'.rules = Append(conf.rules, Parsed(l.fields))
      BY <2>4 DEF ConfReading
    <3>2. Written(text') = Written(text) \cup {l.fields}
      BY <1>2, <2>4
    <3>3. Parsable(text', conf'.rules)
      <4> DEFINE R == {Parsed(f) : f \in Written(text)}
      <4> DEFINE new == {Parsed(f) : f \in Written(text')}
      <4>1. new = R \cup {Parsed(l.fields)}
        BY <3>2
      <4>2. conf.rules \in Seq(R) /\ Range(conf.rules) = R
        BY DEF ConfReading, Parsable
      <4> HIDE DEF R, new
      <4>3. conf'.rules \in Seq(new) /\ Range(conf'.rules) = new
        <5>1. /\ DOMAIN conf.rules = 1..Len(conf.rules)
              /\ DOMAIN conf'.rules = 1..Len(conf.rules) \cup {Len(conf.rules) + 1}
              /\ \A i \in 1..Len(conf.rules) : conf'.rules[i] = conf.rules[i]
              /\ conf'.rules[Len(conf.rules) + 1] = Parsed(l.fields)
          BY <3>1, <4>2
        <5>2. Range(conf'.rules) = Range(conf.rules) \cup {Parsed(l.fields)}
          BY <5>1 DEF Range
        <5>3. conf.rules \in Seq(new)
          BY <4>1, <4>2
        <5> QED BY <3>1, <4>1, <4>2, <5>2, <5>3
      <4>4. \A f \in Written(text') : Acceptable(f)
        BY <2>4, <3>2 DEF ConfReading, Parsable
      <4> QED BY <4>3, <4>4 DEF Parsable, new
    <3>4. TargetsRead(text', conf'.targets) /\ TtlRead(text', conf'.ttl)
      BY <1>8, <1>9, <2>2, <3>1
    <3>5. TagsRead(text', conf'.tags) /\ AssignsRead(conf'.assigns)
      BY <1>10, <1>11, <3>1
    <3>6. ConfReading'
      BY <1>5, <2>2, <3>1, <3>3, <3>4, <3>5 DEF ConfReading
    <3> QED BY <2>1, <3>6 DEF ConfInv
  <2> QED BY <1>2, <1>17, <2>3, <2>4 DEF ReadRule, Keep
<1> QED BY <1>13, <1>14, <1>15, <1>16, <1>17

LEMMA RuleResolved ==
  ASSUME NEW x, NEW y, NEW z
  PROVE  Resolved([source |-> x, target |-> y, port |-> z]) =
           [source |-> IF x = "" THEN "" ELSE Get(conf.targets, x, x),
            target |-> Get(conf.targets, y, y), port |-> z]
<1> DEFINE g(n) == Get(conf.targets, n, n)
<1> DEFINE r == [source |-> x, target |-> y, port |-> z]
<1> HIDE DEF g
<1>1. \A u, v : [r EXCEPT !.target = u, !.source = v] =
                   [source |-> v, target |-> u, port |-> z]
  <2> TAKE u, v
  <2>1. [r EXCEPT !.target = u] = [source |-> x, target |-> u, port |-> z]
    OBVIOUS
  <2>2. [[source |-> x, target |-> u, port |-> z] EXCEPT !.source = v] =
          [source |-> v, target |-> u, port |-> z]
    OBVIOUS
  <2> QED BY <2>1, <2>2
<1>2. Resolved(r) = [r EXCEPT !.target = g(r.target),
                              !.source = IF r.source = "" THEN "" ELSE g(r.source)]
  BY DEF Resolved, g
<1> QED BY <1>1, <1>2 DEF g

(* The second pass puts addresses for the names: the ones the file defines *)
(* them to have, wherever it does.                                         *)
LEMMA NamesResolved ==
  ASSUME ConfReading, parse = "reading", EndOfFile
  PROVE  ConfInv'
<1>1. /\ conf' = [conf EXCEPT !.rules = [i \in DOMAIN conf.rules |-> Resolved(conf.rules[i])]]
      /\ parse' = IF conf.psk = "" THEN "error" ELSE "parsed"
      /\ UNCHANGED <<text, section>>
  BY DEF EndOfFile
<1>2. /\ conf'.rules = [i \in DOMAIN conf.rules |-> Resolved(conf.rules[i])]
      /\ conf'.psk = conf.psk /\ conf'.ttl = conf.ttl /\ conf'.targets = conf.targets
      /\ conf'.assigns = conf.assigns /\ conf'.tags = conf.tags
  BY <1>1 DEF ConfReading
<1>3. \A n \in Plain : Get(conf.targets, n, n) = AddressOf(text, n)
  <2> TAKE n \in Plain
  <2>1. CASE n \in Keywords
    BY <2>1 DEF ConfReading, TargetsRead, Get, AddressOf
  <2>2. CASE n \notin Keywords
    BY <2>2 DEF ConfReading, TargetsRead, AddressOf
  <2> QED BY <2>1, <2>2
<1>4. \A n : Get(conf.targets, n, n) = AddressOf(text, n)
  <2> TAKE n
  <2>1. CASE n \in Plain
    BY <1>3, <2>1
  <2>2. CASE n \notin Plain
    BY <2>2 DEF ConfReading, TargetsRead, Get, AddressOf
  <2> QED BY <2>1, <2>2
<1>5. \A f \in Written(text) : Acceptable(f) /\ f[1] # ""
  <2>1. \A l \in ConfLines : l.kind = "rule" => l.fields[1] # ""
    <3>1. 1 \in 1..4
      OBVIOUS
    <3> QED BY <3>1, ConfigFileAssumption
  <2>2. \A i \in DOMAIN text : text[i] \in ConfLines
    BY DEF ConfReading
  <2>3. \A f \in Written(text) : f[1] # ""
    BY <2>1, <2>2 DEF Written
  <2> QED BY <2>3 DEF ConfReading, Parsable
<1>6. \A f \in Written(text) : Resolved(Parsed(f)) = Meant(text, f)
  <2> TAKE f \in Written(text)
  <2>1. CASE Extended(f)
    <3>1. Parsed(f) = [source |-> f[1], target |-> f[2], port |-> f[3]]
      BY <2>1 DEF Parsed
    <3>2. Resolved(Parsed(f)) = [source |-> Get(conf.targets, f[1], f[1]),
                                 target |-> Get(conf.targets, f[2], f[2]), port |-> f[3]]
      BY <1>5, <3>1, RuleResolved
    <3> QED BY <1>4, <2>1, <3>2 DEF Meant
  <2>2. CASE ~Extended(f)
    <3>1. Parsed(f) = [source |-> "", target |-> f[1], port |-> f[2]]
      BY <2>2 DEF Parsed
    <3>2. Resolved(Parsed(f)) = [source |-> "", target |-> Get(conf.targets, f[1], f[1]),
                                 port |-> f[2]]
      BY <3>1, RuleResolved
    <3> QED BY <1>4, <2>2, <3>2 DEF Meant
  <2> QED BY <2>1, <2>2
<1>7. Range(conf'.rules) = {Meant(text, f) : f \in Written(text)}
  <2>1. Range(conf.rules) = {Parsed(f) : f \in Written(text)}
    BY DEF ConfReading, Parsable
  <2>2. Range(conf'.rules) = {Resolved(r) : r \in Range(conf.rules)}
    BY <1>2 DEF Range
  <2> QED BY <1>6, <2>1, <2>2
<1>8. CASE conf.psk = ""
  <2>1. \A f \in Written(text) : Meant(text, f).port \in Ports
    <3> TAKE f \in Written(text)
    <3> QED BY <1>5 DEF Acceptable, Meant, Extended
  <2>2. \A r \in Range(conf'.rules) : r.port \in Ports
    BY <1>7, <2>1
  <2>3. ConfRefused'
    BY <1>1, <1>2, <2>2 DEF ConfReading, ConfRefused, TargetsRead, TtlRead, TagsRead
  <2> QED BY <1>1, <1>8, <2>3 DEF ConfInv
<1>9. CASE conf.psk # ""
  <2>1. ConfigAsWritten(text, conf')
    BY <1>2, <1>3, <1>5, <1>7, <1>9
       DEF ConfReading, ConfigAsWritten, TargetsRead, TtlRead, TagsRead, AssignsRead
  <2> QED BY <1>1, <1>9, <2>1 DEF ConfInv
<1> QED BY <1>8, <1>9

LEMMA ConfigStart == ConfInit => ConfInv
<1> SUFFICES ASSUME ConfInit PROVE ConfInv
  OBVIOUS
<1>1. text = <<>> /\ section = "" /\ conf = NewConfig /\ parse = "reading"
  BY DEF ConfInit
<1>2. /\ conf.rules = <<>> /\ conf.ttl = "0"
      /\ conf.targets = Empty /\ conf.tags = Empty /\ conf.assigns = Empty
  BY <1>1 DEF NewConfig
<1>3. DOMAIN Empty = {} /\ Range(Empty) = {}
  BY DEF Empty, Range
<1>4. Parsable(text, conf.rules)
  <2>1. Range(<<>>) = {}
    BY DEF Range
  <2>2. {Parsed(f) : f \in Written(text)} = {} /\ \A f \in Written(text) : Acceptable(f)
    BY <1>1, NothingWritten
  <2>3. <<>> \in Seq({})
    OBVIOUS
  <2> QED BY <1>2, <2>1, <2>2, <2>3 DEF Parsable
<1>5. TargetsRead(text, conf.targets)
  BY <1>1, <1>2, <1>3, NothingWritten DEF TargetsRead, Get
<1>6. TtlRead(text, conf.ttl)
  BY <1>1, <1>2, NothingWritten, ConfigFileAssumption DEF TtlRead
<1>7. TagsRead(text, conf.tags) /\ AssignsRead(conf.assigns)
  BY <1>2, <1>3, FS_EmptySet DEF TagsRead, AssignsRead
<1>8. text \in Seq(ConfLines) /\ section = SectionAt(text, Len(text), "section")
  <2>1. <<>> \in Seq(ConfLines) /\ Len(<<>>) = 0
    OBVIOUS
  <2>2. SectionAt(<<>>, 0, "section") = ""
    BY NothingWritten
  <2> QED BY <1>1, <2>1, <2>2
<1>9. conf = [psk |-> conf.psk, ttl |-> conf.ttl, dir |-> conf.dir, rules |-> conf.rules,
              targets |-> conf.targets, tags |-> conf.tags, assigns |-> conf.assigns]
  BY <1>1 DEF NewConfig
<1> QED BY <1>1, <1>4, <1>5, <1>6, <1>7, <1>8, <1>9 DEF ConfInv, ConfReading

LEMMA ConfigKept ==
  ASSUME ConfInv, ParseStep \/ UNCHANGED confvars
  PROVE  ConfInv'
<1>1. CASE ReadLine
  <2>1. PICK l \in ConfLines : /\ text' = Append(text, l)
                               /\ \/ ReadHeader(l) \/ ReadAssignment(l) \/ ReadSetting(l)
                                  \/ ReadTarget(l) \/ ReadRule(l)
    BY <1>1 DEF ReadLine
  <2>2. parse = "reading" /\ ConfReading
    BY <1>1 DEF ReadLine, ConfInv
  <2>3. CASE Refuse
    BY <2>1, <2>2, <2>3, LineRefused
  <2>4. CASE ~Refuse
    BY <2>1, <2>2, <2>4, LineKept
  <2> QED BY <2>3, <2>4
<1>2. CASE EndOfFile
  BY <1>2, NamesResolved DEF EndOfFile, ConfInv
<1>3. CASE UNCHANGED confvars
  BY <1>3 DEF confvars, ConfInv, ConfReading, ConfRefused
<1> QED BY <1>1, <1>2, <1>3 DEF ParseStep

-----------------------------------------------------------------------------
(***************************************************************************)
(* The direct rules of an agent, and its assignment.                       *)
(***************************************************************************)
Dials(ip, r, d) ==
  /\ r.source = "" \/ ip = r.source
  /\ d = Rule("connect", r.source, r.target, r.port)
Listens(ip, r, d) ==
  /\ r.source # "" /\ ip = r.target /\ ip # r.source
  /\ d = Rule("listen", "", "", r.port)

LEMMA DirectRulesOf ==
  ASSUME NEW ip, NEW d
  PROVE  d \in DirectRules(ip) <=>
           \E r \in Range(conf.rules) : Dials(ip, r, d) \/ Listens(ip, r, d)
<1> DEFINE of(r) ==
      CASE r.source = "" \/ ip = r.source -> {Rule("connect", r.source, r.target, r.port)}
        [] r.source # "" /\ ip = r.target /\ ip # r.source -> {Rule("listen", "", "", r.port)}
        [] OTHER -> {}
<1>1. DirectRules(ip) = UNION {of(r) : r \in Range(conf.rules)}
  BY DEF DirectRules
<1>2. ASSUME NEW r
      PROVE  d \in of(r) <=> Dials(ip, r, d) \/ Listens(ip, r, d)
  <2>1. CASE r.source = "" \/ ip = r.source
    BY <2>1 DEF Dials, Listens
  <2>2. CASE ~(r.source = "" \/ ip = r.source) /\ ip = r.target
    BY <2>2 DEF Dials, Listens
  <2>3. CASE ~(r.source = "" \/ ip = r.source) /\ ip # r.target
    BY <2>3 DEF Dials, Listens
  <2> QED BY <2>1, <2>2, <2>3
<1> HIDE DEF of
<1>3. d \in DirectRules(ip) <=> \E r \in Range(conf.rules) : d \in of(r)
  BY <1>1
<1> QED BY <1>2, <1>3

LEMMA ServedAtBothEnds == ConfInv => EndsServed
<1> SUFFICES ASSUME ConfInv, Ready, NEW f \in Written(text), HasSource(f)
             PROVE  LET a == AddressOf(text, f[1])  b == AddressOf(text, f[2]) IN
                    /\ a \in Agents =>
                         \A u \in Updates(a) : Rule("connect", a, b, f[3]) \in u.rules
                    /\ b \in Agents \ {a} /\ a # "" =>
                         \A u \in Updates(b) : Rule("listen", "", "", f[3]) \in u.rules
                    /\ \A ip \in Agents : \A u \in Updates(ip) :
                         u.ttl = Value(text, "TTL", "0")
  BY DEF EndsServed
<1> DEFINE a == AddressOf(text, f[1])
<1> DEFINE b == AddressOf(text, f[2])
<1>1. ConfigAsWritten(text, conf)
  BY DEF ConfInv, Ready
<1>2. Extended(f)
  <2>1. Acceptable(f) /\ f[2] \notin Numbers
    BY <1>1 DEF ConfigAsWritten, HasSource
  <2> QED BY <2>1, ConfigFileAssumption DEF Acceptable
<1>3. /\ Meant(text, f) \in Range(conf.rules)
      /\ Meant(text, f) = [source |-> a, target |-> b, port |-> f[3]]
  <2>1. Meant(text, f) = [source |-> a, target |-> b, port |-> f[3]]
    BY <1>2 DEF Meant
  <2> QED BY <1>1, <2>1 DEF ConfigAsWritten
<1> HIDE DEF a, b
<1>4. PICK r \in Range(conf.rules) : r.source = a /\ r.target = b /\ r.port = f[3]
  BY <1>3
<1>5. Rule("connect", a, b, f[3]) \in DirectRules(a)
  BY <1>4, DirectRulesOf DEF Dials
<1>6. b # a /\ a # "" => Rule("listen", "", "", f[3]) \in DirectRules(b)
  BY <1>4, DirectRulesOf DEF Listens
<1>7. \A ip : \A u \in Updates(ip) : u.ttl = conf.ttl /\ DirectRules(ip) \subseteq u.rules
  <2> TAKE ip
  <2> TAKE u \in Updates(ip)
  <2>1. PICK names \in LookupAssignments(ip) :
          u = [ttl |-> conf.ttl, rules |-> FromProfiles(names, ip) \cup DirectRules(ip)]
    BY DEF Updates
  <2> QED BY <2>1
<1>8. conf.ttl = Value(text, "TTL", "0")
  BY <1>1 DEF ConfigAsWritten
<1> QED BY <1>5, <1>6, <1>7, <1>8 DEF a, b

LEMMA NoneForeign == ConfInv => NoForeignRules
<1> SUFFICES ASSUME ConfInv, Ready, NEW ip \in Agents, NEW d \in DirectRules(ip)
             PROVE  \E f \in Written(text) :
                      LET a == AddressOf(text, f[1])  b == AddressOf(text, f[2]) IN
                      \/ d.role = "connect" /\ d.source = "" /\ (HasSource(f) => a = "")
                      \/ /\ d.role = "connect" /\ d.source = ip /\ a = ip
                         /\ b = d.target /\ f[3] = d.port
                      \/ d.role = "listen" /\ b = ip /\ a # ip /\ f[3] = d.port
  BY DEF NoForeignRules
<1>1. ConfigAsWritten(text, conf)
  BY DEF ConfInv, Ready
<1>2. PICK r \in Range(conf.rules) : Dials(ip, r, d) \/ Listens(ip, r, d)
  BY DirectRulesOf
<1>3. PICK f \in Written(text) : r = Meant(text, f)
  BY <1>1 DEF ConfigAsWritten
<1> DEFINE a == AddressOf(text, f[1])
<1> DEFINE b == AddressOf(text, f[2])
<1>4. CASE Extended(f)
  <2>1. r = [source |-> a, target |-> b, port |-> f[3]]
    BY <1>3, <1>4 DEF Meant
  <2> HIDE DEF a, b
  <2>2. \/ d.role = "connect" /\ d.source = "" /\ a = ""
        \/ d.role = "connect" /\ d.source = ip /\ a = ip /\ b = d.target /\ f[3] = d.port
        \/ d.role = "listen" /\ b = ip /\ a # ip /\ f[3] = d.port
    <3>1. r.source = a /\ r.target = b /\ r.port = f[3]
      BY <2>1
    <3>2. CASE Dials(ip, r, d)
      <4>1. d = Rule("connect", a, b, f[3]) /\ (a = "" \/ ip = a)
        BY <3>1, <3>2 DEF Dials
      <4>2. d.role = "connect" /\ d.source = a /\ d.target = b /\ d.port = f[3]
        BY <4>1 DEF Rule
      <4> QED BY <4>1, <4>2
    <3>3. CASE Listens(ip, r, d)
      <4>1. d = Rule("listen", "", "", f[3]) /\ ip = b /\ ip # a
        BY <3>1, <3>3 DEF Listens
      <4>2. d.role = "listen" /\ d.port = f[3]
        BY <4>1 DEF Rule
      <4> QED BY <4>1, <4>2
    <3> QED BY <1>2, <3>2, <3>3
  <2> QED BY <2>2 DEF a, b
<1>5. CASE ~Extended(f)
  <2>1. r.source = ""
    BY <1>3, <1>5 DEF Meant
  <2>2. ~HasSource(f)
    BY <1>1, <1>5, ConfigFileAssumption DEF ConfigAsWritten, Acceptable, HasSource
  <2>3. d.role = "connect" /\ d.source = ""
    <3>1. d = Rule("connect", "", r.target, r.port)
      BY <1>2, <2>1 DEF Dials, Listens
    <3> QED BY <3>1 DEF Rule
  <2> QED BY <2>2, <2>3
<1> QED BY <1>4, <1>5

LEMMA OneAssignment == ConfInv => LookupUnambiguous
<1> SUFFICES ASSUME ConfInv, Ready, NEW ip \in Agents,
                    \/ ip \in DOMAIN conf.assigns
                    \/ Cardinality(Aliases(ip) \cap DOMAIN conf.assigns) <= 1
             PROVE  Cardinality(LookupAssignments(ip)) = 1
  BY DEF LookupUnambiguous
<1> DEFINE found == DOMAIN conf.assigns \cap Aliases(ip)
<1>1. IsFiniteSet(DOMAIN conf.assigns)
  BY DEF ConfInv, Ready, ConfigAsWritten
<1>2. IsFiniteSet(found) /\ found = Aliases(ip) \cap DOMAIN conf.assigns
  BY <1>1, FS_Subset
<1>3. \E names : LookupAssignments(ip) = {names}
  <2>1. CASE ip \in DOMAIN conf.assigns
    BY <2>1 DEF LookupAssignments
  <2>2. CASE ip \notin DOMAIN conf.assigns /\ found = {}
    BY <2>2 DEF LookupAssignments
  <2>3. CASE ip \notin DOMAIN conf.assigns /\ found # {}
    <3>1. Cardinality(found) <= 1 /\ Cardinality(found) \in Nat /\ Cardinality(found) # 0
      BY <1>2, <2>3, FS_CardinalityType, FS_EmptySet
    <3>2. Cardinality(found) = 1
      BY <3>1
    <3>3. PICK n : found = {n}
      <4> HIDE DEF found
      <4> QED BY <1>2, <3>2, FS_Singleton
    <3>4. LookupAssignments(ip) = {conf.assigns[m] : m \in found}
      BY <2>3 DEF LookupAssignments
    <3>5. LookupAssignments(ip) = {conf.assigns[n]}
      <4> HIDE DEF found
      <4> QED BY <3>3, <3>4
    <3> QED BY <3>5
  <2> QED BY <2>1, <2>2, <2>3
<1> QED BY <1>3, FS_Singleton

-----------------------------------------------------------------------------
(***************************************************************************)
(* The profiles.                                                           *)
(***************************************************************************)
(* The Profile of a file, and the map of those of the first m files.  *)
AsRead(lines) == [name |-> MetaOf(lines, "NAME"), extends |-> MetaOf(lines, "EXTENDS"),
                  rules |-> RulesIn(lines)]

Held(fs, m, ps) ==
  /\ DOMAIN ps = {NameOf(fs, k) : k \in 1..m}
  /\ \A k \in 1..m : (\A j \in 1..m : NameOf(fs, j) = NameOf(fs, k) => j <= k) =>
       ps[NameOf(fs, k)].extends = ParentOf(fs, k) /\ ps[NameOf(fs, k)].rules = RulesIn(fs[k])

LoadReading ==
  /\ files \in Seq(Seq(ProfileLines))
  /\ profile = AsRead(Last(files))
  /\ heading = SectionAt(Last(files), Len(Last(files)), "header")
  /\ Held(files, Len(files) - 1, profiles)

LoadInv ==
  /\ loading \in {"reading", "loaded", "error"}
  /\ Len(files) \in 1..Len(FileNames)
  /\ loading = "reading" => LoadReading
  /\ loading = "loaded" => ProfilesRead(files, profiles)

LEMMA HeldAgree ==
  ASSUME NEW fs, NEW gs, NEW m, NEW ps, \A k \in 1..m : fs[k] = gs[k], Held(fs, m, ps)
  PROVE  Held(gs, m, ps)
<1>1. \A k \in 1..m : NameOf(gs, k) = NameOf(fs, k) /\ ParentOf(gs, k) = ParentOf(fs, k)
  BY DEF NameOf, ParentOf
<1> QED BY <1>1 DEF Held

LEMMA LineOfProfile ==
  ASSUME NEW lines \in Seq(ProfileLines), NEW l \in ProfileLines,
         profile = AsRead(lines), heading = SectionAt(lines, Len(lines), "header"),
         loading = "reading",
         ReadMeta(l) \/ ReadProfileRule(l) \/ ReadSection(l) \/ ReadRefused(l)
  PROVE  \/ loading' = "error"
         \/ /\ loading' = "reading" /\ profile' = AsRead(Append(lines, l))
            /\ heading' = SectionAt(Append(lines, l), Len(Append(lines, l)), "header")
<1> DEFINE u == Append(lines, l)
<1>1. \A key : MetaOf(u, key) = IF l.kind = "meta" /\ l.key = key /\ heading = "META"
                                THEN l.value ELSE MetaOf(lines, key)
  <2> TAKE key
  <2> QED BY MetaAdded
<1>2. RulesIn(u) = IF l.kind = "rule" /\ heading = "RULES"
                   THEN RulesIn(lines) \cup {l.rule} ELSE RulesIn(lines)
  BY RulesAdded
<1>3. SectionAt(u, Len(u), "header") = IF l.kind = "header" THEN l.name ELSE heading
  <2>1. Len(u) = Len(lines) + 1
    OBVIOUS
  <2> QED BY <2>1, SectionAdded
<1> HIDE DEF u
<1>4. CASE ReadMeta(l)
  <2>1. l.kind = "meta" /\ heading # "RULES" /\ UNCHANGED <<heading, loading>>
    BY <1>4 DEF ReadMeta
  <2>2. \A v : /\ [profile EXCEPT !.name = v] =
                    [name |-> v, extends |-> profile.extends, rules |-> profile.rules]
               /\ [profile EXCEPT !.extends = v] =
                    [name |-> profile.name, extends |-> v, rules |-> profile.rules]
    BY DEF AsRead
  <2>3. CASE heading = "META" /\ l.key = "NAME"
    BY <1>1, <1>2, <1>3, <1>4, <2>1, <2>2, <2>3 DEF ReadMeta, AsRead, u
  <2>4. CASE heading = "META" /\ l.key = "EXTENDS"
    BY <1>1, <1>2, <1>3, <1>4, <2>1, <2>2, <2>4 DEF ReadMeta, AsRead, u
  <2>5. CASE heading = "META" /\ l.key \notin {"NAME", "EXTENDS"}
    BY <1>1, <1>2, <1>3, <1>4, <2>1, <2>5 DEF ReadMeta, AsRead, u
  <2>6. CASE heading # "META"
    BY <1>1, <1>2, <1>3, <1>4, <2>1, <2>6 DEF ReadMeta, AsRead, u
  <2> QED BY <2>3, <2>4, <2>5, <2>6
<1>5. CASE ReadProfileRule(l)
  <2>1. l.kind = "rule" /\ UNCHANGED <<heading, loading>>
    BY <1>5 DEF ReadProfileRule
  <2>2. \A v : [profile EXCEPT !.rules = v] =
                 [name |-> profile.name, extends |-> profile.extends, rules |-> v]
    BY DEF AsRead
  <2>3. CASE heading = "RULES"
    <3>1. profile' = [profile EXCEPT !.rules = profile.rules \cup {l.rule}]
      BY <1>5, <2>3 DEF ReadProfileRule
    <3>2. profile' = [name |-> profile.name, extends |-> profile.extends,
                      rules |-> profile.rules \cup {l.rule}]
      BY <2>2, <3>1
    <3> QED BY <1>1, <1>2, <1>3, <2>1, <2>3, <3>2 DEF AsRead, u
  <2>4. CASE heading # "RULES"
    BY <1>1, <1>2, <1>3, <1>5, <2>1, <2>4 DEF ReadProfileRule, AsRead, u
  <2> QED BY <2>3, <2>4
<1>6. CASE ReadSection(l)
  BY <1>1, <1>2, <1>3, <1>6 DEF ReadSection, AsRead, u
<1>7. CASE ReadRefused(l)
  BY <1>1, <1>2, <1>3, <1>7 DEF ReadRefused, AsRead, u
<1> QED BY <1>4, <1>5, <1>6, <1>7

(* The end of a file adds its profile to the map of the files before. *)
LEMMA ProfileStored ==
  ASSUME LoadReading, Len(files) \in 1..Len(FileNames), profiles' = Stored
  PROVE  Held(files, Len(files), profiles')
<1> DEFINE m == Len(files)
<1> DEFINE name == NameOf(files, m)
<1>1. m \in Nat \ {0} /\ files[m] = Last(files)
  BY DEF LoadReading, Last
<1>2. /\ profile.name = MetaOf(files[m], "NAME")
      /\ profile.extends = ParentOf(files, m) /\ profile.rules = RulesIn(files[m])
  BY <1>1 DEF LoadReading, AsRead, ParentOf
<1>3. profiles' = [n \in DOMAIN profiles \cup {name} |-> IF n = name THEN profile ELSE profiles[n]]
  BY <1>2 DEF Stored, NameOf
<1>4. Held(files, m - 1, profiles)
  BY DEF LoadReading
<1> DEFINE of(k) == NameOf(files, k)
<1> HIDE DEF name, m
<1>5. 1..m = 1..(m - 1) \cup {m} /\ \A k \in 1..(m - 1) : k <= m
  BY <1>1
<1>6. DOMAIN profiles' = {NameOf(files, k) : k \in 1..m}
  <2>1. DOMAIN profiles' = {NameOf(files, k) : k \in 1..(m - 1)} \cup {name}
    BY <1>3, <1>4 DEF Held
  <2> QED BY <1>5, <2>1 DEF name
<1>7. ASSUME NEW k \in 1..m, \A j \in 1..m : NameOf(files, j) = NameOf(files, k) => j <= k
      PROVE  /\ profiles'[NameOf(files, k)].extends = ParentOf(files, k)
             /\ profiles'[NameOf(files, k)].rules = RulesIn(files[k])
  <2>1. CASE k = m
    BY <1>2, <1>3, <2>1 DEF name
  <2>2. CASE k # m
    <3>1. k \in 1..(m - 1) /\ ~(m <= k)
      BY <1>1, <2>2
    <3>2. NameOf(files, k) # name
      BY <1>5, <1>7, <3>1 DEF name
    <3>3. NameOf(files, k) \in DOMAIN profiles
      BY <1>4, <3>1 DEF Held
    <3>4. profiles'[NameOf(files, k)] = profiles[NameOf(files, k)]
      BY <1>3, <3>2, <3>3
    <3>5. \A j \in 1..(m - 1) : NameOf(files, j) = NameOf(files, k) => j <= k
      BY <1>5, <1>7
    <3> QED BY <1>4, <3>1, <3>4, <3>5 DEF Held
  <2> QED BY <2>1, <2>2
<1> QED BY <1>6, <1>7 DEF Held, m

LEMMA LoadStart == ProfilesInit => LoadInv
<1> SUFFICES ASSUME ProfilesInit PROVE LoadInv
  OBVIOUS
<1>1. /\ files = << <<>> >> /\ heading = "" /\ profile = NewProfile
      /\ DOMAIN profiles = {} /\ loading = "reading"
  BY DEF ProfilesInit
<1>2. files \in Seq(Seq(ProfileLines)) /\ Len(files) = 1 /\ Last(files) = <<>>
  <2>1. <<>> \in Seq(ProfileLines)
    OBVIOUS
  <2>2. \A x \in Seq(ProfileLines) : files = <<x>> =>
          files \in Seq(Seq(ProfileLines)) /\ Len(files) = 1 /\ files[1] = x
    BY OneElement
  <2>3. files \in Seq(Seq(ProfileLines)) /\ Len(files) = 1 /\ files[1] = <<>>
    BY <1>1, <2>1, <2>2
  <2> QED BY <2>3 DEF Last
<1>3. Len(FileNames) \in Nat \ {0}
  BY ProfileFileAssumption
<1>4. profile = AsRead(<<>>)
  BY <1>1, NothingWritten DEF NewProfile, AsRead
<1>5. heading = SectionAt(<<>>, Len(<<>>), "header")
  <2>1. Len(<<>>) = 0
    OBVIOUS
  <2> QED BY <1>1, <2>1, NothingWritten
<1>6. Held(files, 0, profiles)
  <2>1. 1..0 = {}
    OBVIOUS
  <2> QED BY <1>1, <2>1 DEF Held
<1>7. LoadReading
  <2>1. Len(files) - 1 = 0
    BY <1>2
  <2> QED BY <1>2, <1>4, <1>5, <1>6, <2>1 DEF LoadReading
<1>8. Len(files) \in 1..Len(FileNames) /\ loading = "reading"
  <2>1. loading = "reading"
    BY DEF ProfilesInit
  <2>2. Len(files) = 1 /\ Len(FileNames) \in Nat \ {0}
    BY <1>2, <1>3
  <2>3. Len(files) \in 1..Len(FileNames)
    BY <2>2
  <2> QED BY <2>1, <2>3
<1> QED BY <1>7, <1>8 DEF LoadInv

LEMMA LoadKept ==
  ASSUME LoadInv, LoadStep \/ UNCHANGED profilevars
  PROVE  LoadInv'
<1>1. CASE ReadProfileLine
  <2> DEFINE m == Len(files)
  <2>1. PICK l \in ProfileLines :
          /\ files' = [files EXCEPT ![m] = Append(files[m], l)]
          /\ ReadMeta(l) \/ ReadProfileRule(l) \/ ReadSection(l) \/ ReadRefused(l)
    BY <1>1 DEF ReadProfileLine
  <2>2. loading = "reading" /\ LoadReading /\ UNCHANGED profiles
    BY <1>1 DEF ReadProfileLine, LoadInv
  <2>3. m \in 1..Len(FileNames) /\ m \in 1..Len(files) /\ m \in Nat \ {0}
    BY <2>2 DEF LoadInv, LoadReading
  <2>4. files[m] \in Seq(ProfileLines) /\ Last(files) = files[m]
    BY <2>2, <2>3 DEF LoadReading, Last
  <2>5. /\ files' \in Seq(Seq(ProfileLines)) /\ Len(files') = m
        /\ files'[m] = Append(files[m], l)
        /\ \A k \in 1..(m - 1) : files'[k] = files[k]
    <3>1. Append(files[m], l) \in Seq(ProfileLines)
      BY <2>4
    <3> QED BY <2>1, <2>2, <2>3, <3>1 DEF LoadReading
  <2>6. Last(files') = Append(files[m], l)
    BY <2>5 DEF Last
  <2>7. Held(files', m - 1, profiles)
    BY <2>2, <2>5, HeldAgree DEF LoadReading
  <2>8. \/ loading' = "error"
        \/ /\ loading' = "reading" /\ profile' = AsRead(Append(files[m], l))
           /\ heading' = SectionAt(Append(files[m], l), Len(Append(files[m], l)), "header")
    BY <2>1, <2>2, <2>4, LineOfProfile DEF LoadReading
  <2> HIDE DEF m
  <2>9. loading' = "reading" => LoadReading'
    BY <2>2, <2>5, <2>6, <2>7, <2>8 DEF LoadReading
  <2> QED BY <2>3, <2>5, <2>8, <2>9 DEF LoadInv
<1>2. CASE EndOfProfile
  <2>1. loading = "reading" /\ LoadReading /\ profiles' = Stored
    BY <1>2 DEF EndOfProfile, LoadInv
  <2>2. Held(files, Len(files), profiles') /\ Len(files) \in 1..Len(FileNames)
    BY <2>1, ProfileStored DEF LoadInv
  <2>3. files \in Seq(Seq(ProfileLines)) /\ DOMAIN files = 1..Len(files)
    BY <2>1 DEF LoadReading
  <2>4. CASE Len(files) = Len(FileNames)
    <3>1. loading' = "loaded" /\ files' = files
      BY <1>2, <2>4 DEF EndOfProfile
    <3>2. ProfilesRead(files, profiles')
      BY <2>2, <2>3 DEF ProfilesRead, Held, Newest
    <3> QED BY <2>2, <3>1, <3>2 DEF LoadInv
  <2>5. CASE Len(files) # Len(FileNames)
    <3>1. /\ files' = Append(files, <<>>) /\ heading' = "" /\ profile' = NewProfile
          /\ loading' = "reading"
      BY <1>2, <2>1, <2>5 DEF EndOfProfile
    <3>2. <<>> \in Seq(ProfileLines)
      OBVIOUS
    <3>3. /\ files' \in Seq(Seq(ProfileLines)) /\ Len(files') = Len(files) + 1
          /\ files'[Len(files) + 1] = <<>>
          /\ \A k \in 1..Len(files) : files'[k] = files[k]
      <4> DEFINE none == <<>>
      <4>1. none \in Seq(ProfileLines) /\ files' = Append(files, none)
        BY <3>1, <3>2
      <4> HIDE DEF none
      <4>2. /\ files' \in Seq(Seq(ProfileLines)) /\ Len(files') = Len(files) + 1
            /\ files'[Len(files) + 1] = none
            /\ \A k \in 1..Len(files) : files'[k] = files[k]
        BY <2>3, <4>1, ElementAdded
      <4> QED BY <4>2 DEF none
    <3>4. Len(files') \in 1..Len(FileNames) /\ Len(files') - 1 = Len(files)
      <4>1. Len(FileNames) \in Nat
        BY ProfileFileAssumption
      <4> QED BY <2>2, <2>5, <3>3, <4>1
    <3>5. Last(files') = <<>>
      BY <3>3 DEF Last
    <3>6. Held(files', Len(files') - 1, profiles')
      BY <2>2, <3>3, <3>4, HeldAgree
    <3>7. profile' = AsRead(<<>>) /\ heading' = SectionAt(<<>>, Len(<<>>), "header")
      <4>1. Len(<<>>) = 0
        OBVIOUS
      <4> QED BY <3>1, <4>1, NothingWritten DEF NewProfile, AsRead
    <3> QED BY <3>1, <3>3, <3>4, <3>5, <3>6, <3>7 DEF LoadInv, LoadReading
  <2> QED BY <2>4, <2>5
<1>3. CASE UNCHANGED profilevars
  BY <1>3 DEF profilevars, LoadInv, LoadReading
<1> QED BY <1>1, <1>2, <1>3 DEF LoadStep

-----------------------------------------------------------------------------
(***************************************************************************)
(* Lines of descent, of any length and for a set of names to stay clear of.*)
(***************************************************************************)
HasParent(fs, k) == ParentOf(fs, k) # ""

IsLineage(fs, s, name) ==
  /\ s \in Seq(DOMAIN fs) /\ s # <<>>
  /\ Newest(fs, s[1], name)
  /\ \A i \in 2..Len(s) : HasParent(fs, s[i - 1]) /\ Newest(fs, s[i], ParentOf(fs, s[i - 1]))
  /\ ~HasParent(fs, s[Len(s)])

Descents(fs, name, seen) ==
  {s \in Seq(DOMAIN fs) : /\ IsLineage(fs, s, name)
                          /\ \A i \in 1..Len(s) : NameOf(fs, s[i]) \notin seen}

RulesOf(fs, lines) == UNION {RulesIn(fs[k]) : k \in UNION {Range(s) : s \in lines}}

LEMMA NewestUnique ==
  ASSUME NEW fs \in Seq(Seq(ProfileLines)), NEW j, NEW k, NEW name,
         Newest(fs, j, name), Newest(fs, k, name)
  PROVE  j = k
<1>1. j \in 1..Len(fs) /\ k \in 1..Len(fs) /\ j <= k /\ k <= j
  BY DEF Newest
<1> QED BY <1>1

LEMMA NewestExists ==
  ASSUME NEW fs \in Seq(Seq(ProfileLines)), NEW i \in DOMAIN fs
  PROVE  \E k \in DOMAIN fs : Newest(fs, k, NameOf(fs, i))
<1> DEFINE S == {k \in 1..Len(fs) : NameOf(fs, k) = NameOf(fs, i)}
<1>1. DOMAIN fs = 1..Len(fs) /\ Len(fs) \in Nat
  OBVIOUS
<1>2. S \in SUBSET (1..Len(fs)) /\ i \in S
  BY <1>1
<1>3. \A k \in 1..Len(fs) : NameOf(fs, k) = NameOf(fs, i) => k \in S
  OBVIOUS
<1>4. \A k \in S : k \in 1..Len(fs) /\ NameOf(fs, k) = NameOf(fs, i)
  OBVIOUS
<1> HIDE DEF S
<1>5. Max(S) \in S /\ \A y \in S : y <= Max(S)
  BY <1>1, <1>2, Largest
<1> QED BY <1>1, <1>3, <1>4, <1>5 DEF Newest

LEMMA MetaString ==
  ASSUME NEW lines \in Seq(ProfileLines), NEW key
  PROVE  MetaOf(lines, key) # "" => MetaOf(lines, key) \in STRING
<1> DEFINE is == {i \in DOMAIN lines : /\ lines[i].kind = "meta" /\ lines[i].key = key
                                       /\ SectionAt(lines, i, "header") = "META"}
<1>1. MetaOf(lines, key) = LastOf(lines, is, "")
  BY DEF MetaOf
<1>2. \A i \in is : lines[i].value \in STRING
  <2> TAKE i \in is
  <2>1. lines[i] \in ProfileLines /\ lines[i].kind = "meta"
    OBVIOUS
  <2> HIDE DEF is
  <2> QED BY <2>1, ProfileFileAssumption
<1>3. is \in SUBSET (1..Len(lines)) /\ Len(lines) \in Nat
  <2>1. DOMAIN lines = 1..Len(lines) /\ Len(lines) \in Nat
    OBVIOUS
  <2> QED BY <2>1
<1> HIDE DEF is
<1>4. is # {} => Max(is) \in is
  BY <1>3, Largest
<1>5. CASE is = {}
  BY <1>1, <1>5 DEF LastOf
<1>6. CASE is # {}
  BY <1>1, <1>2, <1>4, <1>6 DEF LastOf
<1> QED BY <1>5, <1>6

(* No file comes twice in a line of descent: what follows it would come twice *)
(* as well, and the line would not end.                                       *)
LEMMA NoFileTwice ==
  ASSUME NEW fs \in Seq(Seq(ProfileLines)), NEW s, NEW name, IsLineage(fs, s, name),
         NEW i \in 1..Len(s), NEW j \in 1..Len(s), i < j
  PROVE  s[i] # s[j]
<1> SUFFICES ASSUME s[i] = s[j] PROVE FALSE
  OBVIOUS
<1> DEFINE n == Len(s)
<1>1. s \in Seq(DOMAIN fs) /\ n \in Nat
  <2>1. s \in Seq(DOMAIN fs)
    BY DEF IsLineage
  <2> QED BY <2>1
<1> HIDE DEF n
<1>2. i \in 1..n /\ j \in 1..n
  BY DEF n
<1>3. \A d \in 0..(n - j) : s[i + d] = s[j + d]
  <2> DEFINE apart == {d \in 0..(n - j) : s[i + d] # s[j + d]}
  <2> SUFFICES ASSUME apart # {} PROVE FALSE
    OBVIOUS
  <2>1. apart \in SUBSET Nat
    BY <1>1, <1>2
  <2> HIDE DEF apart
  <2>2. PICK d \in apart : \A e \in apart : d <= e
    BY <2>1, Smallest
  <2>3. d \in 0..(n - j) /\ s[i + d] # s[j + d]
    BY DEF apart
  <2>4. d # 0
    BY <1>2, <2>3
  <2>5. d - 1 \in 0..(n - j) /\ d - 1 \notin apart
    BY <1>1, <1>2, <2>1, <2>2, <2>3, <2>4
  <2>6. s[i + (d - 1)] = s[j + (d - 1)]
    BY <2>5 DEF apart
  <2>7. i + d \in 2..n /\ j + d \in 2..n
    BY <1>1, <1>2, <2>3, <2>4
  <2>8. /\ Newest(fs, s[i + d], ParentOf(fs, s[(i + d) - 1]))
        /\ Newest(fs, s[j + d], ParentOf(fs, s[(j + d) - 1]))
    BY <2>7 DEF IsLineage, n
  <2>9. (i + d) - 1 = i + (d - 1) /\ (j + d) - 1 = j + (d - 1)
    BY <1>2, <2>3
  <2>10. Newest(fs, s[j + d], ParentOf(fs, s[(i + d) - 1]))
    BY <2>6, <2>8, <2>9
  <2> QED BY <2>3, <2>8, <2>10, NewestUnique
<1>4. n - j \in 0..(n - j) /\ j + (n - j) = n
  BY <1>1, <1>2
<1>5. s[i + (n - j)] = s[n]
  BY <1>3, <1>4
<1>6. (i + (n - j)) + 1 \in 2..n /\ ((i + (n - j)) + 1) - 1 = i + (n - j)
  BY <1>1, <1>2
<1>7. HasParent(fs, s[((i + (n - j)) + 1) - 1])
  BY <1>6 DEF IsLineage, n
<1>8. ~HasParent(fs, s[n])
  BY DEF IsLineage, n
<1> QED BY <1>5, <1>6, <1>7, <1>8

(* So it is no longer than there are files, and the bound in Lineages *)
(* leaves none out.                                                   *)
LEMMA LineagesBounded ==
  ASSUME NEW fs \in Seq(Seq(ProfileLines)), NEW name
  PROVE  Lineages(fs, name) = Descents(fs, name, {})
<1>1. Len(fs) \in Nat /\ DOMAIN fs = 1..Len(fs)
  OBVIOUS
<1>2. ASSUME NEW s \in Descents(fs, name, {})
      PROVE  s \in Lineages(fs, name)
  <2>1. s \in Seq(DOMAIN fs) /\ IsLineage(fs, s, name)
    BY DEF Descents
  <2>2. Len(s) \in Nat /\ s \in [1..Len(s) -> DOMAIN fs] /\ s # <<>>
    <3>1. s # <<>>
      BY <2>1 DEF IsLineage
    <3>2. Len(s) \in Nat /\ s \in [1..Len(s) -> DOMAIN fs]
      BY <2>1
    <3> QED BY <3>1, <3>2
  <2>3. \A i, j \in 1..Len(s) : i # j => s[i] # s[j]
    <3> SUFFICES ASSUME NEW i \in 1..Len(s), NEW j \in 1..Len(s), i # j
                 PROVE  s[i] # s[j]
      OBVIOUS
    <3>1. i < j \/ j < i
      BY <2>2
    <3> QED BY <2>1, <3>1, NoFileTwice
  <2>4. s \in Injection(1..Len(s), DOMAIN fs)
    BY <2>2, <2>3 DEF Injection, IsInjective
  <2>5. IsFiniteSet(DOMAIN fs) /\ Cardinality(DOMAIN fs) = Len(fs)
    BY <1>1, FS_Interval
  <2>6. Cardinality(1..Len(s)) <= Len(fs)
    BY <2>4, <2>5, FS_Injection
  <2>7. Cardinality(1..Len(s)) = Len(s)
    BY <2>2, FS_Interval
  <2>8. Len(s) \in 1..Len(fs)
    BY <1>1, <2>1, <2>2, <2>6, <2>7
  <2>9. s \in UNION {[1..n -> DOMAIN fs] : n \in 1..Len(fs)}
    BY <2>2, <2>8
  <2> QED BY <2>1, <2>9 DEF Lineages, IsLineage, HasParent
<1>3. ASSUME NEW s \in Lineages(fs, name)
      PROVE  s \in Descents(fs, name, {})
  <2>1. PICK n \in 1..Len(fs) : s \in [1..n -> DOMAIN fs]
    BY DEF Lineages
  <2>2. n \in Nat \ {0}
    BY <1>1, <2>1
  <2>3. s \in Seq(DOMAIN fs) /\ Len(s) = n
    BY <2>1, <2>2
  <2>4. s # <<>>
    BY <2>2, <2>3
  <2> QED BY <2>3, <2>4 DEF Lineages, Descents, IsLineage, HasParent
<1> QED BY <1>2, <1>3

(* One step: a line of descent is a file and a line of its parent. *)
Follows(s, t, k) ==
  /\ Len(s) = Len(t) + 1 /\ s[1] = k
  /\ \A i \in 1..Len(t) : s[i + 1] = t[i]

LEMMA LineageParts ==
  ASSUME NEW fs, NEW s, NEW name, IsLineage(fs, s, name)
  PROVE  /\ s \in Seq(DOMAIN fs) /\ Len(s) \in Nat \ {0}
         /\ \A i \in 1..Len(s) : Newest(fs, s[i], NameOf(fs, s[i]))
<1>1. s \in Seq(DOMAIN fs) /\ s # <<>>
  BY DEF IsLineage
<1>2. Len(s) \in Nat \ {0}
  BY <1>1
<1>3. Newest(fs, s[1], NameOf(fs, s[1]))
  BY DEF IsLineage, Newest
<1>4. \A i \in 2..Len(s) : Newest(fs, s[i], NameOf(fs, s[i]))
  BY DEF IsLineage, Newest
<1>5. \A i \in 1..Len(s) : i = 1 \/ i \in 2..Len(s)
  BY <1>2
<1> QED BY <1>1, <1>2, <1>3, <1>4, <1>5

LEMMA DescentShortened ==
  ASSUME NEW fs \in Seq(Seq(ProfileLines)), NEW n, NEW seen, NEW k,
         Newest(fs, k, n), HasParent(fs, k), NEW s \in Descents(fs, n, seen)
  PROVE  \E t \in Descents(fs, ParentOf(fs, k), seen \cup {n}) : Follows(s, t, k)
<1> DEFINE m == Len(s)
<1>1. IsLineage(fs, s, n) /\ \A i \in 1..m : NameOf(fs, s[i]) \notin seen
  BY DEF Descents
<1>2. /\ s \in Seq(DOMAIN fs) /\ m \in Nat \ {0}
      /\ \A i \in 1..m : Newest(fs, s[i], NameOf(fs, s[i]))
  BY <1>1, LineageParts
<1>3. s[1] = k /\ ~HasParent(fs, s[m])
  BY <1>1, NewestUnique DEF IsLineage
<1>4. m # 1
  BY <1>3
<1> DEFINE t == [i \in 1..(m - 1) |-> s[i + 1]]
<1>5. \A i \in 1..(m - 1) : i + 1 \in 1..m /\ s[i + 1] \in DOMAIN fs
  BY <1>2
<1>6. t \in Seq(DOMAIN fs) /\ Len(t) = m - 1 /\ \A i \in 1..(m - 1) : t[i] = s[i + 1]
  <2>1. m - 1 \in Nat
    BY <1>2
  <2> HIDE DEF m
  <2> QED BY <1>5, <2>1
<1> HIDE DEF t
<1>7. \A i \in 2..m : HasParent(fs, s[i - 1]) /\ Newest(fs, s[i], ParentOf(fs, s[i - 1]))
  BY <1>1 DEF IsLineage
<1> HIDE DEF m
<1>8. IsLineage(fs, t, ParentOf(fs, k))
  <2>1. t # <<>>
    BY <1>2, <1>4, <1>6
  <2>2. Newest(fs, t[1], ParentOf(fs, k))
    <3>1. 2 \in 2..m /\ 1 \in 1..(m - 1) /\ 1 + 1 = 2 /\ 2 - 1 = 1
      BY <1>2, <1>4
    <3> QED BY <1>3, <1>6, <1>7, <3>1
  <2>3. ASSUME NEW i \in 2..(m - 1)
        PROVE  HasParent(fs, t[i - 1]) /\ Newest(fs, t[i], ParentOf(fs, t[i - 1]))
    <3>1. /\ i \in 1..(m - 1) /\ i - 1 \in 1..(m - 1) /\ (i - 1) + 1 = i
          /\ i + 1 \in 2..m /\ (i + 1) - 1 = i
      BY <1>2
    <3>2. t[i] = s[i + 1] /\ t[i - 1] = s[i]
      BY <1>6, <3>1
    <3> QED BY <1>7, <3>1, <3>2
  <2>4. ~HasParent(fs, t[m - 1])
    <3>1. m - 1 \in 1..(m - 1) /\ (m - 1) + 1 = m
      BY <1>2, <1>4
    <3> QED BY <1>3, <1>6, <3>1
  <2> QED BY <1>6, <2>1, <2>2, <2>3, <2>4 DEF IsLineage
<1>9. \A i \in 1..(m - 1) : NameOf(fs, t[i]) \notin seen \cup {n}
  <2> TAKE i \in 1..(m - 1)
  <2>1. i + 1 \in 1..m /\ 1 \in 1..m /\ 1 < i + 1 /\ t[i] = s[i + 1]
    BY <1>2, <1>6
  <2>2. s[1] # s[i + 1]
    BY <1>1, <2>1, NoFileTwice DEF m
  <2>3. Newest(fs, s[i + 1], NameOf(fs, s[i + 1]))
    BY <1>2, <2>1
  <2>4. NameOf(fs, s[i + 1]) # n
    BY <1>3, <2>2, <2>3, NewestUnique
  <2> QED BY <1>1, <2>1, <2>4 DEF m
<1>10. t \in Descents(fs, ParentOf(fs, k), seen \cup {n})
  BY <1>6, <1>8, <1>9 DEF Descents
<1>11. Follows(s, t, k)
  <2>1. Len(s) = Len(t) + 1
    BY <1>2, <1>6 DEF m
  <2> QED BY <1>3, <1>6, <2>1 DEF Follows
<1> QED BY <1>10, <1>11

LEMMA DescentExtended ==
  ASSUME NEW fs \in Seq(Seq(ProfileLines)), NEW n, NEW seen, NEW k, n \notin seen,
         Newest(fs, k, n), HasParent(fs, k),
         NEW t \in Descents(fs, ParentOf(fs, k), seen \cup {n})
  PROVE  \E s \in Descents(fs, n, seen) : Follows(s, t, k)
<1> DEFINE m == Len(t)
<1>1. IsLineage(fs, t, ParentOf(fs, k)) /\ \A i \in 1..m : NameOf(fs, t[i]) \notin seen \cup {n}
  BY DEF Descents
<1>2. t \in Seq(DOMAIN fs) /\ m \in Nat \ {0}
  BY <1>1, LineageParts
<1>3. k \in DOMAIN fs /\ NameOf(fs, k) = n
  BY DEF Newest
<1> DEFINE s == [i \in 1..(m + 1) |-> IF i = 1 THEN k ELSE t[i - 1]]
<1>4. \A i \in 1..m : t[i] \in DOMAIN fs
  BY <1>2
<1>5. /\ Newest(fs, t[1], ParentOf(fs, k)) /\ ~HasParent(fs, t[m])
      /\ \A i \in 2..m : HasParent(fs, t[i - 1]) /\ Newest(fs, t[i], ParentOf(fs, t[i - 1]))
  BY <1>1 DEF IsLineage
<1> HIDE DEF m
<1>6. /\ s \in Seq(DOMAIN fs) /\ Len(s) = m + 1 /\ s[1] = k
      /\ \A i \in 2..(m + 1) : s[i] = t[i - 1]
  <2>1. m + 1 \in Nat /\ \A i \in 1..(m + 1) : i = 1 \/ i - 1 \in 1..m
    BY <1>2
  <2>2. s \in [1..(m + 1) -> DOMAIN fs]
    BY <1>3, <1>4, <2>1
  <2>3. 1 \in 1..(m + 1) /\ \A i \in 2..(m + 1) : i \in 1..(m + 1) /\ i # 1
    BY <1>2
  <2>4. s[1] = k /\ \A i \in 2..(m + 1) : s[i] = t[i - 1]
    BY <2>3
  <2>5. s \in Seq(DOMAIN fs) /\ Len(s) = m + 1
    <3> DEFINE D == DOMAIN fs
    <3> HIDE DEF s, D
    <3> SUFFICES s \in Seq(D) /\ Len(s) = m + 1
      BY DEF D
    <3>1. s \in [1..(m + 1) -> D]
      BY <2>2 DEF D
    <3> QED BY <2>1, <3>1, FunctionIsSeq
  <2> QED BY <2>4, <2>5
<1> HIDE DEF s
<1>7. IsLineage(fs, s, n)
  <2>1. s # <<>>
    BY <1>2, <1>6
  <2>2. ASSUME NEW i \in 2..(m + 1)
        PROVE  HasParent(fs, s[i - 1]) /\ Newest(fs, s[i], ParentOf(fs, s[i - 1]))
    <3>1. CASE i = 2
      <4>1. s[i - 1] = k /\ s[i] = t[1]
        BY <1>6, <3>1
      <4> QED BY <1>5, <4>1
    <3>2. CASE i # 2
      <4>1. i - 1 \in 2..(m + 1) /\ i - 1 \in 2..m
        BY <1>2, <3>2
      <4>2. s[i - 1] = t[(i - 1) - 1] /\ s[i] = t[i - 1]
        BY <1>6, <4>1
      <4> QED BY <1>5, <4>1, <4>2
    <3> QED BY <3>1, <3>2
  <2>3. m + 1 \in 2..(m + 1) /\ (m + 1) - 1 = m
    BY <1>2
  <2>4. ~HasParent(fs, s[m + 1])
    BY <1>5, <1>6, <2>3
  <2> QED BY <1>6, <2>1, <2>2, <2>4 DEF IsLineage
<1>8. \A i \in 1..(m + 1) : NameOf(fs, s[i]) \notin seen
  <2> TAKE i \in 1..(m + 1)
  <2>1. CASE i = 1
    BY <1>3, <1>6, <2>1
  <2>2. CASE i # 1
    <3>1. i \in 2..(m + 1) /\ i - 1 \in 1..m
      BY <1>2, <2>2
    <3> QED BY <1>1, <1>6, <3>1 DEF m
  <2> QED BY <2>1, <2>2
<1>9. s \in Descents(fs, n, seen)
  BY <1>6, <1>7, <1>8 DEF Descents
<1>10. Follows(s, t, k)
  <2>1. ASSUME NEW i \in 1..m PROVE s[i + 1] = t[i]
    <3>1. i + 1 \in 2..(m + 1) /\ (i + 1) - 1 = i
      BY <1>2
    <3> QED BY <1>6, <3>1
  <2> QED BY <1>6, <2>1 DEF Follows, m
<1> QED BY <1>9, <1>10

(* What the lines of a profile amount to: nothing, its own rules, or those of *)
(* its parent and its own.                                                    *)
LEMMA RulesOfMember ==
  ASSUME NEW fs, NEW lines, \A s \in lines : s \in Seq(DOMAIN fs), NEW r
  PROVE  r \in RulesOf(fs, lines) <=>
           \E s \in lines : \E i \in 1..Len(s) : r \in RulesIn(fs[s[i]])
<1>1. \A s \in lines : Range(s) = {s[i] : i \in 1..Len(s)}
  BY DEF Range
<1> QED BY <1>1 DEF RulesOf

LEMMA DescentNone ==
  ASSUME NEW fs, NEW n, NEW seen, n \in seen \/ \A k \in DOMAIN fs : NameOf(fs, k) # n
  PROVE  Descents(fs, n, seen) = {}
<1> SUFFICES ASSUME NEW s \in Descents(fs, n, seen) PROVE FALSE
  OBVIOUS
<1>1. IsLineage(fs, s, n) /\ \A i \in 1..Len(s) : NameOf(fs, s[i]) \notin seen
  BY DEF Descents
<1>2. Newest(fs, s[1], n) /\ Len(s) \in Nat \ {0}
  BY <1>1, LineageParts DEF IsLineage
<1>3. 1 \in 1..Len(s) /\ s[1] \in DOMAIN fs /\ NameOf(fs, s[1]) = n
  BY <1>2 DEF Newest
<1> QED BY <1>1, <1>3

LEMMA DescentAlone ==
  ASSUME NEW fs \in Seq(Seq(ProfileLines)), NEW n, NEW seen, NEW k, n \notin seen,
         Newest(fs, k, n), ~HasParent(fs, k)
  PROVE  /\ Descents(fs, n, seen) # {}
         /\ RulesOf(fs, Descents(fs, n, seen)) = RulesIn(fs[k])
<1>1. k \in DOMAIN fs /\ NameOf(fs, k) = n
  BY DEF Newest
<1>2. <<k>> \in Descents(fs, n, seen)
  <2>1. <<k>> \in Seq(DOMAIN fs) /\ Len(<<k>>) = 1 /\ <<k>>[1] = k
    BY <1>1, OneElement
  <2>2. <<k>> # <<>>
    BY <2>1
  <2>3. 2..1 = {} /\ 1..1 = {1}
    OBVIOUS
  <2> QED BY <1>1, <2>1, <2>2, <2>3 DEF Descents, IsLineage
<1>3. \A s \in Descents(fs, n, seen) : s \in Seq(DOMAIN fs) /\ Len(s) = 1 /\ s[1] = k
  <2> TAKE s \in Descents(fs, n, seen)
  <2>1. IsLineage(fs, s, n)
    BY DEF Descents
  <2>2. s \in Seq(DOMAIN fs) /\ Len(s) \in Nat \ {0} /\ s[1] = k
    BY <2>1, LineageParts, NewestUnique DEF IsLineage
  <2>3. ASSUME Len(s) # 1 PROVE FALSE
    <3>1. 2 \in 2..Len(s) /\ 2 - 1 = 1
      <4>1. \A m \in Nat \ {0} : m # 1 => 2 \in 2..m /\ 2 - 1 = 1
        OBVIOUS
      <4>2. Len(s) \in Nat \ {0}
        BY <2>1, LineageParts
      <4> QED BY <2>3, <4>1, <4>2, Zenon
    <3>2. HasParent(fs, s[2 - 1])
      BY <2>1, <3>1 DEF IsLineage
    <3> QED BY <2>2, <3>1, <3>2
  <2> QED BY <2>2, <2>3
<1>4. \A r : r \in RulesOf(fs, Descents(fs, n, seen)) <=> r \in RulesIn(fs[k])
  <2> TAKE r
  <2>1. r \in RulesOf(fs, Descents(fs, n, seen)) <=>
          \E s \in Descents(fs, n, seen) : \E i \in 1..Len(s) : r \in RulesIn(fs[s[i]])
    BY <1>3, RulesOfMember
  <2>2. 1..1 = {1}
    OBVIOUS
  <2> QED BY <1>2, <1>3, <2>1, <2>2
<1> QED BY <1>2, <1>4

LEMMA DescentStep ==
  ASSUME NEW fs \in Seq(Seq(ProfileLines)), NEW n, NEW seen, NEW k, n \notin seen,
         Newest(fs, k, n), HasParent(fs, k)
  PROVE  /\ Descents(fs, n, seen) = {} <=>
               Descents(fs, ParentOf(fs, k), seen \cup {n}) = {}
         /\ Descents(fs, n, seen) # {} =>
               RulesOf(fs, Descents(fs, n, seen)) =
                 RulesOf(fs, Descents(fs, ParentOf(fs, k), seen \cup {n})) \cup RulesIn(fs[k])
<1> DEFINE S == Descents(fs, n, seen)
<1> DEFINE T == Descents(fs, ParentOf(fs, k), seen \cup {n})
<1>1. \A s \in S : \E t \in T : Follows(s, t, k)
  BY DescentShortened
<1>2. \A t \in T : \E s \in S : Follows(s, t, k)
  BY DescentExtended
<1>3. (\A s \in S : s \in Seq(DOMAIN fs)) /\ (\A t \in T : t \in Seq(DOMAIN fs))
  BY DEF Descents
<1> HIDE DEF S, T
<1>4. S = {} <=> T = {}
  BY <1>1, <1>2
<1>5. ASSUME NEW s \in S, NEW t \in T, Follows(s, t, k), NEW r
      PROVE  (\E i \in 1..Len(s) : r \in RulesIn(fs[s[i]])) <=>
               r \in RulesIn(fs[k]) \/ \E i \in 1..Len(t) : r \in RulesIn(fs[t[i]])
  <2>1. /\ Len(t) \in Nat /\ Len(s) = Len(t) + 1 /\ s[1] = k
        /\ \A i \in 1..Len(t) : s[i + 1] = t[i]
    BY <1>3, <1>5 DEF Follows
  <2>2. 1 \in 1..Len(s) /\ \A i \in 1..Len(t) : i + 1 \in 1..Len(s)
    BY <2>1
  <2>3. \A i \in 1..Len(s) : i = 1 \/ (i - 1 \in 1..Len(t) /\ (i - 1) + 1 = i)
    BY <2>1
  <2>4. ASSUME NEW i \in 1..Len(s)
        PROVE  s[i] = k \/ \E j \in 1..Len(t) : s[i] = t[j]
    BY <2>1, <2>3
  <2> QED BY <2>1, <2>2, <2>4
<1>6. ASSUME S # {}, NEW r
      PROVE  r \in RulesOf(fs, S) <=> r \in RulesOf(fs, T) \cup RulesIn(fs[k])
  <2>1. r \in RulesOf(fs, S) <=> \E s \in S : \E i \in 1..Len(s) : r \in RulesIn(fs[s[i]])
    BY <1>3, RulesOfMember
  <2>2. r \in RulesOf(fs, T) <=> \E t \in T : \E i \in 1..Len(t) : r \in RulesIn(fs[t[i]])
    BY <1>3, RulesOfMember
  <2> QED BY <1>1, <1>2, <1>5, <1>6, <2>1, <2>2
<1>7. S # {} => RulesOf(fs, S) = RulesOf(fs, T) \cup RulesIn(fs[k])
  BY <1>6
<1> QED BY <1>4, <1>7 DEF S, T

-----------------------------------------------------------------------------
(***************************************************************************)
(* FlattenProfile gives the rules of the lines of descent.                 *)
(***************************************************************************)
(* The body of FlattenProfile, for any function f in its place. *)
Calls == STRING \X SUBSET DOMAIN Profiles
Flatten(f, call) ==
  LET name == call[1]
      seen == call[2]
      p == Profiles[name]
      parent == IF p.extends = "" THEN {} ELSE f[<<p.extends, seen \cup {name}>>]
  IN IF name \in seen \/ name \notin DOMAIN Profiles \/ parent = {Fail}
       THEN {Fail} ELSE parent \cup p.rules

(* The rules of a name that stays clear of others, or {Fail}. *)
Closed(name, seen) ==
  IF Descents(files, name, seen) = {} THEN {Fail}
  ELSE RulesOf(files, Descents(files, name, seen))

(* The profiles are in use. *)
InUse == LoadInv /\ loading = "loaded" /\ conf.dir # ""

LEMMA InUseFacts ==
  ASSUME InUse
  PROVE  /\ Profiles = profiles /\ IsFiniteSet(DOMAIN Profiles) /\ DOMAIN Profiles # {}
         /\ files \in Seq(Seq(ProfileLines))
         /\ \A n : n \in DOMAIN Profiles <=> \E k \in DOMAIN files : Newest(files, k, n)
         /\ \A n, k : Newest(files, k, n) =>
              /\ Profiles[n].rules = RulesIn(files[k])
              /\ Profiles[n].extends = ParentOf(files, k)
         /\ \A k \in DOMAIN files : HasParent(files, k) => ParentOf(files, k) \in STRING
         /\ \A k \in DOMAIN files : Fail \notin RulesIn(files[k])
<1>1. Profiles = profiles
  BY DEF InUse, Profiles
<1>2. ProfilesRead(files, profiles)
  BY DEF InUse, LoadInv
<1>3. files \in Seq(Seq(ProfileLines)) /\ Len(files) \in 1..Len(FileNames)
      /\ DOMAIN profiles = {NameOf(files, k) : k \in DOMAIN files}
  BY <1>2 DEF ProfilesRead
<1>4. DOMAIN files = 1..Len(files) /\ 1 \in DOMAIN files
  BY <1>3
<1>5. IsFiniteSet(DOMAIN profiles)
  <2>1. IsFiniteSet(DOMAIN files)
    BY <1>3, <1>4, FS_Interval
  <2> DEFINE f == [k \in DOMAIN files |-> NameOf(files, k)]
  <2>2. f \in Surjection(DOMAIN files, DOMAIN profiles)
    BY <1>3 DEF Surjection
  <2> QED BY <2>1, <2>2, FS_Surjection
<1>6. \A n : n \in DOMAIN profiles <=> \E k \in DOMAIN files : Newest(files, k, n)
  <2>1. ASSUME NEW n \in DOMAIN profiles
        PROVE  \E k \in DOMAIN files : Newest(files, k, n)
    <3>1. PICK i \in DOMAIN files : n = NameOf(files, i)
      BY <1>3
    <3> QED BY <1>3, <3>1, NewestExists
  <2>2. \A n : \A k \in DOMAIN files : Newest(files, k, n) => n \in DOMAIN profiles
    BY <1>3 DEF Newest
  <2> QED BY <2>1, <2>2
<1>7. ASSUME NEW n, NEW k, Newest(files, k, n)
      PROVE  profiles[n].rules = RulesIn(files[k]) /\ profiles[n].extends = ParentOf(files, k)
  <2>1. k \in DOMAIN files /\ n \in DOMAIN profiles
    BY <1>6, <1>7 DEF Newest
  <2> QED BY <1>2, <1>7, <2>1 DEF ProfilesRead
<1>8. ASSUME NEW k \in DOMAIN files, HasParent(files, k)
      PROVE  ParentOf(files, k) \in STRING
  <2>1. files[k] \in Seq(ProfileLines)
    BY <1>3
  <2> QED BY <1>8, <2>1, MetaString DEF ParentOf, HasParent
<1>9. DOMAIN profiles # {}
  BY <1>3, <1>4
<1>10. ASSUME NEW k \in DOMAIN files
       PROVE  Fail \notin RulesIn(files[k])
  <2>1. \A i \in DOMAIN files[k] : files[k][i] \in ProfileLines
    BY <1>3
  <2>2. \A r \in RulesIn(files[k]) : r.role \in {"listen", "connect"}
    BY <2>1, ProfileFileAssumption DEF RulesIn
  <2>3. Fail.role = "error"
    BY DEF Fail, Rule
  <2> QED BY <2>2, <2>3
<1> QED BY <1>1, <1>3, <1>5, <1>6, <1>7, <1>8, <1>9, <1>10

(* The closed form solves the equation of FlattenProfile. *)
LEMMA ClosedSolves ==
  ASSUME InUse, NEW G, G = [call \in Calls |-> Closed(call[1], call[2])]
  PROVE  G = [call \in Calls |-> Flatten(G, call)]
<1> SUFFICES ASSUME NEW call \in Calls
             PROVE  Flatten(G, call) = Closed(call[1], call[2])
  OBVIOUS
<1> DEFINE name == call[1]
<1> DEFINE seen == call[2]
<1>1. name \in STRING /\ seen \in SUBSET DOMAIN Profiles
  BY DEF Calls
<1> HIDE DEF name, seen
<1>2. CASE name \in seen \/ name \notin DOMAIN Profiles
  <2>1. Flatten(G, call) = {Fail}
    BY <1>2 DEF Flatten, name, seen
  <2>2. name \in seen \/ \A k \in DOMAIN files : NameOf(files, k) # name
    <3>1. \A k \in DOMAIN files : NameOf(files, k) \in DOMAIN Profiles
      BY InUseFacts, NewestExists
    <3> QED BY <1>2, <3>1
  <2>3. Descents(files, name, seen) = {}
    BY <2>2, DescentNone
  <2> QED BY <2>1, <2>3 DEF Closed, name, seen
<1>3. CASE name \notin seen /\ name \in DOMAIN Profiles
  <2>1. PICK k \in DOMAIN files : Newest(files, k, name)
    BY <1>3, InUseFacts
  <2>2. Profiles[name].rules = RulesIn(files[k]) /\ Profiles[name].extends = ParentOf(files, k)
    BY <2>1, InUseFacts
  <2>3. Fail \notin RulesIn(files[k])
    BY InUseFacts
  <2>4. CASE ~HasParent(files, k)
    <3>1. Flatten(G, call) = RulesIn(files[k])
      BY <1>3, <2>2, <2>4 DEF Flatten, HasParent, name, seen
    <3>2. /\ Descents(files, name, seen) # {}
          /\ RulesOf(files, Descents(files, name, seen)) = RulesIn(files[k])
      BY <1>3, <2>1, <2>4, DescentAlone, InUseFacts
    <3> QED BY <3>1, <3>2 DEF Closed, name, seen
  <2>5. CASE HasParent(files, k)
    <3> DEFINE next == <<ParentOf(files, k), seen \cup {name}>>
    <3> DEFINE T == Descents(files, ParentOf(files, k), seen \cup {name})
    <3>1. next \in Calls /\ next[1] = ParentOf(files, k) /\ next[2] = seen \cup {name}
      <4>1. ParentOf(files, k) \in STRING
        BY <2>5, InUseFacts
      <4>2. seen \cup {name} \in SUBSET DOMAIN Profiles
        BY <1>1, <1>3
      <4> QED BY <4>1, <4>2 DEF Calls
    <3>2. G[next] = Closed(ParentOf(files, k), seen \cup {name})
      BY <3>1
    <3>3. Flatten(G, call) = IF G[next] = {Fail} THEN {Fail} ELSE G[next] \cup RulesIn(files[k])
      BY <1>3, <2>2, <2>5 DEF Flatten, HasParent, name, seen
    <3>4. /\ Descents(files, name, seen) = {} <=> T = {}
          /\ Descents(files, name, seen) # {} =>
               RulesOf(files, Descents(files, name, seen)) = RulesOf(files, T) \cup RulesIn(files[k])
      BY <1>3, <2>1, <2>5, DescentStep, InUseFacts
    <3>5. RulesOf(files, T) # {Fail}
      <4>1. \A s \in T : s \in Seq(DOMAIN files)
        BY DEF Descents
      <4> HIDE DEF T
      <4>2. \A s \in T : \A i \in 1..Len(s) : Fail \notin RulesIn(files[s[i]])
        <5> TAKE s \in T
        <5> TAKE i \in 1..Len(s)
        <5>1. s[i] \in DOMAIN files
          BY <4>1
        <5> QED BY <5>1, InUseFacts
      <4>3. Fail \notin RulesOf(files, T)
        BY <4>1, <4>2, RulesOfMember
      <4> QED BY <4>3
    <3>6. G[next] = IF T = {} THEN {Fail} ELSE RulesOf(files, T)
      BY <3>2 DEF Closed
    <3> HIDE DEF T, next
    <3> QED BY <3>3, <3>4, <3>5, <3>6 DEF Closed, name, seen
  <2> QED BY <2>4, <2>5
<1> QED BY <1>2, <1>3

(* And no other function does: of the calls that two solutions answer         *)
(* differently, the one with the most names seen calls one with one name more,*)
(* which they answer alike.                                                   *)
LEMMA OneSolution ==
  ASSUME InUse, NEW F, NEW G,
         F = [call \in Calls |-> Flatten(F, call)], G = [call \in Calls |-> Flatten(G, call)]
  PROVE  F = G
<1> DEFINE left(call) == Cardinality(DOMAIN Profiles \ call[2])
<1> DEFINE apart == {call \in Calls : F[call] # G[call]}
<1> DEFINE depths == {left(call) : call \in apart}
<1>1. \A call \in Calls : left(call) \in Nat
  <2> TAKE call \in Calls
  <2>1. IsFiniteSet(DOMAIN Profiles)
    BY InUseFacts
  <2>2. IsFiniteSet(DOMAIN Profiles \ call[2])
    BY <2>1, FS_Subset
  <2> QED BY <2>2, FS_CardinalityType
<1> SUFFICES ASSUME apart # {} PROVE FALSE
  OBVIOUS
<1>2. depths \in SUBSET Nat /\ depths # {}
  BY <1>1
<1>3. PICK d \in depths : \A e \in depths : d <= e
  BY <1>2, Smallest
<1>4. PICK call \in apart : d = left(call)
  BY <1>3
<1> DEFINE name == call[1]
<1> DEFINE seen == call[2]
<1> DEFINE next == <<Profiles[name].extends, seen \cup {name}>>
<1>5. call \in Calls /\ F[call] = Flatten(F, call) /\ G[call] = Flatten(G, call)
  BY <1>4
<1>6. name \in STRING /\ seen \in SUBSET DOMAIN Profiles
  BY <1>5 DEF Calls
<1>7. name \notin seen /\ name \in DOMAIN Profiles /\ Profiles[name].extends # ""
      /\ F[next] # G[next]
  BY <1>4, <1>5 DEF Flatten
<1>8. next \in Calls
  <2>1. PICK k \in DOMAIN files : Newest(files, k, name)
    BY <1>7, InUseFacts
  <2>2. Profiles[name].extends = ParentOf(files, k)
    BY <2>1, InUseFacts
  <2>3. Profiles[name].extends \in STRING
    BY <1>7, <2>2, InUseFacts DEF HasParent
  <2> QED BY <1>6, <1>7, <2>3 DEF Calls
<1>9. left(next) < left(call)
  <2> DEFINE S == DOMAIN Profiles \ seen
  <2>1. IsFiniteSet(S)
    <3>1. IsFiniteSet(DOMAIN Profiles)
      BY InUseFacts
    <3> QED BY <3>1, FS_Subset
  <2>2. DOMAIN Profiles \ next[2] = S \ {name} /\ name \in S
    BY <1>7
  <2>3. Cardinality(S \ {name}) = Cardinality(S) - 1 /\ Cardinality(S) \in Nat
    BY <2>1, <2>2, FS_RemoveElement, FS_CardinalityType
  <2>4. left(call) = Cardinality(S) /\ left(next) = Cardinality(S \ {name})
    BY <2>2
  <2>5. \A c \in Nat : c - 1 < c
    OBVIOUS
  <2> HIDE DEF left, S, next
  <2> QED BY <2>3, <2>4, <2>5
<1>10. next \in apart
  BY <1>7, <1>8
<1>11. left(next) \in depths /\ left(next) \in Nat /\ left(call) \in Nat
  BY <1>1, <1>5, <1>8, <1>10
<1> HIDE DEF left, depths
<1>12. left(call) <= left(next)
  BY <1>3, <1>4, <1>11
<1> QED BY <1>9, <1>11, <1>12

LEMMA FlattenClosed ==
  ASSUME InUse, NEW name \in STRING
  PROVE  FlattenProfile[<<name, {}>>] =
           IF Lineages(files, name) = {} THEN {Fail} ELSE RulesAlong(files, name)
<1> DEFINE G == [call \in Calls |-> Closed(call[1], call[2])]
<1>1. G = [call \in Calls |-> Flatten(G, call)]
  BY ClosedSolves
<1> HIDE DEF G
<1>2. FlattenProfile = [call \in Calls |-> Flatten(FlattenProfile, call)]
  <2>1. FlattenProfile = CHOOSE f : f = [call \in Calls |-> Flatten(f, call)]
    BY DEF FlattenProfile, Flatten, Calls
  <2> QED BY <1>1, <2>1
<1>3. FlattenProfile = G
  BY <1>1, <1>2, OneSolution
<1>4. <<name, {}>> \in Calls
  BY DEF Calls
<1>5. G[<<name, {}>>] = Closed(name, {})
  BY <1>4 DEF G
<1>6. Lineages(files, name) = Descents(files, name, {})
  BY LineagesBounded, InUseFacts
<1>7. RulesOf(files, Lineages(files, name)) = RulesAlong(files, name)
  BY DEF RulesOf, RulesAlong
<1> QED BY <1>3, <1>5, <1>6, <1>7 DEF Closed

-----------------------------------------------------------------------------
LEMMA ProfilesFollowed == ConfInv /\ LoadInv => ProfilesAsWritten
<1> SUFFICES ASSUME ConfInv, LoadInv, Ready, NEW ip \in Agents \ {""},
                    NEW names \in LookupAssignments(ip)
             PROVE  FromProfiles(names, ip) =
                      IF \/ conf.dir = "" \/ loading = "error"
                         \/ \E n \in Range(names) : Lineages(files, n) = {}
                      THEN {}
                      ELSE UNION {ResolveRule(r, ip) :
                             r \in UNION {RulesAlong(files, n) : n \in Range(names)}}
  BY DEF ProfilesAsWritten
<1>1. ConfigAsWritten(text, conf) /\ loading \in {"loaded", "error"}
  BY DEF ConfInv, LoadInv, Ready
<1>2. /\ names = <<>> \/ names \in Range(conf.assigns)
      /\ conf.assigns = Empty => names = <<>>
  <2>1. names = <<>> \/ names \in Range(conf.assigns)
    BY DEF LookupAssignments, Range
  <2>2. conf.assigns = Empty => DOMAIN conf.assigns = {}
    BY DEF Empty
  <2>3. conf.assigns = Empty => names = <<>>
    BY <2>2 DEF LookupAssignments
  <2> QED BY <2>1, <2>3
<1>3. Range(<<>>) = {}
  BY NoElement
<1>4. \A n \in Range(names) : n \in STRING /\ n # ""
  <2>1. CASE names = <<>>
    BY <1>3, <2>1
  <2>2. CASE names \in Range(conf.assigns)
    <3>1. names \in Seq(STRING) /\ "" \notin Range(names)
      BY <1>1, <2>2 DEF ConfigAsWritten
    <3>2. \A n \in Range(names) : n \in STRING
      BY <3>1, ElementsOf
    <3> QED BY <3>1, <3>2
  <2> QED BY <1>2, <2>1, <2>2
<1>5. CASE conf.dir = "" \/ loading = "error"
  <2>1. Profiles = Empty
    BY <1>5 DEF Profiles
  <2> QED BY <1>5, <2>1 DEF FromProfiles
<1>6. CASE ~(conf.dir = "" \/ loading = "error")
  <2>1. InUse
    BY <1>1, <1>6 DEF InUse
  <2>2. Profiles # Empty
    <3>1. DOMAIN Profiles # {} /\ DOMAIN Empty = {}
      BY <2>1, InUseFacts DEF Empty
    <3> QED BY <3>1
  <2> DEFINE flat == {FlattenProfile[<<n, {}>>] : n \in Range(names) \ {""}}
  <2> DEFINE rules == UNION {ResolveRule(r, ip) :
                        r \in UNION {RulesAlong(files, n) : n \in Range(names)}}
  <2>3. \A n \in Range(names) : FlattenProfile[<<n, {}>>] =
          IF Lineages(files, n) = {} THEN {Fail} ELSE RulesAlong(files, n)
    BY <1>4, <2>1, FlattenClosed
  <2>4. CASE conf.assigns = Empty
    <3>1. Range(names) = {}
      BY <1>2, <1>3, <2>4
    <3>2. rules = {}
      BY <3>1
    <3> QED BY <2>4, <3>1, <3>2 DEF FromProfiles
  <2>5. CASE conf.assigns # Empty
    <3>1. FromProfiles(names, ip) = ResolveProfileRules(names, ip) \ {Fail}
      BY <2>2, <2>5 DEF FromProfiles
    <3>2. ResolveProfileRules(names, ip) =
            IF {Fail} \in flat THEN {Fail}
            ELSE UNION {ResolveRule(r, ip) : r \in UNION flat}
      BY DEF ResolveProfileRules
    <3>3. CASE \E n \in Range(names) : Lineages(files, n) = {}
      <4>1. {Fail} \in flat
        BY <1>4, <2>3, <3>3
      <4> QED BY <3>1, <3>2, <3>3, <4>1
    <3>4. CASE ~\E n \in Range(names) : Lineages(files, n) = {}
      <4>1. flat = {RulesAlong(files, n) : n \in Range(names)}
        BY <1>4, <2>3, <3>4
      <4>2. \A n : Fail \notin RulesAlong(files, n)
        <5> TAKE n
        <5>1. RulesAlong(files, n) = RulesOf(files, Lineages(files, n))
          BY DEF RulesOf, RulesAlong
        <5>2. Lineages(files, n) = Descents(files, n, {})
          BY <2>1, LineagesBounded, InUseFacts
        <5>3. \A s \in Descents(files, n, {}) : s \in Seq(DOMAIN files)
          BY DEF Descents
        <5>4. ASSUME NEW s \in Descents(files, n, {}), NEW i \in 1..Len(s)
              PROVE  Fail \notin RulesIn(files[s[i]])
          <6>1. s[i] \in DOMAIN files
            BY <5>3, ElementsOf
          <6> QED BY <2>1, <6>1, InUseFacts
        <5>5. Fail \notin RulesOf(files, Descents(files, n, {}))
          BY <5>3, <5>4, RulesOfMember
        <5> QED BY <5>1, <5>2, <5>5
      <4>3. {Fail} \notin flat
        BY <4>1, <4>2
      <4>4. \A r : Fail \notin ResolveRule(r, ip)
        <5>1. \A source, target, port : /\ Rule("connect", source, target, port) # Fail
                                        /\ Rule("listen", source, target, port) # Fail
          <6> TAKE source, target, port
          <6>1. /\ Rule("connect", source, target, port).role = "connect"
                /\ Rule("listen", source, target, port).role = "listen"
                /\ Fail.role = "error"
            BY DEF Rule, Fail
          <6> QED BY <6>1
        <5> HIDE DEF Rule, Fail
        <5> TAKE r
        <5>2. CASE r.role = "listen"
          <6>1. ResolveRule(r, ip) = {Rule("listen", "", "", r.port)}
            BY <5>2 DEF ResolveRule
          <6> QED BY <5>1, <6>1
        <5>3. CASE r.role # "listen"
          <6>1. \A d \in ResolveRule(r, ip) : \E target : d = Rule("connect", ip, target, r.port)
            BY <5>3 DEF ResolveRule
          <6> QED BY <5>1, <6>1
        <5> QED BY <5>2, <5>3
      <4>5. FromProfiles(names, ip) = rules \ {Fail}
        BY <3>1, <3>2, <4>1, <4>3
      <4>6. Fail \notin rules
        BY <4>4
      <4> QED BY <1>6, <3>4, <4>5, <4>6
    <3> QED BY <3>3, <3>4
  <2> QED BY <2>4, <2>5
<1> QED BY <1>5, <1>6

(***************************************************************************)
(* The theorems.                                                           *)
(***************************************************************************)
RuleSetsInv == ConfInv /\ LoadInv

LEMMA InvStart == Init => RuleSetsInv
<1>1. ASSUME ConfInit, files = SampleFiles, profiles = SampleProfiles, loading = "loaded"
      PROVE  RuleSetsInv
  <2>1. ProfilesRead(files, profiles)
    BY <1>1, SampleAssumption
  <2> QED BY <1>1, <2>1, ConfigStart DEF RuleSetsInv, LoadInv, ProfilesRead
<1>2. ASSUME ProfilesInit, text = SampleText, conf = SampleConfig, parse = "parsed"
      PROVE  RuleSetsInv
  <2>1. ConfigAsWritten(text, conf)
    BY <1>2, SampleAssumption
  <2> QED BY <1>2, <2>1, LoadStart DEF RuleSetsInv, ConfInv
<1> QED BY <1>1, <1>2 DEF Init

LEMMA InvKept == RuleSetsInv /\ [Next]_vars => RuleSetsInv'
<1> SUFFICES ASSUME RuleSetsInv, [Next]_vars PROVE RuleSetsInv'
  OBVIOUS
<1>1. /\ ParseStep \/ UNCHANGED confvars
      /\ LoadStep \/ UNCHANGED profilevars
  BY DEF Next, vars
<1> QED BY <1>1, ConfigKept, LoadKept DEF RuleSetsInv

LEMMA InvTyped == RuleSetsInv => TypeOK
<1> SUFFICES ASSUME ConfInv, LoadInv PROVE TypeOK
  BY DEF RuleSetsInv
<1>1. /\ parse \in {"reading", "parsed", "error"} /\ loading \in {"reading", "loaded", "error"}
      /\ Len(files) \in 1..Len(FileNames)
  BY DEF ConfInv, LoadInv
<1>2. CASE parse = "reading"
  <2>1. ConfReading
    BY <1>2 DEF ConfInv
  <2>2. \A f \in Written(text) : Parsed(f).port \in Ports
    BY <2>1, PortParsed DEF ConfReading, Parsable
  <2>3. \A r \in Range(conf.rules) : r.port \in Ports
    BY <2>1, <2>2 DEF ConfReading, Parsable
  <2> QED BY <1>1, <1>2, <2>1, <2>3
          DEF TypeOK, ConfReading, TargetsRead, TtlRead, TagsRead
<1>3. CASE parse = "parsed"
  <2>1. ConfigAsWritten(text, conf)
    BY <1>3 DEF ConfInv
  <2>2. \A f \in Written(text) : Meant(text, f).port \in Ports
    <3> TAKE f \in Written(text)
    <3>1. Acceptable(f)
      BY <2>1 DEF ConfigAsWritten
    <3> QED BY <3>1 DEF Acceptable, Meant, Extended
  <2>3. \A r \in Range(conf.rules) : r.port \in Ports
    BY <2>1, <2>2 DEF ConfigAsWritten
  <2> QED BY <1>1, <2>1, <2>3 DEF TypeOK, ConfigAsWritten
<1>4. CASE parse = "error"
  BY <1>1, <1>4 DEF ConfInv, ConfRefused, TypeOK
<1> QED BY <1>1, <1>2, <1>3, <1>4

(* ParseExtendedConfigV2 and LoadProfileDir: what they hold in the end is     *)
(* the reading, as a whole, of the lines they were given.  So the samples may *)
(* be any files that have been read, and nothing is lost by reading only one  *)
(* kind of file in a behaviour: the other properties hold for any two.        *)
THEOREM FilesAsRead ==
  Spec => [](/\ parse = "parsed" => ConfigAsWritten(text, conf)
             /\ loading = "loaded" => ProfilesRead(files, profiles))
<1>1. RuleSetsInv => /\ parse = "parsed" => ConfigAsWritten(text, conf)
                     /\ loading = "loaded" => ProfilesRead(files, profiles)
  BY DEF RuleSetsInv, ConfInv, LoadInv
<1> QED BY <1>1, InvStart, InvKept, PTL DEF Spec

(* ParseExtendedConfigV2 and LoadProfileDir: the maps they fill and what *)
(* they have read of a file stay in their domains.                       *)
THEOREM RuleSetsTyped == Spec => []TypeOK
<1>1. RuleSetsInv => TypeOK
  BY InvTyped
<1> QED BY <1>1, InvStart, InvKept, PTL DEF Spec

(* distributeRulesToAgent and the second pass of the parser: of a rule line  *)
(* with a source, one agent dials and the other listens, wherever the file   *)
(* defines their names, both with the last TTL.                              *)
THEOREM RuleLinesServed == Spec => []EndsServed
<1>1. RuleSetsInv => EndsServed
  BY ServedAtBothEnds DEF RuleSetsInv
<1> QED BY <1>1, InvStart, InvKept, PTL DEF Spec

(* distributeRulesToAgent: a direct rule an agent is sent goes back to a line *)
(* that names it, or to one without a source.                                 *)
THEOREM DirectRulesNamed == Spec => []NoForeignRules
<1>1. RuleSetsInv => NoForeignRules
  BY NoneForeign DEF RuleSetsInv
<1> QED BY <1>1, InvStart, InvKept, PTL DEF Spec

(* LookupAssignments: only an address with two assigned names, and no  *)
(* assignment of its own, may get one of several.                      *)
THEOREM AssignmentUnambiguous == Spec => []LookupUnambiguous
<1>1. RuleSetsInv => LookupUnambiguous
  BY OneAssignment DEF RuleSetsInv
<1> QED BY <1>1, InvStart, InvKept, PTL DEF Spec

(* LoadProfileDir, FlattenProfile and ResolveProfileRules: an agent gets the *)
(* rules of its profiles and of all they extend as the files give them, and  *)
(* none when one of them is missing or extends itself in the end.            *)
THEOREM ProfilesResolved == Spec => []ProfilesAsWritten
<1>1. RuleSetsInv => ProfilesAsWritten
  BY ProfilesFollowed DEF RuleSetsInv
<1> QED BY <1>1, InvStart, InvKept, PTL DEF Spec

=============================================================================
