------------------------------ MODULE MCRuleSets ------------------------------
(* A small instance of RuleSets for TLC: two targets with addresses, three  *)
(* agents, profiles in two files.                                           *)
EXTENDS RuleSets

MCConfLines ==
  {Header("MASTER"), Header("ASSIGNMENTS"),
   Pair("PSK", "", {}), Pair("TTL", "30", {}), Pair("PROFILE_DIR", "profiles", {}),
   Pair("ALPHA", "a1", {}), Pair("BETA", "a2", {"dc"}), Pair("ALPHA", "a2", {"dc"}),
   Pair("ALPHA", "", {}), Pair("ALPHA", "web,db", {}), Pair("BETA", "web", {}), Pair("a1", "web", {}),
   RuleLine(<<"ALPHA", "BETA", "80", "loop">>, FALSE),
   RuleLine(<<"a2", "my-host", "30", "30">>, FALSE),
   RuleLine(<<"BETA", "80", "0", "loop">>, FALSE), Broken}

(* The line with an interval is one for the run about the simple format. *)
MCSimpleLines ==
  {Header("MASTER"), Pair("ALPHA", "a1", {}), Pair("BETA", "a2", {}),
   RuleLine(<<"ALPHA", "BETA", "80", "loop">>, TRUE),
   RuleLine(<<"BETA", "80", "0", "loop">>, FALSE),
   RuleLine(<<"ALPHA", "80", "30", "loop">>, FALSE)}

MCNumbers == {"0", "30", "80"}
MCPorts == {"30", "80"}
MCPlain == {"ALPHA", "BETA"}
MCListed == [v \in {"web,db", "base,web"} |-> IF v = "web,db" THEN <<"web", "db">>
                                                              ELSE <<"base", "web">>]
MCAgents == {"a1", "a2", ""}
MCGroupOf == [g \in {"group:dc"} |-> "dc"]

MCFileNames == <<"base", "web">>
MCProfileLines ==
  {Section("META"), Section("RULES"), Refused,
   Meta("NAME", "web"), Meta("EXTENDS", "base"), Meta("EXTENDS", "web"),
   ProfileRule("listen", "SELF", "-", "80"),
   ProfileRule("connect", "SELF", "group:dc", "80"),
   ProfileRule("connect", "BETA", "ANY", "80")}

MCSampleText ==
  <<Pair("PROFILE_DIR", "profiles", {}), Pair("ALPHA", "a1", {}), Pair("BETA", "a2", {"dc"}),
    Header("ASSIGNMENTS"), Pair("a1", "web", {}), Pair("BETA", "base,web", {})>>
MCSampleConfig ==
  [psk |-> "key", ttl |-> "0", dir |-> "profiles", rules |-> <<>>,
   targets |-> [n \in {"ALPHA", "BETA"} |-> IF n = "ALPHA" THEN "a1" ELSE "a2"],
   tags |-> [t \in {"dc"} |-> {"a2"}],
   assigns |-> [n \in {"a1", "BETA"} |-> IF n = "a1" THEN <<"web">> ELSE <<"base", "web">>]]

MCSampleFiles ==
  <<<<Section("RULES"), ProfileRule("listen", "SELF", "-", "80")>>,
    <<Section("META"), Meta("EXTENDS", "base"), Section("RULES"),
      ProfileRule("connect", "SELF", "group:dc", "80")>>>>
MCSampleProfiles ==
  [n \in {"base", "web"} |->
     IF n = "base" THEN [name |-> "", extends |-> "",
                         rules |-> {MCSampleFiles[1][2].rule}]
                   ELSE [name |-> "", extends |-> "base",
                         rules |-> {MCSampleFiles[2][4].rule}]]
=============================================================================
