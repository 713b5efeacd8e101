\* Config files of up to five lines, and profiles of up to five lines in two files.
CONSTANTS
  ConfLines <- MCConfLines
  MaxLines = 5
  Numbers <- MCNumbers
  Ports <- MCPorts
  Plain <- MCPlain
  Listed <- MCListed
  EnvPSK = "key"
  Agents <- MCAgents
  GroupOf <- MCGroupOf
  FileNames <- MCFileNames
  ProfileLines <- MCProfileLines
  MaxProfileLines = 5
  SampleText <- MCSampleText
  SampleConfig <- MCSampleConfig
  SampleFiles <- MCSampleFiles
  SampleProfiles <- MCSampleProfiles
SPECIFICATION Spec
CHECK_DEADLOCK FALSE
INVARIANTS
  TypeOK
  EndsServed
  NoForeignRules
  LookupUnambiguous
  ProfilesAsWritten
