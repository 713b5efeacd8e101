\* The simple format of the README: an interval of 30 seconds.
CONSTANTS
  ConfLines <- MCSimpleLines
  MaxLines = 5
  Numbers <- MCNumbers
  Ports <- MCPorts
  Plain <- MCPlain
  Listed <- MCListed
  EnvPSK = "key"
  Agents <- MCAgents
  GroupOf <- MCGroupOf
  FileNames <- MCFileNames
  ProfileLines <- MCProfileLines
  MaxProfileLines = 5
  SampleText <- MCSampleText
  SampleConfig <- MCSampleConfig
  SampleFiles <- MCSampleFiles
  SampleProfiles <- MCSampleProfiles
SPECIFICATION Spec
CHECK_DEADLOCK FALSE
INVARIANTS
  SimpleRulesRead
