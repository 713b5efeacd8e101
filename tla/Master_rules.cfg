\* One reload of two generations against two registrations of an agent.
CONSTANTS
  c1 = c1
  c2 = c2
  a1 = a1
  a2 = a2
  v1 = v1
  Conns = {c1, c2}
  Agents = {a1}
  Versions = {v1}
  Commands <- MCCommands
  Senders <- MCSenders
  Hooks = {"register"}
  Hellos <- Registrations
  Reports = {}
  Window = 1
  NoAgent = NoAgent
  NoVersion = NoVersion
  NoEntry = NoEntry
  MaxGen = 1
  MaxReloads = 1
  Common = {}
  Addressed = {0, 1}
  HasBinary = TRUE
  Outdated = {}
SPECIFICATION MasterSpec
SYMMETRY Symmetry
CONSTRAINT BeforeShutdown
CHECK_DEADLOCK FALSE
INVARIANTS
  NewestRulesSent
  AckBeforeRules
