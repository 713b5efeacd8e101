\* Update notices of an outdated agent over two connections.
CONSTANTS
  c1 = c1
  c2 = c2
  a1 = a1
  a2 = a2
  v1 = v1
  Conns = {c1, c2}
  Agents = {a1}
  Versions = {v1}
  Commands <- MCCommands
  Senders <- MCSenders
  Hooks = {"heartbeat", "disconnect"}
  Hellos <- Registrations
  Reports <- Heartbeats
  Window = 1
  NoAgent = NoAgent
  NoVersion = NoVersion
  NoEntry = NoEntry
  MaxGen = 0
  MaxReloads = 0
  Common = {}
  Addressed = {}
  HasBinary = TRUE
  Outdated = {v1}
SPECIFICATION MasterSpec
SYMMETRY Symmetry
CHECK_DEADLOCK FALSE
INVARIANT
  NoticesBounded
