\* Two agent IDs, two connections, one sender, one message each way.
CONSTANTS
  c1 = c1
  c2 = c2
  a1 = a1
  a2 = a2
  v1 = v1
  Conns = {c1, c2}
  Agents = {a1, a2}
  Versions = {v1}
  Commands <- MCCommands
  Senders <- MCSenders
  Hooks = {"disconnect"}
  Hellos <- AllHellos
  Reports <- AllReports
  Window = 1
  NoAgent = NoAgent
  NoVersion = NoVersion
  NoEntry = NoEntry
SPECIFICATION ReadingSpec
CHECK_DEADLOCK FALSE
INVARIANTS
  EntriesServed
  LatestReachable
  SendsHitLiveEntries
PROPERTIES
  PresenceKept
  DeadConnectionsEnd
