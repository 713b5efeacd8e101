\* Three settings, one of them with a " #", and two rule sets, one with a TTL.
CONSTANTS
  Self = Self
  Agents = {Self}
  Settings <- MCSettings
  Loaded <- MCLoaded
  Accepted <- MCAccepted
  Strong <- MCStrong
  Sets = {r1, r2}
  Expiring = {r1}
  MasterConf = MasterConf
  None = None
  Torn = Torn
  Never = Never
  Missing = Missing
  Empty = Empty
SPECIFICATION RestartSpec
CHECK_DEADLOCK FALSE
INVARIANTS
  ComesBack
  FileFollowsRecords
  FirstSeenPreserved
  RefusedOnlyAfterHarm
PROPERTIES
  ConfAtomic
  InstructionsAtomic
