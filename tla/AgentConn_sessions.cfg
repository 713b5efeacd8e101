\* Three sessions, any number of reconnections, under fair scheduling.
CONSTANTS
  s1 = s1
  s2 = s2
  s3 = s3
  Sessions = {s1, s2, s3}
  None = None
  Main = Main
  Ttl = Ttl
  PromptStart = TRUE
SPECIFICATION FairSpec
CHECK_DEADLOCK FALSE
INVARIANTS
  OneDriver
  ReceiverPaired
  HeartbeatPaired
PROPERTIES
  GivesUpOnCollision
  DrivenAgentReconnects
  StopEndsAll
