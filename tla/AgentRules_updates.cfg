\* One port, one connect rule, two contexts, under fair scheduling.
CONSTANTS
  k1 = k1
  k2 = k2
  t1 = t1
  l1 = l1
  l2 = l2
  l3 = l3
  x1 = x1
  x2 = x2
  x3 = x3
  Keys = {k1}
  Targets = {t1}
  Listeners = {l1}
  Contexts = {x1, x2}
  None = None
  PromptStart = TRUE
SPECIFICATION FairSpec
CHECK_DEADLOCK FALSE
INVARIANTS
  SocketsTracked
  TrafficTracked
  OneLateDial
  NoStaleListeners
PROPERTY
  OldTrafficEnds
