SPECIFICATION Spec
CONSTANTS
  r1 = r1
  a = a
  b = b
  c = c
  d = d
  w1 = w1
  w2 = w2
  None = None
  Jobs = {a, b, c, d}
  Runs = {r1}
  Runners = {w1}
  RunOf <- DiamondRunOf
  Needs <- DiamondNeeds
  Decl <- InOrder
  LabelsOf <- NoLabels
  LabelsOn <- PlainRunners
  MaxAttempts = 2
  TTL = 1
  Timeout <- Timeout1
  TimeoutGrace = 0
  OfflineAfter = 1
  MaxTime = 2
  MaxDowntime = 0
INVARIANTS
  RunFollowsJobs
  NoStrandedRun
  CancelReachesAll
PROPERTIES
  ImplementsLifecycle
CHECK_DEADLOCK FALSE
