SPECIFICATION Spec
CONSTANTS
  r1 = r1
  a = a
  b = b
  c = c
  d = d
  w1 = w1
  w2 = w2
  None = None
  Jobs = {a}
  Runs = {r1}
  Runners = {w1, w2}
  RunOf <- OneRunOf
  Needs <- OneNeeds
  Decl <- InOrder
  LabelsOf <- EmptyLabel
  LabelsOn <- OneLabelled
  MaxAttempts = 2
  TTL = 1
  Timeout <- Timeout1
  TimeoutGrace = 1
  OfflineAfter = 2
  MaxTime = 2
  MaxDowntime = 0
INVARIANTS
  LabelsHonoured
CHECK_DEADLOCK FALSE
