SPECIFICATION Spec
CONSTANTS
  r1 = r1
  a = a
  b = b
  c = c
  d = d
  w1 = w1
  w2 = w2
  None = None
  Jobs = {a}
  Runs = {r1}
  Runners = {w1, w2}
  RunOf <- OneRunOf
  Needs <- OneNeeds
  Decl <- InOrder
  LabelsOf <- NoLabels
  LabelsOn <- PlainRunners
  MaxAttempts = 2
  TTL = 1
  Timeout <- Timeout1
  TimeoutGrace = 1
  OfflineAfter = 2
  MaxTime = 5
  MaxDowntime = 2
INVARIANTS
  TimeoutIsNotCancel
PROPERTIES
  CancelledAttemptIsLast
  FinalIsFinal
  LostOnlyAfterSilence
  TickIdempotent
CHECK_DEADLOCK FALSE
SYMMETRY Symmetry
