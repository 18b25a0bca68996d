SPECIFICATION Spec
CONSTANTS
  a = a
  w1 = w1
  None = None
  Jobs = {a}
  Runners = {w1}
  MaxAttempts = 2
  Capacity = 1
  CompleteRetries = 2
  MaxFaults = 2
INVARIANTS
  ExecutedOnce
  ForgottenIsOver
  VerdictTruthful
PROPERTIES
  JobEnds
  SupersededStops
CHECK_DEADLOCK FALSE
