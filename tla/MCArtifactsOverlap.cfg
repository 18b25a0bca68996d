SPECIFICATION Spec
CONSTANTS
  MaxAttempts = 1
  Files = 1
  CompleteRetries = 2
  MaxSends = 4
  MaxLate = 1
INVARIANTS
  SucceededHasBytes
CHECK_DEADLOCK FALSE
