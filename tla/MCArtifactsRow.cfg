SPECIFICATION Spec
CONSTANTS
  MaxAttempts = 2
  Files = 2
  CompleteRetries = 2
  MaxSends = 4
  MaxLate = 1
INVARIANTS
  RowsHaveObjects
CHECK_DEADLOCK FALSE
