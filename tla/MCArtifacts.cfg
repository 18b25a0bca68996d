SPECIFICATION Spec
CONSTANTS
  MaxAttempts = 2
  Files = 2
  CompleteRetries = 2
  MaxSends = 3
  MaxLate = 1
INVARIANTS
  SucceededIsRecorded
  NoLeakedObject
  SerialHasBytes
PROPERTIES
  RecordFrozen
CHECK_DEADLOCK FALSE
VIEW Seen
