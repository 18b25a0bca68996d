SPECIFICATION ShipSpec
CONSTANTS
  MaxAttempts = 2
  MaxOut = 4
  MaxWrite = 2
  MaxSends = 3
  FlushBytes = 2
  MaxPostBytes = 2
  MaxBuffered = 1
  LogCapBytes = 2
INVARIANTS
  NoSilentGap
  NilMeansStored
  CapNotedOnce
PROPERTIES
  ImplementsTable
CHECK_DEADLOCK FALSE
