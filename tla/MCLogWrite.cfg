SPECIFICATION ShipSpec
CONSTANTS
  MaxAttempts = 1
  MaxOut = 4
  MaxWrite = 2
  MaxSends = 3
  FlushBytes = 2
  MaxPostBytes = 3
  MaxBuffered = 3
  LogCapBytes = 4
INVARIANTS
  WriteReportsAll
CHECK_DEADLOCK FALSE
