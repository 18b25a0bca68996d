SPECIFICATION Spec
CONSTANTS
  r1 = r1
  r2 = r2
  Runs = {r1, r2}
  MaxClaims = 2
  MaxEvents = 5
  MaxCuts = 2
  MaxLate = 2
SYMMETRY Ids
INVARIANTS
  ExitTruthful
  EventsInFull
  FileIsListed
  NoStraySource
CHECK_DEADLOCK FALSE
