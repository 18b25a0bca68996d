SPECIFICATION Spec
CONSTANTS
  k1 = k1
  c3 = c3
  c1 = c1
  c2 = c2
  None = None
  Keys = {k1}
  Clients = {c1, c2, c3}
  Size = 1
  Attempts = 2
  MaxOps = 1
SYMMETRY Handlers
INVARIANTS
  TempsExplained
PROPERTIES
  KeepsPromise
CHECK_DEADLOCK FALSE
