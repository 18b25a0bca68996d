SPECIFICATION BootSpec
CONSTANTS
  old = old
  new = new
  None = None
  Servers = {old, new}
  Known <- MCKnown
  MaxReqs = 2
INVARIANTS
  SchemaWhole
  StoreOutlivesUsers
PROPERTIES
  ShutdownEnds
CHECK_DEADLOCK FALSE
