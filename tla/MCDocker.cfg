SPECIFICATION Spec
CONSTANTS
  p1 = p1
  p2 = p2
  p3 = p3
  n1 = n1
  Procs = {p1, p2, p3}
  Names = {n1}
  NameOf <- MCNameOf
  ProcOf <- MCProcOf
  Bundle <- MCBundle
  MaxTries = 2
INVARIANTS
  RemainsExplained
  ResultIsTheJobs
  RanWhole
PROPERTIES
  CtxEndsRun
CHECK_DEADLOCK FALSE
