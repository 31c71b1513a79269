CONSTANTS
  Outs = {"o1"}
  Procs = {"p1"}
  Requests <- Bodies
  ApiOps = {"apply"}
  MaxOps = 3
  CloseFails = FALSE
SPECIFICATION Spec
INVARIANT ConfiguredAsRequested
CHECK_DEADLOCK FALSE
