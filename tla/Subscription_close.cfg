CONSTANTS
  EvOps = {}
  ApiOps = {"enable", "disable"}
  MaxOps = 2
  MaxLoops = 3
  Slow = FALSE
  Cancels = FALSE
SPECIFICATION Spec
INVARIANT CloseStopsLoops
CHECK_DEADLOCK FALSE
