CONSTANTS
  Locker = "none"
  Cfgs = {c1}
  ApiOps = {}
  MaxObj = 1
  MaxAttempt = 2
  MaxRetry = 2
  MaxOps = 1
  MaxRefresh = 2
SPECIFICATION Spec
INVARIANT RetriedUntilStarted
CHECK_DEADLOCK FALSE
