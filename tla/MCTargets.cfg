CONSTANTS
  Locker = "none"
  Cfgs = {c1}
  ApiOps = {"enable", "disable"}
  MaxObj = 2
  MaxAttempt = 2
  MaxRetry = 2
  MaxOps = 3
  MaxRefresh = 1
SPECIFICATION MCSpec
INVARIANTS
  TypeOK
  RetryOwnership
  RetryRespectsIntent
PROPERTY CancelledRetryEnds
CHECK_DEADLOCK FALSE
