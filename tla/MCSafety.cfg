CONSTANTS
  EvOps = {"apply", "removeSub", "add", "drop"}
  ApiOps = {"enable"}
  MaxOps = 2
  MaxLoops = 3
  Slow = FALSE
  Cancels = FALSE
  Applies <- CaseApplies
  EvChains <- CaseChains
  EvBatches <- CaseBatches
  EvResponses <- CaseResponses
  EvArrivals <- CaseArriving
  MsgOptions <- CaseOptions
SPECIFICATION SysSpec
INVARIANTS
  NoOverlap
  CurrentLoopLives
  SingleStreams
  UsedIsTracked
  OutputsSettle
  InputsTracked
  RetryOwnership
  RunsWhatItLists
  NoOrphanTarget
  MergeConserves
  RateLimitSpacing
  OptionsKept
  AnswerComplete
PROPERTIES
  ImplementsLease
  ScrapesMoveForward
CHECK_DEADLOCK FALSE
