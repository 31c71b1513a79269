CONSTANTS
  N = 3
  Targets = {t1, t2, t3, t4, t5}
SPECIFICATION SysSpec
INVARIANT PlanCorrect
PROPERTIES
  AllCollected
  DispatchReturns
  NeverStranded
  Delivered
  StreamExported
  Resubscribes
CHECK_DEADLOCK FALSE
