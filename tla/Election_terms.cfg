SPECIFICATION FairSpec
CONSTANTS
  Members = {m1, m2}
  DeleteAny = FALSE
  Late = FALSE
  MaxTerm = 4
  MaxFaults = 3
INVARIANTS
  TypeOK
  NoAbandonedLock
PROPERTIES
  KeptLockStays
  StepsDown
  LeaderElected
CHECK_DEADLOCK FALSE
