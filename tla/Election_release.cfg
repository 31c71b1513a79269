SPECIFICATION Spec
CONSTANTS
  Members = {m1, m2}
  DeleteAny = TRUE
  Late = FALSE
  MaxTerm = 2
  MaxFaults = 1
PROPERTY KeptLockStays
CHECK_DEADLOCK FALSE
