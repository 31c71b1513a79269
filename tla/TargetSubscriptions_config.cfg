CONSTANTS
  Subs = {s1, s2}
  MaxWrites = 4
SPECIFICATION Spec
INVARIANT RunningAsConfigured
CHECK_DEADLOCK FALSE
