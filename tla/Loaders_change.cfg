CONSTANTS
  Names = {n1, n2}
  MaxVer = 2
  LKinds = {"file"}
  Takers = {"collector"}
  HasActions = {FALSE}
  FailingActs = {"add"}
  MaxChanges = 1
  MaxLFails = 0
SPECIFICATION FairSpec
PROPERTY Loaded
CHECK_DEADLOCK FALSE
