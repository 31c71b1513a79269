CONSTANTS
  IntWidth = 4
  OneSecond = 2
  EvOuts = {"o1", "o2"}
  EvChains <- Chains
  EvBatches <- Batches
  EvResponses = {}
  EvPlaces = {"writer"}
  EvWorkers = {"w1"}
  MaxEvMsgs = 1
SPECIFICATION Spec
INVARIANT OwnProcessors
CHECK_DEADLOCK FALSE
