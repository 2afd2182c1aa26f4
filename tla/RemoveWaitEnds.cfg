SPECIFICATION FairSpec
CONSTANTS
  NumFlows = 1
  MaxTrials = 1
  MaxChunks = 1
  Unreliable = {}
  Faults = {"flowWrite"}
CHECK_DEADLOCK FALSE
PROPERTY RemoveWaitEnds
