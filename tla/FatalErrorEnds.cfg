SPECIFICATION FairSpec
CONSTANTS
  NumFlows = 1
  MaxTrials = 1
  MaxChunks = 1
  Unreliable = {}
  Faults = {"file"}
CHECK_DEADLOCK FALSE
PROPERTY FatalErrorEnds
