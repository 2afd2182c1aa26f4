SPECIFICATION FairSpec
CONSTANTS
  NumFlows = 3
  MaxTrials = 5
  MaxChunks = 3
  Unreliable <- MCUnreliable
  Faults <- MCFaults
INVARIANTS
  NoStrayAnswer
  DataHasReceiver
  MeasurementReady
  ResultsInRightFile
  DoneIsComplete
  IInv
PROPERTIES
  ImplementsSession
  SetupEnds
  StopEnds
  PassiveForgets
