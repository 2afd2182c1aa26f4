SPECIFICATION Spec
CONSTANTS
  HeaderSize = 2
  MessageBufferSize = 5
  NotificationSize = 4
  ChunkSize = 2
  MaxRows = 3
INVARIANTS
  TypeOK
  ResultsAreWhole
PROPERTIES
  ImplementsChannel
  TransferEnds
CHECK_DEADLOCK FALSE
