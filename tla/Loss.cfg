SPECIFICATION Spec
CONSTANTS
  MaxMsgSize = 2
  HeaderSize = 1
  FrameIDs = 10
  Settings <- AllSettings
CHECK_DEADLOCK FALSE
INVARIANTS
  LossIsExact
  FramesCountedOnce
  ByteLossIsReal
PROPERTIES
  BufferIsBounded
  ArrivedIsNotLost
