SPECIFICATION Spec
CONSTANTS
  Conn <- AllConn
  Stream <- AllStream
  Protocol <- AllProtocol
  ControlOf <- AllControl
  Controls = {1, 2}
  NumFDs = 2
  MaxQueue = 1
  Accepting = TRUE
  Exits = TRUE
CHECK_DEADLOCK FALSE
INVARIANTS
  TypeOK
  NeverBlocks
  NoDanglingFD
  AssertionsHold
  UsesAreCounted
  NoStaleEntry
