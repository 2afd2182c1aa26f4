SPECIFICATION FairSpec
CONSTANTS
  Conn <- AllConn
  Stream <- AllStream
  Protocol <- AllProtocol
  NumFDs = 3
  MaxQueue = 2
  Accepting = FALSE
  Losable = {1, 2, 3}
CHECK_DEADLOCK FALSE
INVARIANTS
  UsesAreCounted
  NothingIsLeft
PROPERTIES
  LostIsClosed
