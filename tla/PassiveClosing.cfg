SPECIFICATION FairSpec
CONSTANTS
  Conn <- OwnConn
  Stream <- OwnStream
  Protocol <- OwnProtocol
  ControlOf <- OwnControl
  Controls = {1}
  NumFDs = 2
  MaxQueue = 1
  Accepting = TRUE
  Exits = FALSE
CHECK_DEADLOCK FALSE
PROPERTIES
  SocketsAreClosed
