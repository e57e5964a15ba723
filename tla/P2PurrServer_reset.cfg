SPECIFICATION Spec
CONSTANTS
  MaxIn = 1
  MaxOut = 2
  MaxPeers = 2
CHECK_DEADLOCK FALSE
PROPERTIES
  ResetIsClosed
