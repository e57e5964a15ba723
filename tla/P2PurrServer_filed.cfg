SPECIFICATION Spec
CONSTANTS
  MaxIn = 1
  MaxOut = 2
  MaxPeers = 3
CHECK_DEADLOCK FALSE
PROPERTIES
  SuccessMeansFiled
