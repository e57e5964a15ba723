SPECIFICATION FairSpec
CONSTANTS
  MaxIn = 1
  MaxOut = 1
  MaxPeers = 2
CHECK_DEADLOCK FALSE
PROPERTIES
  InboundServed
  OutboundServedWhenAwake
