SPECIFICATION Spec
CONSTANTS
  HdrLen = 4
  BuffSize = 11
  SockCap = 11
  PayloadLens <- MCFullPayloads
  MaxPkts = 2
CHECK_DEADLOCK FALSE
INVARIANTS
  AllDelivered
