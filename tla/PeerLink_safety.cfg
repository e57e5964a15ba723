SPECIFICATION FairSpec
CONSTANTS
  HdrLen = 4
  BuffSize = 11
  SockCap = 11
  PayloadLens <- MCPayloadLens
  MaxPkts = 3
CHECK_DEADLOCK FALSE
INVARIANTS
  TypeOK
  IInv
  CompletedIntact
  BufferReady
  BrokenOnlyBySplitOrTear
  AllRebuiltAtEof
PROPERTIES
  EmptyPacketEndsReception
  ClosedAfterPeer
  ImplementsChannel
  ImplementsFairly
