SPECIFICATION Spec
CONSTANTS
  u1 = u1
  u2 = u2
  poll = poll
  Users <- MCUsers
  Connectors <- MCConnectors
  Stoppers <- MCStoppers
  Poll = poll
  PktLen = 2
  MaxSocks = 2
  MaxFds = 1
  MaxSends = 2
CHECK_DEADLOCK FALSE
INVARIANTS
  TypeOK
  ClosedIsReleased
  OpenOwnsSocket
  MisledOnlyByRace
  LeakOnlyAfterReset
  ReceiverHoldsPeer
  DroppedOnlyAtEnd
  PacketsUnbroken
