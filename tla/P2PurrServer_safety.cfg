SPECIFICATION Spec
CONSTANTS
  MaxIn = 1
  MaxOut = 1
  MaxPeers = 3
CHECK_DEADLOCK FALSE
INVARIANTS
  TypeOK
  ServerFirst
  KeyedBySocket
  AcceptFresh
  ConnBound
  InboundWatched
  NothingElseWatched
  InboundOnlySurvives
  StopClosesFiled
