SPECIFICATION FairSpec
CONSTANTS
  MaxServers = 2
  MaxConns = 2
CHECK_DEADLOCK FALSE
INVARIANTS
  TypeOK
  RunningMeansServed
  HarmlessUnlessProvoked
PROPERTIES
  StopReturns
  BacklogDrains
