SPECIFICATION FairSpec
CONSTANTS
  Clients = {c1, c2}
  PoolSize = 2
  MaxCalls = 3
  MaxDepth = 2
INVARIANTS
  TypeOK NodesConserved CallerWaits CallbackIsSubscribed EachSignalOnce NoReplayLost
PROPERTIES DrainLeavesNothing CallsReturn StopEnds
CHECK_DEADLOCK FALSE
