SPECIFICATION Spec
CONSTANTS
  Clients = {c1}
  PoolSize = 2
  MaxCalls = 1
  MaxDepth = 1
INVARIANT AcceptedWorkRuns
CHECK_DEADLOCK FALSE
