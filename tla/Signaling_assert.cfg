SPECIFICATION Spec
CONSTANTS
  Clients = {c1}
  PoolSize = 2
  MaxCalls = 3
  MaxDepth = 2
PROPERTY AssertionsHold
CHECK_DEADLOCK FALSE
