SPECIFICATION ServingSpec
CONSTANTS
  na = na
  nb = nb
  a1 = a1
  a2 = a2
  b1 = b1
  ta = ta
  Redis = Redis
  Nodes <- OneNode
  Threads <- OneNodeThreads
  NodeOf <- OneNodeOf
  Tenants <- OneTenant
  Skew <- OneNodeSkew
  MaxSkew = 0
  Rate = 1
  Burst = 1
  Cost = 2
  MaxTime = 1
  MaxCalls = 3
INVARIANTS
  LimiterInv
  OneUnchargedEach
PROPERTY ReturnsOrStranded
CHECK_DEADLOCK FALSE
