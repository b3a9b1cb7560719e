SPECIFICATION Spec
CONSTANTS
  na = na
  nb = nb
  t1 = t1
  t2 = t2
  ta = ta
  Redis = Redis
  Nodes <- OneNode
  Threads <- MCThreads
  NodeOf <- OneNodeOf
  Tenants <- MCTenants
  Skew <- OneSkew
  MaxSkew = 0
  Rate = 1
  Burst = 1
  Cost = 1
  MaxTime = 2
  MaxCalls = 3
INVARIANT OwnVerdict
CHECK_DEADLOCK FALSE
