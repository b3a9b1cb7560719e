SPECIFICATION Spec
CONSTANTS
  na = na
  nb = nb
  t1 = t1
  t2 = t2
  ta = ta
  Redis = Redis
  Nodes <- TwoNodes
  Threads <- MCThreads
  NodeOf <- TwoNodesOf
  Tenants <- MCTenants
  Skew <- TwoSkews
  MaxSkew = 0
  Rate = 1
  Burst = 1
  Cost = 1
  MaxTime = 2
  MaxCalls = 3
INVARIANT QuotaShared
CHECK_DEADLOCK FALSE
