SPECIFICATION Spec
CONSTANTS
  na = na
  nb = nb
  a1 = a1
  a2 = a2
  b1 = b1
  ta = ta
  Redis = Redis
  Nodes <- TwoNodes
  Threads <- TwoNodesThreads
  NodeOf <- TwoNodesOf
  Tenants <- OneTenant
  Skew <- TwoNodesSkew
  MaxSkew = 1
  Rate = 1
  Burst = 1
  Cost = 2
  MaxTime = 3
  MaxCalls = 3
INVARIANTS
  LocalQuota
  OvershootIsSetback
PROPERTY QuotaSpec
CHECK_DEADLOCK FALSE
