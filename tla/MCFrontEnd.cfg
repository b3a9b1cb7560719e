SPECIFICATION FairSpec
CONSTANTS
  k1 = k1
  k2 = k2
  g1 = g1
  Conns <- MCConns
  Rpcs <- MCRpcs
  Endpoint <- MCEndpoint
  KeepAliveMax = 2
  BaseWorkers = 1
  MaxWorkers = 2
  MaxSlots = 1
INVARIANTS
  FrontInv
  CallsHoldWorkers
  RefusedNeverServed
  DepthCoversEngine
  NobodyWaitsInVain
PROPERTIES
  TrafficSpec
  CallsReplied
  PlainRepliedUnlessBlocked
CHECK_DEADLOCK FALSE
