SPECIFICATION LifeFairSpec
CONSTANTS
  k1 = k1
  g1 = g1
  MainThread = MainThread
  EngineThread = EngineThread
  OtherThread = OtherThread
  Conns <- MCConns
  Rpcs <- MCRpcs
  MaxSignals = 2
  KeepAliveMax = 1
  BaseWorkers = 1
  MaxWorkers = 1
INVARIANTS
  LifeInv
  SafeTeardown
  NeverStuck
CHECK_DEADLOCK FALSE
PROPERTIES
  EndDrawsNear
  EndsUnlessHung
  AnsweredCallsReply
