SPECIFICATION LifeFairSpec
CONSTANTS
  k1 = k1
  g1 = g1
  MainThread = MainThread
  EngineThread = EngineThread
  OtherThread = OtherThread
  Conns <- MCConns
  Rpcs <- MCRpcs
  MaxSignals = 1
  KeepAliveMax = 1
  BaseWorkers = 1
  MaxWorkers = 1
PROPERTY ShutsDownCleanly
CHECK_DEADLOCK FALSE
