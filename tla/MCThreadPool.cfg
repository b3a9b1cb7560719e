SPECIFICATION FairSpec
CONSTANTS
  ja = ja
  jb = jb
  jc = jc
  base = base
  dyn1 = dyn1
  dyn2 = dyn2
  dyn3 = dyn3
  NoJob = NoJob
  Jobs <- MCJobs
  Threads <- MCThreads
  BaseThreads <- MCBase
  MaxThreads = 3
INVARIANTS
  PoolInv
  PoolBounded
  NobodyIsStranded
PROPERTIES
  QueueSpec
  ShutdownProgresses
  AcceptedJobsRun
  ShutdownEnds
CHECK_DEADLOCK FALSE
