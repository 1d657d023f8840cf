CONSTANTS
  a = a
  b = b
  c = c
  NoFile = NoFile
  Stale = Stale
  PoolSize = 2
  Paths <- ThreePaths
SPECIFICATION Spec
INVARIANTS
  TypeOK
  IInv
  WaitGroupCounts
  ReportNeverBlocks
  ShutdownIsSafe
  NoWorkerOutlivesChannels
  NothingLost
  OneVerdict
  CompiledMeansBuilt
