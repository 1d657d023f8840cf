CONSTANTS
  a = a
  b = b
  c = c
  NoFile = NoFile
  Stale = Stale
  PoolSize = 2
  Paths <- NoPaths
SPECIFICATION FairSpec
PROPERTIES
  Termination
CHECK_DEADLOCK FALSE
