CONSTANTS
  a = a
  b = b
  c = c
  NoFile = NoFile
  Stale = Stale
  PoolSize = 2
  Paths <- TwoPaths
SPECIFICATION Spec
INVARIANTS
  ReturnedPluginExists
