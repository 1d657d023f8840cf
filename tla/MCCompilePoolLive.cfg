CONSTANTS
  a = a
  b = b
  c = c
  NoFile = NoFile
  Stale = Stale
  PoolSize = 3
  Paths <- TwoPaths
SPECIFICATION FairSpec
PROPERTIES
  FailureIsLogged
  ImplementsCompileAll
