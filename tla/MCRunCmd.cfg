CONSTANTS
  Limit = 3
SPECIFICATION FairSpec
INVARIANTS
  TypeOK
  ReturnsInTime
  SettledOutput
  SuccessIsComplete
  FailureHasCause
PROPERTIES
  TimeoutIsLogged
  Terminates
