CONSTANTS
  NoFile = NoFile
  Old = Old
  Torn = Torn
  NoBase = NoBase
  MaxAdded = 3
  Dirs <- RepoDirs
  OutFile <- RepoFiles
  Size <- RepoSizes
SPECIFICATION Spec
INVARIANTS
  TypeOK
  PrimaryFirst
  AllOrNothing
  ErrorsAreNotWritten
  EveryCompositionAccounted
  OwnTemplates
PROPERTIES
  ImplementsPublish
