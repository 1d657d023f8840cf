CONSTANTS
  Root = "Root"
  Index = "[0]"
  Tables <- SomeTables
  FieldPaths <- ShortPaths
  KnownPaths <- RegisteredPaths
SPECIFICATION Spec
INVARIANTS
  KnownIsRegistered
