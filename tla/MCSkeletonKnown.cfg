CONSTANTS
  specA = specA
  specB = specB
  specX = specX
  claim = claim
  extName = extName
  open = open
  empty = empty
  Paths <- AllPaths
  Size <- Sizes
  Malformed = {open}
  CompositeFields = {specA}
  ResourceFields = {specB}
  KnownComposite = {claim}
  KnownResource = {extName}
  Patches <- SomePatches
  MaxPatches = 2
  MaxParts = 2
  MaxRegistered = 1
SPECIFICATION Spec
INVARIANTS
  KnownPathsRegistered
