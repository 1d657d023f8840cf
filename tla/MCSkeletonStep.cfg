CONSTANTS
  specA = specA
  specB = specB
  specX = specX
  claim = claim
  extName = extName
  open = open
  empty = empty
  Paths <- AllPaths
  Size <- Sizes
  Malformed = {open}
  CompositeFields = {specA}
  ResourceFields = {specB}
  KnownComposite = {claim}
  KnownResource = {extName}
  Patches <- TwoPatches
  MaxPatches = 1
  MaxParts = 1
  MaxRegistered = 0
SPECIFICATION Spec
INVARIANTS
  StepPatchesRegisterFunction
