SPECIFICATION CmdSpec
CONSTANTS
  CommandLines <- MCLines
  Roots <- MCRoots
  Info <- MCInfo
  Markers <- MCMarkers
  Plural <- MCPlural
  NoGroup = "none"
  Unset = Unset
INVARIANTS
  CmdTypeOK
  MarkersFromOwnGroup
  MarkersApplied
  NothingWrittenEarly
  ExitZeroMeansWritten
  UsageIfToBlame
