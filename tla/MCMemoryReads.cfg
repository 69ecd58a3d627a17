CONSTANTS
  AddressBits = 4
  PointerWidth = 2
  Pointer <- MCPointer
  Layouts <- MCLayouts
  ReadOnly <- MCReadOnly
  OwnStack <- MCOwnStack
  Ranges <- MCRanges
  Options <- MCOptions
  Pages <- MCPages
  MaxChanges = 2
SPECIFICATION FairSpec
INVARIANTS
  NoPointerIsMissed
  PointersAreTrue
  LimitsAreKept
  PageIsExact
PROPERTIES
  ReadsEnd
\* A behaviour ends with the call in which the target has changed.
CHECK_DEADLOCK FALSE
