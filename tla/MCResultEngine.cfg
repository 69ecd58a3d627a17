CONSTANTS
  Regions <- MCRegions
  SizeOf <- MCSizeOf
  Values = {0, 1}
  Types = {I32, F32}
  Ranges <- MCRanges
  MaxDistance = 2
  MaxSearches = 3
  MaxShortages = 1
SYMMETRY TypeSymmetry
SPECIFICATION Spec
INVARIANTS
  TypesAgree
  SnapshotMatchesAfterScan
PROPERTIES
  SearchesNarrow
