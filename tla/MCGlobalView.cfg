CONSTANTS
  Images = {i1, i2}
  MaxLaunches = 2
SPECIFICATION Spec
INVARIANTS
  WholeImages
  FreshStart
