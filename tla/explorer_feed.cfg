SPECIFICATION Spec
CONSTANTS
  PAGE = 3
  Start = 2
  MaxHeight = 5
  MaxBranch = 1
  MaxFaults = 1
  Calls = {c1, c2}
  Blank = Blank
INVARIANTS
  RowsAreDistinct
  NewestFirst
PROPERTIES
  TipIsListed
