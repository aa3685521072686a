\* Three directories in 69 trees, paths of up to four directories.
SPECIFICATION FairSpec
CONSTANTS
  a = a
  b = b
  c = c
  Dir = {a, b, c}
  Disks <- MCDisks
  IdPlaces = 2
  MaxPath = 4
  SymbolDir = a
  CurrentDir = b
  SystemDir = c
INVARIANTS
  SearchIsExact
  LosesSymbolsOnlyHidden
PROPERTIES
  SearchEnds
CHECK_DEADLOCK FALSE
