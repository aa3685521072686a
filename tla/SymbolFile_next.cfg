\* The comment at bfd_cache.cpp:116: what one place does not have, the next may.
SPECIFICATION Spec
CONSTANTS
  a = a
  b = b
  c = c
  Dir = {a, b, c}
  Disks <- MCDisks
  IdPlaces = 2
  MaxPath = 2
  SymbolDir = a
  CurrentDir = b
  SystemDir = c
INVARIANT FindsFileWithSymbols
CHECK_DEADLOCK FALSE
