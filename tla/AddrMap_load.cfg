\* The comment at bfd_cache.cpp:45-58: the first symbol tells how a file is linked.
SPECIFICATION Spec
CONSTANTS
  File = {exe}
  exe = exe
  Base = 4
  MaxAddr = 5
  MaxSym = 5
  Tables <- WeakTables
INVARIANT LoadAddrIsCorrect
CHECK_DEADLOCK FALSE
