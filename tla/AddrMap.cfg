\* Three files in four addresses: nested and interleaved mappings occur.
SPECIFICATION Spec
CONSTANTS
  File = {exe, libc, locale}
  exe = exe
  libc = libc
  locale = locale
  Base = 2
  MaxAddr = 5
  MaxSym = 5
  Tables <- MCTables
SYMMETRY Symmetry
INVARIANTS
  TypeOK
  RangesCover
  ResolvesOwner
  ResolvesFunction
CHECK_DEADLOCK FALSE
