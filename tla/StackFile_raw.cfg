\* Usage at config.cpp:53, raw captures are valid input files.
SPECIFICATION Spec
CONSTANTS
  Tid = {1, 2}
  Addr = {1, 2}
  Blank = {2}
  MaxThreads = 2
  MaxRead = 2
  MaxDepth = 2
  MinDepths <- MCMinDepths
  WordSize = 16
INVARIANTS
  RawCaptureReadsBack
CHECK_DEADLOCK FALSE
