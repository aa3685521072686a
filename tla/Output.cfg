\* Live captures of up to three threads, files of up to two, stacks of up to two.
SPECIFICATION Spec
CONSTANTS
  Tid = {1, 2, 3}
  Addr = {1, 2}
  Blank = {2}
  MaxThreads = 3
  MaxRead = 2
  MaxDepth = 2
  MinDepths <- MCMinDepths
  WordSize = 16
INVARIANTS
  OutputTypeOK
  PrintsCapture
  HandedOver
  AcceptedKeepsFrames
  EachDeepThreadOnce
  SortedWithinPart
  PriorityFirst
CHECK_DEADLOCK FALSE
