\* Two threads, interrupts at any time, the child may be killed.
SPECIFICATION MainFairSpec
CONSTANTS
  t1 = t1
  t2 = t2
  Thread <- TwoThreads
  Leader = t1
  NoThread = NoThread
  Foreign = {}
  MaxFrames = 1
  MayCrash = TRUE
INVARIANTS
  MainTypeOK
  ParsesOwnSegment
  PrintsWholeCapture
  InterruptSparesTarget
  ParentOutlivesChild
  TargetIsFreeAtEnd
  SegmentLeaks
PROPERTIES
  MainEnds
CHECK_DEADLOCK FALSE
