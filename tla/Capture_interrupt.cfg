\* The comment at backtraces.cpp:81: an interrupt ends the capture.
SPECIFICATION FairSpec
CONSTANTS
  t1 = t1
  t2 = t2
  t3 = t3
  Thread <- TwoThreads
  Leader = t1
  NoThread = NoThread
  Foreign = {}
  MaxFrames = 1
  MayCrash = FALSE
PROPERTIES
  InterruptEndsCapture
CHECK_DEADLOCK FALSE
