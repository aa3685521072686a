\* Two threads that others may signal, a tracer that may be killed, the
\* child's fairness: safety, liveness and refinement.
SPECIFICATION FairSpec
CONSTANTS
  t1 = t1
  t2 = t2
  t3 = t3
  Thread <- TwoThreads
  Leader = t1
  NoThread = NoThread
  Foreign = {"usr1"}
  MaxFrames = 2
  MayCrash = TRUE
INVARIANTS
  TypeOK
  OnlyTheTurnIsHeld
  UnwindsStoppedThread
  SuccessAccountsForAll
  LeftoverStop
PROPERTIES
  NeverStopsTarget
  ImplementsCustody
  CaptureEnds
  EveryTrapEnds
CHECK_DEADLOCK FALSE
