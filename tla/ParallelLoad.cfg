\* Up to five files, four processors and three threads: all remainders occur.
SPECIFICATION FairSpec
CONSTANTS
  MaxLoads = 5
  MaxHardware = 4
  MaxThreads = 3
INVARIANTS
  TypeOK
  NoSharedEntry
  LoadedExactlyOnce
  NoWorkerLeftBehind
PROPERTIES
  LoadEnds
CHECK_DEADLOCK FALSE
