SPECIFICATION FairSpec
CONSTANTS
  MaxSeq = 5
  MaxFile = 14
  MemCap = 1
  Trigger = 2
  SyncOnWrite = FALSE
  JournaledDir = TRUE
  Faults <- VisibleFaults
  QuietCompact = TRUE
  PowerFails = FALSE
  Closers = {}
  MaxCrashes = 0
INVARIANTS
  HandleMatchesDisk
  OnlyFaultsRaiseErrors
PROPERTIES
  StallsEndOrFail
  BackgroundWorkCompletes
CHECK_DEADLOCK FALSE
