SPECIFICATION FairSpec
CONSTANTS
  MaxSeq = 4
  MaxFile = 9
  MemCap = 1
  Trigger = 2
  SyncOnWrite = TRUE
  JournaledDir = TRUE
  Faults <- CloseFaults
  QuietCompact = TRUE
  PowerFails = TRUE
  Closers = {c1}
  MaxCrashes = 1
INVARIANTS
  ClosedIsDrained
  AckedReadable
  AckedRecoverable
  LiveFilesKept
PROPERTIES
  CloseReturns
CHECK_DEADLOCK FALSE
