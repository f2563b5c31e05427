SPECIFICATION Spec
CONSTANTS
  MaxSeq = 4
  MaxFile = 12
  MemCap = 1
  Trigger = 2
  SyncOnWrite = TRUE
  JournaledDir = TRUE
  Faults <- CleanupFaults
  QuietCompact = TRUE
  PowerFails = TRUE
  Closers = {}
  MaxCrashes = 2
INVARIANTS
  TypeOK
  RecoveryIsPrefix
  AckedRecoverable
  EveryImageOpens
  SequencesFresh
  OutputNumberUnclaimed
  WorkerOutputAccepted
CHECK_DEADLOCK FALSE
