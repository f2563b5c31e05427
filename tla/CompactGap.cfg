SPECIFICATION Spec
CONSTANTS
  MaxSeq = 4
  MaxFile = 9
  MemCap = 1
  Trigger = 2
  SyncOnWrite = TRUE
  JournaledDir = TRUE
  Faults = {}
  QuietCompact = FALSE
  PowerFails = TRUE
  Closers = {}
  MaxCrashes = 0
INVARIANTS
  EveryImageOpens
CHECK_DEADLOCK FALSE
