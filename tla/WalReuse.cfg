SPECIFICATION Spec
CONSTANTS
  BatchSizes = {1, 2}
  MemLimit = 2
  MaxSequence = 5
  MaxWrites = 5
  MaxFaults = 2
  MaxCrashes = 3
  StopsAfterError = FALSE
  WrittenBack = TRUE
INVARIANT
  ReopenRecoversAcked
CHECK_DEADLOCK FALSE
