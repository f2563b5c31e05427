SPECIFICATION FairSpec
CONSTANTS
  w1 = w1
  w2 = w2
  w3 = w3
  cl = cl
  Callers <- ThreeCallers
  Closer = cl
  Batches <- SmallBatches
  MaxRequests = 2
  MaxBytes = 3
  GroupRequests = 2
  GroupBytes = 2
  MaxOperations = 2
  Outcomes <- AllOutcomes
INVARIANTS
  SomeoneDrains
  ToldTheTruth
  QueueAccounted
  
  StoppedIsQuiet
PROPERTIES
  FollowersServed
  StopReturns
