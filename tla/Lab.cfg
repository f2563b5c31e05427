\* Session, workload and recovery experiments.
SPECIFICATION FairSpec
CONSTANTS
  starter = starter
  other = other
  p1 = p1
  p2 = p2
  Clients <- TwoClients
  Mixes <- WorkloadsOrRecovery
  Paths <- TwoPaths
  NoPath = none
  Written = {"client"}
  OperationCount = 2
  ReopenEvery = 2
  MaxRuns = 2
  MaxFaults = 1
  Scenarios = {"unclean", "truncated", "crc"}
  MaxCopies = 2
INVARIANTS
  WorkloadOwnsWrites
  RunsOneAtATime
  CompletedIsCompared
  RunsMatchSandboxes
PROPERTIES
  CancelEnds
CHECK_DEADLOCK FALSE
