SPECIFICATION Spec
CONSTANTS
  t1 = t1
  t2 = t2
  Threads <- TwoThreads
  Contents <- FewContents
  Inputs <- FewInputs
  Keys <- FewKeys
  Gets <- FewGets
  Scans <- FewScans
  Capacity = 4
  Interval = 2
  BlockBytes = 90
  MaxNumber = 3
  MaxFailures = 1
SYMMETRY ThreadSymmetry
INVARIANTS
  AnswersMatchTheTable
  CacheIsCoherent
  CacheIsAccounted
  BuiltTablesReadBack
CHECK_DEADLOCK FALSE
