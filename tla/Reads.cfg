SPECIFICATION Spec
CONSTANTS
  s1 = s1
  s2 = s2
  Keys = {1, 2}
  Batches <- FewBatches
  Handles <- TwoHandles
  Limits = {0, 1}
  MemLimit = 1
  Trigger = 2
  MaxSequence = 4
  MaxReopens = 1
SYMMETRY HandleSymmetry
INVARIANTS
  ScanAgreesWithGet
  SourcesAreOrdered
PROPERTIES
  ImplementsSnapshotStore
CHECK_DEADLOCK FALSE
