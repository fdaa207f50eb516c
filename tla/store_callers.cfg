SPECIFICATION StoreSpec
CONSTANTS
  j1 = j1
  j2 = j2
  j3 = j3
  b1 = b1
  Jobs = {j1, j2, j3}
  Workers = {w1}
  Batches = {b1}
  BatchOf <- MCBatchOf
  MaxRetries = 1
  NoJob = NoJob
  NoWorker = NoWorker
  NoBatch = NoBatch
SYMMETRY MCSymmetry
INVARIANTS
  StoreTypeOK
  AssignmentLedger
  QueuedIsUnassigned
  OneDispatchPerWorker
  BatchAgrees
  RetryBudget
PROPERTIES
  RequeueIsCharged
  CancelRequestKept
CHECK_DEADLOCK FALSE
