SPECIFICATION Spec
CONSTANTS
  j1 = j1
  j2 = j2
  j3 = j3
  b1 = b1
  Jobs = {j1, j2, j3}
  Workers = {w1}
  Batches = {b1}
  BatchOf <- OneBatch
  MaxRetries = 1
  NoJob = NoJob
  NoWorker = NoWorker
  NoBatch = NoBatch
  Events = {}
  MaxFaults = 0
  MaxInbox = 2
INVARIANTS
  EndedBatchHasEnded
CHECK_DEADLOCK FALSE
