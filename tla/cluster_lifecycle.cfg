SPECIFICATION Spec
CONSTANTS
  j1 = j1
  j2 = j2
  j3 = j3
  b1 = b1
  Jobs = {j1, j2}
  Workers = {w1, w2}
  Batches = {}
  BatchOf <- NoBatches
  MaxRetries = 1
  NoJob = NoJob
  NoWorker = NoWorker
  NoBatch = NoBatch
  Events = {"crash", "slowClaim", "apiRaises", "schedulerRaises"}
  MaxFaults = 2
  MaxInbox = 1
SYMMETRY MCSymmetry
INVARIANTS
  RunningJobIsWatched
PROPERTIES
  ImplementsLifecycle
CHECK_DEADLOCK FALSE
