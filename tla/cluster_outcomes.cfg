SPECIFICATION Spec
CONSTANTS
  j1 = j1
  j2 = j2
  j3 = j3
  b1 = b1
  Jobs = {j1}
  Workers = {w1, w2}
  Batches = {}
  BatchOf <- NoBatches
  MaxRetries = 1
  NoJob = NoJob
  NoWorker = NoWorker
  NoBatch = NoBatch
  Events = {"cancel", "heartbeatInWindow", "fastRestart", "crash", "heartbeatLoopDies", "lateHeartbeat", "slowClaim", "apiRaises", "schedulerRaises", "pushFails"}
  MaxFaults = 2
  MaxInbox = 2
SYMMETRY MCSymmetry
INVARIANTS
  ClusterTypeOK
  AttemptsPaidFor
PROPERTIES
  ReleasedOutcomeIsFinal
  SuccessOverwrittenOnlyIfRetried
CHECK_DEADLOCK FALSE
