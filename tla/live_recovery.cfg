SPECIFICATION FairSpec
CONSTANTS
  j1 = j1
  j2 = j2
  j3 = j3
  b1 = b1
  Jobs = {j1, j2}
  Workers = {w1}
  Batches = {}
  BatchOf <- NoBatches
  MaxRetries = 1
  NoJob = NoJob
  NoWorker = NoWorker
  NoBatch = NoBatch
  Events = {"crash", "heartbeatLoopDies", "lostAck", "slowClaim", "schedulerRaises", "pushFails", "heartbeatInWindow"}
  MaxFaults = 1
  MaxInbox = 2
PROPERTIES
  ScheduledIsTransient
  RunningIsTransient
CHECK_DEADLOCK FALSE
