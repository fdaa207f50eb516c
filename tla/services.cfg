SPECIFICATION ServicesSpec
CONSTANTS
  j1 = j1
  j2 = j2
  c1 = c1
  c2 = c2
  c3 = c3
  Jobs = {j1}
  NoJob = NoJob
  RequestsOf <- MCRequestsOf
  MaxRetries = 1
  MaxFaults = 2
  QueueJobs = {j1, j2}
  NoQueueJob = NoJob
  Workers = {w1}
  NoWorker = NoWorker
  Submissions = {r1}
  JobsOf <- MCJobsOf
  Scheduler = Scheduler
  PriorityOf <- MCPriorityOf
  QueueMaxFaults = 1
  TxJobs = {j1, j2}
  NoTxJob = NoJob
  TxRetries = 1
  MaxEvents = 2
  MaxOpen = 2
  Containers = {c1, c2, c3}
  IdOf <- MCIdOf
  SlotOf <- MCSlotOf
  NoSlot = NoSlot
INVARIANTS
  HostTypeOK
  PublishedIsWhole
  NoProcessOutlivesItsJob
  QueueTypeOK
  MembersHaveEntries
  OnlyInterruptionsStrand
  TxTypeOK
  OneScheduledJob
  IdentityIsExclusive
PROPERTIES
  PredictionFromWholeData
  CleanupSparesExecution
  EveryRunEnds
  ScratchIsReclaimed
  StartsOnlyAssigned
  PriorityIsRespected
  AssignedIsResent
  QueuedIsDispatched
  SettledOutcomeIsFinal
  CancelRequestIsSeen
  VerdictSettles
  WorkerRowSettles
  SlotIsNotLocked
CHECK_DEADLOCK FALSE
