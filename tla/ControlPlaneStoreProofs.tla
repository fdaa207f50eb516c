---------------------- MODULE ControlPlaneStoreProofs ----------------------
(***************************************************************************)
(* What ControlPlaneStore guarantees, for any number of jobs, workers,     *)
(* batches and retries.                                                    *)
(*                                                                         *)
(* The invariants are proved together: which rows are open (Ledger) rests  *)
(* on which jobs are assigned, the retry rules on both, and CreateBatch is *)
(* harmless only because the jobs of an absent batch are absent, which is  *)
(* the one conjunct of StoreInv that is not itself a property.             *)
(***************************************************************************)
EXTENDS ControlPlaneStore, TLAPS

AbsentBatchHasNoJobs ==
  \A j \in Jobs : BatchOf[j] \in Batches /\ batchStatus[BatchOf[j]] = "absent"
                    => jobStatus[j] = "absent"

-----------------------------------------------------------------------------
(* Batches                                                                   *)

\* A verdict is a status a stored batch may have.
LEMMA VerdictType == ASSUME NEW S PROVE BatchVerdict(S) \in BatchStatus \ {"absent"}
  BY DEF BatchVerdict, BatchStatus

\* Refreshing batches keeps the column to its type.
LEMMA RefreshType ==
  ASSUME batchStatus \in [Batches -> BatchStatus], NEW J, RefreshBatches(J)
  PROVE  batchStatus' \in [Batches -> BatchStatus]
  BY VerdictType DEF RefreshBatches

-----------------------------------------------------------------------------
(* Types                                                                     *)

\* The empty tables have their types.
LEMMA TypeInit == StoreInit => StoreTypeOK
  BY StoreAssumption
  DEF StoreInit, StoreTypeOK, JobStatus, BatchStatus, WorkerStatus, Assignment

\* Every method keeps every column to its type.
LEMMA TypeStep ==
  ASSUME StoreTypeOK, [StoreNext]_storeVars
  PROVE  StoreTypeOK'
<1> USE StoreAssumption DEF StoreTypeOK
<1>1. ASSUME NEW j \in Jobs, CreateJob(j) PROVE StoreTypeOK'
  BY <1>1 DEF CreateJob, JobStatus
<1>2. ASSUME NEW j \in Jobs, CancelJob(j) PROVE StoreTypeOK'
  <2>1. CASE CancelQueuedJob(j)
    BY <2>1, RefreshType DEF CancelQueuedJob, JobStatus, TerminalStatus
  <2>2. CASE CancelScheduledJob(j)
    <3>1. batchStatus' \in [Batches -> BatchStatus]
      BY <2>2, RefreshType DEF CancelScheduledJob
    <3> QED BY <2>2, <3>1
        DEF CancelScheduledJob, ReleaseWorkerForJob, OtherRows, JobStatus, TerminalStatus,
            WorkerStatus
  <2>3. CASE RequestCancel(j)
    BY <2>3, RefreshType DEF RequestCancel
  <2> QED BY <1>2, <2>1, <2>2, <2>3 DEF CancelJob
<1>3. ASSUME NEW j \in Jobs, RetryDelayElapses(j) PROVE StoreTypeOK'
  BY <1>3 DEF RetryDelayElapses
<1>4. ASSUME NEW b \in Batches, CreateBatch(b) PROVE StoreTypeOK'
  BY <1>4, VerdictType DEF CreateBatch, JobStatus
<1>5. ASSUME NEW w \in Workers, NEW j \in Jobs \union {NoJob}, UpsertWorkerHeartbeat(w, j)
      PROVE  StoreTypeOK'
  <2>1. PICK k \in KeptJobs(w, j) :
          /\ workerStatus' = [workerStatus EXCEPT ![w] = IF k = NoJob THEN "idle" ELSE "busy"]
          /\ runningJob' = [runningJob EXCEPT ![w] = k]
    BY <1>5 DEF UpsertWorkerHeartbeat
  <2>2. k \in Jobs \union {NoJob}
    BY DEF KeptJobs, ActiveJobsOf
  <2> QED BY <1>5, <2>1, <2>2 DEF UpsertWorkerHeartbeat, WorkerStatus
<1>6. ASSUME NEW Retried, NEW Ended, NEW end \in TerminalStatus,
             TransitionAfterFailure(Retried, Ended, end)
      PROVE  /\ jobStatus'       \in [Jobs -> JobStatus]
             /\ assignedWorker'  \in [Jobs -> Workers \union {NoWorker}]
             /\ retryCount'      \in [Jobs -> Nat]
             /\ retryWait'       \in [Jobs -> BOOLEAN]
             /\ cancelRequested' \in [Jobs -> BOOLEAN]
             /\ batchStatus'     \in [Batches -> BatchStatus]
  <2> USE <1>6 DEF TransitionAfterFailure
  <2>1. jobStatus' \in [Jobs -> JobStatus]
    BY DEF JobStatus, TerminalStatus
  <2>2. assignedWorker' \in [Jobs -> Workers \union {NoWorker}]
    BY DEF Unassign
  <2>3. retryCount' \in [Jobs -> Nat]
    BY DEF Charged
  <2>4. retryWait' \in [Jobs -> BOOLEAN]
    OBVIOUS
  <2>5. cancelRequested' \in [Jobs -> BOOLEAN]
    OBVIOUS
  <2>6. batchStatus' \in [Batches -> BatchStatus]
    BY RefreshType
  <2> QED BY <2>1, <2>2, <2>3, <2>4, <2>5, <2>6
<1>7. CASE MarkStaleWorkersOffline
  BY <1>6, <1>7 DEF MarkStaleWorkersOffline, TerminalStatus, WorkerStatus
<1>8. CASE RequeueStaleScheduledJobs
  BY <1>8, RefreshType DEF RequeueStaleScheduledJobs, Unassign, JobStatus, WorkerStatus
<1>9. ASSUME NEW j \in Jobs, NEW w \in Workers, AssignJobToWorker(j, w) PROVE StoreTypeOK'
  <2>0. [job |-> j, worker |-> w, claimed |-> FALSE, overdue |-> FALSE] \in Assignment
    BY DEF Assignment
  <2>1. openAssignments' \in SUBSET Assignment
    BY <1>9, <2>0 DEF AssignJobToWorker, CreateAssignment
  <2>2. batchStatus' \in [Batches -> BatchStatus]
    BY <1>9, RefreshType DEF AssignJobToWorker
  <2>3. workerStatus' \in [Workers -> WorkerStatus] /\ runningJob' \in [Workers -> Jobs \union {NoJob}]
    BY <1>9 DEF AssignJobToWorker, WorkerStatus
  <2> QED BY <1>9, <2>1, <2>2, <2>3 DEF AssignJobToWorker, JobStatus, ActiveStatus
<1>10. ASSUME NEW j \in Jobs, NEW w \in Workers, RevertScheduledJob(j, w) PROVE StoreTypeOK'
  <2>1. batchStatus' \in [Batches -> BatchStatus]
    BY <1>10, RefreshType DEF RevertScheduledJob
  <2>2. workerStatus' \in [Workers -> WorkerStatus] /\ runningJob' \in [Workers -> Jobs \union {NoJob}]
    BY <1>10 DEF RevertScheduledJob, WorkerStatus
  <2> QED BY <1>10, <2>1, <2>2 DEF RevertScheduledJob, Unassign, OtherRows, JobStatus
<1>11. ASSUME NEW j \in Jobs, NEW w \in Workers, MarkJobRunning(j, w) PROVE StoreTypeOK'
  <2>1. \A r \in Assignment : [r EXCEPT !.claimed = TRUE] \in Assignment
    BY DEF Assignment
  <2>2. openAssignments' \in SUBSET Assignment
    BY <1>11, <2>1 DEF MarkJobRunning
  <2> QED BY <1>11, <2>2, RefreshType DEF MarkJobRunning, JobStatus, ActiveStatus
<1>12. ASSUME NEW j \in Jobs, NEW w \in Workers, CompleteJobSuccess(j, w) PROVE StoreTypeOK'
  <2>1. batchStatus' \in [Batches -> BatchStatus]
    BY <1>12, RefreshType DEF CompleteJobSuccess
  <2> QED BY <1>12, <2>1 DEF CompleteJobSuccess, ReleaseWorkerForJob, OtherRows, JobStatus,
        TerminalStatus, WorkerStatus
<1>13. ASSUME NEW j \in Jobs, NEW w \in Workers, NEW transient \in BOOLEAN,
              NEW canceled \in BOOLEAN, CompleteJobFailure(j, w, transient, canceled)
       PROVE  StoreTypeOK'
  <2>1. /\ openAssignments' \in SUBSET Assignment
        /\ workerStatus' \in [Workers -> WorkerStatus]
        /\ runningJob' \in [Workers -> Jobs \union {NoJob}]
        /\ heartbeatStale' \in [Workers -> BOOLEAN]
    BY <1>13 DEF CompleteJobFailure, ReleaseWorkerForJob, OtherRows, WorkerStatus
  <2>2. (IF canceled THEN "canceled" ELSE "failed") \in TerminalStatus
    BY DEF TerminalStatus
  <2> QED BY <1>6, <1>13, <2>1, <2>2 DEF CompleteJobFailure
<1>14. ASSUME NEW w \in Workers, HeartbeatAges(w) PROVE StoreTypeOK'
  BY <1>14 DEF HeartbeatAges
<1>15. ASSUME NEW r \in openAssignments, AssignmentAges(r) PROVE StoreTypeOK'
  BY <1>15 DEF AssignmentAges, Assignment
<1>16. CASE UNCHANGED storeVars
  BY <1>16 DEF storeVars
<1> QED BY <1>1, <1>2, <1>3, <1>4, <1>5, <1>7, <1>8, <1>9, <1>10, <1>11, <1>12, <1>13,
           <1>14, <1>15, <1>16 DEF StoreNext

\* The columns always keep to their types (models.py).
THEOREM TypeCorrect == StoreSpec => []StoreTypeOK
  BY TypeInit, TypeStep, PTL DEF StoreSpec
-----------------------------------------------------------------------------
(* What one method may do to one job, and to one batch                       *)

Keeps(j) ==
  retryCount'[j] = retryCount[j] /\ (cancelRequested[j] => cancelRequested'[j])

Rests(j) ==
  /\ jobStatus'[j] = jobStatus[j] /\ assignedWorker'[j] = assignedWorker[j]
  /\ Keeps(j) /\ (retryWait'[j] => retryWait[j])

Enters(j) ==
  /\ jobStatus[j] = "absent" /\ jobStatus'[j] = "queued"
  /\ assignedWorker'[j] = assignedWorker[j]
  /\ Keeps(j) /\ (retryWait'[j] => retryWait[j])

GetsWorker(j) ==
  /\ jobStatus[j] = "queued" /\ jobStatus'[j] = "scheduled"
  /\ assignedWorker'[j] \in Workers
  /\ Keeps(j) /\ ~retryWait'[j]

GoesBack(j) ==
  /\ jobStatus[j] = "scheduled" /\ jobStatus'[j] = "queued"
  /\ assignedWorker'[j] = NoWorker
  /\ Keeps(j) /\ (retryWait'[j] => retryWait[j])

Starts(j) ==
  /\ jobStatus[j] \notin {"absent", "queued"} /\ jobStatus'[j] = "running"
  /\ assignedWorker'[j] = assignedWorker[j] /\ assignedWorker[j] \in Workers
  /\ Keeps(j) /\ ~retryWait'[j]

Ends(j) ==
  /\ jobStatus[j] # "absent" /\ jobStatus'[j] \in TerminalStatus
  /\ assignedWorker'[j] = assignedWorker[j]
  /\ Keeps(j) /\ (retryWait'[j] => jobStatus'[j] = "canceled")

Retries(j) ==
  /\ jobStatus[j] # "absent" /\ jobStatus'[j] = "queued"
  /\ assignedWorker'[j] = NoWorker
  /\ retryCount[j] < MaxRetries /\ retryCount'[j] = retryCount[j] + 1

JobMove(j) ==
  Rests(j) \/ Enters(j) \/ GetsWorker(j) \/ GoesBack(j) \/ Starts(j) \/ Ends(j) \/ Retries(j)

BatchMove(b) ==
  \/ batchStatus'[b] = BatchVerdict(StatusesIn(b, jobStatus'))
  \/ /\ batchStatus'[b] = batchStatus[b]
     /\ \A j \in Jobs : BatchOf[j] = b => jobStatus'[j] = jobStatus[j]

\* A method that refreshes the batches of all jobs it moves moves every batch
\* as it should.
LEMMA RefreshMoves ==
  ASSUME NEW J, RefreshBatches(J),
         \A j \in Jobs : jobStatus'[j] # jobStatus[j] => j \in J
  PROVE  \A b \in Batches : BatchMove(b)
  BY DEF RefreshBatches, BatchMove

\* What a failure does to the jobs it is about and to all others.
LEMMA FailureMoves ==
  ASSUME StoreTypeOK, NEW Retried, NEW Ended, NEW end \in TerminalStatus,
         TransitionAfterFailure(Retried, Ended, end),
         \A j \in Retried : jobStatus[j] # "absent" /\ MayRetry(j),
         \A j \in Ended : jobStatus[j] # "absent"
  PROVE  /\ \A j \in Jobs : JobMove(j)
         /\ \A b \in Batches : BatchMove(b)
<1>1. SUFFICES ASSUME NEW j \in Jobs
               PROVE  JobMove(j)
  BY RefreshMoves DEF TransitionAfterFailure
<1>2. CASE j \in Retried
  BY <1>2 DEF TransitionAfterFailure, Unassign, Charged, MayRetry, JobMove, Retries
<1>3. CASE j \notin Retried /\ j \in Ended
  BY <1>3 DEF TransitionAfterFailure, Unassign, StoreTypeOK, JobMove, Ends, Keeps
<1>4. CASE j \notin Retried /\ j \notin Ended
  BY <1>4 DEF TransitionAfterFailure, Unassign, StoreTypeOK, JobMove, Rests, Keeps
<1> QED BY <1>2, <1>3, <1>4

\* Every job and every batch moves in one of these ways in every step.
LEMMA Moves ==
  ASSUME StoreTypeOK, QueuedIsUnassigned, AssignmentLedger, AbsentBatchHasNoJobs,
         [StoreNext]_storeVars
  PROVE  /\ \A j \in Jobs : JobMove(j)
         /\ \A b \in Batches : BatchMove(b)
<1> DEFINE AllMove == (\A j \in Jobs : JobMove(j)) /\ (\A b \in Batches : BatchMove(b))
<1> USE StoreAssumption DEF StoreTypeOK
<1>1. ASSUME NEW j \in Jobs, CreateJob(j) PROVE AllMove
  BY <1>1 DEF CreateJob, Exists, JobMove, Rests, Enters, Keeps, BatchMove
<1>2. ASSUME NEW j \in Jobs, CancelJob(j) PROVE AllMove
  <2>1. CASE CancelQueuedJob(j)
    BY <2>1, RefreshMoves
    DEF CancelQueuedJob, TerminalStatus, JobMove, Rests, Ends, Keeps
  <2>2. CASE CancelScheduledJob(j)
    BY <2>2, RefreshMoves
    DEF CancelScheduledJob, TerminalStatus, JobMove, Rests, Ends, Keeps
  <2>3. CASE RequestCancel(j)
    BY <2>3, RefreshMoves DEF RequestCancel, JobMove, Rests, Keeps
  <2> QED BY <1>2, <2>1, <2>2, <2>3 DEF CancelJob
<1>3. ASSUME NEW j \in Jobs, RetryDelayElapses(j) PROVE AllMove
  BY <1>3 DEF RetryDelayElapses, JobMove, Rests, Keeps, BatchMove
<1>4. ASSUME NEW b \in Batches, CreateBatch(b) PROVE AllMove
  BY <1>4 DEF CreateBatch, AbsentBatchHasNoJobs, JobMove, Rests, Enters, Keeps, BatchMove
<1>5. ASSUME NEW w \in Workers, NEW j \in Jobs \union {NoJob}, UpsertWorkerHeartbeat(w, j)
      PROVE  AllMove
  BY <1>5 DEF UpsertWorkerHeartbeat, JobMove, Rests, Keeps, BatchMove
<1>7. CASE MarkStaleWorkersOffline
  BY <1>7, FailureMoves DEF MarkStaleWorkersOffline, TerminalStatus, ActiveStatus
<1>8. CASE RequeueStaleScheduledJobs
  <2> DEFINE J == {r.job : r \in UnclaimedOverdue}
  <2>1. \A j \in J : jobStatus[j] = "scheduled"
    BY DEF UnclaimedOverdue
  <2>2. RefreshBatches(J) /\ \A j \in Jobs : jobStatus'[j] # jobStatus[j] => j \in J
    BY <1>8 DEF RequeueStaleScheduledJobs
  <2>3. \A j \in Jobs : JobMove(j)
    BY <1>8, <2>1 DEF RequeueStaleScheduledJobs, Unassign, JobMove, Rests, GoesBack, Keeps
  <2> HIDE DEF J
  <2> QED BY <2>2, <2>3, RefreshMoves
<1>9. ASSUME NEW j \in Jobs, NEW w \in Workers, AssignJobToWorker(j, w) PROVE AllMove
  BY <1>9, RefreshMoves
  DEF AssignJobToWorker, Ready, JobMove, Rests, GetsWorker, Keeps
<1>10. ASSUME NEW j \in Jobs, NEW w \in Workers, RevertScheduledJob(j, w) PROVE AllMove
  BY <1>10, RefreshMoves
  DEF RevertScheduledJob, ScheduledTo, Unassign, JobMove, Rests, GoesBack, Keeps
<1>11. ASSUME NEW j \in Jobs, NEW w \in Workers, MarkJobRunning(j, w) PROVE AllMove
  BY <1>11, RefreshMoves
  DEF MarkJobRunning, QueuedIsUnassigned, JobMove, Rests, Starts, Keeps
<1>12. ASSUME NEW j \in Jobs, NEW w \in Workers, CompleteJobSuccess(j, w) PROVE AllMove
  BY <1>12, RefreshMoves
  DEF CompleteJobSuccess, Exists, TerminalStatus, JobMove, Rests, Ends, Keeps
<1>13. ASSUME NEW j \in Jobs, NEW w \in Workers, NEW transient \in BOOLEAN,
              NEW canceled \in BOOLEAN, CompleteJobFailure(j, w, transient, canceled)
       PROVE  AllMove
  <2>1. (IF canceled THEN "canceled" ELSE "failed") \in TerminalStatus
    BY DEF TerminalStatus
  <2> QED BY <1>13, <2>1, FailureMoves DEF CompleteJobFailure, Exists
<1>14. ASSUME NEW w \in Workers, HeartbeatAges(w) PROVE AllMove
  BY <1>14 DEF HeartbeatAges, JobMove, Rests, Keeps, BatchMove
<1>15. ASSUME NEW r \in openAssignments, AssignmentAges(r) PROVE AllMove
  BY <1>15 DEF AssignmentAges, JobMove, Rests, Keeps, BatchMove
<1>16. CASE UNCHANGED storeVars
  BY <1>16 DEF storeVars, JobMove, Rests, Keeps, BatchMove
<1> QED BY <1>1, <1>2, <1>3, <1>4, <1>5, <1>7, <1>8, <1>9, <1>10, <1>11, <1>12, <1>13,
           <1>14, <1>15, <1>16 DEF StoreNext
-----------------------------------------------------------------------------
(* The assignment ledger                                                     *)

\* Closing the open row of one job, when nothing else is moved, keeps the
\* ledger if that job is not left SCHEDULED.
LEMMA CloseRows ==
  ASSUME StoreTypeOK, AssignmentLedger, NEW J,
         openAssignments' = {r \in openAssignments : r.job \notin J},
         \A j \in Jobs \ J : jobStatus'[j] = jobStatus[j] /\ assignedWorker'[j] = assignedWorker[j],
         \A j \in J \intersect Jobs : jobStatus'[j] # "scheduled"
  PROVE  AssignmentLedger'
  BY DEF AssignmentLedger, StoreTypeOK, Assignment

\* Every method that moves a job moves its row along.
LEMMA LedgerStep ==
  ASSUME StoreTypeOK, QueuedIsUnassigned, AssignmentLedger, AbsentBatchHasNoJobs,
         [StoreNext]_storeVars
  PROVE  AssignmentLedger'
<1> USE StoreAssumption
<1>1. ASSUME NEW j \in Jobs, CreateJob(j) PROVE AssignmentLedger'
  BY <1>1 DEF CreateJob, Exists, AssignmentLedger, StoreTypeOK, ActiveStatus, Assignment
<1>2. ASSUME NEW j \in Jobs, CancelJob(j) PROVE AssignmentLedger'
  <2>1. CASE CancelQueuedJob(j)
    BY <2>1 DEF CancelQueuedJob, AssignmentLedger, StoreTypeOK, ActiveStatus, Assignment
  <2>2. CASE CancelScheduledJob(j)
    BY <2>2, CloseRows, openAssignments' = {r \in openAssignments : r.job \notin {j}}
    DEF CancelScheduledJob, ReleaseWorkerForJob, OtherRows, StoreTypeOK
  <2>3. CASE RequestCancel(j)
    BY <2>3 DEF RequestCancel, AssignmentLedger
  <2> QED BY <1>2, <2>1, <2>2, <2>3 DEF CancelJob
<1>3. ASSUME NEW j \in Jobs, RetryDelayElapses(j) PROVE AssignmentLedger'
  BY <1>3 DEF RetryDelayElapses, AssignmentLedger
<1>4. ASSUME NEW b \in Batches, CreateBatch(b) PROVE AssignmentLedger'
  BY <1>4 DEF CreateBatch, AbsentBatchHasNoJobs, AssignmentLedger, StoreTypeOK, ActiveStatus,
              Assignment
<1>5. ASSUME NEW w \in Workers, NEW j \in Jobs \union {NoJob}, UpsertWorkerHeartbeat(w, j)
      PROVE  AssignmentLedger'
  BY <1>5 DEF UpsertWorkerHeartbeat, AssignmentLedger
<1>7. CASE MarkStaleWorkersOffline
  <2> DEFINE Lost == {j \in Jobs : jobStatus[j] \in ActiveStatus
                                     /\ \E w \in StaleWorkers : runningJob[w] = j}
             Retried == {j \in Lost : MayRetry(j)}
  <2>1. /\ openAssignments' = {r \in openAssignments : r.job \notin Lost}
        /\ TransitionAfterFailure(Retried, Lost \ Retried, "failed")
    BY <1>7 DEF MarkStaleWorkersOffline
  <2>2. \A j \in Jobs \ Lost : jobStatus'[j] = jobStatus[j] /\ assignedWorker'[j] = assignedWorker[j]
    BY <2>1 DEF TransitionAfterFailure, Unassign
  <2>3. \A j \in Lost \intersect Jobs : jobStatus'[j] # "scheduled"
    BY <2>1 DEF TransitionAfterFailure
  <2> HIDE DEF Lost, Retried
  <2> QED BY <2>1, <2>2, <2>3, CloseRows
<1>8. CASE RequeueStaleScheduledJobs
  <2> DEFINE J == {r.job : r \in UnclaimedOverdue}
  <2>1. \A r \in openAssignments : r \in UnclaimedOverdue <=> r.job \in J
    BY DEF UnclaimedOverdue, AssignmentLedger
  <2>2. openAssignments' = {r \in openAssignments : r.job \notin J}
    BY <1>8, <2>1 DEF RequeueStaleScheduledJobs
  <2>3. \A j \in Jobs : IF j \in J THEN jobStatus'[j] = "queued"
                                   ELSE /\ jobStatus'[j] = jobStatus[j]
                                        /\ assignedWorker'[j] = assignedWorker[j]
    BY <1>8 DEF RequeueStaleScheduledJobs, Unassign
  <2> HIDE DEF J
  <2> QED BY <2>2, <2>3, CloseRows
<1>9. ASSUME NEW j \in Jobs, NEW w \in Workers, AssignJobToWorker(j, w) PROVE AssignmentLedger'
  <2> DEFINE new == [job |-> j, worker |-> w, claimed |-> FALSE, overdue |-> FALSE]
  <2>1. \A r \in openAssignments : r.job # j /\ r.worker # w
    BY <1>9 DEF AssignJobToWorker, Dispatchable, Ready, ActiveJobsOf, AssignmentLedger,
                StoreTypeOK, ActiveStatus, Assignment
  <2>2. openAssignments' = openAssignments \union {new}
    BY <1>9, <2>1 DEF AssignJobToWorker, CreateAssignment
  <2>3. /\ jobStatus' = [jobStatus EXCEPT ![j] = "scheduled"]
        /\ assignedWorker' = [assignedWorker EXCEPT ![j] = w]
    BY <1>9 DEF AssignJobToWorker
  <2>4. new.job = j /\ new.worker = w /\ new.claimed = FALSE
    OBVIOUS
  <2> HIDE DEF new
  <2>5. \A r \in openAssignments' :
          /\ jobStatus'[r.job] \in ActiveStatus
          /\ assignedWorker'[r.job] = r.worker
          /\ r.claimed <=> jobStatus'[r.job] = "running"
    <3>1. \A r \in openAssignments : /\ jobStatus'[r.job] = jobStatus[r.job]
                                      /\ assignedWorker'[r.job] = assignedWorker[r.job]
      BY <2>1, <2>3 DEF StoreTypeOK, Assignment
    <3>2. jobStatus'[j] = "scheduled" /\ assignedWorker'[j] = w
      BY <2>3 DEF StoreTypeOK
    <3> QED BY <2>2, <2>4, <3>1, <3>2 DEF AssignmentLedger, ActiveStatus
  <2>6. \A r, s \in openAssignments' : r.job = s.job => r = s
    BY <2>1, <2>2, <2>4 DEF AssignmentLedger
  <2>7. \A i \in Jobs : jobStatus'[i] = "scheduled" => \E r \in openAssignments' : r.job = i
    BY <2>2, <2>3, <2>4 DEF AssignmentLedger, StoreTypeOK
  <2> QED BY <2>5, <2>6, <2>7 DEF AssignmentLedger
<1>10. ASSUME NEW j \in Jobs, NEW w \in Workers, RevertScheduledJob(j, w) PROVE AssignmentLedger'
  BY <1>10, CloseRows, openAssignments' = {r \in openAssignments : r.job \notin {j}}
  DEF RevertScheduledJob, Unassign, OtherRows, StoreTypeOK
<1>11. ASSUME NEW j \in Jobs, NEW w \in Workers, MarkJobRunning(j, w) PROVE AssignmentLedger'
  <2>1. /\ jobStatus' = [jobStatus EXCEPT ![j] = "running"]
        /\ assignedWorker' = assignedWorker
        /\ openAssignments' = {IF r.job = j THEN [r EXCEPT !.claimed = TRUE] ELSE r :
                                 r \in openAssignments}
    BY <1>11 DEF MarkJobRunning
  <2>2. \A r \in Assignment :
          /\ [r EXCEPT !.claimed = TRUE].job = r.job
          /\ [r EXCEPT !.claimed = TRUE].worker = r.worker
          /\ [r EXCEPT !.claimed = TRUE].claimed = TRUE
    BY DEF Assignment
  <2> DEFINE next(r) == IF r.job = j THEN [r EXCEPT !.claimed = TRUE] ELSE r
  <2>3. \A r \in openAssignments : next(r).job = r.job /\ next(r).worker = r.worker
    BY <2>2 DEF StoreTypeOK
  <2>4. \A r \in openAssignments : next(r).claimed <=> r.job = j \/ r.claimed
    BY <2>2 DEF StoreTypeOK
  <2>5. openAssignments' = {next(r) : r \in openAssignments}
    BY <2>1
  <2> HIDE DEF next
  <2>6. \A s \in openAssignments' :
          /\ jobStatus'[s.job] \in ActiveStatus
          /\ assignedWorker'[s.job] = s.worker
          /\ s.claimed <=> jobStatus'[s.job] = "running"
    <3> SUFFICES ASSUME NEW r \in openAssignments
                 PROVE  /\ jobStatus'[r.job] \in ActiveStatus
                        /\ assignedWorker'[r.job] = r.worker
                        /\ next(r).claimed <=> jobStatus'[r.job] = "running"
      BY <2>3, <2>5
    <3>1. r.job \in Jobs
      BY DEF StoreTypeOK, Assignment
    <3>2. jobStatus'[r.job] = IF r.job = j THEN "running" ELSE jobStatus[r.job]
      BY <2>1, <3>1 DEF StoreTypeOK
    <3>3. /\ jobStatus[r.job] \in ActiveStatus /\ assignedWorker[r.job] = r.worker
          /\ r.claimed <=> jobStatus[r.job] = "running"
      BY DEF AssignmentLedger
    <3> QED BY <2>1, <2>4, <3>2, <3>3 DEF ActiveStatus
  <2>7. \A s, t \in openAssignments' : s.job = t.job => s = t
    BY <2>3, <2>5 DEF AssignmentLedger
  <2>8. \A i \in Jobs : jobStatus'[i] = "scheduled" => \E s \in openAssignments' : s.job = i
    BY <2>1, <2>3, <2>5 DEF AssignmentLedger, StoreTypeOK
  <2> QED BY <2>6, <2>7, <2>8 DEF AssignmentLedger
<1>12. ASSUME NEW j \in Jobs, NEW w \in Workers, CompleteJobSuccess(j, w) PROVE AssignmentLedger'
  BY <1>12, CloseRows, openAssignments' = {r \in openAssignments : r.job \notin {j}}
  DEF CompleteJobSuccess, ReleaseWorkerForJob, OtherRows, StoreTypeOK
<1>13. ASSUME NEW j \in Jobs, NEW w \in Workers, NEW transient \in BOOLEAN,
              NEW canceled \in BOOLEAN, CompleteJobFailure(j, w, transient, canceled)
       PROVE  AssignmentLedger'
  <2>1. openAssignments' = {r \in openAssignments : r.job \notin {j}}
    BY <1>13 DEF CompleteJobFailure, ReleaseWorkerForJob, OtherRows
  <2>2. \A i \in Jobs \ {j} : jobStatus'[i] = jobStatus[i] /\ assignedWorker'[i] = assignedWorker[i]
    BY <1>13 DEF CompleteJobFailure, TransitionAfterFailure, Unassign
  <2>3. jobStatus'[j] # "scheduled"
    BY <1>13 DEF CompleteJobFailure, TransitionAfterFailure
  <2>4. \A i \in {j} \intersect Jobs : jobStatus'[i] # "scheduled"
    BY <2>3
  <2> QED BY <2>1, <2>2, <2>4, CloseRows
<1>14. ASSUME NEW w \in Workers, HeartbeatAges(w) PROVE AssignmentLedger'
  BY <1>14 DEF HeartbeatAges, AssignmentLedger
<1>15. ASSUME NEW r \in openAssignments, AssignmentAges(r) PROVE AssignmentLedger'
  <2> DEFINE late == [r EXCEPT !.overdue = TRUE]
  <2>1. late.job = r.job /\ late.worker = r.worker /\ (late.claimed <=> r.claimed)
    BY DEF StoreTypeOK, Assignment
  <2> HIDE DEF late
  <2>2. /\ openAssignments' = (openAssignments \ {r}) \union {late}
        /\ jobStatus' = jobStatus /\ assignedWorker' = assignedWorker
    BY <1>15 DEF AssignmentAges, late
  <2> QED BY <2>1, <2>2 DEF AssignmentLedger
<1>16. CASE UNCHANGED storeVars
  BY <1>16 DEF storeVars, AssignmentLedger
<1> QED BY <1>1, <1>2, <1>3, <1>4, <1>5, <1>7, <1>8, <1>9, <1>10, <1>11, <1>12, <1>13,
           <1>14, <1>15, <1>16 DEF StoreNext

-----------------------------------------------------------------------------
(* The invariants                                                            *)

StoreInv ==
  /\ StoreTypeOK
  /\ AbsentBatchHasNoJobs
  /\ QueuedIsUnassigned
  /\ AssignmentLedger
  /\ OneDispatchPerWorker
  /\ BatchAgrees
  /\ RetryBudget

\* The empty tables satisfy every invariant.
LEMMA InvInit == StoreInit => StoreInv
<1> SUFFICES ASSUME StoreInit PROVE StoreInv
  OBVIOUS
<1>1. StoreTypeOK
  BY TypeInit
<1>2. AbsentBatchHasNoJobs /\ QueuedIsUnassigned /\ AssignmentLedger /\ OneDispatchPerWorker
  BY DEF StoreInit, AbsentBatchHasNoJobs, QueuedIsUnassigned, AssignmentLedger,
         OneDispatchPerWorker, ActiveStatus
<1>3. BatchAgrees /\ RetryBudget
  BY StoreAssumption DEF StoreInit, BatchAgrees, RetryBudget
<1> QED BY <1>1, <1>2, <1>3 DEF StoreInv

\* A second job is handed to a worker only when the first has been claimed or
\* taken back.
LEMMA DispatchStep ==
  ASSUME StoreInv, [StoreNext]_storeVars
  PROVE  OneDispatchPerWorker'
<1> USE DEF StoreInv, StoreTypeOK
<1>1. ASSUME NEW j \in Jobs, NEW w \in Workers, AssignJobToWorker(j, w)
      PROVE  OneDispatchPerWorker'
  BY <1>1 DEF AssignJobToWorker, Dispatchable, ActiveJobsOf, ActiveStatus, OneDispatchPerWorker
<1>2. ASSUME \A j \in Jobs : ~GetsWorker(j)
      PROVE  OneDispatchPerWorker'
  <2>1. \A j \in Jobs : jobStatus'[j] = "scheduled" =>
          jobStatus[j] = "scheduled" /\ assignedWorker'[j] = assignedWorker[j]
    BY <1>2, Moves
    DEF JobMove, Rests, Enters, GoesBack, Starts, Ends, Retries, TerminalStatus
  <2> QED BY <2>1 DEF OneDispatchPerWorker
<1>3. ASSUME NEW j \in Jobs, GetsWorker(j)
      PROVE  \E i \in Jobs, w \in Workers : AssignJobToWorker(i, w)
  <2> USE <1>3 DEF GetsWorker
  <2>1. \A i \in Jobs : ~CreateJob(i) /\ ~CancelJob(i) /\ ~RetryDelayElapses(i)
    BY DEF CreateJob, Exists, CancelJob, CancelQueuedJob, CancelScheduledJob, RequestCancel,
           RetryDelayElapses
  <2>2. \A b \in Batches : ~CreateBatch(b)
    BY DEF CreateBatch
  <2>3. \A w \in Workers : ~HeartbeatAges(w) /\ \A i \in Jobs \union {NoJob} : ~UpsertWorkerHeartbeat(w, i)
    BY DEF HeartbeatAges, UpsertWorkerHeartbeat
  <2>4. ~MarkStaleWorkersOffline
    BY DEF MarkStaleWorkersOffline, TransitionAfterFailure
  <2>5. ~RequeueStaleScheduledJobs
    BY DEF RequeueStaleScheduledJobs
  <2>6. \A i \in Jobs, w \in Workers :
          ~RevertScheduledJob(i, w) /\ ~MarkJobRunning(i, w) /\ ~CompleteJobSuccess(i, w)
    BY DEF RevertScheduledJob, MarkJobRunning, CompleteJobSuccess
  <2>7. \A i \in Jobs, w \in Workers, transient, canceled \in BOOLEAN :
          ~CompleteJobFailure(i, w, transient, canceled)
    <3> SUFFICES ASSUME NEW i \in Jobs, NEW w \in Workers, NEW transient \in BOOLEAN,
                        NEW canceled \in BOOLEAN, CompleteJobFailure(i, w, transient, canceled)
                 PROVE  FALSE
      OBVIOUS
    <3>1. jobStatus'[j] \in {"queued", "failed", "canceled", jobStatus[j]}
      BY DEF CompleteJobFailure, TransitionAfterFailure
    <3> QED BY <3>1
  <2>8. \A r \in openAssignments : ~AssignmentAges(r)
    BY DEF AssignmentAges
  <2>9. ~UNCHANGED storeVars
    BY DEF storeVars
  <2> QED BY <2>1, <2>2, <2>3, <2>4, <2>5, <2>6, <2>7, <2>8, <2>9 DEF StoreNext
<1> QED BY <1>1, <1>2, <1>3

\* Every method keeps all the invariants together.
LEMMA InvStep ==
  ASSUME StoreInv, [StoreNext]_storeVars
  PROVE  StoreInv'
<1>1. StoreTypeOK'
  BY TypeStep DEF StoreInv
<1>2. AssignmentLedger'
  BY LedgerStep DEF StoreInv
<1>3. OneDispatchPerWorker'
  BY DispatchStep
<1>4. (\A j \in Jobs : JobMove(j)) /\ (\A b \in Batches : BatchMove(b))
  BY Moves DEF StoreInv
<1>5. QueuedIsUnassigned'
  BY <1>4, StoreAssumption
  DEF StoreInv, StoreTypeOK, QueuedIsUnassigned, JobMove, Rests, Enters, GetsWorker, GoesBack,
      Starts, Ends, Retries, ActiveStatus, TerminalStatus
<1>6. AbsentBatchHasNoJobs'
  <2>1. \A b \in Batches : batchStatus'[b] = "absent" =>
          /\ batchStatus[b] = "absent"
          /\ \A j \in Jobs : BatchOf[j] = b => jobStatus'[j] = jobStatus[j]
    BY <1>4, VerdictType DEF BatchMove
  <2> QED BY <2>1 DEF StoreInv, AbsentBatchHasNoJobs
<1>7. BatchAgrees'
  <2> SUFFICES ASSUME NEW b \in Batches, batchStatus'[b] # "absent",
                      batchStatus'[b] = batchStatus[b],
                      \A j \in Jobs : BatchOf[j] = b => jobStatus'[j] = jobStatus[j]
               PROVE  batchStatus'[b] = BatchVerdict(StatusesIn(b, jobStatus'))
    BY <1>4 DEF BatchMove, BatchAgrees
  <2>1. StatusesIn(b, jobStatus') = StatusesIn(b, jobStatus)
    BY DEF StatusesIn
  <2> QED BY <2>1 DEF StoreInv, BatchAgrees
<1>8. RetryBudget'
  <2> SUFFICES ASSUME NEW j \in Jobs
               PROVE  /\ retryCount'[j] <= MaxRetries
                      /\ retryWait'[j] => jobStatus'[j] \in {"queued", "canceled"}
    BY DEF RetryBudget
  <2>1. retryCount'[j] <= MaxRetries
    BY <1>4, StoreAssumption
    DEF StoreInv, StoreTypeOK, RetryBudget, JobMove, Rests, Enters, GetsWorker, GoesBack,
        Starts, Ends, Retries, Keeps
  <2>2. retryWait'[j] => jobStatus'[j] \in {"queued", "canceled"}
    BY <1>4
    DEF StoreInv, StoreTypeOK, RetryBudget, JobMove, Rests, Enters, GetsWorker, GoesBack,
        Starts, Ends, Retries
  <2> QED BY <2>1, <2>2
<1> QED BY <1>1, <1>2, <1>3, <1>5, <1>6, <1>7, <1>8 DEF StoreInv

\* The invariants of the store hold together.
THEOREM Invariance == StoreSpec => []StoreInv
  BY InvInit, InvStep, PTL DEF StoreSpec

\* An open assignment row always belongs to a job that is active on that very
\* worker, and a SCHEDULED job always has one: no method of control_plane.py
\* moves a job without its row.
THEOREM LedgerCorrect == StoreSpec => []AssignmentLedger
<1>1. StoreInv => AssignmentLedger
  BY DEF StoreInv
<1> QED BY <1>1, Invariance, PTL

\* A queued job belongs to no worker and an active one to some worker,
\* whichever methods are called and in the name of whom.
THEOREM QueuedCorrect == StoreSpec => []QueuedIsUnassigned
<1>1. StoreInv => QueuedIsUnassigned
  BY DEF StoreInv
<1> QED BY <1>1, Invariance, PTL

\* No worker is ever assigned a second job while its first is unclaimed.
THEOREM DispatchCorrect == StoreSpec => []OneDispatchPerWorker
<1>1. StoreInv => OneDispatchPerWorker
  BY DEF StoreInv
<1> QED BY <1>1, Invariance, PTL

\* The stored status of every batch is the verdict on its jobs.
THEOREM BatchesCorrect == StoreSpec => []BatchAgrees
<1>1. StoreInv => BatchAgrees
  BY DEF StoreInv
<1> QED BY <1>1, Invariance, PTL

\* No job is ever charged more than max_retries retries, and a retry delay
\* never outlives the wait in the queue.
THEOREM RetriesCorrect == StoreSpec => []RetryBudget
<1>1. StoreInv => RetryBudget
  BY DEF StoreInv
<1> QED BY <1>1, Invariance, PTL

\* Only a job that was never claimed goes back to the queue for free.
THEOREM RequeueCharged == StoreSpec => RequeueIsCharged
<1> DEFINE A == \A j \in Jobs :
                  jobStatus'[j] = "queued" /\ jobStatus[j] \notin {"absent", "queued", "scheduled"}
                    => retryCount'[j] = retryCount[j] + 1
<1>1. StoreInv /\ [StoreNext]_storeVars => [A]_storeVars
  BY Moves
  DEF StoreInv, JobMove, Rests, Enters, GetsWorker, GoesBack, Starts, Ends, Retries, TerminalStatus
<1> QED BY <1>1, Invariance, PTL DEF StoreSpec, RequeueIsCharged

\* A cancel request is forgotten only in a charged retry.
THEOREM CancelKept == StoreSpec => CancelRequestKept
<1> DEFINE A == \A j \in Jobs :
                  cancelRequested[j] /\ ~cancelRequested'[j] => retryCount'[j] = retryCount[j] + 1
<1>1. StoreInv /\ [StoreNext]_storeVars => [A]_storeVars
  BY Moves
  DEF StoreInv, JobMove, Rests, Enters, GetsWorker, GoesBack, Starts, Ends, Retries, Keeps
<1> QED BY <1>1, Invariance, PTL DEF StoreSpec, CancelRequestKept
=============================================================================
