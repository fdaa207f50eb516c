------------------------- MODULE ControlPlaneStore -------------------------
(***************************************************************************)
(* The PostgreSQL-backed store of jobs, batches, workers and assignment    *)
(* rows (gvhmr_batch_common/control_plane.py).  Every public method runs   *)
(* in one transaction, so every method is one action here.                 *)
(*                                                                         *)
(* The store does not know who calls it: any caller may complete any job   *)
(* in the name of any registered worker.  What is proved of this module    *)
(* therefore holds whatever the scheduler and the workers do; Cluster      *)
(* says what they do.                                                      *)
(*                                                                         *)
(* Timestamps are abstracted to the comparisons the code makes with them:  *)
(* a heartbeat older than offline_after_seconds, an assignment older than  *)
(* claim_timeout_seconds, a next_retry_at still in the future.             *)
(*                                                                         *)
(* A definition Foo_Bar is the definition Foo with a plausible mistake; it *)
(* is used only to see that the properties notice the mistake.             *)
(***************************************************************************)
EXTENDS Naturals, FiniteSets

CONSTANTS
  Jobs,        \* job ids
  Workers,     \* worker ids: one per node and GPU slot
  Batches,     \* batch ids
  BatchOf,     \* the batch_id column, fixed when the job is created
  MaxRetries,  \* the max_retries column; the code inserts 1
  NoJob, NoWorker, NoBatch  \* NULL of the corresponding column

ASSUME StoreAssumption ==
  /\ MaxRetries \in Nat
  /\ NoJob \notin Jobs
  /\ NoWorker \notin Workers
  /\ NoBatch \notin Batches
  /\ BatchOf \in [Jobs -> Batches \union {NoBatch}]

VARIABLES
  jobStatus,        \* jobs.status; "absent" before the row exists
  assignedWorker,   \* jobs.assigned_worker_id
  retryCount,       \* jobs.retry_count
  retryWait,        \* jobs.next_retry_at is in the future
  cancelRequested,  \* jobs.cancel_requested_at is set
  batchStatus,      \* batches.status
  workerStatus,     \* worker_heartbeats.status
  runningJob,       \* worker_heartbeats.running_job_id
  heartbeatStale,   \* last_heartbeat_at is before the offline cutoff
  openAssignments   \* job_assignments rows whose completed_at is NULL

storeVars == <<jobStatus, assignedWorker, retryCount, retryWait,
               cancelRequested, batchStatus, workerStatus, runningJob,
               heartbeatStale, openAssignments>>

ActiveStatus   == {"scheduled", "running"}
TerminalStatus == {"succeeded", "failed", "canceled"}
JobStatus      == {"absent", "queued"} \union ActiveStatus \union TerminalStatus
BatchStatus    == {"absent", "queued", "running", "succeeded",
                   "partial_failed", "failed", "canceled"}
WorkerStatus   == {"absent", "idle", "busy", "offline"}

\* claimed: claimed_at is set.  overdue: assigned_at is before the claim cutoff.
Assignment == [job : Jobs, worker : Workers, claimed : BOOLEAN, overdue : BOOLEAN]

StoreInit ==
  /\ jobStatus       = [j \in Jobs |-> "absent"]
  /\ assignedWorker  = [j \in Jobs |-> NoWorker]
  /\ retryCount      = [j \in Jobs |-> 0]
  /\ retryWait       = [j \in Jobs |-> FALSE]
  /\ cancelRequested = [j \in Jobs |-> FALSE]
  /\ batchStatus     = [b \in Batches |-> "absent"]
  /\ workerStatus    = [w \in Workers |-> "absent"]
  /\ runningJob      = [w \in Workers |-> NoJob]
  /\ heartbeatStale  = [w \in Workers |-> FALSE]
  /\ openAssignments = {}

Exists(j)     == jobStatus[j] # "absent"
Registered(w) == workerStatus[w] # "absent"

\* Jobs that occupy worker w according to the jobs table.
ActiveJobsOf(w) == {j \in Jobs : jobStatus[j] \in ActiveStatus /\ assignedWorker[j] = w}

-----------------------------------------------------------------------------
(* Batches: a status derived from the statuses S of the batch's jobs.        *)

BatchVerdict(S) ==
  IF S = {"canceled"} THEN "canceled"
  ELSE IF "running" \in S THEN "running"
  ELSE IF "scheduled" \in S THEN "queued"
  ELSE IF S = {"succeeded"} THEN "succeeded"
  ELSE IF S # {} /\ S \subseteq {"failed", "canceled"} THEN "failed"
  ELSE IF "succeeded" \in S /\ S \intersect {"failed", "canceled"} # {} THEN "partial_failed"
  ELSE "queued"

StatusesIn(b, status) == {status[j] : j \in {k \in Jobs : BatchOf[k] = b}} \ {"absent"}

RefreshBatches_BeforeFlush(J) ==
  batchStatus' = [b \in Batches |->
    IF \E j \in J : BatchOf[j] = b THEN BatchVerdict(StatusesIn(b, jobStatus))
                                   ELSE batchStatus[b]]

\* Every method ends by refreshing the batches of the jobs J it touched.
RefreshBatches(J) ==
  batchStatus' = [b \in Batches |->
    IF \E j \in J : BatchOf[j] = b THEN BatchVerdict(StatusesIn(b, jobStatus'))
                                   ELSE batchStatus[b]]

-----------------------------------------------------------------------------
(* Submission and cancellation, called by the API.                           *)

CreateJob(j) ==
  /\ ~Exists(j)
  /\ BatchOf[j] = NoBatch
  /\ jobStatus' = [jobStatus EXCEPT ![j] = "queued"]
  /\ UNCHANGED <<assignedWorker, retryCount, retryWait, cancelRequested, batchStatus,
                 workerStatus, runningJob, heartbeatStale, openAssignments>>

CreateBatch(b) ==
  LET J == {j \in Jobs : BatchOf[j] = b}
  IN /\ batchStatus[b] = "absent"
     /\ jobStatus' = [j \in Jobs |-> IF j \in J THEN "queued" ELSE jobStatus[j]]
     /\ batchStatus' = [batchStatus EXCEPT ![b] = BatchVerdict(StatusesIn(b, jobStatus'))]
     /\ UNCHANGED <<assignedWorker, retryCount, retryWait, cancelRequested,
                    workerStatus, runningJob, heartbeatStale, openAssignments>>

OtherRows_ClaimedOnly(j) == {r \in openAssignments : r.job # j \/ ~r.claimed}

\* What is left when the open row of job j is closed: the unique index on open
\* rows leaves at most one to close.
OtherRows(j) == {r \in openAssignments : r.job # j}

\* _release_worker_for_job; w is whoever the caller says it is.
ReleaseWorkerForJob(j, w) ==
  /\ workerStatus' = [workerStatus EXCEPT ![w] = IF @ \in {"idle", "busy"} THEN "idle" ELSE @]
  /\ runningJob' = [runningJob EXCEPT ![w] = IF @ = j THEN NoJob ELSE @]
  /\ openAssignments' = OtherRows(j)
  /\ UNCHANGED heartbeatStale

CancelQueuedJob(j) ==
  /\ jobStatus[j] = "queued"
  /\ jobStatus' = [jobStatus EXCEPT ![j] = "canceled"]
  /\ RefreshBatches({j})
  /\ UNCHANGED <<assignedWorker, retryCount, retryWait, cancelRequested,
                 workerStatus, runningJob, heartbeatStale, openAssignments>>

CancelScheduledJob(j) ==
  /\ jobStatus[j] = "scheduled"
  /\ jobStatus' = [jobStatus EXCEPT ![j] = "canceled"]
  /\ ReleaseWorkerForJob(j, assignedWorker[j])
  /\ RefreshBatches({j})
  /\ UNCHANGED <<assignedWorker, retryCount, retryWait, cancelRequested>>

RequestCancel_Toggle(j) ==
  /\ jobStatus[j] = "running"
  /\ cancelRequested' = [cancelRequested EXCEPT ![j] = ~@]
  /\ UNCHANGED <<jobStatus, assignedWorker, retryCount, retryWait,
                 workerStatus, runningJob, heartbeatStale, openAssignments>>
  /\ RefreshBatches({j})

RequestCancel(j) ==
  /\ jobStatus[j] = "running"
  /\ cancelRequested' = [cancelRequested EXCEPT ![j] = TRUE]
  /\ UNCHANGED <<jobStatus, assignedWorker, retryCount, retryWait,
                 workerStatus, runningJob, heartbeatStale, openAssignments>>
  /\ RefreshBatches({j})

\* A terminal job is returned as it is.
CancelJob(j) == CancelQueuedJob(j) \/ CancelScheduledJob(j) \/ RequestCancel(j)

-----------------------------------------------------------------------------
(* Heartbeats and the recovery passes of the scheduler.                      *)

KeptJobs_AsReported(w, j) == {j}

\* A worker reports the job j it is running, or NoJob.  A registered worker
\* that reports none keeps a job the jobs table still gives it: the one updated
\* first, any of them here.
KeptJobs(w, j) ==
  IF Registered(w) /\ j = NoJob /\ ActiveJobsOf(w) # {} THEN ActiveJobsOf(w) ELSE {j}

UpsertWorkerHeartbeat(w, j) ==
  \E k \in KeptJobs(w, j) :
    /\ workerStatus' = [workerStatus EXCEPT ![w] = IF k = NoJob THEN "idle" ELSE "busy"]
    /\ runningJob' = [runningJob EXCEPT ![w] = k]
    /\ heartbeatStale' = [heartbeatStale EXCEPT ![w] = FALSE]
    /\ UNCHANGED <<jobStatus, assignedWorker, retryCount, retryWait,
                   cancelRequested, batchStatus, openAssignments>>

MayRetry_OneMore(j) == retryCount[j] <= MaxRetries

MayRetry(j) == retryCount[j] < MaxRetries

Charged_Down(n) == n - 1

Charged(n) == n + 1

Unassign_Forgotten(J) == assignedWorker

Unassign(J) == [j \in Jobs |-> IF j \in J THEN NoWorker ELSE assignedWorker[j]]

\* The columns _transition_job_after_failure writes, for the jobs in Retried
\* (back to QUEUED) and those in Ended (to the status end, FAILED or CANCELED).
TransitionAfterFailure(Retried, Ended, end) ==
  /\ jobStatus' = [j \in Jobs |-> IF j \in Retried THEN "queued"
                                  ELSE IF j \in Ended THEN end ELSE jobStatus[j]]
  /\ assignedWorker' = Unassign(Retried)
  /\ retryCount' = [j \in Jobs |-> IF j \in Retried THEN Charged(retryCount[j]) ELSE retryCount[j]]
  /\ retryWait' = [j \in Jobs |-> IF j \in Retried THEN TRUE
                                  ELSE IF j \in Ended THEN FALSE ELSE retryWait[j]]
  /\ cancelRequested' = [j \in Jobs |-> j \notin Retried /\ cancelRequested[j]]
  /\ RefreshBatches(Retried \union Ended)

StaleWorkers == {w \in Workers : heartbeatStale[w] /\ workerStatus[w] \in {"idle", "busy"}}

\* One pass over all stale workers.  The job is taken from the worker's row;
\* nothing compares it with the job's own assigned_worker_id.
MarkStaleWorkersOffline ==
  LET Lost == {j \in Jobs : jobStatus[j] \in ActiveStatus
                              /\ \E w \in StaleWorkers : runningJob[w] = j}
      Retried == {j \in Lost : MayRetry(j)}
  IN /\ StaleWorkers # {}
     /\ TransitionAfterFailure(Retried, Lost \ Retried, "failed")
     /\ workerStatus' = [w \in Workers |-> IF w \in StaleWorkers THEN "offline" ELSE workerStatus[w]]
     /\ runningJob' = [w \in Workers |-> IF w \in StaleWorkers THEN NoJob ELSE runningJob[w]]
     /\ openAssignments' = {r \in openAssignments : r.job \notin Lost}
     /\ UNCHANGED heartbeatStale

UnclaimedOverdue_ClaimedToo == {r \in openAssignments :
                                  jobStatus[r.job] \in ActiveStatus /\ r.overdue}

UnclaimedOverdue_OfDeadWorkers ==
  {r \in openAssignments : jobStatus[r.job] = "scheduled" /\ ~r.claimed /\ r.overdue
                             /\ heartbeatStale[r.worker]}

\* The assignments nobody claimed in time.
UnclaimedOverdue == {r \in openAssignments :
                       jobStatus[r.job] = "scheduled" /\ ~r.claimed /\ r.overdue}

\* One pass over all of them; no retry is charged.
RequeueStaleScheduledJobs ==
  LET J == {r.job : r \in UnclaimedOverdue}
      W == {r.worker : r \in UnclaimedOverdue}
  IN /\ UnclaimedOverdue # {}
     /\ jobStatus' = [j \in Jobs |-> IF j \in J THEN "queued" ELSE jobStatus[j]]
     /\ assignedWorker' = Unassign(J)
     /\ retryWait' = [j \in Jobs |-> j \notin J /\ retryWait[j]]
     /\ workerStatus' = [w \in Workers |->
          IF w \in W /\ Registered(w) THEN IF heartbeatStale[w] THEN "offline" ELSE "idle"
          ELSE workerStatus[w]]
     /\ runningJob' = [w \in Workers |->
          IF \E r \in UnclaimedOverdue : r.worker = w /\ r.job = runningJob[w]
          THEN NoJob ELSE runningJob[w]]
     /\ openAssignments' = openAssignments \ UnclaimedOverdue
     /\ RefreshBatches(J)
     /\ UNCHANGED <<retryCount, cancelRequested, heartbeatStale>>

-----------------------------------------------------------------------------
(* Dispatch, called by the scheduler.                                        *)

Dispatchable_ByStatus(w) == workerStatus[w] = "idle" /\ ~heartbeatStale[w]

Dispatchable_FreshOnly(w) == Registered(w) /\ ~heartbeatStale[w]

\* assign_job_to_worker refuses anything else and then writes nothing.
Dispatchable(w) == workerStatus[w] = "idle" /\ ~heartbeatStale[w] /\ ActiveJobsOf(w) = {}
Ready(j)        == jobStatus[j] = "queued" /\ ~retryWait[j]

\* _create_assignment: close what is still open for the job or the worker first.
CreateAssignment(j, w) ==
  openAssignments' = {r \in openAssignments : r.job # j /\ r.worker # w}
                       \union {[job |-> j, worker |-> w, claimed |-> FALSE, overdue |-> FALSE]}

AssignJobToWorker(j, w) ==
  /\ Dispatchable(w)
  /\ Ready(j)
  /\ jobStatus' = [jobStatus EXCEPT ![j] = "scheduled"]
  /\ assignedWorker' = [assignedWorker EXCEPT ![j] = w]
  /\ retryWait' = [retryWait EXCEPT ![j] = FALSE]
  /\ workerStatus' = [workerStatus EXCEPT ![w] = "busy"]
  /\ runningJob' = [runningJob EXCEPT ![w] = j]
  /\ CreateAssignment(j, w)
  /\ RefreshBatches({j})
  /\ UNCHANGED <<retryCount, cancelRequested, heartbeatStale>>

ScheduledTo_AnyStatus(j, w) == assignedWorker[j] = w

ScheduledTo(j, w) == jobStatus[j] = "scheduled" /\ assignedWorker[j] = w

\* Undo of an assignment whose message could not be pushed to the worker.
RevertScheduledJob(j, w) ==
  /\ ScheduledTo(j, w)
  /\ jobStatus' = [jobStatus EXCEPT ![j] = "queued"]
  /\ assignedWorker' = Unassign({j})
  /\ workerStatus' = [workerStatus EXCEPT ![w] = IF @ \in {"idle", "busy"} THEN "idle" ELSE @]
  /\ runningJob' = [runningJob EXCEPT ![w] =
                      IF @ = j /\ workerStatus[w] # "offline" THEN NoJob ELSE @]
  /\ openAssignments' = OtherRows(j)
  /\ RefreshBatches({j})
  /\ UNCHANGED <<retryCount, retryWait, cancelRequested, heartbeatStale>>

-----------------------------------------------------------------------------
(* Execution, called by the workers.                                         *)

\* The only thing mark_job_running verifies is the assignee, not the status.
MarkJobRunning(j, w) ==
  /\ assignedWorker[j] = w
  /\ jobStatus' = [jobStatus EXCEPT ![j] = "running"]
  /\ retryWait' = [retryWait EXCEPT ![j] = FALSE]
  /\ openAssignments' = {IF r.job = j THEN [r EXCEPT !.claimed = TRUE] ELSE r :
                           r \in openAssignments}
  /\ RefreshBatches({j})
  /\ UNCHANGED <<assignedWorker, retryCount, cancelRequested, workerStatus,
                 runningJob, heartbeatStale>>

\* complete_job_success verifies neither the status nor the assignee.
CompleteJobSuccess(j, w) ==
  /\ Exists(j)
  /\ jobStatus' = [jobStatus EXCEPT ![j] = "succeeded"]
  /\ retryWait' = [retryWait EXCEPT ![j] = FALSE]
  /\ ReleaseWorkerForJob(j, w)
  /\ RefreshBatches({j})
  /\ UNCHANGED <<assignedWorker, retryCount, cancelRequested>>

\* transient: the caller passes a retry delay.
CompleteJobFailure(j, w, transient, canceled) ==
  LET retry == ~canceled /\ transient /\ MayRetry(j)
      end   == IF canceled THEN "canceled" ELSE "failed"
  IN /\ Exists(j)
     /\ TransitionAfterFailure(IF retry THEN {j} ELSE {}, IF retry THEN {} ELSE {j}, end)
     /\ ReleaseWorkerForJob(j, w)

-----------------------------------------------------------------------------
(* The passage of time.                                                      *)

HeartbeatAges(w) ==
  /\ Registered(w) /\ ~heartbeatStale[w]
  /\ heartbeatStale' = [heartbeatStale EXCEPT ![w] = TRUE]
  /\ UNCHANGED <<jobStatus, assignedWorker, retryCount, retryWait, cancelRequested,
                 batchStatus, workerStatus, runningJob, openAssignments>>

AssignmentAges(r) ==
  /\ ~r.claimed /\ ~r.overdue
  /\ openAssignments' = (openAssignments \ {r}) \union {[r EXCEPT !.overdue = TRUE]}
  /\ UNCHANGED <<jobStatus, assignedWorker, retryCount, retryWait, cancelRequested,
                 batchStatus, workerStatus, runningJob, heartbeatStale>>

RetryDelayElapses(j) ==
  /\ retryWait[j]
  /\ retryWait' = [retryWait EXCEPT ![j] = FALSE]
  /\ UNCHANGED <<jobStatus, assignedWorker, retryCount, cancelRequested, batchStatus,
                 workerStatus, runningJob, heartbeatStale, openAssignments>>

StoreNext ==
  \/ \E j \in Jobs : CreateJob(j) \/ CancelJob(j) \/ RetryDelayElapses(j)
  \/ \E b \in Batches : CreateBatch(b)
  \/ \E w \in Workers : \E j \in Jobs \union {NoJob} : UpsertWorkerHeartbeat(w, j)
  \/ MarkStaleWorkersOffline
  \/ RequeueStaleScheduledJobs
  \/ \E j \in Jobs, w \in Workers :
       \/ AssignJobToWorker(j, w)
       \/ RevertScheduledJob(j, w)
       \/ MarkJobRunning(j, w)
       \/ CompleteJobSuccess(j, w)
       \/ \E transient, canceled \in BOOLEAN : CompleteJobFailure(j, w, transient, canceled)
  \/ \E w \in Workers : HeartbeatAges(w)
  \/ \E r \in openAssignments : AssignmentAges(r)

StoreSpec == StoreInit /\ [][StoreNext]_storeVars

-----------------------------------------------------------------------------
(* What the store guarantees to every caller.                                *)

\* Every column keeps to its type (models.py).
StoreTypeOK ==
  /\ jobStatus       \in [Jobs -> JobStatus]
  /\ assignedWorker  \in [Jobs -> Workers \union {NoWorker}]
  /\ retryCount      \in [Jobs -> Nat]
  /\ retryWait       \in [Jobs -> BOOLEAN]
  /\ cancelRequested \in [Jobs -> BOOLEAN]
  /\ batchStatus     \in [Batches -> BatchStatus]
  /\ workerStatus    \in [Workers -> WorkerStatus]
  /\ runningJob      \in [Workers -> Jobs \union {NoJob}]
  /\ heartbeatStale  \in [Workers -> BOOLEAN]
  /\ openAssignments \in SUBSET Assignment

\* The jobs table and the assignment ledger tell the same story, though they
\* are written in different methods: an open row belongs to a job that is
\* active on that very worker, is claimed exactly when the job runs, and is
\* the only open row of its job; a SCHEDULED job always has its row (without
\* it the claim timeout could never requeue the job).
AssignmentLedger ==
  /\ \A r \in openAssignments :
       /\ jobStatus[r.job] \in ActiveStatus
       /\ assignedWorker[r.job] = r.worker
       /\ r.claimed <=> jobStatus[r.job] = "running"
  /\ \A r, s \in openAssignments : r.job = s.job => r = s
  /\ \A j \in Jobs : jobStatus[j] = "scheduled" => \E r \in openAssignments : r.job = j

\* A job waiting in the queue belongs to nobody, so that a worker holding an
\* old message for it cannot claim it past the scheduler (mark_job_running
\* compares nothing but the assignee); an active job belongs to someone.
QueuedIsUnassigned ==
  \A j \in Jobs :
    /\ jobStatus[j] \in {"absent", "queued"} => assignedWorker[j] = NoWorker
    /\ jobStatus[j] \in ActiveStatus => assignedWorker[j] \in Workers

\* The scheduler never has two unclaimed jobs out to one worker, whatever
\* claims, completions and recoveries come in between.
OneDispatchPerWorker ==
  \A i, j \in Jobs :
    jobStatus[i] = "scheduled" /\ jobStatus[j] = "scheduled"
      /\ assignedWorker[i] = assignedWorker[j] => i = j

\* The status stored for a batch is the one its jobs imply: no method forgets
\* to refresh the batch of a job it changes.
BatchAgrees ==
  \A b \in Batches :
    batchStatus[b] # "absent" => batchStatus[b] = BatchVerdict(StatusesIn(b, jobStatus))

\* No job is retried more often than max_retries, and only a job that is not
\* on a worker waits out a retry delay (a delay left on a job that is handed
\* out would hide it from the queue after the next failure).
RetryBudget ==
  \A j \in Jobs :
    /\ retryCount[j] <= MaxRetries
    /\ retryWait[j] => jobStatus[j] \in {"queued", "canceled"}

\* A job that ran and is queued again has been charged a retry; only an
\* assignment that was never claimed goes back for free.
RequeueIsCharged ==
  [][\A j \in Jobs :
       jobStatus'[j] = "queued" /\ jobStatus[j] \notin {"absent", "queued", "scheduled"}
         => retryCount'[j] = retryCount[j] + 1]_storeVars

\* A cancel request on a job disappears only in a charged retry of that job.
CancelRequestKept ==
  [][\A j \in Jobs :
       cancelRequested[j] /\ ~cancelRequested'[j]
         => retryCount'[j] = retryCount[j] + 1]_storeVars
=============================================================================
