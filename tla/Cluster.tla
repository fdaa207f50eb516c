------------------------------ MODULE Cluster ------------------------------
(***************************************************************************)
(* The running system: the worker processes (services/worker), the single  *)
(* scheduler process (services/scheduler) and the Redis structures between *)
(* them (queue.py), all working on one ControlPlaneStore.                  *)
(*                                                                         *)
(* A worker runs a heartbeat loop, a work loop and, while it has a job, a  *)
(* thread that executes it; they interleave at their database and Redis    *)
(* calls.  Events selects what the environment may do to them, and at most *)
(* MaxFaults of the faults among those events happen.                      *)
(***************************************************************************)
EXTENDS ControlPlaneStore, Sequences

CONSTANTS
  Events,     \* what the environment may do, see EnvironmentEvents
  MaxFaults,  \* bound on the faults in a behaviour
  MaxInbox    \* bound on the messages waiting for one worker

EnvironmentEvents ==
  {"cancel",             \* a user cancels a job
   "heartbeatInWindow",  \* a heartbeat is written between the commit that ends
                         \* a job and the moment the worker forgets the job
   "fastRestart",        \* a worker restarts before it is declared offline
   "crash",              \* fault: a worker process is killed
   "heartbeatLoopDies",  \* fault: one heartbeat write raises
   "lateHeartbeat",      \* fault: a live worker's heartbeat exceeds the cutoff
   "slowClaim",          \* fault: a live worker exceeds the claim timeout
   "lostAck",            \* fault: a completion commits but its call raises
   "apiRaises",          \* fault: a submission is stored but not enqueued
   "schedulerRaises",    \* fault: a call of the scheduler raises (but a push)
   "pushFails"}          \* fault: the message to a worker cannot be pushed

ASSUME ClusterAssumption ==
  Events \subseteq EnvironmentEvents /\ MaxFaults \in Nat /\ MaxInbox \in Nat

VARIABLES
  pc,           \* what the process of a worker is doing
  held,         \* the job of its work loop (payload.job and state.running_job_id)
  beating,      \* its heartbeat loop is alive
  announced,    \* idle_announced of its work loop
  idleWorkers,  \* Redis: the set workers:idle
  jobQueue,     \* Redis: the jobs in the priority queues
  inbox,        \* Redis: the list worker:<id>:jobs
  submitting,   \* the jobs the API has stored and has yet to enqueue
  dispatching,  \* the assignment the scheduler has committed, and what it
                \* does with it next: push its message, or undo it
  attempts,     \* history: how often mark_job_running started the job
  faults        \* faults that happened so far

workerVars == <<pc, held, beating, announced>>
redisVars  == <<idleWorkers, jobQueue, inbox>>
vars == <<storeVars, workerVars, redisVars, submitting, dispatching, attempts, faults>>

Pc == {"down",       \* no process
       "idle",       \* announcing, or waiting for a message
       "fetched",    \* has the payload of a SCHEDULED job
       "claiming",   \* has left workers:idle
       "running",    \* the thread executes the job
       "stopping",   \* the thread saw the cancel request
       "ackLost",    \* the success call raised after its commit
       "finishing",  \* the end of the job is committed, the thread still holds it
       "fatal"}      \* the same, and the process is going to exit

\* The thread of worker w is in execute_assigned_job.
Executing(w) == pc[w] \in {"running", "stopping", "ackLost"}

NoDispatch == <<NoJob, NoWorker, "none">>

Init ==
  /\ StoreInit
  /\ pc          = [w \in Workers |-> "down"]
  /\ held        = [w \in Workers |-> NoJob]
  /\ beating     = [w \in Workers |-> FALSE]
  /\ announced   = [w \in Workers |-> FALSE]
  /\ idleWorkers = {}
  /\ jobQueue    = {}
  /\ inbox       = [w \in Workers |-> <<>>]
  /\ submitting  = {}
  /\ dispatching = NoDispatch
  /\ attempts    = [j \in Jobs |-> 0]
  /\ faults      = 0

Fault(e) == e \in Events /\ faults < MaxFaults /\ faults' = faults + 1

-----------------------------------------------------------------------------
(* The API: store first, queue second.                                       *)

SubmitJob(j) ==
  /\ CreateJob(j)
  /\ submitting' = submitting \union {j}
  /\ UNCHANGED <<workerVars, redisVars, dispatching, attempts, faults>>

SubmitBatch(b) ==
  /\ CreateBatch(b)
  /\ submitting' = submitting \union {j \in Jobs : BatchOf[j] = b}
  /\ UNCHANGED <<workerVars, redisVars, dispatching, attempts, faults>>

EnqueueSubmitted(j) ==
  /\ j \in submitting
  /\ submitting' = submitting \ {j}
  /\ jobQueue' = jobQueue \union {j}
  /\ UNCHANGED <<storeVars, workerVars, idleWorkers, inbox, dispatching, attempts, faults>>

ApiRaises(j) ==
  /\ j \in submitting
  /\ Fault("apiRaises")
  /\ submitting' = submitting \ {j}
  /\ UNCHANGED <<storeVars, workerVars, redisVars, dispatching, attempts>>

UserCancels(j) ==
  /\ "cancel" \in Events
  /\ CancelJob(j)
  /\ UNCHANGED <<workerVars, redisVars, submitting, dispatching, attempts, faults>>

-----------------------------------------------------------------------------
(* The scheduler: recovery passes, then dispatch, in one thread.             *)

SchedulerFree == dispatching = NoDispatch

RecoverLostWorkers ==
  /\ SchedulerFree
  /\ MarkStaleWorkersOffline
  /\ UNCHANGED <<workerVars, redisVars, submitting, dispatching, attempts, faults>>

RecoverUnclaimedJobs ==
  /\ SchedulerFree
  /\ RequeueStaleScheduledJobs
  /\ jobQueue' = jobQueue \union {r.job : r \in UnclaimedOverdue}
  /\ idleWorkers' = idleWorkers
       \union {w \in {r.worker : r \in UnclaimedOverdue} : Registered(w) /\ ~heartbeatStale[w]}
  /\ UNCHANGED <<workerVars, inbox, submitting, dispatching, attempts, faults>>

DueJobs_WithoutDelay == {j \in Jobs : jobStatus[j] = "queued" /\ retryCount[j] = 0}

\* list_queued_jobs: next_retry_at is NULL or has passed.
DueJobs == {j \in Jobs : Ready(j)}

EnqueueQueuedJobs ==
  /\ SchedulerFree
  /\ jobQueue' = jobQueue \union DueJobs
  /\ UNCHANGED <<storeVars, workerVars, idleWorkers, inbox, submitting, dispatching, attempts,
                 faults>>

Assign(j, w) ==
  /\ Len(inbox[w]) < MaxInbox
  /\ AssignJobToWorker(j, w)
  /\ idleWorkers' = idleWorkers \ {w}
  /\ jobQueue' = jobQueue \ {j}
  /\ dispatching' = <<j, w, "push">>

\* Refused because of the worker: it is dropped, the job returns to the queue.
RefuseWorker(w) ==
  /\ ~Dispatchable(w)
  /\ idleWorkers' = idleWorkers \ {w}
  /\ UNCHANGED <<storeVars, jobQueue, dispatching>>

\* Refused because of the job: its entry is dropped, the worker goes back.
RefuseJob(j, w) ==
  /\ Dispatchable(w) /\ ~Ready(j)
  /\ jobQueue' = jobQueue \ {j}
  /\ UNCHANGED <<storeVars, idleWorkers, dispatching>>

\* dispatch_available_work: one turn of its loop up to the store's decision.
DispatchAvailableWork ==
  /\ SchedulerFree
  /\ \E w \in idleWorkers, j \in jobQueue : Assign(j, w) \/ RefuseWorker(w) \/ RefuseJob(j, w)
  /\ UNCHANGED <<workerVars, inbox, submitting, attempts, faults>>

PushWorkerJob(j, w) ==
  /\ dispatching = <<j, w, "push">>
  /\ inbox' = [inbox EXCEPT ![w] = Append(@, j)]
  /\ dispatching' = NoDispatch
  /\ UNCHANGED <<storeVars, workerVars, idleWorkers, jobQueue, submitting, attempts, faults>>

\* The push raises; the message may have been delivered all the same.
PushRaises(j, w) ==
  /\ dispatching = <<j, w, "push">>
  /\ Fault("pushFails")
  /\ \E delivered \in BOOLEAN :
       inbox' = IF delivered THEN [inbox EXCEPT ![w] = Append(@, j)] ELSE inbox
  /\ dispatching' = <<j, w, "undo">>
  /\ UNCHANGED <<storeVars, workerVars, idleWorkers, jobQueue, submitting, attempts>>

\* The calls that put job and worker back into Redis may raise as well.
UndoDispatch(j, w) ==
  /\ dispatching = <<j, w, "undo">>
  /\ \/ RevertScheduledJob(j, w)
     \/ ~ScheduledTo(j, w) /\ UNCHANGED storeVars
  /\ \/ UNCHANGED <<jobQueue, idleWorkers>>
     \/ jobQueue' = jobQueue \union {j} /\ idleWorkers' \in {idleWorkers, idleWorkers \union {w}}
  /\ dispatching' = NoDispatch
  /\ UNCHANGED <<workerVars, inbox, submitting, attempts, faults>>

\* An exception leaves the loop: the worker and the job it has popped, the
\* message it was to push, the assignment it was to undo, or the entries of
\* requeued jobs and their workers it was to write are forgotten.
SchedulerRaises ==
  /\ Fault("schedulerRaises")
  /\ \/ /\ SchedulerFree
        /\ \E w \in idleWorkers : idleWorkers' = idleWorkers \ {w}
        /\ jobQueue' \in {jobQueue} \union {jobQueue \ {j} : j \in jobQueue}
        /\ UNCHANGED storeVars
     \/ SchedulerFree /\ RequeueStaleScheduledJobs /\ UNCHANGED <<idleWorkers, jobQueue>>
     \/ ~SchedulerFree /\ UNCHANGED <<storeVars, idleWorkers, jobQueue>>
  /\ dispatching' = NoDispatch
  /\ UNCHANGED <<workerVars, inbox, submitting, attempts>>

SchedulerStep ==
  \/ RecoverLostWorkers
  \/ RecoverUnclaimedJobs
  \/ EnqueueQueuedJobs
  \/ DispatchAvailableWork
  \/ \E j \in Jobs, w \in Workers : PushWorkerJob(j, w) \/ UndoDispatch(j, w)

-----------------------------------------------------------------------------
(* The worker: process and heartbeat loop.                                   *)

ToPc(w, next) == pc' = [pc EXCEPT ![w] = next]

Forget(w) == held' = [held EXCEPT ![w] = NoJob]

\* run_worker up to the three loops.  The row is absent or OFFLINE unless the
\* container comes back within the offline cutoff.
Start(w) ==
  /\ pc[w] = "down"
  /\ "fastRestart" \in Events \/ workerStatus[w] \in {"absent", "offline"}
  /\ UpsertWorkerHeartbeat(w, NoJob)
  /\ ToPc(w, "idle")
  /\ beating' = [beating EXCEPT ![w] = TRUE]
  /\ announced' = [announced EXCEPT ![w] = FALSE]
  /\ UNCHANGED <<held, redisVars, submitting, dispatching, attempts, faults>>

\* state.running_job_id as the heartbeat loop may read it.  In the windows
\* after a job's last commit the thread has or has not yet cleared it.
Reportable(w) ==
  CASE pc[w] \in {"running", "stopping", "ackLost"} -> {held[w]}
    [] pc[w] \in {"finishing", "fatal"} ->
         (IF pc[w] = "fatal" THEN {NoJob} ELSE {})
           \union (IF "heartbeatInWindow" \in Events THEN {held[w]} ELSE {})
    [] OTHER -> {NoJob}

Heartbeat(w) ==
  /\ beating[w]
  /\ \E j \in Reportable(w) : UpsertWorkerHeartbeat(w, j)
  /\ UNCHANGED <<workerVars, redisVars, submitting, dispatching, attempts, faults>>

\* A message popped and not yet looked at is lost with the process.
MayLoseMessage(w) ==
  \/ UNCHANGED inbox
  \/ /\ pc[w] = "idle" /\ announced[w] /\ inbox[w] # <<>>
     /\ inbox' = [inbox EXCEPT ![w] = Tail(@)]

\* SIGKILL, out of memory, power.
Crash(w) ==
  /\ pc[w] # "down"
  /\ Fault("crash")
  /\ ToPc(w, "down")
  /\ Forget(w)
  /\ beating' = [beating EXCEPT ![w] = FALSE]
  /\ MayLoseMessage(w)
  /\ UNCHANGED <<storeVars, announced, idleWorkers, jobQueue, submitting, dispatching, attempts>>

\* A heartbeat raises, which cancels the work loop.  asyncio.run then waits
\* for the thread: a process that is executing a job lives on, silently, until
\* the job is done.
HeartbeatLoopDies(w) ==
  /\ beating[w]
  /\ Fault("heartbeatLoopDies")
  /\ beating' = [beating EXCEPT ![w] = FALSE]
  /\ IF Executing(w) \/ pc[w] \in {"finishing", "fatal"}
     THEN UNCHANGED <<pc, held>>
     ELSE ToPc(w, "down") /\ Forget(w)
  /\ MayLoseMessage(w)
  /\ UNCHANGED <<storeVars, announced, idleWorkers, jobQueue, submitting, dispatching, attempts>>

-----------------------------------------------------------------------------
(* The worker: work loop.                                                    *)

AnnounceIdle(w) ==
  /\ pc[w] = "idle" /\ beating[w] /\ ~announced[w]
  /\ idleWorkers' = idleWorkers \union {w}
  /\ announced' = [announced EXCEPT ![w] = TRUE]
  /\ UNCHANGED <<storeVars, pc, held, beating, jobQueue, inbox, submitting, dispatching, attempts, faults>>

\* pop_worker_job, then get_scheduled_job_by_id_for_worker.
FetchPayload(w) ==
  /\ pc[w] = "idle" /\ announced[w] /\ inbox[w] # <<>>
  /\ inbox' = [inbox EXCEPT ![w] = Tail(@)]
  /\ LET j == Head(inbox[w])
     IN IF ScheduledTo(j, w)
        THEN /\ ToPc(w, "fetched")
             /\ held' = [held EXCEPT ![w] = j]
             /\ UNCHANGED announced
        ELSE /\ announced' = [announced EXCEPT ![w] = FALSE]
             /\ UNCHANGED <<pc, held>>
  /\ UNCHANGED <<storeVars, beating, idleWorkers, jobQueue, submitting, dispatching, attempts, faults>>

MarkWorkerBusy(w) ==
  /\ pc[w] = "fetched"
  /\ idleWorkers' = idleWorkers \ {w}
  /\ announced' = [announced EXCEPT ![w] = FALSE]
  /\ ToPc(w, "claiming")
  /\ UNCHANGED <<storeVars, held, beating, jobQueue, inbox, submitting, dispatching, attempts, faults>>

\* mark_job_running raises ValueError when the job went to someone else.
ClaimJob(w) ==
  /\ pc[w] = "claiming"
  /\ IF assignedWorker[held[w]] = w
     THEN /\ MarkJobRunning(held[w], w)
          /\ attempts' = [attempts EXCEPT ![held[w]] = @ + 1]
          /\ ToPc(w, "running")
          /\ UNCHANGED held
     ELSE /\ ToPc(w, "idle")
          /\ Forget(w)
          /\ UNCHANGED <<storeVars, attempts>>
  /\ UNCHANGED <<beating, announced, redisVars, submitting, dispatching, faults>>

-----------------------------------------------------------------------------
(* The worker: execute_assigned_job in its thread.                           *)

RunSucceeds(w) ==
  /\ pc[w] = "running"
  /\ CompleteJobSuccess(held[w], w)
  /\ ToPc(w, "finishing")
  /\ UNCHANGED <<held, beating, announced, redisVars, submitting, dispatching, attempts, faults>>

\* complete_job_success commits and then raises; the handler reports a failure.
RunSucceedsUnheard(w) ==
  /\ pc[w] = "running"
  /\ Fault("lostAck")
  /\ CompleteJobSuccess(held[w], w)
  /\ ToPc(w, "ackLost")
  /\ UNCHANGED <<held, beating, announced, redisVars, submitting, dispatching, attempts>>

\* The algorithm, the input or a timeout: the worker lives on.  The
\* infrastructure: it exits, and a CUDA failure (transient) asks for a retry.
FailureClasses == {f \in [fatal : BOOLEAN, transient : BOOLEAN] : f.transient => f.fatal}

\* A success that was not heard of is permanent: a WorkerFatalError.
RunFails(w) ==
  /\ pc[w] \in {"running", "ackLost"}
  /\ \E f \in FailureClasses :
       /\ pc[w] = "ackLost" => f.fatal /\ ~f.transient
       /\ CompleteJobFailure(held[w], w, f.transient, FALSE)
       /\ ToPc(w, IF f.fatal THEN "fatal" ELSE "finishing")
  /\ UNCHANGED <<held, beating, announced, redisVars, submitting, dispatching, attempts, faults>>

\* is_cancel_requested is polled; the subprocess is stopped and diagnostics
\* are uploaded before anything is written.
ObserveCancel(w) ==
  /\ pc[w] = "running" /\ cancelRequested[held[w]]
  /\ ToPc(w, "stopping")
  /\ UNCHANGED <<storeVars, held, beating, announced, redisVars, submitting, dispatching, attempts, faults>>

CancelCompletes(w) ==
  /\ pc[w] = "stopping"
  /\ CompleteJobFailure(held[w], w, FALSE, TRUE)
  /\ ToPc(w, "finishing")
  /\ UNCHANGED <<held, beating, announced, redisVars, submitting, dispatching, attempts, faults>>

ReleaseState_KeepsJob(w) ==
  /\ pc[w] \in {"finishing", "fatal"}
  /\ LET lives == pc[w] = "finishing" /\ beating[w]
     IN /\ ToPc(w, IF lives THEN "idle" ELSE "down")
        /\ beating' = [beating EXCEPT ![w] = lives]
  /\ UNCHANGED <<storeVars, held, announced, redisVars, submitting, dispatching, attempts, faults>>

\* The finally clause; then the work loop goes on or the process exits.
ReleaseState(w) ==
  /\ pc[w] \in {"finishing", "fatal"}
  /\ Forget(w)
  /\ LET lives == pc[w] = "finishing" /\ beating[w]
     IN /\ ToPc(w, IF lives THEN "idle" ELSE "down")
        /\ beating' = [beating EXCEPT ![w] = lives]
  /\ UNCHANGED <<storeVars, announced, redisVars, submitting, dispatching, attempts, faults>>

WorkLoopStep(w) ==
  \/ AnnounceIdle(w)
  \/ FetchPayload(w)
  \/ MarkWorkerBusy(w)
  \/ ClaimJob(w)
  \/ RunSucceeds(w)
  \/ RunFails(w)
  \/ ObserveCancel(w)
  \/ CancelCompletes(w)
  \/ ReleaseState(w)

-----------------------------------------------------------------------------
(* The passage of time.                                                      *)

SilentWorkerAges(w) ==
  /\ ~beating[w]
  /\ HeartbeatAges(w)
  /\ UNCHANGED <<workerVars, redisVars, submitting, dispatching, attempts, faults>>

LateHeartbeat(w) ==
  /\ beating[w]
  /\ HeartbeatAges(w)
  /\ Fault("lateHeartbeat")
  /\ UNCHANGED <<workerVars, redisVars, submitting, dispatching, attempts>>

\* A live worker is about to claim the job of row r: it executes nothing, and
\* the message is on its way to it.
Attended(r) ==
  LET w == r.worker
  IN /\ pc[w] # "down" /\ ~Executing(w)
     /\ \/ dispatching = <<r.job, w, "push">>
        \/ held[w] = r.job
        \/ \E i \in DOMAIN inbox[w] : inbox[w][i] = r.job

\* The claim timeout (30s) passes; for an attended row that takes a fault.  A
\* worker that has been silent as long is past the offline cutoff (15s) too.
ClaimTimeoutPasses(r) ==
  /\ AssignmentAges(r)
  /\ beating[r.worker] \/ heartbeatStale[r.worker]
  /\ IF Attended(r) THEN Fault("slowClaim") ELSE UNCHANGED faults
  /\ UNCHANGED <<workerVars, redisVars, submitting, dispatching, attempts>>

\* The retry delay (30s) outlasts the window after a commit, the heartbeat
\* interval (5s) and the offline cutoff (15s): by then no worker is still about
\* to forget j, and a worker row that shows j is offline already or one that a
\* live worker keeps refreshing because it still executes j.
RetryDelayPasses(j) ==
  /\ RetryDelayElapses(j)
  /\ \A w \in Workers :
       /\ held[w] = j => pc[w] \notin {"finishing", "fatal"}
       /\ runningJob[w] = j /\ workerStatus[w] # "offline" => beating[w] /\ held[w] = j
  /\ UNCHANGED <<workerVars, redisVars, submitting, dispatching, attempts, faults>>

-----------------------------------------------------------------------------
Next ==
  \/ \E j \in Jobs : \/ SubmitJob(j) \/ EnqueueSubmitted(j) \/ ApiRaises(j)
                     \/ UserCancels(j) \/ RetryDelayPasses(j)
  \/ \E b \in Batches : SubmitBatch(b)
  \/ SchedulerStep
  \/ SchedulerRaises
  \/ \E j \in Jobs, w \in Workers : PushRaises(j, w)
  \/ \E w \in Workers :
       \/ Start(w) \/ Heartbeat(w) \/ Crash(w) \/ HeartbeatLoopDies(w)
       \/ WorkLoopStep(w) \/ RunSucceedsUnheard(w)
       \/ SilentWorkerAges(w) \/ LateHeartbeat(w)
  \/ \E r \in openAssignments : ClaimTimeoutPasses(r)

Spec == Init /\ [][Next]_vars

\* Every loop keeps going and time passes; containers are restarted (restart:
\* unless-stopped) and the runner has a timeout.
Fairness ==
  /\ WF_vars(RecoverLostWorkers)
  /\ WF_vars(RecoverUnclaimedJobs)
  /\ WF_vars(EnqueueQueuedJobs)
  /\ WF_vars(DispatchAvailableWork)
  /\ WF_vars(\E j \in Jobs, w \in Workers : PushWorkerJob(j, w) \/ UndoDispatch(j, w))
  /\ \A w \in Workers :
       WF_vars(Start(w)) /\ WF_vars(Heartbeat(w)) /\ WF_vars(WorkLoopStep(w))
                         /\ WF_vars(SilentWorkerAges(w))
  /\ \A j \in Jobs :
       /\ WF_vars(RetryDelayPasses(j))
       /\ WF_vars(\E r \in openAssignments : r.job = j /\ ~Attended(r) /\ ClaimTimeoutPasses(r))

FairSpec == Spec /\ Fairness

-----------------------------------------------------------------------------
(* What the system guarantees.                                               *)

\* The local state of the processes and of Redis keeps to its types, and a
\* process names a job exactly while it has one in hand: whatever end the job
\* or the process comes to, an idle or restarted worker has forgotten it.
ClusterTypeOK ==
  /\ pc          \in [Workers -> Pc]
  /\ held        \in [Workers -> Jobs \union {NoJob}]
  /\ \A w \in Workers : held[w] = NoJob <=> pc[w] \in {"down", "idle"}
  /\ beating     \in [Workers -> BOOLEAN]
  /\ announced   \in [Workers -> BOOLEAN]
  /\ idleWorkers \in SUBSET Workers
  /\ jobQueue    \in SUBSET Jobs
  /\ inbox       \in [Workers -> Seq(Jobs)]
  /\ submitting  \in SUBSET Jobs
  /\ dispatching \in (Jobs \X Workers \X {"push", "undo"}) \union {NoDispatch}
  /\ attempts    \in [Jobs -> Nat]
  /\ faults      \in 0 .. MaxFaults

\* Every execution is paid for: however claims, timeouts, cancels, crashes and
\* requeues interleave, a job is started at most once more than the retries
\* charged to it, and so at most MaxRetries + 1 times.
AttemptsPaidFor == \A j \in Jobs : attempts[j] <= retryCount[j] + 1

\* The outcome of a job is final once no worker holds the job any more: no
\* recovery pass, no old message and no other worker's completion changes it.
ReleasedOutcomeIsFinal ==
  [][\A j \in Jobs :
       jobStatus[j] \in TerminalStatus /\ (\A w \in Workers : held[w] # j)
         => jobStatus'[j] = jobStatus[j]]_vars

\* A canceled job is not taken up again.
CanceledIsFinal ==
  [][\A j \in Jobs : jobStatus[j] = "canceled" => jobStatus'[j] = "canceled"]_vars

\* A job shown as succeeded stays so.
SucceededIsFinal ==
  [][\A j \in Jobs : jobStatus[j] = "succeeded" => jobStatus'[j] = "succeeded"]_vars

\* A success is only ever overwritten for a job that had been given up and
\* retried: two workers then report on it.
SuccessOverwrittenOnlyIfRetried ==
  [][\A j \in Jobs :
       jobStatus[j] = "succeeded" /\ jobStatus'[j] # "succeeded" => retryCount[j] > 0]_vars

\* A worker executes one job at a time, and no other job is waiting on it.
OneJobPerWorker ==
  \A w \in Workers : Executing(w) => ActiveJobsOf(w) \subseteq {held[w]}

\* No RUNNING job is forgotten: its worker executes it, or is silent with the
\* job in its row, which is what the offline recovery goes by.
RunningJobIsWatched ==
  \A j \in Jobs : jobStatus[j] = "running" =>
    LET w == assignedWorker[j]
    IN \/ Executing(w) /\ held[w] = j
       \/ ~beating[w] /\ runningJob[w] = j /\ workerStatus[w] = "busy"

\* The jobs live the life the abstract specification promises.
Lifecycle == INSTANCE JobLifecycle WITH status <- jobStatus, retries <- retryCount
ImplementsLifecycle == Lifecycle!Spec

\* A batch shown as ended has no job left to run.
EndedBatchHasEnded ==
  \A b \in Batches :
    batchStatus[b] \in {"succeeded", "partial_failed", "failed", "canceled"} =>
      \A j \in Jobs : BatchOf[j] = b => jobStatus[j] \in TerminalStatus

\* A dispatched job is claimed or given back.
ScheduledIsTransient ==
  \A j \in Jobs : jobStatus[j] = "scheduled" ~> jobStatus[j] # "scheduled"

\* A RUNNING job reaches an end or is retried.
RunningIsTransient ==
  \A j \in Jobs : jobStatus[j] = "running" ~> jobStatus[j] # "running"

\* An idle worker is given work while there is some.
IdleWorkerIsUsed ==
  \A w \in Workers, j \in Jobs :
    workerStatus[w] = "idle" /\ Ready(j) ~> workerStatus[w] # "idle" \/ ~Ready(j)

\* Every submitted job ends.
JobsEnd ==
  \A j \in Jobs : jobStatus[j] = "queued" ~> jobStatus[j] \in TerminalStatus
=============================================================================
