--------------------------- MODULE ClusterProofs ---------------------------
(***************************************************************************)
(* What the scheduler and the workers guarantee together, for any number   *)
(* of jobs, workers, faults and messages, and whatever the environment is  *)
(* allowed to do.                                                          *)
(*                                                                         *)
(* They only write through the store's methods, so the store's invariants  *)
(* are theirs.  On top of them, AttemptsInv counts executions: a job that  *)
(* is not yet running again, or that a worker is about to claim and still  *)
(* owns, was never started more often than it was charged.                 *)
(***************************************************************************)
EXTENDS Cluster, ControlPlaneStoreProofs

\* A worker past the fetch of a payload holds a job.
HoldsAJob == \A w \in Workers : pc[w] \notin {"down", "idle"} => held[w] \in Jobs

LocalInv == ClusterTypeOK /\ HoldsAJob

-----------------------------------------------------------------------------
(* Types of the local state                                                  *)

\* Initially no worker runs and nothing is queued.
LEMMA LocalInit == Init => LocalInv
<1> SUFFICES ASSUME Init PROVE LocalInv
  OBVIOUS
<1>1. inbox \in [Workers -> Seq(Jobs)]
  <2>1. <<>> \in Seq(Jobs)
    OBVIOUS
  <2> QED BY <2>1 DEF Init
<1> QED BY <1>1, ClusterAssumption DEF Init, LocalInv, ClusterTypeOK, HoldsAJob, Pc, NoDispatch

\* A step that leaves worker processes, inboxes and attempts alone.
LEMMA LocalQuiet ==
  ASSUME LocalInv, UNCHANGED <<workerVars, inbox, attempts>>,
         dispatching' \in {dispatching, NoDispatch}, faults' \in 0 .. MaxFaults,
         idleWorkers' \in SUBSET Workers, jobQueue' \in SUBSET Jobs, submitting' \in SUBSET Jobs
  PROVE  LocalInv'
  BY DEF LocalInv, ClusterTypeOK, HoldsAJob, workerVars

\* The bound on faults is kept.
LEMMA FaultCounted ==
  ASSUME LocalInv, NEW e, Fault(e)
  PROVE  faults' \in 0 .. MaxFaults
  BY ClusterAssumption DEF LocalInv, ClusterTypeOK, Fault

\* API and scheduler.
LEMMA LocalScheduler ==
  ASSUME StoreTypeOK, LocalInv,
         \/ \E j \in Jobs : SubmitJob(j) \/ EnqueueSubmitted(j) \/ ApiRaises(j) \/ UserCancels(j)
         \/ \E b \in Batches : SubmitBatch(b)
         \/ SchedulerStep
         \/ SchedulerRaises
         \/ \E j \in Jobs, w \in Workers : PushRaises(j, w)
  PROVE  LocalInv'
<1> USE ClusterAssumption
<1>0. /\ idleWorkers \in SUBSET Workers /\ jobQueue \in SUBSET Jobs /\ submitting \in SUBSET Jobs
      /\ faults \in 0 .. MaxFaults /\ inbox \in [Workers -> Seq(Jobs)]
  BY DEF LocalInv, ClusterTypeOK
<1>1. ASSUME NEW j \in Jobs, SubmitJob(j) \/ EnqueueSubmitted(j) \/ ApiRaises(j) PROVE LocalInv'
  BY <1>0, <1>1, FaultCounted, LocalQuiet DEF SubmitJob, EnqueueSubmitted, ApiRaises, redisVars
<1>2. ASSUME NEW j \in Jobs, UserCancels(j) PROVE LocalInv'
  BY <1>0, <1>2, LocalQuiet DEF UserCancels, redisVars
<1>3. ASSUME NEW b \in Batches, SubmitBatch(b) PROVE LocalInv'
  BY <1>0, <1>3, LocalQuiet DEF SubmitBatch, redisVars
<1>4. CASE RecoverLostWorkers
  BY <1>0, <1>4, LocalQuiet DEF RecoverLostWorkers, redisVars
<1>5. CASE RecoverUnclaimedJobs
  <2>1. \A r \in UnclaimedOverdue : r.job \in Jobs /\ r.worker \in Workers
    BY DEF StoreTypeOK, Assignment, UnclaimedOverdue
  <2> QED BY <1>0, <1>5, <2>1, LocalQuiet DEF RecoverUnclaimedJobs
<1>6. CASE EnqueueQueuedJobs
  BY <1>0, <1>6, LocalQuiet DEF EnqueueQueuedJobs, DueJobs
<1>7. CASE DispatchAvailableWork
  <2>1. PICK w \in idleWorkers, j \in jobQueue : Assign(j, w) \/ RefuseWorker(w) \/ RefuseJob(j, w)
    BY <1>7 DEF DispatchAvailableWork
  <2>2. CASE Assign(j, w)
    BY <1>0, <1>7, <2>2 DEF DispatchAvailableWork, Assign, LocalInv, ClusterTypeOK, HoldsAJob,
         workerVars
  <2>3. CASE RefuseWorker(w) \/ RefuseJob(j, w)
    BY <1>0, <1>7, <2>3, LocalQuiet DEF DispatchAvailableWork, RefuseWorker, RefuseJob
  <2> QED BY <2>1, <2>2, <2>3
<1>8. ASSUME NEW j \in Jobs, NEW w \in Workers, PushWorkerJob(j, w) PROVE LocalInv'
  <2>1. inbox' \in [Workers -> Seq(Jobs)]
    BY <1>0, <1>8 DEF PushWorkerJob
  <2> QED BY <1>8, <2>1 DEF PushWorkerJob, LocalInv, ClusterTypeOK, HoldsAJob, workerVars
<1>9. ASSUME NEW j \in Jobs, NEW w \in Workers, UndoDispatch(j, w) PROVE LocalInv'
  BY <1>9 DEF UndoDispatch, LocalInv, ClusterTypeOK, HoldsAJob, workerVars
<1>10. CASE SchedulerRaises
  BY <1>0, <1>10, FaultCounted, LocalQuiet DEF SchedulerRaises
<1>11. ASSUME NEW j \in Jobs, NEW w \in Workers, PushRaises(j, w) PROVE LocalInv'
  <2>1. inbox' \in [Workers -> Seq(Jobs)]
    BY <1>0, <1>11 DEF PushRaises
  <2> QED BY <1>11, <2>1, FaultCounted
      DEF PushRaises, LocalInv, ClusterTypeOK, HoldsAJob, workerVars
<1> QED BY <1>1, <1>2, <1>3, <1>4, <1>5, <1>6, <1>7, <1>8, <1>9, <1>10, <1>11 DEF SchedulerStep

\* The steps of a worker.
LEMMA LocalWorker ==
  ASSUME LocalInv, NEW w \in Workers,
         \/ Start(w) \/ Heartbeat(w) \/ Crash(w) \/ HeartbeatLoopDies(w)
         \/ WorkLoopStep(w) \/ RunSucceedsUnheard(w)
         \/ SilentWorkerAges(w) \/ LateHeartbeat(w)
  PROVE  LocalInv'
<1> USE DEF LocalInv, ClusterTypeOK, HoldsAJob, Pc, ToPc, Forget
<1>1. CASE Start(w)
  BY <1>1 DEF Start, redisVars
<1>2. CASE Heartbeat(w)
  BY <1>2 DEF Heartbeat, workerVars, redisVars
<1>3. ASSUME MayLoseMessage(w) PROVE inbox' \in [Workers -> Seq(Jobs)]
  <2>1. CASE UNCHANGED inbox
    BY <2>1
  <2>2. CASE inbox[w] # <<>> /\ inbox' = [inbox EXCEPT ![w] = Tail(@)]
    <3>1. Tail(inbox[w]) \in Seq(Jobs)
      BY <2>2
    <3> QED BY <2>2, <3>1
  <2> QED BY <1>3, <2>1, <2>2 DEF MayLoseMessage
<1>4. CASE Crash(w)
  BY <1>3, <1>4, FaultCounted DEF Crash
<1>5. CASE HeartbeatLoopDies(w)
  <2>1. faults' \in 0 .. MaxFaults /\ inbox' \in [Workers -> Seq(Jobs)]
    BY <1>3, <1>5, FaultCounted DEF HeartbeatLoopDies
  <2>2. /\ \/ UNCHANGED <<pc, held>>
           \/ pc' = [pc EXCEPT ![w] = "down"] /\ held' = [held EXCEPT ![w] = NoJob]
        /\ beating' = [beating EXCEPT ![w] = FALSE]
        /\ UNCHANGED <<announced, idleWorkers, jobQueue, submitting, dispatching, attempts>>
    BY <1>5 DEF HeartbeatLoopDies
  <2> QED BY <2>1, <2>2
<1>6. CASE AnnounceIdle(w)
  BY <1>6 DEF AnnounceIdle
<1>7. CASE FetchPayload(w)
  <2>1. inbox' \in [Workers -> Seq(Jobs)] /\ Head(inbox[w]) \in Jobs
    BY <1>7 DEF FetchPayload
  <2>2. PICK i \in Jobs :
          /\ i # NoJob
          /\ \/ /\ pc' = [pc EXCEPT ![w] = "fetched"] /\ held' = [held EXCEPT ![w] = i]
                /\ UNCHANGED announced
             \/ announced' = [announced EXCEPT ![w] = FALSE] /\ UNCHANGED <<pc, held>>
    BY <1>7, <2>1, StoreAssumption DEF FetchPayload
  <2>3. UNCHANGED <<beating, idleWorkers, jobQueue, submitting, dispatching, attempts, faults>>
    BY <1>7 DEF FetchPayload
  <2>4. inbox' \in [Workers -> Seq(Jobs)]
    BY <2>1
  <2>5. CASE /\ pc' = [pc EXCEPT ![w] = "fetched"] /\ held' = [held EXCEPT ![w] = i]
             /\ UNCHANGED announced
    <3>1. pc' \in [Workers -> Pc] /\ held' \in [Workers -> Jobs \union {NoJob}]
      BY <2>5
    <3>2. \A u \in Workers : (held'[u] = NoJob <=> pc'[u] \in {"down", "idle"})
                           /\ (pc'[u] \notin {"down", "idle"} => held'[u] \in Jobs)
      BY <2>2, <2>5
    <3> QED BY <2>3, <2>4, <2>5, <3>1, <3>2
  <2>6. CASE announced' = [announced EXCEPT ![w] = FALSE] /\ UNCHANGED <<pc, held>>
    BY <2>3, <2>4, <2>6
  <2> QED BY <2>2, <2>5, <2>6
<1>8. CASE MarkWorkerBusy(w)
  BY <1>8 DEF MarkWorkerBusy
<1>9. CASE ClaimJob(w)
  <2>1. /\ pc[w] = "claiming"
        /\ \/ pc' = [pc EXCEPT ![w] = "running"] /\ UNCHANGED held
           \/ pc' = [pc EXCEPT ![w] = "idle"] /\ held' = [held EXCEPT ![w] = NoJob]
        /\ UNCHANGED <<beating, announced, redisVars, submitting, dispatching, faults>>
    BY <1>9 DEF ClaimJob
  <2>2. attempts' \in [Jobs -> Nat]
    <3>1. attempts' = attempts \/ attempts' = [attempts EXCEPT ![held[w]] = @ + 1]
      BY <1>9 DEF ClaimJob
    <3> QED BY <3>1
  <2> QED BY <2>1, <2>2 DEF redisVars
<1>10. CASE RunSucceeds(w)
  BY <1>10 DEF RunSucceeds, redisVars
<1>11. CASE RunSucceedsUnheard(w)
  BY <1>11, FaultCounted DEF RunSucceedsUnheard, redisVars
<1>12. CASE RunFails(w)
  BY <1>12 DEF RunFails, redisVars
<1>13. CASE ObserveCancel(w)
  BY <1>13 DEF ObserveCancel, redisVars
<1>14. CASE CancelCompletes(w)
  BY <1>14 DEF CancelCompletes, redisVars
<1>15. CASE ReleaseState(w)
  BY <1>15 DEF ReleaseState, redisVars
<1>16. CASE SilentWorkerAges(w)
  BY <1>16 DEF SilentWorkerAges, workerVars, redisVars
<1>17. CASE LateHeartbeat(w)
  BY <1>17, FaultCounted DEF LateHeartbeat, workerVars, redisVars
<1> QED BY <1>1, <1>2, <1>4, <1>5, <1>6, <1>7, <1>8, <1>9, <1>10, <1>11, <1>12, <1>13,
           <1>14, <1>15, <1>16, <1>17 DEF WorkLoopStep

\* No step breaks the types, or leaves a worker without the job it works on.
LEMMA LocalStep ==
  ASSUME StoreTypeOK, LocalInv, [Next]_vars
  PROVE  LocalInv'
<1>0. /\ idleWorkers \in SUBSET Workers /\ jobQueue \in SUBSET Jobs /\ submitting \in SUBSET Jobs
      /\ faults \in 0 .. MaxFaults
  BY DEF LocalInv, ClusterTypeOK
<1>1. ASSUME NEW j \in Jobs, RetryDelayPasses(j) PROVE LocalInv'
  BY <1>0, <1>1, LocalQuiet DEF RetryDelayPasses, redisVars
<1>2. ASSUME NEW r \in openAssignments, ClaimTimeoutPasses(r) PROVE LocalInv'
  BY <1>0, <1>2, LocalQuiet, FaultCounted DEF ClaimTimeoutPasses, redisVars
<1>3. CASE UNCHANGED vars
  BY <1>0, <1>3, LocalQuiet DEF vars, redisVars
<1> QED BY <1>1, <1>2, <1>3, LocalScheduler, LocalWorker DEF Next
-----------------------------------------------------------------------------
(* The cluster implements the store specification                            *)

\* The state in which a worker's thread is.
LEMMA HolderFacts ==
  ASSUME LocalInv, NEW w \in Workers
  PROVE  /\ held[w] \in Jobs \union {NoJob}
         /\ pc[w] \notin {"down", "idle"} => held[w] \in Jobs
         /\ \A j \in Reportable(w) : j \in Jobs \union {NoJob}
  BY DEF LocalInv, ClusterTypeOK, HoldsAJob, Reportable

\* Nobody writes to the store but through its methods.
LEMMA StoreSteps ==
  ASSUME LocalInv, [Next]_vars
  PROVE  [StoreNext]_storeVars
<1>1. ASSUME NEW j \in Jobs, SubmitJob(j) \/ UserCancels(j) \/ RetryDelayPasses(j)
      PROVE  StoreNext
  BY <1>1 DEF SubmitJob, UserCancels, RetryDelayPasses, StoreNext
<1>2. ASSUME NEW b \in Batches, SubmitBatch(b) PROVE StoreNext
  BY <1>2 DEF SubmitBatch, StoreNext
<1>3. CASE RecoverLostWorkers \/ RecoverUnclaimedJobs
  BY <1>3 DEF RecoverLostWorkers, RecoverUnclaimedJobs, StoreNext
<1>4. CASE EnqueueQueuedJobs \/ SchedulerRaises \/ \E j \in Jobs : EnqueueSubmitted(j) \/ ApiRaises(j)
  BY <1>4 DEF EnqueueQueuedJobs, SchedulerRaises, EnqueueSubmitted, ApiRaises, StoreNext
<1>5. CASE DispatchAvailableWork
  <2>1. PICK w \in idleWorkers, j \in jobQueue :
          AssignJobToWorker(j, w) \/ UNCHANGED storeVars
    BY <1>5 DEF DispatchAvailableWork, Assign, RefuseWorker, RefuseJob
  <2>2. w \in Workers /\ j \in Jobs
    BY DEF LocalInv, ClusterTypeOK
  <2> QED BY <2>1, <2>2 DEF StoreNext
<1>6. ASSUME NEW j \in Jobs, NEW w \in Workers,
             PushWorkerJob(j, w) \/ UndoDispatch(j, w) \/ PushRaises(j, w)
      PROVE  [StoreNext]_storeVars
  BY <1>6 DEF PushWorkerJob, UndoDispatch, PushRaises, StoreNext
<1>7. ASSUME NEW w \in Workers, Start(w) \/ Heartbeat(w) PROVE StoreNext
  <2>1. \E j \in Jobs \union {NoJob} : UpsertWorkerHeartbeat(w, j)
    BY <1>7, HolderFacts DEF Start, Heartbeat
  <2> QED BY <2>1 DEF StoreNext
<1>8. ASSUME NEW w \in Workers, Crash(w) \/ HeartbeatLoopDies(w) \/ AnnounceIdle(w)
               \/ FetchPayload(w) \/ MarkWorkerBusy(w) \/ ObserveCancel(w) \/ ReleaseState(w)
      PROVE  UNCHANGED storeVars
  BY <1>8 DEF Crash, HeartbeatLoopDies, AnnounceIdle, FetchPayload, MarkWorkerBusy,
              ObserveCancel, ReleaseState
<1>9. ASSUME NEW w \in Workers, ClaimJob(w) PROVE [StoreNext]_storeVars
  <2>1. held[w] \in Jobs
    BY <1>9, HolderFacts DEF ClaimJob
  <2>2. MarkJobRunning(held[w], w) \/ UNCHANGED storeVars
    BY <1>9 DEF ClaimJob
  <2> QED BY <2>1, <2>2 DEF StoreNext
<1>10. ASSUME NEW w \in Workers,
              RunSucceeds(w) \/ RunSucceedsUnheard(w) \/ RunFails(w) \/ CancelCompletes(w)
       PROVE  StoreNext
  <2>1. held[w] \in Jobs
    BY <1>10, HolderFacts DEF RunSucceeds, RunSucceedsUnheard, RunFails, CancelCompletes
  <2>2. \/ CompleteJobSuccess(held[w], w)
        \/ \E transient, canceled \in BOOLEAN : CompleteJobFailure(held[w], w, transient, canceled)
    <3>1. CASE RunFails(w)
      <4>1. PICK f \in FailureClasses : CompleteJobFailure(held[w], w, f.transient, FALSE)
        BY <3>1 DEF RunFails
      <4>2. f.transient \in BOOLEAN
        BY <4>1 DEF FailureClasses
      <4> QED BY <4>1, <4>2
    <3>2. CASE ~RunFails(w)
      BY <1>10, <3>2 DEF RunSucceeds, RunSucceedsUnheard, CancelCompletes
    <3> QED BY <3>1, <3>2
  <2> QED BY <2>1, <2>2 DEF StoreNext
<1>11. ASSUME NEW w \in Workers, SilentWorkerAges(w) \/ LateHeartbeat(w) PROVE StoreNext
  BY <1>11 DEF SilentWorkerAges, LateHeartbeat, StoreNext
<1>12. ASSUME NEW r \in openAssignments, ClaimTimeoutPasses(r) PROVE StoreNext
  BY <1>12 DEF ClaimTimeoutPasses, StoreNext
<1>13. CASE UNCHANGED vars
  BY <1>13 DEF vars
<1> QED BY <1>1, <1>2, <1>3, <1>4, <1>5, <1>6, <1>7, <1>8, <1>9, <1>10, <1>11, <1>12, <1>13
        DEF Next, SchedulerStep, WorkLoopStep

ClusterInv == LocalInv /\ StoreInv

\* The store's invariants hold in the running system.
LEMMA ClusterInvariance == Spec => []ClusterInv
<1>1. Init => ClusterInv
  BY LocalInit, InvInit DEF Init, ClusterInv
<1>2. ClusterInv /\ [Next]_vars => ClusterInv'
  BY LocalStep, StoreSteps, InvStep DEF ClusterInv, StoreInv
<1> QED BY <1>1, <1>2, PTL DEF Spec

\* Processes, Redis structures and counters keep to their types.
THEOREM ClusterTypeCorrect == Spec => []ClusterTypeOK
<1>1. ClusterInv => ClusterTypeOK
  BY DEF ClusterInv, LocalInv
<1> QED BY <1>1, ClusterInvariance, PTL

\* The running system is an implementation of the store specification, so
\* what holds of any caller of the store holds of scheduler and workers.
THEOREM ClusterImplementsStore == Spec => StoreSpec
<1>1. Init => StoreInit
  BY DEF Init
<1>2. ClusterInv /\ [Next]_vars => [StoreNext]_storeVars
  BY StoreSteps DEF ClusterInv
<1> QED BY <1>1, <1>2, ClusterInvariance, PTL DEF Spec, StoreSpec

-----------------------------------------------------------------------------
(* Executions are paid for                                                   *)

\* Worker w is about to start a job it still owns.
AboutToStart(w) == pc[w] \in {"fetched", "claiming"} /\ assignedWorker[held[w]] = w

AttemptsInv ==
  /\ AttemptsPaidFor
  /\ \A j \in Jobs : jobStatus[j] \in {"absent", "queued", "scheduled"}
                       => attempts[j] <= retryCount[j]
  /\ \A w \in Workers : AboutToStart(w) => attempts[held[w]] <= retryCount[held[w]]

\* Only a claim starts a job, and a worker turns to a job only while that job
\* is scheduled to it.
LEMMA WorkerTurns ==
  ASSUME LocalInv, [Next]_vars, \A w \in Workers : ~ClaimJob(w)
  PROVE  /\ attempts' = attempts
         /\ \A w \in Workers : pc'[w] \in {"fetched", "claiming"} =>
              \/ pc[w] \in {"fetched", "claiming"} /\ held'[w] = held[w]
              \/ ScheduledTo(held'[w], w) /\ UNCHANGED storeVars
<1> DEFINE Turns == /\ attempts' = attempts
                    /\ \A w \in Workers : pc'[w] \in {"fetched", "claiming"} =>
                         \/ pc[w] \in {"fetched", "claiming"} /\ held'[w] = held[w]
                         \/ ScheduledTo(held'[w], w) /\ UNCHANGED storeVars
<1> SUFFICES Turns
  OBVIOUS
<1>0. pc \in [Workers -> Pc] /\ held \in [Workers -> Jobs \union {NoJob}]
  BY DEF LocalInv, ClusterTypeOK
<1>1. ASSUME UNCHANGED <<workerVars, attempts>> PROVE Turns
  BY <1>1 DEF workerVars
<1>2. ASSUME NEW j \in Jobs,
             SubmitJob(j) \/ EnqueueSubmitted(j) \/ ApiRaises(j) \/ UserCancels(j)
               \/ RetryDelayPasses(j)
      PROVE  Turns
  BY <1>1, <1>2 DEF SubmitJob, EnqueueSubmitted, ApiRaises, UserCancels, RetryDelayPasses
<1>3. ASSUME NEW b \in Batches, SubmitBatch(b) PROVE Turns
  BY <1>1, <1>3 DEF SubmitBatch
<1>4. CASE \/ RecoverLostWorkers \/ RecoverUnclaimedJobs \/ EnqueueQueuedJobs
           \/ DispatchAvailableWork \/ SchedulerRaises
  BY <1>1, <1>4 DEF RecoverLostWorkers, RecoverUnclaimedJobs, EnqueueQueuedJobs,
                    DispatchAvailableWork, SchedulerRaises
<1>5. ASSUME NEW j \in Jobs, NEW w \in Workers,
             PushWorkerJob(j, w) \/ UndoDispatch(j, w) \/ PushRaises(j, w)
      PROVE  Turns
  BY <1>1, <1>5 DEF PushWorkerJob, UndoDispatch, PushRaises
<1>6. ASSUME NEW w \in Workers, Heartbeat(w) \/ SilentWorkerAges(w) \/ LateHeartbeat(w)
      PROVE  Turns
  BY <1>1, <1>6 DEF Heartbeat, SilentWorkerAges, LateHeartbeat
<1>7. ASSUME NEW w \in Workers, attempts' = attempts,
             \A v \in Workers \ {w} : pc'[v] = pc[v] /\ held'[v] = held[v],
             pc'[w] \notin {"fetched", "claiming"}
      PROVE  Turns
  BY <1>7
<1>8. ASSUME NEW w \in Workers, Start(w) PROVE Turns
  BY <1>0, <1>7, <1>8 DEF Start, ToPc
<1>9. ASSUME NEW w \in Workers, Crash(w) PROVE Turns
  BY <1>0, <1>7, <1>9 DEF Crash, ToPc, Forget
<1>10. ASSUME NEW w \in Workers, HeartbeatLoopDies(w) PROVE Turns
  <2>1. CASE UNCHANGED <<pc, held>>
    BY <1>10, <2>1 DEF HeartbeatLoopDies
  <2>2. CASE ToPc(w, "down") /\ Forget(w)
    BY <1>0, <1>7, <1>10, <2>2 DEF HeartbeatLoopDies, ToPc, Forget
  <2> QED BY <1>10, <2>1, <2>2 DEF HeartbeatLoopDies
<1>11. ASSUME NEW w \in Workers, AnnounceIdle(w) PROVE Turns
  BY <1>11 DEF AnnounceIdle
<1>12. ASSUME NEW w \in Workers, FetchPayload(w) PROVE Turns
  <2>1. CASE ScheduledTo(Head(inbox[w]), w)
    <3>1. /\ pc' = [pc EXCEPT ![w] = "fetched"]
          /\ held' = [held EXCEPT ![w] = Head(inbox[w])]
          /\ attempts' = attempts /\ UNCHANGED storeVars
      BY <1>12, <2>1 DEF FetchPayload, ToPc
    <3> QED BY <1>0, <2>1, <3>1
  <2>2. CASE UNCHANGED <<pc, held>>
    BY <1>12, <2>2 DEF FetchPayload
  <2> QED BY <1>12, <2>1, <2>2 DEF FetchPayload
<1>13. ASSUME NEW w \in Workers, MarkWorkerBusy(w) PROVE Turns
  BY <1>0, <1>13 DEF MarkWorkerBusy, ToPc
<1>14. ASSUME NEW w \in Workers,
              RunSucceeds(w) \/ RunSucceedsUnheard(w) \/ RunFails(w) \/ ObserveCancel(w)
                \/ CancelCompletes(w)
       PROVE  Turns
  <2>1. /\ attempts' = attempts /\ held' = held
        /\ \E p \in {"finishing", "fatal", "ackLost", "stopping"} : pc' = [pc EXCEPT ![w] = p]
    BY <1>14 DEF RunSucceeds, RunSucceedsUnheard, RunFails, ObserveCancel, CancelCompletes, ToPc
  <2> QED BY <1>0, <1>7, <2>1
<1>15. ASSUME NEW w \in Workers, ReleaseState(w) PROVE Turns
  BY <1>0, <1>7, <1>15 DEF ReleaseState, ToPc, Forget
<1>16. ASSUME NEW r \in openAssignments, ClaimTimeoutPasses(r) PROVE Turns
  BY <1>1, <1>16 DEF ClaimTimeoutPasses
<1>17. CASE UNCHANGED vars
  BY <1>1, <1>17 DEF vars
<1> HIDE DEF Turns
<1>18. ASSUME NEW w \in Workers, WorkLoopStep(w) PROVE Turns
  BY <1>11, <1>12, <1>13, <1>14, <1>15, <1>18 DEF WorkLoopStep
<1>19. CASE SchedulerStep
  BY <1>4, <1>5, <1>19 DEF SchedulerStep
<1> QED
  BY <1>2, <1>3, <1>4, <1>5, <1>6, <1>8, <1>9, <1>10, <1>14, <1>16, <1>17, <1>18, <1>19
  DEF Next

\* A claim spends one attempt, every other step keeps or adds to what is paid for.
LEMMA AttemptsStep ==
  ASSUME ClusterInv, AttemptsInv, [Next]_vars
  PROVE  AttemptsInv'
<1>1. \A j \in Jobs : JobMove(j)
  BY StoreSteps, Moves DEF ClusterInv, StoreInv
<1>2. /\ attempts \in [Jobs -> Nat] /\ retryCount \in [Jobs -> Nat]
      /\ pc \in [Workers -> Pc] /\ held \in [Workers -> Jobs \union {NoJob}]
      /\ \A w \in Workers : pc[w] \in {"fetched", "claiming"} => held[w] \in Jobs
  BY DEF ClusterInv, LocalInv, ClusterTypeOK, HoldsAJob, StoreInv, StoreTypeOK
<1>3. \A j \in Jobs : retryCount'[j] \in Nat /\ retryCount'[j] >= retryCount[j]
  BY <1>1, <1>2 DEF JobMove, Rests, Enters, GetsWorker, GoesBack, Starts, Ends, Retries, Keeps
<1>4. ASSUME NEW w \in Workers, ClaimJob(w), assignedWorker[held[w]] = w
      PROVE  AttemptsInv'
  <2>1. /\ pc[w] = "claiming" /\ pc' = [pc EXCEPT ![w] = "running"] /\ held' = held
        /\ attempts' = [attempts EXCEPT ![held[w]] = @ + 1]
        /\ jobStatus' = [jobStatus EXCEPT ![held[w]] = "running"]
        /\ UNCHANGED <<assignedWorker, retryCount>>
    BY <1>4 DEF ClaimJob, MarkJobRunning, ToPc
  <2>2. held[w] \in Jobs /\ attempts[held[w]] <= retryCount[held[w]]
    BY <1>2, <1>4, <2>1 DEF AttemptsInv, AboutToStart
  <2>3. AttemptsPaidFor'
    BY <1>2, <2>1, <2>2 DEF AttemptsInv, AttemptsPaidFor
  <2>4. \A j \in Jobs : jobStatus'[j] \in {"absent", "queued", "scheduled"}
                          => attempts'[j] <= retryCount'[j]
    BY <1>2, <2>1, <2>2 DEF AttemptsInv, ClusterInv, StoreInv, StoreTypeOK
  <2>5. ASSUME NEW v \in Workers, AboutToStart(v)'
        PROVE  attempts'[held'[v]] <= retryCount'[held'[v]]
    <3>1. v # w /\ AboutToStart(v) /\ held'[v] = held[v]
      BY <1>2, <2>1, <2>5 DEF AboutToStart
    <3>2. held[v] # held[w] /\ held[v] \in Jobs
      BY <1>2, <1>4, <3>1 DEF AboutToStart
    <3> QED BY <1>2, <2>1, <3>1, <3>2 DEF AttemptsInv
  <2> QED BY <2>3, <2>4, <2>5 DEF AttemptsInv
<1>5. ASSUME attempts' = attempts,
             \A w \in Workers : pc'[w] \in {"fetched", "claiming"} =>
               \/ pc[w] \in {"fetched", "claiming"} /\ held'[w] = held[w]
               \/ ScheduledTo(held'[w], w) /\ UNCHANGED storeVars /\ held'[w] \in Jobs
      PROVE  AttemptsInv'
  <2>1. AttemptsPaidFor'
    BY <1>2, <1>3, <1>5 DEF AttemptsInv, AttemptsPaidFor
  <2>2. ASSUME NEW j \in Jobs, jobStatus'[j] \in {"absent", "queued", "scheduled"}
        PROVE  attempts'[j] <= retryCount'[j]
    <3>1. CASE jobStatus[j] \in {"absent", "queued", "scheduled"}
      BY <1>2, <1>3, <1>5, <3>1 DEF AttemptsInv
    <3>2. CASE Retries(j)
      BY <1>2, <1>5, <3>2 DEF AttemptsInv, AttemptsPaidFor, Retries
    <3> QED BY <1>1, <2>2, <3>1, <3>2
        DEF JobMove, Rests, Enters, GetsWorker, GoesBack, Starts, Ends, TerminalStatus
  <2>3. ASSUME NEW w \in Workers, AboutToStart(w)'
        PROVE  attempts'[held'[w]] <= retryCount'[held'[w]]
    <3>1. CASE pc[w] \in {"fetched", "claiming"} /\ held'[w] = held[w]
      <4> DEFINE j == held[w]
      <4>1. j \in Jobs /\ assignedWorker'[j] = w
        BY <1>2, <2>3, <3>1 DEF AboutToStart
      <4>2. CASE assignedWorker[j] = w
        BY <1>2, <1>3, <1>5, <3>1, <4>1, <4>2 DEF AttemptsInv, AboutToStart
      <4>3. CASE GetsWorker(j)
        BY <1>2, <1>3, <1>5, <3>1, <4>1, <4>3 DEF AttemptsInv, GetsWorker
      <4>4. w # NoWorker
        BY StoreAssumption
      <4> QED BY <1>1, <4>1, <4>2, <4>3, <4>4
          DEF JobMove, Rests, Enters, GoesBack, Starts, Ends, Retries
    <3>2. CASE ScheduledTo(held'[w], w) /\ UNCHANGED storeVars /\ held'[w] \in Jobs
      BY <1>5, <3>2 DEF ScheduledTo, AttemptsInv, storeVars
    <3> QED BY <1>5, <2>3, <3>1, <3>2 DEF AboutToStart
  <2> QED BY <2>1, <2>2, <2>3 DEF AttemptsInv
<1>6. LocalInv'
  BY LocalStep DEF ClusterInv, StoreInv
<1>7. \A w \in Workers : pc'[w] \in {"fetched", "claiming"} => held'[w] \in Jobs
  BY <1>6 DEF LocalInv, HoldsAJob
<1>8. CASE \A w \in Workers : ~ClaimJob(w)
  BY <1>5, <1>7, <1>8, WorkerTurns DEF ClusterInv
<1>9. ASSUME NEW w \in Workers, ClaimJob(w), assignedWorker[held[w]] # w
      PROVE  AttemptsInv'
  BY <1>2, <1>5, <1>9 DEF ClaimJob, ToPc, Forget
<1> QED BY <1>4, <1>8, <1>9

\* The count of executions is an invariant of the running system.
LEMMA AttemptsInvariance == Spec => []AttemptsInv
<1>1. Init => AttemptsInv
  BY DEF Init, StoreInit, AttemptsInv, AttemptsPaidFor, AboutToStart
<1>2. ClusterInv /\ AttemptsInv /\ [Next]_vars => AttemptsInv'
  BY AttemptsStep
<1> QED BY <1>1, <1>2, ClusterInvariance, PTL DEF Spec

\* A job is started at most once more than the retries charged to it, whatever
\* claims, timeouts, cancels, crashes and lost messages come in between.
THEOREM ExecutionsPaidFor == Spec => []AttemptsPaidFor
<1>1. AttemptsInv => AttemptsPaidFor
  BY DEF AttemptsInv
<1> QED BY <1>1, AttemptsInvariance, PTL

\* Hence no job is ever started more than max_retries + 1 times.
THEOREM ExecutionsBounded ==
  Spec => [](\A j \in Jobs : attempts[j] <= MaxRetries + 1)
<1>1. ClusterInv /\ AttemptsInv => \A j \in Jobs : attempts[j] <= MaxRetries + 1
  BY StoreAssumption
  DEF ClusterInv, LocalInv, ClusterTypeOK, StoreInv, StoreTypeOK, RetryBudget, AttemptsInv,
      AttemptsPaidFor
<1> QED BY <1>1, ClusterInvariance, AttemptsInvariance, PTL
-----------------------------------------------------------------------------
(* Outcomes                                                                  *)

\* Worker w writes the status of the job it holds, without looking at it.
WritesStatus(w) ==
  \/ ClaimJob(w) /\ assignedWorker[held[w]] = w
  \/ RunSucceeds(w) \/ RunSucceedsUnheard(w) \/ RunFails(w) \/ CancelCompletes(w)

\* What is written with the status of job j in view.
WrittenInView(j) ==
  \/ jobStatus'[j] = jobStatus[j] /\ retryCount'[j] = retryCount[j]
  \/ /\ retryCount'[j] = retryCount[j]
     /\ \/ jobStatus[j] = "absent" /\ jobStatus'[j] = "queued"
        \/ jobStatus[j] = "queued" /\ jobStatus'[j] = "scheduled"
        \/ jobStatus[j] = "scheduled" /\ jobStatus'[j] = "queued"
        \/ jobStatus[j] \in {"queued", "scheduled"} /\ jobStatus'[j] = "canceled"
        \/ jobStatus[j] \in ActiveStatus /\ jobStatus'[j] = "failed"
  \/ /\ jobStatus[j] \in ActiveStatus /\ jobStatus'[j] = "queued"
     /\ retryCount[j] < MaxRetries /\ retryCount'[j] = retryCount[j] + 1

\* The recovery passes, the API and the dispatcher look at the status before
\* they write; only a worker that holds a job writes without looking.
LEMMA StatusIsWritten ==
  ASSUME ClusterInv, [Next]_vars, NEW j \in Jobs
  PROVE  WrittenInView(j) \/ \E w \in Workers : held[w] = j /\ WritesStatus(w)
<1> DEFINE Looked == WrittenInView(j)
<1> USE DEF WrittenInView
<1>0. jobStatus \in [Jobs -> JobStatus] /\ retryCount \in [Jobs -> Nat]
  BY DEF ClusterInv, StoreInv, StoreTypeOK
<1>1. ASSUME NEW i \in Jobs, SubmitJob(i) \/ RetryDelayPasses(i) PROVE Looked
  BY <1>0, <1>1 DEF SubmitJob, CreateJob, Exists, RetryDelayPasses, RetryDelayElapses
<1>2. ASSUME NEW i \in Jobs, UserCancels(i) PROVE Looked
  BY <1>0, <1>2 DEF UserCancels, CancelJob, CancelQueuedJob, CancelScheduledJob, RequestCancel
<1>3. ASSUME NEW b \in Batches, SubmitBatch(b) PROVE Looked
  <2>1. BatchOf[j] = b => jobStatus[j] = "absent"
    BY <1>3 DEF SubmitBatch, CreateBatch, ClusterInv, StoreInv, AbsentBatchHasNoJobs
  <2> QED BY <1>3, <2>1 DEF SubmitBatch, CreateBatch
<1>4. ASSUME RecoverLostWorkers PROVE Looked
  BY <1>4 DEF RecoverLostWorkers, MarkStaleWorkersOffline, TransitionAfterFailure, MayRetry, Charged
<1>5. ASSUME RequeueStaleScheduledJobs PROVE Looked
  <2>1. \A r \in UnclaimedOverdue : jobStatus[r.job] = "scheduled"
    BY DEF UnclaimedOverdue
  <2> QED BY <1>5, <2>1 DEF RequeueStaleScheduledJobs
<1>6. ASSUME \/ RecoverUnclaimedJobs \/ EnqueueQueuedJobs \/ SchedulerRaises
             \/ \E i \in Jobs : EnqueueSubmitted(i) \/ ApiRaises(i)
      PROVE  Looked
  BY <1>5, <1>6
  DEF RecoverUnclaimedJobs, EnqueueQueuedJobs, SchedulerRaises, EnqueueSubmitted, ApiRaises, storeVars
<1>7. ASSUME DispatchAvailableWork PROVE Looked
  <2>1. PICK w \in idleWorkers, i \in jobQueue :
          AssignJobToWorker(i, w) \/ UNCHANGED storeVars
    BY <1>7 DEF DispatchAvailableWork, Assign, RefuseWorker, RefuseJob
  <2> QED BY <1>0, <2>1 DEF AssignJobToWorker, Ready, storeVars
<1>8. ASSUME NEW i \in Jobs, NEW w \in Workers,
             PushWorkerJob(i, w) \/ UndoDispatch(i, w) \/ PushRaises(i, w)
      PROVE  Looked
  BY <1>0, <1>8
  DEF PushWorkerJob, UndoDispatch, PushRaises, RevertScheduledJob, ScheduledTo, storeVars
<1>9. ASSUME NEW w \in Workers,
             \/ Start(w) \/ Heartbeat(w) \/ Crash(w) \/ HeartbeatLoopDies(w) \/ AnnounceIdle(w)
             \/ FetchPayload(w) \/ MarkWorkerBusy(w) \/ ObserveCancel(w) \/ ReleaseState(w)
             \/ SilentWorkerAges(w) \/ LateHeartbeat(w)
      PROVE  Looked
  BY <1>9
  DEF Start, Heartbeat, Crash, HeartbeatLoopDies, AnnounceIdle, FetchPayload, MarkWorkerBusy,
      ObserveCancel, ReleaseState, SilentWorkerAges, LateHeartbeat, UpsertWorkerHeartbeat,
      HeartbeatAges, storeVars
<1>10. ASSUME NEW w \in Workers,
              ClaimJob(w) \/ RunSucceeds(w) \/ RunSucceedsUnheard(w) \/ RunFails(w)
                \/ CancelCompletes(w)
       PROVE  Looked \/ (held[w] = j /\ WritesStatus(w))
  <2>1. CASE held[w] = j
    BY <1>10, <2>1 DEF WritesStatus, ClaimJob, storeVars
  <2>2. ASSUME held[w] # j, CompleteJobSuccess(held[w], w) \/ MarkJobRunning(held[w], w)
        PROVE  Looked
    BY <1>0, <2>2 DEF CompleteJobSuccess, MarkJobRunning
  <2>3. ASSUME NEW transient, NEW canceled, held[w] # j,
               CompleteJobFailure(held[w], w, transient, canceled)
        PROVE  Looked
    BY <2>3 DEF CompleteJobFailure, TransitionAfterFailure
  <2> HIDE DEF WrittenInView
  <2>4. CASE UNCHANGED storeVars
    BY <2>4 DEF WrittenInView, storeVars
  <2> QED BY <1>10, <2>1, <2>2, <2>3, <2>4
      DEF ClaimJob, RunSucceeds, RunSucceedsUnheard, RunFails, CancelCompletes
<1>11. ASSUME NEW r \in openAssignments, ClaimTimeoutPasses(r) PROVE Looked
  BY <1>11 DEF ClaimTimeoutPasses, AssignmentAges
<1>12. ASSUME UNCHANGED vars PROVE Looked
  BY <1>12 DEF vars, storeVars
<1> HIDE DEF Looked, WrittenInView
<1> DEFINE Goal == Looked \/ \E w \in Workers : held[w] = j /\ WritesStatus(w)
<1>13. ASSUME SchedulerStep PROVE Goal
  BY <1>4, <1>6, <1>7, <1>8, <1>13 DEF SchedulerStep
<1>14. ASSUME NEW w \in Workers, WorkLoopStep(w) PROVE Goal
  BY <1>9, <1>10, <1>14 DEF WorkLoopStep
<1>15. ASSUME NEW w \in Workers, RunSucceedsUnheard(w) PROVE Goal
  BY <1>10, <1>15
<1> HIDE DEF Goal
<1>16. Looked => Goal
  BY DEF Goal
<1>17. Goal
  BY <1>1, <1>2, <1>3, <1>6, <1>8, <1>9, <1>11, <1>12, <1>13, <1>14, <1>15, <1>16 DEF Next
<1> QED BY <1>17 DEF Goal, Looked

\* Once no worker holds an ended job any more, its outcome never changes.
THEOREM OutcomesFinal == Spec => ReleasedOutcomeIsFinal
<1> DEFINE A == \A j \in Jobs :
                  jobStatus[j] \in TerminalStatus /\ (\A w \in Workers : held[w] # j)
                    => jobStatus'[j] = jobStatus[j]
<1>1. ASSUME ClusterInv, [Next]_vars, NEW j \in Jobs, jobStatus[j] \in TerminalStatus,
             \A w \in Workers : held[w] # j
      PROVE  jobStatus'[j] = jobStatus[j]
  BY <1>1, StatusIsWritten DEF WrittenInView, TerminalStatus, ActiveStatus
<1>2. ClusterInv /\ [Next]_vars => [A]_vars
  BY <1>1
<1> QED BY <1>2, ClusterInvariance, PTL DEF Spec, ReleasedOutcomeIsFinal

-----------------------------------------------------------------------------
(* Successes                                                                 *)

\* Executions leave their mark in attempts: one that runs has been counted, two
\* of one job twice, and a success that another worker may still overwrite
\* belongs to a job that was started twice.
SuccessInv ==
  /\ \A w \in Workers : Executing(w) => attempts[held[w]] >= 1
  /\ \A v, w \in Workers :
       v # w /\ Executing(v) /\ Executing(w) /\ held[v] = held[w] => attempts[held[w]] >= 2
  /\ \A j \in Jobs : jobStatus[j] = "succeeded" =>
       /\ attempts[j] >= 1
       /\ \A w \in Workers : Executing(w) /\ held[w] = j => attempts[j] >= 2

\* Only a claim starts an execution, and a worker that executes keeps its job.
LEMMA ExecutionGoesOn ==
  ASSUME LocalInv, [Next]_vars, NEW w \in Workers, Executing(w)', ~ClaimJob(w)
  PROVE  Executing(w) /\ held'[w] = held[w] /\ held[w] \in Jobs
<1> DEFINE Goal == Executing(w) /\ held'[w] = held[w]
<1>0. pc \in [Workers -> Pc] /\ held \in [Workers -> Jobs \union {NoJob}]
  BY DEF LocalInv, ClusterTypeOK
<1>1. ASSUME pc'[w] = pc[w], held'[w] = held[w] PROVE Goal
  BY <1>1 DEF Executing
<1>2. ASSUME UNCHANGED workerVars PROVE Goal
  BY <1>1, <1>2 DEF workerVars
<1> HIDE DEF Goal
<1>3. ASSUME NEW j \in Jobs,
             SubmitJob(j) \/ EnqueueSubmitted(j) \/ ApiRaises(j) \/ UserCancels(j)
               \/ RetryDelayPasses(j)
      PROVE  Goal
  BY <1>2, <1>3 DEF SubmitJob, EnqueueSubmitted, ApiRaises, UserCancels, RetryDelayPasses
<1>4. ASSUME NEW b \in Batches, SubmitBatch(b) PROVE Goal
  BY <1>2, <1>4 DEF SubmitBatch
<1>5. ASSUME \/ RecoverLostWorkers \/ RecoverUnclaimedJobs \/ EnqueueQueuedJobs
             \/ DispatchAvailableWork \/ SchedulerRaises
      PROVE  Goal
  BY <1>2, <1>5 DEF RecoverLostWorkers, RecoverUnclaimedJobs, EnqueueQueuedJobs,
                    DispatchAvailableWork, SchedulerRaises
<1>6. ASSUME NEW j \in Jobs, NEW v \in Workers,
             PushWorkerJob(j, v) \/ UndoDispatch(j, v) \/ PushRaises(j, v)
      PROVE  Goal
  BY <1>2, <1>6 DEF PushWorkerJob, UndoDispatch, PushRaises
<1>7. ASSUME NEW v \in Workers, Heartbeat(v) \/ SilentWorkerAges(v) \/ LateHeartbeat(v)
      PROVE  Goal
  BY <1>2, <1>7 DEF Heartbeat, SilentWorkerAges, LateHeartbeat
<1>8. ASSUME NEW r \in openAssignments, ClaimTimeoutPasses(r) PROVE Goal
  BY <1>2, <1>8 DEF ClaimTimeoutPasses
<1>9. ASSUME UNCHANGED vars PROVE Goal
  BY <1>2, <1>9 DEF vars
<1>10. ASSUME NEW v \in Workers,
              \/ Start(v) \/ Crash(v) \/ HeartbeatLoopDies(v) \/ AnnounceIdle(v)
              \/ FetchPayload(v) \/ MarkWorkerBusy(v) \/ ReleaseState(v)
       PROVE  Goal
  <2>1. CASE v # w
    <3>1. pc'[w] = pc[w] /\ held'[w] = held[w]
      BY <1>0, <1>10, <2>1
      DEF Start, Crash, HeartbeatLoopDies, AnnounceIdle, FetchPayload, MarkWorkerBusy, ReleaseState,
          ToPc, Forget
    <3> QED BY <1>1, <3>1
  <2>2. CASE v = w
    <3>1. pc'[w] \notin {"running", "stopping", "ackLost"} \/ UNCHANGED <<pc, held>>
      BY <1>0, <1>10, <2>2
      DEF Start, Crash, HeartbeatLoopDies, AnnounceIdle, FetchPayload, MarkWorkerBusy, ReleaseState,
          ToPc, Forget
    <3> QED BY <1>1, <3>1 DEF Executing, Goal
  <2> QED BY <2>1, <2>2
<1>11. ASSUME NEW v \in Workers,
              RunSucceeds(v) \/ RunSucceedsUnheard(v) \/ RunFails(v) \/ ObserveCancel(v)
                \/ CancelCompletes(v)
       PROVE  Goal
  <2>1. /\ held' = held /\ Executing(v)
        /\ \E p \in Pc : pc' = [pc EXCEPT ![v] = p]
    BY <1>11
    DEF RunSucceeds, RunSucceedsUnheard, RunFails, ObserveCancel, CancelCompletes, ToPc, Executing, Pc
  <2> QED BY <1>0, <2>1 DEF Executing, Goal
<1>12. ASSUME NEW v \in Workers, ClaimJob(v) PROVE Goal
  <2>1. v # w
    BY <1>12
  <2>2. pc'[w] = pc[w] /\ held'[w] = held[w]
    BY <1>0, <1>12, <2>1 DEF ClaimJob, ToPc, Forget
  <2> QED BY <1>1, <2>2
<1>13. ASSUME SchedulerStep PROVE Goal
  BY <1>5, <1>6, <1>13 DEF SchedulerStep
<1>14. ASSUME NEW v \in Workers, WorkLoopStep(v) PROVE Goal
  BY <1>10, <1>11, <1>12, <1>14 DEF WorkLoopStep
<1>15. Goal
  BY <1>3, <1>4, <1>5, <1>6, <1>7, <1>8, <1>9, <1>10, <1>11, <1>13, <1>14 DEF Next
<1> QED BY <1>15 DEF Goal, LocalInv, HoldsAJob, Executing

\* A success overwritten by the claim or the report of another worker shows in
\* attempts, and a new success does unless its call raises after the commit.
LEMMA SuccessStep ==
  ASSUME "lostAck" \notin Events, ClusterInv, SuccessInv, [Next]_vars
  PROVE  SuccessInv'
<1>1. /\ LocalInv /\ attempts \in [Jobs -> Nat]
      /\ pc \in [Workers -> Pc] /\ held \in [Workers -> Jobs \union {NoJob}]
      /\ jobStatus \in [Jobs -> JobStatus]
      /\ \A w \in Workers : Executing(w) \/ pc[w] = "claiming" => held[w] \in Jobs
  BY DEF ClusterInv, LocalInv, ClusterTypeOK, HoldsAJob, StoreInv, StoreTypeOK, Executing
<1>2. ASSUME NEW w \in Workers, Executing(w)', ~ClaimJob(w)
      PROVE  Executing(w) /\ held'[w] = held[w] /\ held[w] \in Jobs
  BY <1>1, <1>2, ExecutionGoesOn
<1>3. ASSUME NEW u \in Workers, ClaimJob(u), assignedWorker[held[u]] = u PROVE SuccessInv'
  <2>1. /\ held' = held /\ held[u] \in Jobs /\ pc[u] = "claiming"
        /\ attempts' = [attempts EXCEPT ![held[u]] = @ + 1]
        /\ jobStatus' = [jobStatus EXCEPT ![held[u]] = "running"]
        /\ pc' = [pc EXCEPT ![u] = "running"]
    BY <1>1, <1>3 DEF ClaimJob, MarkJobRunning, ToPc
  <2>2. \A w \in Workers \ {u} : Executing(w)' => Executing(w)
    BY <1>1, <2>1 DEF Executing
  <2>3. \A w \in Workers : Executing(w)' => attempts'[held'[w]] >= 1
    BY <1>1, <2>1, <2>2 DEF SuccessInv
  <2>4. ASSUME NEW v \in Workers, NEW w \in Workers, v # w, Executing(v)', Executing(w)',
               held'[v] = held'[w]
        PROVE  attempts'[held'[w]] >= 2
    <3>1. CASE v # u /\ w # u
      BY <1>1, <2>1, <2>2, <2>4, <3>1 DEF SuccessInv
    <3>2. CASE v = u \/ w = u
      <4>1. PICK x \in {v, w} : x # u /\ Executing(x)
        BY <2>2, <2>4, <3>2
      <4>2. held[x] = held[u] /\ attempts[held[u]] >= 1
        BY <2>1, <2>4, <3>2, <4>1 DEF SuccessInv
      <4>3. held'[w] = held[u]
        BY <2>1, <2>4, <3>2
      <4> QED BY <1>1, <2>1, <4>2, <4>3
    <3> QED BY <3>1, <3>2
  <2>5. ASSUME NEW j \in Jobs, jobStatus'[j] = "succeeded"
        PROVE  /\ attempts'[j] >= 1
               /\ \A w \in Workers : Executing(w)' /\ held'[w] = j => attempts'[j] >= 2
    <3>1. j # held[u] /\ jobStatus[j] = "succeeded" /\ attempts'[j] = attempts[j]
      BY <1>1, <2>1, <2>5
    <3> QED BY <2>1, <2>2, <3>1 DEF SuccessInv
  <2> QED BY <2>3, <2>4, <2>5 DEF SuccessInv
<1>4. ASSUME attempts' = attempts,
             \A w \in Workers : Executing(w)' => Executing(w) /\ held'[w] = held[w],
             \A j \in Jobs : jobStatus'[j] = "succeeded" =>
               \/ jobStatus[j] = "succeeded"
               \/ \E w \in Workers : held[w] = j /\ Executing(w) /\ ~Executing(w)'
      PROVE  SuccessInv'
  <2>1. \A w \in Workers : Executing(w)' => attempts'[held'[w]] >= 1
    BY <1>4 DEF SuccessInv
  <2>2. \A v, w \in Workers :
          v # w /\ Executing(v)' /\ Executing(w)' /\ held'[v] = held'[w] => attempts'[held'[w]] >= 2
    BY <1>4 DEF SuccessInv
  <2>3. ASSUME NEW j \in Jobs, jobStatus'[j] = "succeeded"
        PROVE  /\ attempts'[j] >= 1
               /\ \A w \in Workers : Executing(w)' /\ held'[w] = j => attempts'[j] >= 2
    <3>1. CASE jobStatus[j] = "succeeded"
      BY <1>4, <3>1 DEF SuccessInv
    <3>2. ASSUME NEW w \in Workers, held[w] = j, Executing(w), ~Executing(w)'
          PROVE  /\ attempts'[j] >= 1
                 /\ \A v \in Workers : Executing(v)' /\ held'[v] = j => attempts'[j] >= 2
      BY <1>4, <3>2 DEF SuccessInv
    <3> QED BY <1>4, <2>3, <3>1, <3>2
  <2> QED BY <2>1, <2>2, <2>3 DEF SuccessInv
<1>5. ASSUME NEW u \in Workers, ClaimJob(u), assignedWorker[held[u]] # u PROVE SuccessInv'
  <2>1. UNCHANGED <<jobStatus, attempts>> /\ pc' = [pc EXCEPT ![u] = "idle"]
        /\ held' = [held EXCEPT ![u] = NoJob]
    BY <1>5 DEF ClaimJob, ToPc, Forget, storeVars
  <2>2. \A w \in Workers : Executing(w)' => Executing(w) /\ held'[w] = held[w]
    BY <1>1, <2>1 DEF Executing
  <2> QED BY <1>4, <2>1, <2>2
<1>6. CASE \A w \in Workers : ~ClaimJob(w)
  <2>1. attempts' = attempts
    BY <1>1, <1>6, WorkerTurns
  <2>2. \A w \in Workers : Executing(w)' => Executing(w) /\ held'[w] = held[w]
    BY <1>2, <1>6
  <2>3. ASSUME NEW j \in Jobs, jobStatus'[j] = "succeeded", jobStatus[j] # "succeeded"
        PROVE  \E w \in Workers : held[w] = j /\ Executing(w) /\ ~Executing(w)'
    <3>1. PICK w \in Workers : held[w] = j /\ WritesStatus(w)
      BY <2>3, StatusIsWritten DEF WrittenInView
    <3>2. CASE RunSucceeds(w)
      BY <1>1, <3>1, <3>2 DEF RunSucceeds, Executing, ToPc
    <3>3. ASSUME NEW transient, NEW canceled, CompleteJobFailure(j, w, transient, canceled)
          PROVE  FALSE
      BY <2>3, <3>3 DEF CompleteJobFailure, TransitionAfterFailure
    <3>4. CASE RunFails(w) \/ CancelCompletes(w)
      BY <3>1, <3>3, <3>4 DEF RunFails, CancelCompletes
    <3>5. ~RunSucceedsUnheard(w)
      BY DEF RunSucceedsUnheard, Fault
    <3> QED BY <1>6, <3>1, <3>2, <3>4, <3>5 DEF WritesStatus
  <2> QED BY <1>4, <2>1, <2>2, <2>3
<1> QED BY <1>3, <1>5, <1>6

\* So it holds throughout, unless a success may go unheard.
LEMMA SuccessInvariance == "lostAck" \notin Events => (Spec => []SuccessInv)
<1> SUFFICES ASSUME "lostAck" \notin Events PROVE Spec => []SuccessInv
  OBVIOUS
<1>1. Init => SuccessInv
  BY DEF Init, StoreInit, SuccessInv, Executing
<1>2. ClusterInv /\ SuccessInv /\ [Next]_vars => SuccessInv'
  BY SuccessStep
<1> QED BY <1>1, <1>2, ClusterInvariance, PTL DEF Spec

\* As long as the worker hears of the success it has stored, a success is only
\* ever overwritten for a job that had been given up and retried.
THEOREM SuccessesStay == "lostAck" \notin Events => (Spec => SuccessOverwrittenOnlyIfRetried)
<1> SUFFICES ASSUME "lostAck" \notin Events PROVE Spec => SuccessOverwrittenOnlyIfRetried
  OBVIOUS
<1> DEFINE A == \A j \in Jobs :
                  jobStatus[j] = "succeeded" /\ jobStatus'[j] # "succeeded" => retryCount[j] > 0
<1>1. ASSUME ClusterInv, AttemptsInv, SuccessInv, [Next]_vars, NEW j \in Jobs,
             jobStatus[j] = "succeeded", jobStatus'[j] # "succeeded"
      PROVE  retryCount[j] > 0
  <2>1. PICK w \in Workers : held[w] = j /\ WritesStatus(w)
    BY <1>1, StatusIsWritten DEF WrittenInView, ActiveStatus
  <2>2. attempts[j] \in Nat /\ retryCount[j] \in Nat /\ attempts[j] <= retryCount[j] + 1
    BY <1>1 DEF ClusterInv, LocalInv, ClusterTypeOK, StoreInv, StoreTypeOK, AttemptsInv, AttemptsPaidFor
  <2>3. CASE ClaimJob(w) /\ assignedWorker[held[w]] = w
    <3>1. attempts[j] <= retryCount[j] /\ attempts[j] >= 1
      BY <1>1, <2>1, <2>3 DEF ClaimJob, AttemptsInv, AboutToStart, SuccessInv
    <3> QED BY <2>2, <3>1
  <2>4. CASE Executing(w)
    BY <1>1, <2>1, <2>2, <2>4 DEF SuccessInv
  <2> QED BY <2>1, <2>3, <2>4
      DEF WritesStatus, RunSucceeds, RunSucceedsUnheard, RunFails, CancelCompletes, Executing
<1>2. ClusterInv /\ AttemptsInv /\ SuccessInv /\ [Next]_vars => [A]_vars
  BY <1>1
<1> QED BY <1>2, ClusterInvariance, AttemptsInvariance, SuccessInvariance, PTL
        DEF Spec, SuccessOverwrittenOnlyIfRetried
=============================================================================
