--------------------------- MODULE LifecycleProofs ---------------------------
(***************************************************************************)
(* What scheduler and workers guarantee as long as some things do not      *)
(* happen, for any number of jobs, workers, faults and messages.  Cluster  *)
(* names the things that may happen; the theorems name those they exclude. *)
(* In the code nothing prevents what these do: a claim compares the        *)
(* assignee only, a report nothing at all, and a heartbeat overwrites the  *)
(* job in a worker's row.                                                  *)
(*                                                                         *)
(* OrderlyInv relates three records of who works on what, which no         *)
(* transaction updates together: the jobs table, the rows of the workers,  *)
(* and what the processes hold.                                            *)
(***************************************************************************)
EXTENDS ClusterProofs

\* No user cancels a job, no worker falls silent while it lives, and a worker
\* hears of the success it has stored.
Orderly == Events \intersect {"cancel", "heartbeatLoopDies", "lateHeartbeat", "lostAck"} = {}

\* The offline recovery would take job j from worker w if w fell silent.
Shows(w, j) == runningJob[w] = j /\ workerStatus[w] \in {"idle", "busy"}

\* A process that lives has a fresh heartbeat, one that does not holds no job.
LiveInv ==
  \A w \in Workers :
    /\ pc[w] # "down" => beating[w]
    /\ beating[w] => ~heartbeatStale[w]
    /\ workerStatus[w] = "offline" => heartbeatStale[w]
    /\ held[w] \in Jobs => pc[w] \notin {"down", "idle"}

\* A worker that may still start its job finds it scheduled, one that executes
\* it has it running, and one that is done with it has left it ended or waiting.
HoldInv ==
  \A w \in Workers :
    /\ AboutToStart(w) => jobStatus[held[w]] = "scheduled"
    /\ Executing(w) => jobStatus[held[w]] = "running" /\ assignedWorker[held[w]] = w
    /\ pc[w] \in {"finishing", "fatal"} =>
         \/ jobStatus[held[w]] \in TerminalStatus
         \/ jobStatus[held[w]] = "queued" /\ retryWait[held[w]]

\* A row shows no job that is active elsewhere, none that could be dispatched,
\* and none that its worker is about to start and has lost.
RowInv ==
  \A w \in Workers, j \in Jobs :
    Shows(w, j) =>
      /\ jobStatus[j] \in ActiveStatus => assignedWorker[j] = w
      /\ Exists(j) /\ ~Ready(j)
      /\ jobStatus[j] = "queued" => ~(held[w] = j /\ pc[w] \in {"fetched", "claiming"})

\* The jobs table gives every worker one job at a time.
OneActiveJob ==
  \A i, j \in Jobs :
    jobStatus[i] \in ActiveStatus /\ jobStatus[j] \in ActiveStatus
      /\ assignedWorker[i] = assignedWorker[j] => i = j

OrderlyInv == LiveInv /\ HoldInv /\ RowInv /\ OneActiveJob

\* What a step of API or scheduler leaves alone.
processVars == <<pc, held, beating>>

-----------------------------------------------------------------------------
\* What the proofs below use of the invariants of the running system.
LEMMA Types ==
  ASSUME ClusterInv
  PROVE  /\ jobStatus \in [Jobs -> JobStatus] /\ assignedWorker \in [Jobs -> Workers \union {NoWorker}]
         /\ retryWait \in [Jobs -> BOOLEAN] /\ workerStatus \in [Workers -> WorkerStatus]
         /\ runningJob \in [Workers -> Jobs \union {NoJob}] /\ heartbeatStale \in [Workers -> BOOLEAN]
         /\ pc \in [Workers -> Pc] /\ held \in [Workers -> Jobs \union {NoJob}]
         /\ beating \in [Workers -> BOOLEAN]
         /\ \A w \in Workers : pc[w] \notin {"down", "idle"} => held[w] \in Jobs
         /\ \A j \in Jobs : jobStatus[j] \in {"absent", "queued"} => assignedWorker[j] \notin Workers
         /\ \A j \in Jobs : jobStatus[j] \in ActiveStatus => assignedWorker[j] \in Workers
         /\ \A j \in Jobs : retryWait[j] => jobStatus[j] \in {"queued", "canceled"}
         /\ \A r \in openAssignments : r.job \in Jobs /\ assignedWorker[r.job] = r.worker
  BY StoreAssumption
  DEF ClusterInv, LocalInv, ClusterTypeOK, HoldsAJob, StoreInv, StoreTypeOK, QueuedIsUnassigned,
      RetryBudget, AssignmentLedger, Assignment

\* Steps that touch none of the three records.
LEMMA OrderlyQuiet ==
  ASSUME OrderlyInv,
         UNCHANGED <<jobStatus, assignedWorker, retryWait, workerStatus, runningJob, heartbeatStale,
                     pc, held, beating>>
  PROVE  OrderlyInv'
<1>1. LiveInv'
  BY DEF OrderlyInv, LiveInv
<1>2. HoldInv'
  BY DEF OrderlyInv, HoldInv, AboutToStart, Executing
<1>3. RowInv'
  BY DEF OrderlyInv, RowInv, Shows, Exists, Ready
<1>4. OneActiveJob'
  BY DEF OrderlyInv, OneActiveJob
<1> QED BY <1>1, <1>2, <1>3, <1>4 DEF OrderlyInv

\* Submission: the jobs J appear, which nobody held or showed.
LEMMA OrderlySubmission ==
  ASSUME ClusterInv, OrderlyInv, UNCHANGED processVars, NEW J,
         \A j \in J : j \in Jobs => jobStatus[j] = "absent",
         jobStatus' = [j \in Jobs |-> IF j \in J THEN "queued" ELSE jobStatus[j]],
         UNCHANGED <<assignedWorker, retryWait, workerStatus, runningJob, heartbeatStale>>
  PROVE  OrderlyInv'
<1> USE Types DEF processVars
<1>1. LiveInv'
  BY DEF OrderlyInv, LiveInv
<1>2. HoldInv'
  BY DEF OrderlyInv, HoldInv, AboutToStart, Executing, TerminalStatus
<1>3. RowInv'
  BY DEF OrderlyInv, RowInv, Shows, Exists, Ready, ActiveStatus
<1>4. OneActiveJob'
  BY DEF OrderlyInv, OneActiveJob, ActiveStatus
<1> QED BY <1>1, <1>2, <1>3, <1>4 DEF OrderlyInv

\* When a retry delay passes, no row shows the job any more: the worker of such a
\* row would execute the job, which waits, or be about to start it.
LEMMA OrderlyDelay ==
  ASSUME ClusterInv, OrderlyInv, NEW j \in Jobs, RetryDelayPasses(j)
  PROVE  OrderlyInv'
<1> USE Types
<1>1. /\ retryWait[j] /\ retryWait' = [retryWait EXCEPT ![j] = FALSE]
      /\ \A w \in Workers : held[w] = j => pc[w] \notin {"finishing", "fatal"}
      /\ \A w \in Workers : runningJob[w] = j /\ workerStatus[w] # "offline"
                              => beating[w] /\ held[w] = j
      /\ UNCHANGED <<jobStatus, assignedWorker, workerStatus, runningJob, heartbeatStale>>
      /\ UNCHANGED processVars
  BY DEF RetryDelayPasses, RetryDelayElapses, processVars, workerVars
<1>2. LiveInv'
  BY <1>1 DEF OrderlyInv, LiveInv, processVars
<1>3. HoldInv'
  BY <1>1 DEF OrderlyInv, HoldInv, AboutToStart, Executing, processVars
<1>4. ASSUME NEW w \in Workers, Shows(w, j) PROVE jobStatus[j] # "queued"
  <2>1. held[w] = j /\ pc[w] \in Pc /\ pc[w] \notin {"down", "idle", "finishing", "fatal"}
    BY <1>1, <1>4 DEF Shows, OrderlyInv, LiveInv
  <2>2. CASE Executing(w)
    BY <2>1, <2>2 DEF OrderlyInv, HoldInv
  <2>3. CASE pc[w] \in {"fetched", "claiming"}
    BY <1>4, <2>1, <2>3 DEF OrderlyInv, RowInv
  <2> QED BY <2>1, <2>2, <2>3 DEF Executing, Pc
<1>5. RowInv'
  BY <1>1, <1>4 DEF OrderlyInv, RowInv, Shows, Exists, Ready, processVars
<1>6. OneActiveJob'
  BY <1>1 DEF OrderlyInv, OneActiveJob
<1> QED BY <1>2, <1>3, <1>5, <1>6 DEF OrderlyInv

\* The offline recovery takes jobs from dead workers only: from a row that shows
\* an active job the worker is the assignee, and it is not about to start it.
LEMMA OrderlyOffline ==
  ASSUME ClusterInv, OrderlyInv, UNCHANGED processVars, MarkStaleWorkersOffline
  PROVE  OrderlyInv'
<1> USE Types
<1> DEFINE Lost == {j \in Jobs : jobStatus[j] \in ActiveStatus
                                   /\ \E w \in StaleWorkers : runningJob[w] = j}
           Retried == {j \in Lost : MayRetry(j)}
<1>1. /\ jobStatus' = [j \in Jobs |-> IF j \in Retried THEN "queued"
                                      ELSE IF j \in Lost THEN "failed" ELSE jobStatus[j]]
      /\ assignedWorker' = [j \in Jobs |-> IF j \in Retried THEN NoWorker ELSE assignedWorker[j]]
      /\ retryWait' = [j \in Jobs |-> IF j \in Retried THEN TRUE
                                      ELSE IF j \in Lost THEN FALSE ELSE retryWait[j]]
      /\ workerStatus' = [w \in Workers |-> IF w \in StaleWorkers THEN "offline" ELSE workerStatus[w]]
      /\ runningJob' = [w \in Workers |-> IF w \in StaleWorkers THEN NoJob ELSE runningJob[w]]
      /\ UNCHANGED <<heartbeatStale, pc, held, beating>>
  BY DEF MarkStaleWorkersOffline, TransitionAfterFailure, Unassign, processVars
<1>2. \A w \in StaleWorkers : w \in Workers /\ heartbeatStale[w] /\ workerStatus[w] \in {"idle", "busy"}
  BY DEF StaleWorkers
<1>3. \A j \in Lost : /\ j \in Jobs /\ jobStatus[j] \in ActiveStatus
                      /\ assignedWorker[j] \in StaleWorkers
  BY <1>2 DEF OrderlyInv, RowInv, Shows
<1>4. \A w \in StaleWorkers : pc[w] = "down"
  BY <1>2 DEF OrderlyInv, LiveInv
<1>5. Retried \subseteq Lost /\ NoWorker \notin Workers
  BY StoreAssumption
<1> HIDE DEF Lost, Retried
<1>6. LiveInv'
  BY <1>1, <1>2 DEF OrderlyInv, LiveInv
<1>7. ASSUME NEW w \in Workers, pc[w] \notin {"down", "idle"}
      PROVE  (AboutToStart(w)' => AboutToStart(w) /\ held[w] \notin Lost)
             /\ (Executing(w) => held[w] \notin Lost)
             /\ (pc[w] \in {"finishing", "fatal"} => held[w] \notin Lost)
    <2>1. w \notin StaleWorkers /\ held[w] \in Jobs
      BY <1>4, <1>7
    <2>2. AboutToStart(w)' => AboutToStart(w) /\ held[w] \notin Lost
      BY <1>1, <1>3, <1>5, <2>1 DEF AboutToStart
    <2>3. Executing(w) => held[w] \notin Lost
      BY <1>3, <2>1 DEF OrderlyInv, HoldInv
    <2>4. pc[w] \in {"finishing", "fatal"} => held[w] \notin Lost
      BY <1>3, <2>1 DEF OrderlyInv, HoldInv, ActiveStatus, TerminalStatus
    <2> QED BY <2>2, <2>3, <2>4
<1>8. HoldInv'
  BY <1>1, <1>5, <1>7 DEF OrderlyInv, HoldInv, AboutToStart, Executing
<1>9. RowInv'
  <2>1. ASSUME NEW w \in Workers, NEW j \in Jobs, Shows(w, j)'
        PROVE  Shows(w, j) /\ j \notin Lost
    BY <1>1, <1>3, <2>1 DEF Shows, OrderlyInv, RowInv
  <2> QED BY <1>1, <1>5, <2>1 DEF OrderlyInv, RowInv, Exists, Ready
<1>10. OneActiveJob'
  BY <1>1, <1>5 DEF OrderlyInv, OneActiveJob, ActiveStatus
<1> QED BY <1>6, <1>8, <1>9, <1>10 DEF OrderlyInv

\* A claim timeout gives back assignments of the workers whose rows show them.
LEMMA OrderlyRequeue ==
  ASSUME ClusterInv, OrderlyInv, UNCHANGED processVars, RequeueStaleScheduledJobs
  PROVE  OrderlyInv'
<1> USE Types
<1> DEFINE J == {r.job : r \in UnclaimedOverdue}
           W == {r.worker : r \in UnclaimedOverdue}
<1>1. /\ jobStatus' = [j \in Jobs |-> IF j \in J THEN "queued" ELSE jobStatus[j]]
      /\ assignedWorker' = [j \in Jobs |-> IF j \in J THEN NoWorker ELSE assignedWorker[j]]
      /\ retryWait' = [j \in Jobs |-> j \notin J /\ retryWait[j]]
      /\ workerStatus' = [w \in Workers |->
           IF w \in W /\ Registered(w) THEN IF heartbeatStale[w] THEN "offline" ELSE "idle"
           ELSE workerStatus[w]]
      /\ runningJob' = [w \in Workers |->
           IF \E r \in UnclaimedOverdue : r.worker = w /\ r.job = runningJob[w]
           THEN NoJob ELSE runningJob[w]]
      /\ UNCHANGED <<heartbeatStale, pc, held, beating>>
  BY DEF RequeueStaleScheduledJobs, Unassign, processVars
<1>2. \A r \in UnclaimedOverdue :
        r.job \in Jobs /\ jobStatus[r.job] = "scheduled" /\ assignedWorker[r.job] = r.worker
  BY DEF UnclaimedOverdue
<1>3. \A j \in J : j \in Jobs /\ jobStatus[j] = "scheduled"
                   /\ \E r \in UnclaimedOverdue : r.job = j /\ r.worker = assignedWorker[j]
  BY <1>2
<1>4. NoWorker \notin Workers /\ NoJob \notin Jobs
  BY StoreAssumption
<1> HIDE DEF J, W
<1>5. LiveInv'
  BY <1>1 DEF OrderlyInv, LiveInv
<1>6. HoldInv'
  BY <1>1, <1>3, <1>4 DEF OrderlyInv, HoldInv, AboutToStart, Executing, TerminalStatus
<1>7. RowInv'
  <2>1. ASSUME NEW w \in Workers, NEW j \in Jobs, Shows(w, j)' PROVE Shows(w, j) /\ j \notin J
    <3>1. runningJob[w] = j /\ ~\E r \in UnclaimedOverdue : r.worker = w /\ r.job = j
      BY <1>1, <1>4, <2>1 DEF Shows
    <3>2. workerStatus[w] \in {"idle", "busy"}
      BY <1>1, <2>1 DEF Shows, Registered, OrderlyInv, LiveInv, WorkerStatus
    <3>3. Shows(w, j)
      BY <3>1, <3>2 DEF Shows
    <3>4. j \in J => assignedWorker[j] = w
      BY <1>3, <3>3 DEF OrderlyInv, RowInv, ActiveStatus
    <3> QED BY <1>3, <3>1, <3>3, <3>4
  <2> QED BY <1>1, <2>1 DEF OrderlyInv, RowInv, Exists, Ready
<1>8. OneActiveJob'
  BY <1>1 DEF OrderlyInv, OneActiveJob, ActiveStatus
<1> QED BY <1>5, <1>6, <1>7, <1>8 DEF OrderlyInv

\* The undo of an assignment takes the job off the row it has written.
LEMMA OrderlyRevert ==
  ASSUME ClusterInv, OrderlyInv, UNCHANGED processVars, NEW j \in Jobs, NEW w \in Workers,
         RevertScheduledJob(j, w)
  PROVE  OrderlyInv'
<1> USE Types
<1>1. /\ jobStatus[j] = "scheduled" /\ assignedWorker[j] = w
      /\ jobStatus' = [jobStatus EXCEPT ![j] = "queued"]
      /\ assignedWorker' = [i \in Jobs |-> IF i = j THEN NoWorker ELSE assignedWorker[i]]
      /\ workerStatus' = [workerStatus EXCEPT ![w] = IF @ \in {"idle", "busy"} THEN "idle" ELSE @]
      /\ runningJob' = [runningJob EXCEPT ![w] =
                          IF @ = j /\ workerStatus[w] # "offline" THEN NoJob ELSE @]
      /\ UNCHANGED <<retryWait, heartbeatStale, pc, held, beating>>
  BY DEF RevertScheduledJob, ScheduledTo, Unassign, processVars
<1>2. NoWorker \notin Workers /\ NoJob \notin Jobs
  BY StoreAssumption
<1>3. LiveInv'
  BY <1>1 DEF OrderlyInv, LiveInv
<1>4. HoldInv'
  BY <1>1, <1>2 DEF OrderlyInv, HoldInv, AboutToStart, Executing, TerminalStatus
<1>5. RowInv'
  <2>1. ASSUME NEW v \in Workers, NEW i \in Jobs, Shows(v, i)' PROVE Shows(v, i) /\ i # j
    BY <1>1, <1>2, <2>1 DEF Shows, OrderlyInv, RowInv, ActiveStatus
  <2> QED BY <1>1, <2>1 DEF OrderlyInv, RowInv, Exists, Ready
<1>6. OneActiveJob'
  BY <1>1 DEF OrderlyInv, OneActiveJob, ActiveStatus
<1> QED BY <1>3, <1>4, <1>5, <1>6 DEF OrderlyInv

\* A job that can be dispatched is on no row, and its worker has none.
LEMMA OrderlyAssign ==
  ASSUME ClusterInv, OrderlyInv, UNCHANGED processVars, NEW j \in Jobs, NEW w \in Workers,
         AssignJobToWorker(j, w)
  PROVE  OrderlyInv'
<1> USE Types
<1>1. /\ Ready(j) /\ ActiveJobsOf(w) = {}
      /\ jobStatus' = [jobStatus EXCEPT ![j] = "scheduled"]
      /\ assignedWorker' = [assignedWorker EXCEPT ![j] = w]
      /\ retryWait' = [retryWait EXCEPT ![j] = FALSE]
      /\ workerStatus' = [workerStatus EXCEPT ![w] = "busy"]
      /\ runningJob' = [runningJob EXCEPT ![w] = j]
      /\ UNCHANGED <<heartbeatStale, pc, held, beating>>
  BY DEF AssignJobToWorker, Dispatchable, processVars
<1>2. LiveInv'
  BY <1>1 DEF OrderlyInv, LiveInv
<1>3. HoldInv'
  BY <1>1 DEF OrderlyInv, HoldInv, AboutToStart, Executing, TerminalStatus, Ready
<1>4. RowInv'
  <2>1. ASSUME NEW v \in Workers, NEW i \in Jobs, Shows(v, i)'
        PROVE  (v = w /\ i = j) \/ (i # j /\ Shows(v, i))
    BY <1>1, <2>1 DEF Shows, OrderlyInv, RowInv
  <2> QED BY <1>1, <2>1 DEF OrderlyInv, RowInv, Exists, Ready
<1>5. OneActiveJob'
  BY <1>1 DEF OrderlyInv, OneActiveJob, ActiveJobsOf
<1> QED BY <1>2, <1>3, <1>4, <1>5 DEF OrderlyInv

-----------------------------------------------------------------------------
\* A row written by its worker shows a job the worker has, or is done with.
LEMMA OrderlyRow ==
  ASSUME ClusterInv, OrderlyInv, NEW w \in Workers, NEW k \in Jobs \union {NoJob},
         k \in Jobs => \/ jobStatus[k] \in ActiveStatus /\ assignedWorker[k] = w
                       \/ held[w] = k /\ pc[w] \in {"finishing", "fatal"},
         workerStatus' = [workerStatus EXCEPT ![w] = IF k = NoJob THEN "idle" ELSE "busy"],
         runningJob' = [runningJob EXCEPT ![w] = k],
         heartbeatStale' = [heartbeatStale EXCEPT ![w] = FALSE],
         UNCHANGED <<jobStatus, assignedWorker, retryWait, held>>,
         \/ UNCHANGED <<pc, beating>>
         \/ /\ pc[w] = "down" /\ pc' = [pc EXCEPT ![w] = "idle"]
            /\ beating' = [beating EXCEPT ![w] = TRUE]
  PROVE  OrderlyInv'
<1> USE Types
<1>1. NoJob \notin Jobs
  BY StoreAssumption
<1>2. LiveInv'
  BY DEF OrderlyInv, LiveInv
<1>3. HoldInv'
  BY DEF OrderlyInv, HoldInv, AboutToStart, Executing
<1>4. RowInv'
  <2>1. ASSUME NEW v \in Workers, NEW i \in Jobs, Shows(v, i)' PROVE Shows(v, i) \/ (v = w /\ i = k)
    BY <1>1, <2>1 DEF Shows
  <2>2. k \in Jobs => /\ jobStatus[k] \in ActiveStatus => assignedWorker[k] = w
                      /\ Exists(k) /\ ~Ready(k)
                      /\ jobStatus[k] = "queued" =>
                           ~(held[w] = k /\ pc[w] \in {"fetched", "claiming"})
    BY DEF OrderlyInv, HoldInv, ActiveStatus, TerminalStatus, Exists, Ready
  <2>3. pc'[w] \in {"fetched", "claiming"} => pc[w] = pc'[w]
    OBVIOUS
  <2>4. \A v \in Workers : v # w => pc'[v] = pc[v]
    OBVIOUS
  <2> QED BY <2>1, <2>2, <2>3, <2>4 DEF OrderlyInv, RowInv, Exists, Ready
<1>5. OneActiveJob'
  BY DEF OrderlyInv, OneActiveJob
<1> QED BY <1>2, <1>3, <1>4, <1>5 DEF OrderlyInv

\* Heartbeats: the jobs a row may be left with.
LEMMA OrderlyHeartbeat ==
  ASSUME ClusterInv, OrderlyInv, NEW w \in Workers, Heartbeat(w) \/ Start(w)
  PROVE  OrderlyInv'
<1> USE Types
<1>1. PICK j : UpsertWorkerHeartbeat(w, j)
               /\ (j = NoJob \/ (j \in Reportable(w) /\ UNCHANGED <<pc, beating>>))
  BY DEF Heartbeat, Start, workerVars
<1>2. PICK k \in KeptJobs(w, j) :
        /\ workerStatus' = [workerStatus EXCEPT ![w] = IF k = NoJob THEN "idle" ELSE "busy"]
        /\ runningJob' = [runningJob EXCEPT ![w] = k]
        /\ heartbeatStale' = [heartbeatStale EXCEPT ![w] = FALSE]
        /\ UNCHANGED <<jobStatus, assignedWorker, retryWait>>
  BY <1>1 DEF UpsertWorkerHeartbeat
<1>3. /\ UNCHANGED held
      /\ \/ UNCHANGED <<pc, beating>>
         \/ /\ pc[w] = "down" /\ pc' = [pc EXCEPT ![w] = "idle"]
            /\ beating' = [beating EXCEPT ![w] = TRUE]
  BY DEF Heartbeat, Start, ToPc, workerVars
<1>4. j = NoJob \/ (j = held[w] /\ j \in Jobs
                      /\ (Executing(w) \/ pc[w] \in {"finishing", "fatal"}))
  BY <1>1 DEF Reportable, Executing
<1>5. k = NoJob \/ k \in ActiveJobsOf(w) \/ (k = j /\ j # NoJob)
  BY <1>2 DEF KeptJobs
<1>6. /\ k \in Jobs \union {NoJob}
      /\ k \in Jobs => \/ jobStatus[k] \in ActiveStatus /\ assignedWorker[k] = w
                       \/ held[w] = k /\ pc[w] \in {"finishing", "fatal"}
  BY <1>4, <1>5, StoreAssumption DEF ActiveJobsOf, OrderlyInv, HoldInv, ActiveStatus
<1> QED BY <1>2, <1>3, <1>6, OrderlyRow

\* A heartbeat is late only if its worker is silent.
LEMMA OrderlyAging ==
  ASSUME ClusterInv, OrderlyInv, NEW w \in Workers, ~beating[w], HeartbeatAges(w),
         UNCHANGED processVars
  PROVE  OrderlyInv'
<1> USE Types DEF processVars
<1>1. LiveInv'
  BY DEF HeartbeatAges, OrderlyInv, LiveInv
<1>2. HoldInv'
  BY DEF HeartbeatAges, OrderlyInv, HoldInv, AboutToStart, Executing
<1>3. RowInv'
  BY DEF HeartbeatAges, OrderlyInv, RowInv, Shows, Exists, Ready
<1>4. OneActiveJob'
  BY DEF HeartbeatAges, OrderlyInv, OneActiveJob
<1> QED BY <1>1, <1>2, <1>3, <1>4 DEF OrderlyInv

\* A process moves on, or dies, without writing to the store.
LEMMA OrderlyProcess ==
  ASSUME ClusterInv, OrderlyInv, UNCHANGED storeVars, NEW w \in Workers,
         \/ Crash(w) \/ FetchPayload(w) \/ MarkWorkerBusy(w) \/ ObserveCancel(w) \/ ReleaseState(w)
         \/ ClaimJob(w)
  PROVE  OrderlyInv'
<1> USE Types DEF storeVars
<1>1. /\ \A v \in Workers \ {w} : pc'[v] = pc[v] /\ held'[v] = held[v] /\ beating'[v] = beating[v]
      /\ \/ pc'[w] = pc[w] /\ held'[w] = held[w] /\ beating'[w] = beating[w]
         \/ pc'[w] = "down" /\ held'[w] = NoJob /\ ~beating'[w]
         \/ pc'[w] = "idle" /\ held'[w] = NoJob /\ beating'[w] = beating[w] /\ beating[w]
         \/ pc'[w] = "fetched" /\ pc[w] = "idle" /\ ScheduledTo(held'[w], w) /\ beating'[w] = beating[w]
         \/ pc'[w] = "claiming" /\ pc[w] = "fetched" /\ held'[w] = held[w] /\ beating'[w] = beating[w]
         \/ pc'[w] = "stopping" /\ pc[w] = "running" /\ held'[w] = held[w] /\ beating'[w] = beating[w]
  <2>1. CASE Crash(w)
    BY <2>1 DEF Crash, ToPc, Forget
  <2>2. CASE FetchPayload(w)
    BY <2>2 DEF FetchPayload, ToPc
  <2>3. CASE MarkWorkerBusy(w) \/ ObserveCancel(w)
    BY <2>3 DEF MarkWorkerBusy, ObserveCancel, ToPc
  <2>4. CASE ReleaseState(w)
    BY <2>4 DEF ReleaseState, ToPc, Forget, OrderlyInv, LiveInv
  <2>5. CASE ClaimJob(w) /\ assignedWorker[held[w]] # w
    BY <2>5 DEF ClaimJob, ToPc, Forget, OrderlyInv, LiveInv
  <2>6. ~(ClaimJob(w) /\ assignedWorker[held[w]] = w)
    BY DEF ClaimJob, MarkJobRunning, OrderlyInv, HoldInv, AboutToStart
  <2> QED BY <2>1, <2>2, <2>3, <2>4, <2>5, <2>6
<1>2. NoJob \notin Jobs
  BY StoreAssumption
<1>3. LiveInv'
  BY <1>1, <1>2 DEF OrderlyInv, LiveInv
<1>4. HoldInv'
  BY <1>1 DEF OrderlyInv, HoldInv, AboutToStart, Executing, ScheduledTo
<1>5. RowInv'
  BY <1>1, <1>2 DEF OrderlyInv, RowInv, Shows, Exists, Ready, ScheduledTo
<1>6. OneActiveJob'
  BY DEF OrderlyInv, OneActiveJob
<1> QED BY <1>3, <1>4, <1>5, <1>6 DEF OrderlyInv

\* A claim starts a scheduled job.
LEMMA OrderlyClaim ==
  ASSUME ClusterInv, OrderlyInv, NEW w \in Workers, ClaimJob(w), assignedWorker[held[w]] = w
  PROVE  OrderlyInv'
<1> USE Types
<1> DEFINE j == held[w]
<1>1. /\ j \in Jobs /\ pc[w] = "claiming" /\ pc' = [pc EXCEPT ![w] = "running"]
      /\ jobStatus[j] = "scheduled" /\ jobStatus' = [jobStatus EXCEPT ![j] = "running"]
      /\ retryWait' = [retryWait EXCEPT ![j] = FALSE]
      /\ UNCHANGED <<assignedWorker, workerStatus, runningJob, heartbeatStale, held, beating>>
  BY DEF ClaimJob, MarkJobRunning, ToPc, OrderlyInv, HoldInv, AboutToStart
<1>2. LiveInv'
  BY <1>1 DEF OrderlyInv, LiveInv
<1>3. HoldInv'
  BY <1>1 DEF OrderlyInv, HoldInv, AboutToStart, Executing, TerminalStatus
<1>4. RowInv'
  BY <1>1 DEF OrderlyInv, RowInv, Shows, Exists, Ready, ActiveStatus
<1>5. OneActiveJob'
  BY <1>1 DEF OrderlyInv, OneActiveJob, ActiveStatus
<1> QED BY <1>2, <1>3, <1>4, <1>5 DEF OrderlyInv

\* A worker reports the end of the job that it executes and nobody else does.
LEMMA OrderlyReport ==
  ASSUME ClusterInv, OrderlyInv, NEW w \in Workers, RunSucceeds(w) \/ RunFails(w) \/ CancelCompletes(w)
  PROVE  OrderlyInv'
<1> USE Types
<1> DEFINE j == held[w]
<1>1. /\ j \in Jobs /\ Executing(w) /\ jobStatus[j] = "running" /\ assignedWorker[j] = w
      /\ UNCHANGED <<held, beating>>
      /\ \E p \in {"finishing", "fatal"} : pc' = [pc EXCEPT ![w] = p]
  BY DEF RunSucceeds, RunFails, CancelCompletes, ToPc, Executing, OrderlyInv, HoldInv
<1>2. /\ workerStatus' = [workerStatus EXCEPT ![w] = IF @ \in {"idle", "busy"} THEN "idle" ELSE @]
      /\ runningJob' = [runningJob EXCEPT ![w] = IF @ = j THEN NoJob ELSE @]
      /\ UNCHANGED heartbeatStale
  BY DEF RunSucceeds, RunFails, CancelCompletes, CompleteJobSuccess, CompleteJobFailure,
         ReleaseWorkerForJob
<1>3. /\ \A i \in Jobs \ {j} : jobStatus'[i] = jobStatus[i] /\ assignedWorker'[i] = assignedWorker[i]
                               /\ retryWait'[i] = retryWait[i]
      /\ \/ jobStatus'[j] \in TerminalStatus /\ assignedWorker'[j] = w
         \/ jobStatus'[j] = "queued" /\ retryWait'[j] /\ assignedWorker'[j] = NoWorker
  <2>1. CASE CompleteJobSuccess(j, w)
    BY <1>1, <2>1 DEF CompleteJobSuccess, TerminalStatus
  <2>2. ASSUME NEW transient, NEW canceled, CompleteJobFailure(j, w, transient, canceled)
        PROVE  /\ \A i \in Jobs \ {j} : jobStatus'[i] = jobStatus[i] /\ retryWait'[i] = retryWait[i]
                                        /\ assignedWorker'[i] = assignedWorker[i]
               /\ \/ jobStatus'[j] \in TerminalStatus /\ assignedWorker'[j] = w
                  \/ jobStatus'[j] = "queued" /\ retryWait'[j] /\ assignedWorker'[j] = NoWorker
    BY <1>1, <2>2 DEF CompleteJobFailure, TransitionAfterFailure, Unassign, TerminalStatus
  <2> QED BY <2>1, <2>2 DEF RunSucceeds, RunFails, CancelCompletes
<1>4. NoWorker \notin Workers /\ NoJob \notin Jobs
  BY StoreAssumption
<1> HIDE DEF j
<1>5. \A v \in Workers : v # w => pc'[v] = pc[v]
  BY <1>1
<1>6. pc'[w] \in {"finishing", "fatal"}
  BY <1>1
<1>7. LiveInv'
  BY <1>1, <1>2 DEF OrderlyInv, LiveInv, Executing
<1>8. ASSUME NEW v \in Workers, v # w, AboutToStart(v)' \/ Executing(v)' \/ pc[v] \in {"finishing", "fatal"}
      PROVE  held[v] \in Jobs \ {j}
  <2>1. held[v] \in Jobs /\ held'[v] = held[v]
    BY <1>1, <1>5, <1>8 DEF AboutToStart, Executing
  <2>2. CASE pc[v] \in {"finishing", "fatal"}
    BY <1>1, <2>1, <2>2 DEF OrderlyInv, HoldInv, TerminalStatus
  <2>3. CASE Executing(v)'
    BY <1>1, <1>5, <1>8, <2>1, <2>3 DEF OrderlyInv, HoldInv, Executing
  <2>4. CASE AboutToStart(v)'
    BY <1>3, <1>4, <1>8, <2>1, <2>4 DEF AboutToStart
  <2> QED BY <1>8, <2>2, <2>3, <2>4
<1>9. HoldInv'
  <2>1. ASSUME NEW v \in Workers, v # w
        PROVE  /\ AboutToStart(v)' => jobStatus'[held[v]] = "scheduled"
               /\ Executing(v)' => jobStatus'[held[v]] = "running" /\ assignedWorker'[held[v]] = v
               /\ pc'[v] \in {"finishing", "fatal"} =>
                    \/ jobStatus'[held[v]] \in TerminalStatus
                    \/ jobStatus'[held[v]] = "queued" /\ retryWait'[held[v]]
    BY <1>1, <1>3, <1>5, <1>8, <2>1 DEF OrderlyInv, HoldInv, AboutToStart, Executing
  <2>2. ~AboutToStart(w)' /\ ~Executing(w)' /\ held'[w] = j
    BY <1>1, <1>6 DEF AboutToStart, Executing, j
  <2> QED BY <1>1, <1>3, <2>1, <2>2 DEF HoldInv
<1>10. RowInv'
  <2>1. ASSUME NEW v \in Workers, NEW i \in Jobs, Shows(v, i)' PROVE Shows(v, i) /\ i # j
    BY <1>1, <1>2, <1>4, <2>1 DEF Shows, OrderlyInv, RowInv, ActiveStatus
  <2>2. ASSUME NEW v \in Workers, pc'[v] \in {"fetched", "claiming"}
        PROVE  pc[v] \in {"fetched", "claiming"} /\ held'[v] = held[v]
    BY <1>1, <1>5, <1>6, <2>2
  <2> QED BY <1>3, <2>1, <2>2 DEF OrderlyInv, RowInv, Exists, Ready
<1>11. OneActiveJob'
  BY <1>1, <1>3 DEF OrderlyInv, OneActiveJob, ActiveStatus, TerminalStatus
<1> QED BY <1>7, <1>9, <1>10, <1>11 DEF OrderlyInv

-----------------------------------------------------------------------------
\* No step of an orderly system breaks the order.
LEMMA OrderlyStep ==
  ASSUME Orderly, ClusterInv, OrderlyInv, [Next]_vars
  PROVE  OrderlyInv'
<1>1. /\ \A j \in Jobs : ~UserCancels(j)
      /\ \A w \in Workers : ~HeartbeatLoopDies(w) /\ ~LateHeartbeat(w) /\ ~RunSucceedsUnheard(w)
  BY DEF Orderly, UserCancels, HeartbeatLoopDies, LateHeartbeat, RunSucceedsUnheard, Fault
<1>2. ASSUME UNCHANGED storeVars, UNCHANGED processVars PROVE OrderlyInv'
  BY <1>2, OrderlyQuiet DEF storeVars, processVars
<1>3. ASSUME NEW j \in Jobs, SubmitJob(j) PROVE OrderlyInv'
  <2>1. \A i \in {j} : i \in Jobs => jobStatus[i] = "absent"
    BY <1>3 DEF SubmitJob, CreateJob, Exists
  <2>2. jobStatus' = [i \in Jobs |-> IF i \in {j} THEN "queued" ELSE jobStatus[i]]
    BY <1>3, Types DEF SubmitJob, CreateJob
  <2> QED BY <1>3, <2>1, <2>2, OrderlySubmission DEF SubmitJob, CreateJob, workerVars, processVars
<1>4. ASSUME NEW b \in Batches, SubmitBatch(b) PROVE OrderlyInv'
  <2> DEFINE J == {j \in Jobs : BatchOf[j] = b}
  <2>1. \A i \in J : i \in Jobs => jobStatus[i] = "absent"
    BY <1>4 DEF SubmitBatch, CreateBatch, ClusterInv, StoreInv, AbsentBatchHasNoJobs
  <2>2. jobStatus' = [i \in Jobs |-> IF i \in J THEN "queued" ELSE jobStatus[i]]
    BY <1>4 DEF SubmitBatch, CreateBatch
  <2>3. UNCHANGED processVars
        /\ UNCHANGED <<assignedWorker, retryWait, workerStatus, runningJob, heartbeatStale>>
    BY <1>4 DEF SubmitBatch, CreateBatch, workerVars, processVars
  <2> HIDE DEF J
  <2> QED BY <2>1, <2>2, <2>3, OrderlySubmission
<1>5. ASSUME NEW j \in Jobs,
             \/ EnqueueSubmitted(j) \/ ApiRaises(j)
             \/ \E w \in Workers : PushWorkerJob(j, w) \/ PushRaises(j, w)
      PROVE  OrderlyInv'
  BY <1>2, <1>5 DEF EnqueueSubmitted, ApiRaises, PushWorkerJob, PushRaises, workerVars, processVars
<1>6. ASSUME NEW j \in Jobs, RetryDelayPasses(j) PROVE OrderlyInv'
  BY <1>6, OrderlyDelay
<1>7. ASSUME RecoverLostWorkers PROVE OrderlyInv'
  BY <1>7, OrderlyOffline DEF RecoverLostWorkers, workerVars, processVars
<1>8. ASSUME RecoverUnclaimedJobs PROVE OrderlyInv'
  BY <1>8, OrderlyRequeue DEF RecoverUnclaimedJobs, workerVars, processVars
<1>9. ASSUME EnqueueQueuedJobs PROVE OrderlyInv'
  BY <1>2, <1>9 DEF EnqueueQueuedJobs, workerVars, processVars
<1>10. ASSUME DispatchAvailableWork PROVE OrderlyInv'
  <2>1. PICK w \in idleWorkers, j \in jobQueue :
          AssignJobToWorker(j, w) \/ UNCHANGED storeVars
    BY <1>10 DEF DispatchAvailableWork, Assign, RefuseWorker, RefuseJob
  <2>2. w \in Workers /\ j \in Jobs /\ UNCHANGED processVars
    BY <1>10 DEF DispatchAvailableWork, ClusterInv, LocalInv, ClusterTypeOK, workerVars, processVars
  <2> QED BY <1>2, <2>1, <2>2, OrderlyAssign
<1>11. ASSUME NEW j \in Jobs, NEW w \in Workers, UndoDispatch(j, w) PROVE OrderlyInv'
  <2>1. UNCHANGED processVars
    BY <1>11 DEF UndoDispatch, workerVars, processVars
  <2> QED BY <1>2, <1>11, <2>1, OrderlyRevert DEF UndoDispatch
<1>12. ASSUME SchedulerRaises PROVE OrderlyInv'
  <2>1. UNCHANGED processVars
    BY <1>12 DEF SchedulerRaises, workerVars, processVars
  <2> QED BY <1>2, <1>12, <2>1, OrderlyRequeue DEF SchedulerRaises
<1>13. ASSUME NEW w \in Workers, Start(w) \/ Heartbeat(w) PROVE OrderlyInv'
  BY <1>13, OrderlyHeartbeat
<1>14. ASSUME NEW w \in Workers, Crash(w) \/ FetchPayload(w) \/ MarkWorkerBusy(w) \/ ObserveCancel(w)
                                 \/ ReleaseState(w)
       PROVE  OrderlyInv'
  <2>1. UNCHANGED storeVars
    BY <1>14 DEF Crash, FetchPayload, MarkWorkerBusy, ObserveCancel, ReleaseState
  <2> QED BY <1>14, <2>1, OrderlyProcess
<1>15. ASSUME NEW w \in Workers, AnnounceIdle(w) PROVE OrderlyInv'
  BY <1>2, <1>15 DEF AnnounceIdle, processVars
<1>16. ASSUME NEW w \in Workers, ClaimJob(w) PROVE OrderlyInv'
  <2>1. CASE assignedWorker[held[w]] = w
    BY <1>16, <2>1, OrderlyClaim
  <2>2. CASE assignedWorker[held[w]] # w
    <3>1. UNCHANGED storeVars
      BY <1>16, <2>2 DEF ClaimJob
    <3> QED BY <1>16, <3>1, OrderlyProcess
  <2> QED BY <2>1, <2>2
<1>17. ASSUME NEW w \in Workers, RunSucceeds(w) \/ RunFails(w) \/ CancelCompletes(w) PROVE OrderlyInv'
  BY <1>17, OrderlyReport
<1>18. ASSUME NEW w \in Workers, SilentWorkerAges(w) PROVE OrderlyInv'
  BY <1>18, OrderlyAging DEF SilentWorkerAges, workerVars, processVars
<1>19. ASSUME NEW r \in openAssignments, ClaimTimeoutPasses(r) PROVE OrderlyInv'
  BY <1>19, OrderlyQuiet DEF ClaimTimeoutPasses, AssignmentAges, workerVars
<1>20. ASSUME UNCHANGED vars PROVE OrderlyInv'
  BY <1>2, <1>20 DEF vars, workerVars, processVars
<1>21. ASSUME SchedulerStep PROVE OrderlyInv'
  BY <1>5, <1>7, <1>8, <1>9, <1>10, <1>11, <1>21 DEF SchedulerStep
<1>22. ASSUME NEW w \in Workers, WorkLoopStep(w) PROVE OrderlyInv'
  BY <1>14, <1>15, <1>16, <1>17, <1>22 DEF WorkLoopStep
<1> QED BY <1>1, <1>3, <1>4, <1>5, <1>6, <1>12, <1>13, <1>14, <1>18, <1>19, <1>20, <1>21, <1>22
        DEF Next

\* So it is kept throughout.
LEMMA OrderlyInvariance == Orderly => (Spec => []OrderlyInv)
<1> SUFFICES ASSUME Orderly PROVE Spec => []OrderlyInv
  OBVIOUS
<1>1. Init => OrderlyInv
  BY StoreAssumption
  DEF Init, StoreInit, OrderlyInv, LiveInv, HoldInv, RowInv, OneActiveJob, AboutToStart, Executing,
      Shows, ActiveStatus
<1>2. ClusterInv /\ OrderlyInv /\ [Next]_vars => OrderlyInv'
  BY OrderlyStep
<1> QED BY <1>1, <1>2, ClusterInvariance, PTL DEF Spec

\* No other job is given to a worker while it executes one: the dispatcher goes by
\* the jobs table, where the job of the worker stays until the worker is done.
THEOREM OneJobAtATime == Orderly => (Spec => []OneJobPerWorker)
<1>1. ClusterInv /\ OrderlyInv => OneJobPerWorker
  <2> SUFFICES ASSUME ClusterInv, OrderlyInv, NEW w \in Workers, Executing(w)
               PROVE  ActiveJobsOf(w) \subseteq {held[w]}
    BY DEF OneJobPerWorker
  <2>1. held[w] \in Jobs /\ jobStatus[held[w]] \in ActiveStatus /\ assignedWorker[held[w]] = w
    BY Types DEF OrderlyInv, HoldInv, Executing, ActiveStatus
  <2> QED BY <2>1 DEF OrderlyInv, OneActiveJob, ActiveJobsOf
<1> QED BY <1>1, ClusterInvariance, OrderlyInvariance, PTL

-----------------------------------------------------------------------------
(* The life of a job                                                         *)

\* The initial tables are those of the abstract specification.
LEMMA LivesFirst == Init => Lifecycle!Init
  BY DEF Init, StoreInit, Lifecycle!Init

\* Every step moves every job along an edge of its life.
LEMMA LivesOn ==
  ASSUME Orderly, ClusterInv, OrderlyInv, [Next]_vars, NEW j \in Jobs
  PROVE  Lifecycle!AutoRetry(j) \/ Lifecycle!Uncharged(j)
<1> USE DEF Lifecycle!AutoRetry, Lifecycle!Uncharged, Lifecycle!Edge, Lifecycle!Submit,
            Lifecycle!Schedule, Lifecycle!ClaimTimeout, Lifecycle!Begin, Lifecycle!Cancel,
            Lifecycle!Fail, Lifecycle!Succeed, Lifecycle!Rest
<1>1. CASE WrittenInView(j)
  BY <1>1 DEF WrittenInView, ActiveStatus
<1>2. ASSUME NEW w \in Workers, held[w] = j, WritesStatus(w)
      PROVE  Lifecycle!AutoRetry(j) \/ Lifecycle!Uncharged(j)
  <2>1. jobStatus \in [Jobs -> JobStatus] /\ retryCount \in [Jobs -> Nat]
    BY DEF ClusterInv, StoreInv, StoreTypeOK
  <2>2. CASE ClaimJob(w) /\ assignedWorker[held[w]] = w
    <3>1. jobStatus[j] = "scheduled"
      BY <1>2, <2>2 DEF ClaimJob, OrderlyInv, HoldInv, AboutToStart
    <3>2. jobStatus'[j] = "running" /\ retryCount' = retryCount
      BY <1>2, <2>1, <2>2 DEF ClaimJob, MarkJobRunning
    <3> QED BY <3>1, <3>2
  <2>3. CASE Executing(w)
    <3>1. jobStatus[j] = "running"
      BY <1>2, <2>3 DEF OrderlyInv, HoldInv
    <3>2. CASE RunSucceeds(w) \/ RunSucceedsUnheard(w)
      <4>1. jobStatus'[j] = "succeeded" /\ retryCount' = retryCount
        BY <1>2, <2>1, <3>2 DEF RunSucceeds, RunSucceedsUnheard, CompleteJobSuccess
      <4> QED BY <3>1, <4>1
    <3>3. ASSUME NEW transient, NEW canceled, CompleteJobFailure(j, w, transient, canceled)
          PROVE  \/ jobStatus'[j] \in {"failed", "canceled"} /\ retryCount'[j] = retryCount[j]
                 \/ /\ jobStatus'[j] = "queued"
                    /\ retryCount[j] < MaxRetries /\ retryCount'[j] = retryCount[j] + 1
      BY <3>3 DEF CompleteJobFailure, TransitionAfterFailure, MayRetry, Charged
    <3>4. CASE RunFails(w) \/ CancelCompletes(w)
      BY <1>2, <3>1, <3>3, <3>4 DEF RunFails, CancelCompletes
    <3>5. ~(ClaimJob(w) /\ assignedWorker[held[w]] = w)
      BY <2>3 DEF ClaimJob, Executing
    <3> QED BY <1>2, <3>2, <3>4, <3>5 DEF WritesStatus
  <2> QED BY <1>2, <2>2, <2>3
      DEF WritesStatus, RunSucceeds, RunSucceedsUnheard, RunFails, CancelCompletes, Executing
<1> QED BY <1>1, <1>2, StatusIsWritten

\* Seen by a client, every job lives the life that the abstract specification of
\* jobs.status promises, although the methods that move it check so little.
THEOREM LifecycleImplemented == Orderly => (Spec => ImplementsLifecycle)
<1> SUFFICES ASSUME Orderly PROVE Spec => ImplementsLifecycle
  OBVIOUS
<1>1. ASSUME ClusterInv, OrderlyInv, [Next]_vars
      PROVE  [Lifecycle!Next]_<<jobStatus, retryCount>>
  <2>1. jobStatus' \in [Jobs -> JobStatus] /\ retryCount' \in [Jobs -> Nat]
    BY <1>1, StoreSteps, InvStep DEF ClusterInv, StoreInv, StoreTypeOK
  <2>2. \A j \in Jobs : Lifecycle!AutoRetry(j) \/ Lifecycle!Uncharged(j)
    BY <1>1, LivesOn
  <2>3. JobStatus = Lifecycle!Status
    BY DEF JobStatus, ActiveStatus, TerminalStatus, Lifecycle!Status
  <2> QED BY <2>1, <2>2, <2>3 DEF Lifecycle!Next
<1> QED BY <1>1, LivesFirst, ClusterInvariance, OrderlyInvariance, PTL
        DEF Spec, ImplementsLifecycle, Lifecycle!Spec

\* So a success is never taken back, although complete_job_failure would do it:
\* what success_lost shows needs one of the events that are excluded here.
THEOREM SuccessIsFinal == Orderly => (Spec => SucceededIsFinal)
<1> SUFFICES ASSUME Orderly PROVE Spec => SucceededIsFinal
  OBVIOUS
<1>1. ASSUME ClusterInv, OrderlyInv, [Next]_vars, NEW j \in Jobs, jobStatus[j] = "succeeded"
      PROVE  jobStatus'[j] = "succeeded"
  BY <1>1, LivesOn
  DEF Lifecycle!AutoRetry, Lifecycle!Uncharged, Lifecycle!Edge, Lifecycle!Submit,
      Lifecycle!Schedule, Lifecycle!ClaimTimeout, Lifecycle!Begin, Lifecycle!Cancel,
      Lifecycle!Fail, Lifecycle!Succeed, Lifecycle!Rest
<1>2. ClusterInv /\ OrderlyInv /\ [Next]_vars
        => [\A j \in Jobs : jobStatus[j] = "succeeded" => jobStatus'[j] = "succeeded"]_vars
  BY <1>1
<1> QED BY <1>2, ClusterInvariance, OrderlyInvariance, PTL DEF Spec, SucceededIsFinal

-----------------------------------------------------------------------------
(* No running job is forgotten                                               *)

\* Besides, a worker that comes back has been declared offline, and none reports
\* a job after the commit that ends it.
Unhurried == Orderly /\ Events \intersect {"fastRestart", "heartbeatInWindow"} = {}

\* The row of a worker shows the job that the jobs table gives it.
ShownInv ==
  \A j \in Jobs : jobStatus[j] \in ActiveStatus =>
    runningJob[assignedWorker[j]] = j /\ workerStatus[assignedWorker[j]] = "busy"

\* The worker of a running job executes it or is silent.
ExecutedInv ==
  \A j \in Jobs : jobStatus[j] = "running" =>
    \/ Executing(assignedWorker[j]) /\ held[assignedWorker[j]] = j
    \/ ~beating[assignedWorker[j]]

WatchInv == ShownInv /\ ExecutedInv

\* Steps that give no job to a worker, take no row from one that keeps its job,
\* and leave the processes alone.
LEMMA WatchedStore ==
  ASSUME ClusterInv, WatchInv, UNCHANGED processVars,
         \A j \in Jobs : jobStatus'[j] \in ActiveStatus =>
           /\ jobStatus[j] = jobStatus'[j] /\ assignedWorker'[j] = assignedWorker[j]
           /\ runningJob[assignedWorker[j]] = j /\ workerStatus[assignedWorker[j]] = "busy"
                => /\ runningJob'[assignedWorker[j]] = j
                   /\ workerStatus'[assignedWorker[j]] = "busy"
  PROVE  WatchInv'
<1> USE DEF processVars
<1>1. ShownInv'
  BY DEF WatchInv, ShownInv
<1>2. ExecutedInv'
  BY DEF WatchInv, ExecutedInv, Executing, ActiveStatus
<1> QED BY <1>1, <1>2 DEF WatchInv

\* The recovery passes: a worker whose row they clear has lost its job.
LEMMA WatchedRecovery ==
  ASSUME ClusterInv, OrderlyInv, WatchInv, UNCHANGED processVars,
         MarkStaleWorkersOffline \/ RequeueStaleScheduledJobs
  PROVE  WatchInv'
<1> USE Types
<1>1. NoWorker \notin Workers /\ NoJob \notin Jobs
  BY StoreAssumption
<1>2. CASE MarkStaleWorkersOffline
  <2> DEFINE Lost == {j \in Jobs : jobStatus[j] \in ActiveStatus
                                     /\ \E w \in StaleWorkers : runningJob[w] = j}
             Retried == {j \in Lost : MayRetry(j)}
  <2>1. /\ jobStatus' = [j \in Jobs |-> IF j \in Retried THEN "queued"
                                        ELSE IF j \in Lost THEN "failed" ELSE jobStatus[j]]
        /\ assignedWorker' = [j \in Jobs |-> IF j \in Retried THEN NoWorker
                                             ELSE assignedWorker[j]]
        /\ workerStatus' = [w \in Workers |-> IF w \in StaleWorkers THEN "offline"
                                              ELSE workerStatus[w]]
        /\ runningJob' = [w \in Workers |-> IF w \in StaleWorkers THEN NoJob ELSE runningJob[w]]
    BY <1>2 DEF MarkStaleWorkersOffline, TransitionAfterFailure, Unassign
  <2> HIDE DEF Retried
  <2>2. Retried \subseteq Lost
    BY DEF Retried
  <2>3. ASSUME NEW j \in Jobs, jobStatus'[j] \in ActiveStatus
        PROVE  /\ jobStatus'[j] = jobStatus[j] /\ assignedWorker'[j] = assignedWorker[j]
               /\ assignedWorker[j] \in Workers \ StaleWorkers
    <3>1. j \notin Lost /\ jobStatus'[j] = jobStatus[j] /\ assignedWorker'[j] = assignedWorker[j]
      BY <2>1, <2>2, <2>3 DEF ActiveStatus
    <3>2. runningJob[assignedWorker[j]] = j
      BY <2>3, <3>1 DEF WatchInv, ShownInv
    <3> QED BY <2>3, <3>1, <3>2
  <2> QED BY <2>1, <2>3, WatchedStore
<1>3. CASE RequeueStaleScheduledJobs
  <2> DEFINE J == {r.job : r \in UnclaimedOverdue}
             W == {r.worker : r \in UnclaimedOverdue}
  <2>1. /\ jobStatus' = [j \in Jobs |-> IF j \in J THEN "queued" ELSE jobStatus[j]]
        /\ assignedWorker' = [j \in Jobs |-> IF j \in J THEN NoWorker ELSE assignedWorker[j]]
        /\ workerStatus' = [w \in Workers |->
             IF w \in W /\ Registered(w) THEN IF heartbeatStale[w] THEN "offline" ELSE "idle"
             ELSE workerStatus[w]]
        /\ runningJob' = [w \in Workers |->
             IF \E r \in UnclaimedOverdue : r.worker = w /\ r.job = runningJob[w]
             THEN NoJob ELSE runningJob[w]]
    BY <1>3 DEF RequeueStaleScheduledJobs, Unassign
  <2>2. \A r \in UnclaimedOverdue :
          r.job \in Jobs /\ jobStatus[r.job] = "scheduled" /\ assignedWorker[r.job] = r.worker
    BY DEF UnclaimedOverdue
  <2>3. ASSUME NEW j \in Jobs, jobStatus'[j] \in ActiveStatus
        PROVE  /\ jobStatus'[j] = jobStatus[j] /\ assignedWorker'[j] = assignedWorker[j]
               /\ assignedWorker[j] \in Workers
               /\ \A r \in UnclaimedOverdue : r.worker # assignedWorker[j]
    <3>1. j \notin J /\ jobStatus'[j] = jobStatus[j] /\ assignedWorker'[j] = assignedWorker[j]
      BY <2>1, <2>3 DEF ActiveStatus
    <3>2. ASSUME NEW r \in UnclaimedOverdue, r.worker = assignedWorker[j] PROVE FALSE
      <4>1. r.job = j
        BY <2>2, <2>3, <3>1, <3>2 DEF OrderlyInv, OneActiveJob, ActiveStatus
      <4> QED BY <3>1, <4>1
    <3> QED BY <2>3, <3>1, <3>2
  <2> QED BY <2>1, <2>3, WatchedStore
<1> QED BY <1>2, <1>3

\* Dispatch: the row is written with the job, and cleared with it.
LEMMA WatchedDispatch ==
  ASSUME ClusterInv, OrderlyInv, WatchInv, UNCHANGED processVars, NEW j \in Jobs, NEW w \in Workers,
         AssignJobToWorker(j, w) \/ RevertScheduledJob(j, w)
  PROVE  WatchInv'
<1> USE Types
<1>1. NoWorker \notin Workers /\ NoJob \notin Jobs
  BY StoreAssumption
<1>2. CASE AssignJobToWorker(j, w)
  <2>1. /\ \A i \in Jobs : jobStatus[i] \in ActiveStatus => assignedWorker[i] # w
        /\ jobStatus' = [jobStatus EXCEPT ![j] = "scheduled"]
        /\ assignedWorker' = [assignedWorker EXCEPT ![j] = w]
        /\ workerStatus' = [workerStatus EXCEPT ![w] = "busy"]
        /\ runningJob' = [runningJob EXCEPT ![w] = j]
    BY <1>2 DEF AssignJobToWorker, Dispatchable, ActiveJobsOf
  <2>2. ShownInv'
    BY <2>1 DEF WatchInv, ShownInv
  <2>3. ExecutedInv'
    BY <2>1 DEF WatchInv, ExecutedInv, Executing, processVars
  <2> QED BY <2>2, <2>3 DEF WatchInv
<1>3. CASE RevertScheduledJob(j, w)
  <2>1. /\ jobStatus[j] = "scheduled" /\ assignedWorker[j] = w
        /\ jobStatus' = [jobStatus EXCEPT ![j] = "queued"]
        /\ assignedWorker' = [i \in Jobs |-> IF i = j THEN NoWorker ELSE assignedWorker[i]]
        /\ \A v \in Workers \ {w} : workerStatus'[v] = workerStatus[v]
                                    /\ runningJob'[v] = runningJob[v]
    BY <1>3 DEF RevertScheduledJob, ScheduledTo, Unassign
  <2>2. \A i \in Jobs \ {j} : jobStatus[i] \in ActiveStatus => assignedWorker[i] \in Workers \ {w}
    BY <2>1 DEF OrderlyInv, OneActiveJob, ActiveStatus
  <2> QED BY <2>1, <2>2, WatchedStore DEF ActiveStatus
<1> QED BY <1>2, <1>3

\* A worker that starts has no job, and one that has a job reports it.
LEMMA WatchedHeartbeat ==
  ASSUME Unhurried, ClusterInv, OrderlyInv, WatchInv, NEW w \in Workers, Heartbeat(w) \/ Start(w)
  PROVE  WatchInv'
<1> USE Types
<1>1. NoWorker \notin Workers /\ NoJob \notin Jobs
  BY StoreAssumption
<1>2. PICK j : UpsertWorkerHeartbeat(w, j)
               /\ (j = NoJob \/ (j \in Reportable(w) /\ UNCHANGED <<pc, beating>>))
  BY DEF Heartbeat, Start, workerVars
<1>3. PICK k \in KeptJobs(w, j) :
        /\ workerStatus' = [workerStatus EXCEPT ![w] = IF k = NoJob THEN "idle" ELSE "busy"]
        /\ runningJob' = [runningJob EXCEPT ![w] = k]
        /\ UNCHANGED <<jobStatus, assignedWorker>>
  BY <1>2 DEF UpsertWorkerHeartbeat
<1>4. ASSUME NEW i \in Jobs, jobStatus[i] \in ActiveStatus, assignedWorker[i] = w
      PROVE  k = i /\ ~Start(w)
  <2>1. workerStatus[w] = "busy" /\ runningJob[w] = i
    BY <1>4 DEF WatchInv, ShownInv
  <2>2. ~Start(w)
    BY <2>1 DEF Start, Unhurried
  <2>3. i \in ActiveJobsOf(w) /\ Registered(w)
    BY <1>4, <2>1 DEF ActiveJobsOf, Registered
  <2>4. \A l \in ActiveJobsOf(w) : l = i
    BY <1>4 DEF ActiveJobsOf, OrderlyInv, OneActiveJob
  <2>5. j = NoJob \/ j = i
    <3>1. CASE Executing(w)
      <4>1. held[w] \in Jobs /\ jobStatus[held[w]] \in ActiveStatus /\ assignedWorker[held[w]] = w
        BY <3>1 DEF OrderlyInv, HoldInv, Executing, ActiveStatus
      <4>2. held[w] = i
        BY <1>4, <4>1 DEF OrderlyInv, OneActiveJob
      <4> QED BY <1>2, <3>1, <4>2 DEF Reportable, Executing
    <3>2. CASE ~Executing(w)
      BY <1>2, <3>2 DEF Reportable, Executing, Unhurried
    <3> QED BY <3>1, <3>2
  <2> QED BY <1>3, <2>2, <2>3, <2>4, <2>5 DEF KeptJobs
<1>5. ShownInv'
  BY <1>1, <1>3, <1>4 DEF WatchInv, ShownInv
<1>6. UNCHANGED held
      /\ (UNCHANGED <<pc, beating>> \/ (Start(w) /\ pc' = [pc EXCEPT ![w] = "idle"]
                                         /\ beating' = [beating EXCEPT ![w] = TRUE]))
  BY DEF Heartbeat, Start, ToPc, workerVars
<1>7. ASSUME NEW i \in Jobs, jobStatus[i] = "running"
      PROVE  /\ pc'[assignedWorker[i]] = pc[assignedWorker[i]]
             /\ beating'[assignedWorker[i]] = beating[assignedWorker[i]]
  <2>1. UNCHANGED <<pc, beating>> \/ assignedWorker[i] # w
    BY <1>4, <1>6, <1>7 DEF ActiveStatus
  <2>2. assignedWorker[i] \in Workers
    BY <1>7 DEF ActiveStatus
  <2> QED BY <1>6, <2>1, <2>2
<1>8. ExecutedInv'
  BY <1>3, <1>6, <1>7 DEF WatchInv, ExecutedInv, Executing
<1> QED BY <1>5, <1>8 DEF WatchInv

\* A process that stops executing a job has ended it or falls silent.
LEMMA WatchedProcess ==
  ASSUME ClusterInv, OrderlyInv, WatchInv, UNCHANGED storeVars, NEW w \in Workers,
         \/ Crash(w) \/ FetchPayload(w) \/ MarkWorkerBusy(w) \/ ObserveCancel(w) \/ ReleaseState(w)
         \/ ClaimJob(w)
  PROVE  WatchInv'
<1> USE Types DEF storeVars
<1>1. /\ \A v \in Workers \ {w} : pc'[v] = pc[v] /\ held'[v] = held[v] /\ beating'[v] = beating[v]
      /\ ~beating'[w] \/ beating'[w] = beating[w]
      /\ Executing(w) /\ beating'[w] => Executing(w)' /\ held'[w] = held[w]
  <2>1. CASE Crash(w)
    BY <2>1 DEF Crash, ToPc, Forget
  <2>2. CASE FetchPayload(w)
    BY <2>2 DEF FetchPayload, ToPc, Executing
  <2>3. CASE MarkWorkerBusy(w) \/ ObserveCancel(w)
    BY <2>3 DEF MarkWorkerBusy, ObserveCancel, ToPc, Executing
  <2>4. CASE ReleaseState(w)
    BY <2>4 DEF ReleaseState, ToPc, Forget, OrderlyInv, LiveInv, Executing
  <2>5. CASE ClaimJob(w) /\ assignedWorker[held[w]] # w
    BY <2>5 DEF ClaimJob, ToPc, Forget, Executing
  <2>6. ~(ClaimJob(w) /\ assignedWorker[held[w]] = w)
    BY DEF ClaimJob, MarkJobRunning, OrderlyInv, HoldInv, AboutToStart
  <2> QED BY <2>1, <2>2, <2>3, <2>4, <2>5, <2>6
<1>2. ShownInv'
  BY DEF WatchInv, ShownInv
<1>3. ExecutedInv'
  BY <1>1 DEF WatchInv, ExecutedInv, Executing, ActiveStatus
<1> QED BY <1>2, <1>3 DEF WatchInv

\* A claim starts a job on the worker that holds it.
LEMMA WatchedClaim ==
  ASSUME ClusterInv, OrderlyInv, WatchInv, NEW w \in Workers, ClaimJob(w),
         assignedWorker[held[w]] = w
  PROVE  WatchInv'
<1> USE Types
<1>1. /\ held[w] \in Jobs /\ pc[w] = "claiming" /\ pc' = [pc EXCEPT ![w] = "running"]
      /\ jobStatus[held[w]] = "scheduled"
      /\ jobStatus' = [jobStatus EXCEPT ![held[w]] = "running"]
      /\ UNCHANGED <<assignedWorker, workerStatus, runningJob, held, beating>>
  BY DEF ClaimJob, MarkJobRunning, ToPc, OrderlyInv, HoldInv, AboutToStart
<1>2. ShownInv'
  BY <1>1 DEF WatchInv, ShownInv, ActiveStatus
<1>3. ExecutedInv'
  BY <1>1 DEF WatchInv, ExecutedInv, Executing
<1> QED BY <1>2, <1>3 DEF WatchInv

\* The end of a job clears the row of its worker, which has no other job.
LEMMA WatchedReport ==
  ASSUME ClusterInv, OrderlyInv, WatchInv, NEW w \in Workers,
         RunSucceeds(w) \/ RunFails(w) \/ CancelCompletes(w)
  PROVE  WatchInv'
<1> USE Types
<1> DEFINE j == held[w]
<1>1. /\ j \in Jobs /\ jobStatus[j] = "running" /\ assignedWorker[j] = w
      /\ UNCHANGED <<held, beating>>
      /\ \A v \in Workers \ {w} : pc'[v] = pc[v]
  BY DEF RunSucceeds, RunFails, CancelCompletes, ToPc, Executing, OrderlyInv, HoldInv
<1>2. \A v \in Workers \ {w} : workerStatus'[v] = workerStatus[v] /\ runningJob'[v] = runningJob[v]
  BY DEF RunSucceeds, RunFails, CancelCompletes, CompleteJobSuccess, CompleteJobFailure,
         ReleaseWorkerForJob
<1>3. /\ \A i \in Jobs \ {j} : jobStatus'[i] = jobStatus[i] /\ assignedWorker'[i] = assignedWorker[i]
      /\ jobStatus'[j] \notin ActiveStatus
  <2>1. CASE CompleteJobSuccess(j, w)
    BY <1>1, <2>1 DEF CompleteJobSuccess, ActiveStatus
  <2>2. ASSUME NEW transient, NEW canceled, CompleteJobFailure(j, w, transient, canceled)
        PROVE  /\ \A i \in Jobs \ {j} : jobStatus'[i] = jobStatus[i]
                                        /\ assignedWorker'[i] = assignedWorker[i]
               /\ jobStatus'[j] \notin ActiveStatus
    BY <1>1, <2>2 DEF CompleteJobFailure, TransitionAfterFailure, Unassign, ActiveStatus
  <2> QED BY <2>1, <2>2 DEF RunSucceeds, RunFails, CancelCompletes
<1> HIDE DEF j
<1>4. ASSUME NEW i \in Jobs, jobStatus'[i] \in ActiveStatus
      PROVE  /\ jobStatus'[i] = jobStatus[i] /\ assignedWorker'[i] = assignedWorker[i]
             /\ assignedWorker[i] \in Workers \ {w}
  <2>1. i # j
    BY <1>3, <1>4
  <2> QED BY <1>1, <1>3, <1>4, <2>1 DEF OrderlyInv, OneActiveJob, ActiveStatus
<1>5. ShownInv'
  BY <1>2, <1>4 DEF WatchInv, ShownInv
<1>6. ExecutedInv'
  BY <1>1, <1>4 DEF WatchInv, ExecutedInv, Executing, ActiveStatus
<1> QED BY <1>5, <1>6 DEF WatchInv

\* No step of an unhurried system forgets a running job.
LEMMA WatchedStep ==
  ASSUME Unhurried, ClusterInv, OrderlyInv, WatchInv, [Next]_vars
  PROVE  WatchInv'
<1> USE Types
<1>1. /\ \A j \in Jobs : ~UserCancels(j)
      /\ \A w \in Workers : ~HeartbeatLoopDies(w) /\ ~LateHeartbeat(w) /\ ~RunSucceedsUnheard(w)
  BY DEF Unhurried, Orderly, UserCancels, HeartbeatLoopDies, LateHeartbeat, RunSucceedsUnheard,
         Fault
<1>2. ASSUME UNCHANGED processVars, UNCHANGED <<assignedWorker, workerStatus, runningJob>>,
             \A j \in Jobs : jobStatus'[j] \in ActiveStatus => jobStatus'[j] = jobStatus[j]
      PROVE  WatchInv'
  BY <1>2, WatchedStore
<1>3. ASSUME NEW j \in Jobs, SubmitJob(j) PROVE WatchInv'
  BY <1>2, <1>3 DEF SubmitJob, CreateJob, workerVars, processVars, ActiveStatus
<1>4. ASSUME NEW b \in Batches, SubmitBatch(b) PROVE WatchInv'
  BY <1>2, <1>4 DEF SubmitBatch, CreateBatch, workerVars, processVars, ActiveStatus
<1>5. ASSUME NEW j \in Jobs,
             \/ EnqueueSubmitted(j) \/ ApiRaises(j)
             \/ \E w \in Workers : PushWorkerJob(j, w) \/ PushRaises(j, w)
      PROVE  WatchInv'
  BY <1>2, <1>5
  DEF EnqueueSubmitted, ApiRaises, PushWorkerJob, PushRaises, storeVars, workerVars, processVars
<1>6. ASSUME NEW j \in Jobs, RetryDelayPasses(j) PROVE WatchInv'
  BY <1>2, <1>6 DEF RetryDelayPasses, RetryDelayElapses, workerVars, processVars
<1>7. ASSUME RecoverLostWorkers \/ RecoverUnclaimedJobs PROVE WatchInv'
  BY <1>7, WatchedRecovery DEF RecoverLostWorkers, RecoverUnclaimedJobs, workerVars, processVars
<1>8. ASSUME EnqueueQueuedJobs PROVE WatchInv'
  BY <1>2, <1>8 DEF EnqueueQueuedJobs, storeVars, workerVars, processVars
<1>9. ASSUME DispatchAvailableWork PROVE WatchInv'
  <2>1. PICK w \in idleWorkers, j \in jobQueue :
          AssignJobToWorker(j, w) \/ UNCHANGED storeVars
    BY <1>9 DEF DispatchAvailableWork, Assign, RefuseWorker, RefuseJob
  <2>2. w \in Workers /\ j \in Jobs /\ UNCHANGED processVars
    BY <1>9 DEF DispatchAvailableWork, ClusterInv, LocalInv, ClusterTypeOK, workerVars, processVars
  <2>3. CASE UNCHANGED storeVars
    BY <1>2, <2>2, <2>3 DEF storeVars
  <2> QED BY <2>1, <2>2, <2>3, WatchedDispatch
<1>10. ASSUME NEW j \in Jobs, NEW w \in Workers, UndoDispatch(j, w) PROVE WatchInv'
  <2>1. UNCHANGED processVars
    BY <1>10 DEF UndoDispatch, workerVars, processVars
  <2>2. CASE UNCHANGED storeVars
    BY <1>2, <2>1, <2>2 DEF storeVars
  <2> QED BY <1>10, <2>1, <2>2, WatchedDispatch DEF UndoDispatch
<1>11. ASSUME SchedulerRaises PROVE WatchInv'
  <2>1. UNCHANGED processVars
    BY <1>11 DEF SchedulerRaises, workerVars, processVars
  <2>2. CASE UNCHANGED storeVars
    BY <1>2, <2>1, <2>2 DEF storeVars
  <2> QED BY <1>11, <2>1, <2>2, WatchedRecovery DEF SchedulerRaises
<1>12. ASSUME NEW w \in Workers, Start(w) \/ Heartbeat(w) PROVE WatchInv'
  BY <1>12, WatchedHeartbeat
<1>13. ASSUME NEW w \in Workers, Crash(w) \/ FetchPayload(w) \/ MarkWorkerBusy(w) \/ ObserveCancel(w)
                                 \/ ReleaseState(w)
       PROVE  WatchInv'
  <2>1. UNCHANGED storeVars
    BY <1>13 DEF Crash, FetchPayload, MarkWorkerBusy, ObserveCancel, ReleaseState
  <2> QED BY <1>13, <2>1, WatchedProcess
<1>14. ASSUME NEW w \in Workers, AnnounceIdle(w) PROVE WatchInv'
  BY <1>2, <1>14 DEF AnnounceIdle, storeVars, processVars
<1>15. ASSUME NEW w \in Workers, ClaimJob(w) PROVE WatchInv'
  <2>1. CASE assignedWorker[held[w]] = w
    BY <1>15, <2>1, WatchedClaim
  <2>2. CASE assignedWorker[held[w]] # w
    <3>1. UNCHANGED storeVars
      BY <1>15, <2>2 DEF ClaimJob
    <3> QED BY <1>15, <3>1, WatchedProcess
  <2> QED BY <2>1, <2>2
<1>16. ASSUME NEW w \in Workers, RunSucceeds(w) \/ RunFails(w) \/ CancelCompletes(w) PROVE WatchInv'
  BY <1>16, WatchedReport
<1>17. ASSUME NEW w \in Workers, SilentWorkerAges(w) PROVE WatchInv'
  BY <1>2, <1>17 DEF SilentWorkerAges, HeartbeatAges, workerVars, processVars
<1>18. ASSUME NEW r \in openAssignments, ClaimTimeoutPasses(r) PROVE WatchInv'
  BY <1>2, <1>18 DEF ClaimTimeoutPasses, AssignmentAges, workerVars, processVars
<1>19. ASSUME UNCHANGED vars PROVE WatchInv'
  BY <1>2, <1>19 DEF vars, storeVars, workerVars, processVars
<1>20. ASSUME SchedulerStep PROVE WatchInv'
  BY <1>5, <1>7, <1>8, <1>9, <1>10, <1>20 DEF SchedulerStep
<1>21. ASSUME NEW w \in Workers, WorkLoopStep(w) PROVE WatchInv'
  BY <1>13, <1>14, <1>15, <1>16, <1>21 DEF WorkLoopStep
<1> QED BY <1>1, <1>3, <1>4, <1>5, <1>6, <1>11, <1>12, <1>13, <1>17, <1>18, <1>19, <1>20, <1>21
        DEF Next

\* A running job is in the hands of its worker or in the row of a dead one, where
\* the offline recovery finds it: not a single one drops out of sight.
THEOREM RunningIsWatched == Unhurried => (Spec => []RunningJobIsWatched)
<1> SUFFICES ASSUME Unhurried PROVE Spec => []RunningJobIsWatched
  OBVIOUS
<1>1. Orderly
  BY DEF Unhurried
<1>2. Init => WatchInv
  BY DEF Init, StoreInit, WatchInv, ShownInv, ExecutedInv, ActiveStatus
<1>3. ClusterInv /\ OrderlyInv /\ WatchInv /\ [Next]_vars => WatchInv'
  BY WatchedStep
<1>4. WatchInv => RunningJobIsWatched
  BY DEF WatchInv, ShownInv, ExecutedInv, RunningJobIsWatched, ActiveStatus
<1> QED BY <1>1, <1>2, <1>3, <1>4, ClusterInvariance, OrderlyInvariance, PTL DEF Spec
=============================================================================
