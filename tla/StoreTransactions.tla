-------------------------- MODULE StoreTransactions --------------------------
(***************************************************************************)
(* The methods of ControlPlaneStore as the transactions they are: sessions *)
(* with autoflush off on PostgreSQL's READ COMMITTED.  A method reads its  *)
(* rows, decides, reads the rows of the batch (its own job as it is going  *)
(* to be, the others as they are committed by then), and its commit writes *)
(* the columns it has changed, whatever the rows are by now.  Nothing      *)
(* locks a row or compares a version.                                      *)
(*                                                                         *)
(* ControlPlaneStore has one step per method, here there are two: the      *)
(* queries, and the commit.  One batch and one worker are enough: two      *)
(* transactions that interleave are on one row or on one batch.  Every     *)
(* process has one transaction open at a time, and at most MaxOpen are     *)
(* open at once.  The retry delay, the assignment rows and what surrounds  *)
(* the transactions in the worker (see Cluster) are left out.              *)
(*                                                                         *)
(* At most MaxEvents times a user cancels a job, a job fails, a claim      *)
(* times out or the worker is late.  Foo_Bar is Foo with a mistake.        *)
(***************************************************************************)
EXTENDS Naturals, FiniteSets

CONSTANTS TxJobs,  \* the jobs of the batch
          NoTxJob,
          TxRetries,  \* max_retries
          MaxEvents, MaxOpen  \* bounds on the events and the open transactions

ASSUME TransactionsAssumption ==
  NoTxJob \notin TxJobs /\ TxRetries \in Nat /\ MaxEvents \in Nat /\ MaxOpen \in Nat

VARIABLES
  jobRow,     \* jobs: status, mine (assigned to the worker), cancel, retries
  workerRow,  \* worker_heartbeats: status, job (running_job_id)
  batchRow,   \* batches.status
  tx,         \* per process: its transaction, or NoTx
  thread,     \* the worker: what its work loop does,
  holds,      \* and with which job
  events      \* events that happened so far

tables == <<jobRow, workerRow, batchRow>>
txVars == <<tables, tx, thread, holds, events>>

Processes == {"api", "scheduler", "heartbeat", "thread"}

Ended    == {"succeeded", "failed", "canceled"}
TxActive == {"scheduled", "running"}

Queued == [status |-> "queued", mine |-> FALSE, cancel |-> FALSE, retries |-> 0]

NoTx == <<>>

TxInit ==
  /\ jobRow    = [j \in TxJobs |-> Queued]
  /\ workerRow = [status |-> "idle", job |-> NoTxJob]
  /\ batchRow  = "queued"
  /\ tx        = [p \in Processes |-> NoTx]
  /\ thread = "idle" /\ holds = NoTxJob
  /\ events    = 0

Event == events < MaxEvents /\ events' = events + 1

ActiveJobs == {j \in TxJobs : jobRow[j].mine /\ jobRow[j].status \in TxActive}

Free(p) == tx[p] = NoTx /\ Cardinality({q \in Processes : tx[q] # NoTx}) < MaxOpen

-----------------------------------------------------------------------------
(* The parts of a transaction.                                               *)

Changes_WholeRow(old, new) == new

\* The columns that commit() writes for a row that was read as old.
Changes(old, new) == [c \in {d \in DOMAIN old : old[d] # new[d]} |-> new[c]]

Updated(row, changes) ==
  [c \in DOMAIN row |-> IF c \in DOMAIN changes THEN changes[c] ELSE row[c]]

\* _refresh_batch_state, on the statuses S of the jobs.
TxVerdict(S) ==
  IF S = {"canceled"} THEN "canceled"
  ELSE IF "running" \in S THEN "running"
  ELSE IF "scheduled" \in S THEN "queued"
  ELSE IF S = {"succeeded"} THEN "succeeded"
  ELSE IF S \subseteq {"failed", "canceled"} THEN "failed"
  ELSE IF "succeeded" \in S /\ S \intersect {"failed", "canceled"} # {} THEN "partial_failed"
  ELSE "queued"

\* p reads the rows and decides what its commit will write of job j (newJob),
\* of the worker (newWorker) and, of the statuses it sees (its own job's in
\* memory), of the batch.
Begin(p, j, newJob, newWorker) ==
  LET seen == {IF i = j THEN newJob.status ELSE jobRow[i].status : i \in TxJobs}
  IN /\ Free(p)
     /\ tx' = [tx EXCEPT ![p] =
          [job |-> j, sawCancel |-> jobRow[j].cancel,
           jobChanges |-> Changes(jobRow[j], newJob),
           workerChanges |-> Changes(workerRow, newWorker),
           batchChange |-> {TxVerdict(seen)} \ {batchRow}]]

\* Likewise a transaction that changes no job.
BeginWithoutJob(p, newWorker, newBatch) ==
  /\ Free(p)
  /\ tx' = [tx EXCEPT ![p] =
       [job |-> NoTxJob, jobChanges |-> <<>>,
        workerChanges |-> Changes(workerRow, newWorker), batchChange |-> {newBatch} \ {batchRow}]]

\* What the worker's thread does once its transaction is committed.
ThreadAfterCommit(p) ==
  IF p # "thread" THEN UNCHANGED <<thread, holds>>
  ELSE IF thread = "claiming" THEN thread' = "running" /\ UNCHANGED holds
  ELSE thread' = "idle" /\ holds' = NoTxJob

Commit(p) ==
  LET t == tx[p]
  IN /\ t # NoTx
     /\ jobRow' = IF t.job = NoTxJob THEN jobRow ELSE [jobRow EXCEPT ![t.job] = Updated(@, t.jobChanges)]
     /\ workerRow' = Updated(workerRow, t.workerChanges)
     /\ batchRow' = IF t.batchChange = {} THEN batchRow ELSE CHOOSE s \in t.batchChange : TRUE
     /\ tx' = [tx EXCEPT ![p] = NoTx]
     /\ ThreadAfterCommit(p)
     /\ UNCHANGED events

-----------------------------------------------------------------------------
(* The API.                                                                  *)

\* _release_worker_for_job.
Released(j) ==
  [status |-> IF workerRow.status = "offline" THEN "offline" ELSE "idle",
   job |-> IF workerRow.job = j THEN NoTxJob ELSE workerRow.job]

CancelJob_Unchecked(j) ==
  /\ Begin("api", j, [jobRow[j] EXCEPT !.status = "canceled"], workerRow)
  /\ UNCHANGED <<tables, thread, holds, events>>

CancelJob(j) ==
  LET row == jobRow[j]
  IN /\ \/ row.status = "queued" /\ Begin("api", j, [row EXCEPT !.status = "canceled"], workerRow)
        \/ /\ row.status = "scheduled"
           /\ Begin("api", j, [row EXCEPT !.status = "canceled"], Released(j))
        \/ /\ row.status = "running" /\ ~row.cancel
           /\ Begin("api", j, [row EXCEPT !.cancel = TRUE], workerRow)
     /\ Event
     /\ UNCHANGED <<tables, thread, holds>>

GetBatch_Stored ==
  /\ BeginWithoutJob("api", workerRow, batchRow)
  /\ UNCHANGED <<tables, thread, holds, events>>

\* Clients poll the batch, which refreshes it.
GetBatch ==
  /\ BeginWithoutJob("api", workerRow, TxVerdict({jobRow[j].status : j \in TxJobs}))
  /\ UNCHANGED <<tables, thread, holds, events>>

-----------------------------------------------------------------------------
(* The scheduler, one transaction after the other.                           *)

Dispatchable_ByRow == workerRow.status = "idle"

Dispatchable == workerRow.status = "idle" /\ ActiveJobs = {}

AssignJobToWorker(j) ==
  /\ Dispatchable /\ jobRow[j].status = "queued"
  /\ Begin("scheduler", j, [jobRow[j] EXCEPT !.status = "scheduled", !.mine = TRUE],
           [status |-> "busy", job |-> j])
  /\ UNCHANGED <<tables, thread, holds, events>>

\* The claim timeout of a live worker, or a push that failed.
RequeueScheduledJob(j) ==
  /\ jobRow[j].status = "scheduled" /\ jobRow[j].mine
  /\ Begin("scheduler", j, [jobRow[j] EXCEPT !.status = "queued", !.mine = FALSE], Released(j))
  /\ Event
  /\ UNCHANGED <<tables, thread, holds>>

AfterFailure_OneMore(row, retryable, end) ==
  IF retryable /\ row.retries <= TxRetries
  THEN [status |-> "queued", mine |-> FALSE, cancel |-> FALSE, retries |-> row.retries + 1]
  ELSE [row EXCEPT !.status = end]

\* _transition_job_after_failure.
AfterFailure(row, retryable, end) ==
  IF retryable /\ row.retries < TxRetries
  THEN [status |-> "queued", mine |-> FALSE, cancel |-> FALSE, retries |-> row.retries + 1]
  ELSE [row EXCEPT !.status = end]

\* mark_stale_workers_offline for a worker that is late, with or without a job.
MarkWorkerOffline ==
  LET j == workerRow.job
      offline == [status |-> "offline", job |-> NoTxJob]
  IN /\ workerRow.status # "offline"
     /\ IF j \in TxJobs /\ jobRow[j].status \in TxActive
        THEN Begin("scheduler", j, AfterFailure(jobRow[j], TRUE, "failed"), offline)
        ELSE BeginWithoutJob("scheduler", offline, batchRow)
     /\ Event
     /\ UNCHANGED <<tables, thread, holds>>

-----------------------------------------------------------------------------
(* The worker's heartbeat, in a loop of its own.                             *)

KeptJobs_OfRow == {workerRow.job} \ {NoTxJob}

\* The jobs one of which the row keeps when the worker reports none.
KeptJobs == ActiveJobs

UpsertWorkerHeartbeat ==
  LET candidates == IF holds # NoTxJob THEN {holds}
                    ELSE IF KeptJobs # {} THEN KeptJobs ELSE {NoTxJob}
  IN /\ \E j \in candidates :
          BeginWithoutJob("heartbeat",
                          [status |-> IF j = NoTxJob THEN "idle" ELSE "busy", job |-> j], batchRow)
     /\ UNCHANGED <<tables, thread, holds, events>>

-----------------------------------------------------------------------------
(* The worker's job.                                                         *)

TxFetchPayload(j) ==
  /\ thread = "idle" /\ jobRow[j].status = "scheduled" /\ jobRow[j].mine
  /\ thread' = "fetched" /\ holds' = j
  /\ UNCHANGED <<tables, tx, events>>

MarkJobRunning ==
  /\ thread = "fetched"
  /\ IF jobRow[holds].mine
     THEN /\ thread' = "claiming" /\ UNCHANGED holds
          /\ Begin("thread", holds, [jobRow[holds] EXCEPT !.status = "running"], workerRow)
     ELSE thread' = "idle" /\ holds' = NoTxJob /\ UNCHANGED tx
  /\ UNCHANGED <<tables, events>>

\* complete_job_success and complete_job_failure.
CompleteJob ==
  LET row == jobRow[holds]
      Report(newRow) == Begin("thread", holds, newRow, Released(holds))
  IN /\ thread = "running"
     /\ thread' = "reporting"
     /\ \/ Report([row EXCEPT !.status = "succeeded"]) /\ UNCHANGED events
        \/ row.cancel /\ Report(AfterFailure(row, FALSE, "canceled")) /\ UNCHANGED events
        \/ \E retryable \in BOOLEAN : Report(AfterFailure(row, retryable, "failed")) /\ Event
     /\ UNCHANGED <<tables, holds>>

-----------------------------------------------------------------------------
TxStart == \E j \in TxJobs : CancelJob(j) \/ AssignJobToWorker(j) \/ RequeueScheduledJob(j)

TxThreadStep == (\E j \in TxJobs : TxFetchPayload(j)) \/ MarkJobRunning \/ CompleteJob

TxNext ==
  \/ TxStart \/ MarkWorkerOffline \/ GetBatch
  \/ TxThreadStep \/ UpsertWorkerHeartbeat
  \/ \E p \in Processes : Commit(p)

TxSpec == TxInit /\ [][TxNext]_txVars

\* Clients poll again and again, and so does the heartbeat loop run.
Polling == tx["api"] # NoTx /\ tx["api"].job = NoTxJob
Beating == tx["heartbeat"] # NoTx

\* Transactions end, and so does what the worker executes.
TxFairness ==
  /\ \A p \in Processes : WF_txVars(Commit(p))
  /\ []<>Polling /\ []<>Beating /\ []<>(thread = "idle")

TxFairSpec == TxSpec /\ TxFairness

-----------------------------------------------------------------------------
(* What holds without locks.                                                 *)

\* The rows keep to their types.
TxTypeOK ==
  /\ jobRow \in [TxJobs -> [status : {"queued"} \union TxActive \union Ended, mine : BOOLEAN,
                            cancel : BOOLEAN, retries : 0 .. TxRetries]]
  /\ workerRow.status \in {"idle", "busy", "offline"} /\ workerRow.job \in TxJobs \union {NoTxJob}
  /\ batchRow \in {"queued", "running", "partial_failed"} \union Ended

\* The store's query for active jobs keeps the scheduler from giving a second
\* job to a worker whose row a heartbeat has overwritten.
OneScheduledJob ==
  \A i, j \in TxJobs : jobRow[i].status = "scheduled" /\ jobRow[j].status = "scheduled" => i = j

\* Lost updates end with the transactions that were open: once nobody holds an
\* ended job, neither the worker nor a transaction that has read it, its row is
\* not written again and nobody takes the job up.
Settled(j) ==
  jobRow[j].status \in Ended /\ holds # j /\ \A p \in Processes : tx[p] = NoTx \/ tx[p].job # j

SettledOutcomeIsFinal ==
  [][\A j \in TxJobs : Settled(j) => jobRow'[j] = jobRow[j] /\ Settled(j)']_txVars

\* A cancel request is only forgotten by a transaction that read it.
CancelRequestIsSeen ==
  [][\A j \in TxJobs :
       jobRow[j].cancel /\ ~jobRow'[j].cancel =>
         \E p \in Processes :
           tx'[p] # tx[p] /\ tx[p] # NoTx /\ tx[p].job = j /\ tx[p].sawCancel]_txVars

\* Two jobs that end at once may leave the batch with a verdict on neither;
\* the clients that poll it repair that.
VerdictSettles ==
  []<>((\A j \in TxJobs : jobRow[j].status \in Ended)
         => batchRow = TxVerdict({jobRow[j].status : j \in TxJobs}))

\* A worker row that names a job which is over (the loser of a cancel against
\* an assignment) is set right by the heartbeats.
WorkerRowSettles ==
  []<>(workerRow.job \in TxJobs => jobRow[workerRow.job].status \notin Ended)
=============================================================================
