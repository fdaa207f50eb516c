----------------------- MODULE StoreTransactionsProofs -----------------------
(***************************************************************************)
(* What the column-wise commits of unlocked transactions leave intact, for *)
(* any number of jobs, retries, events and open transactions.              *)
(***************************************************************************)
EXTENDS StoreTransactions, TLAPS

JobRow == [status : {"queued"} \union TxActive \union Ended, mine : BOOLEAN, cancel : BOOLEAN,
           retries : 0 .. TxRetries]

WorkerRow == [status : {"idle", "busy", "offline"}, job : TxJobs \union {NoTxJob}]

BatchStatuses == {"queued", "running", "partial_failed"} \union Ended

TablesOK == jobRow \in [TxJobs -> JobRow] /\ workerRow \in WorkerRow /\ batchRow \in BatchStatuses

ThreadOK == holds \in TxJobs \union {NoTxJob} /\ (thread # "idle" => holds \in TxJobs)

\* The commit of transaction t writes the changes from one row to another.
JobPart(t) ==
  \/ t.job = NoTxJob
  \/ /\ t.job \in TxJobs
     /\ \E old, new \in JobRow : t.jobChanges = Changes(old, new) /\ t.sawCancel = old.cancel

WorkerPart(t) == \E old, new \in WorkerRow : t.workerChanges = Changes(old, new)

Wellformed(t) == JobPart(t) /\ WorkerPart(t) /\ t.batchChange \subseteq BatchStatuses

OpenOK == tx = [p \in Processes |-> tx[p]] /\ \A p \in Processes : tx[p] # NoTx => Wellformed(tx[p])

TxInv == TablesOK /\ ThreadOK /\ OpenOK

-----------------------------------------------------------------------------
\* Applying changes to a row gives a row; of a column only a change is written.
LEMMA AppliedToJob ==
  ASSUME NEW old \in JobRow, NEW new \in JobRow, NEW row \in JobRow
  PROVE  /\ Updated(row, Changes(old, new)) \in JobRow
         /\ Updated(row, Changes(old, new)).cancel
              = IF old.cancel = new.cancel THEN row.cancel ELSE new.cancel
  BY DEF Changes, Updated, JobRow

\* The same of the row of a worker: whatever is merged with it, it is a row.
LEMMA AppliedToWorker ==
  ASSUME NEW old \in WorkerRow, NEW new \in WorkerRow, NEW row \in WorkerRow
  PROVE  Updated(row, Changes(old, new)) \in WorkerRow
  BY DEF Changes, Updated, WorkerRow

\* A failure turns a row into a row.
LEMMA FailedRow ==
  ASSUME NEW row \in JobRow, NEW retryable \in BOOLEAN, NEW end \in {"failed", "canceled"}
  PROVE  AfterFailure(row, retryable, end) \in JobRow
  BY TransactionsAssumption DEF AfterFailure, JobRow, Ended

\* Whatever the statuses of the jobs, the verdict is a status of a batch.
LEMMA VerdictIsStatus == \A S : TxVerdict(S) \in BatchStatuses
  BY DEF TxVerdict, BatchStatuses, Ended

\* A transaction that begins is well-formed; it leaves the others alone.
LEMMA BegunWellformed ==
  ASSUME TxInv, NEW p \in Processes, NEW j \in TxJobs, NEW newJob \in JobRow,
         NEW newWorker \in WorkerRow, Begin(p, j, newJob, newWorker)
  PROVE  /\ OpenOK'
         /\ tx'[p].job = j
         /\ \A q \in Processes \ {p} : tx'[q] = tx[q]
<1> DEFINE seen == {IF i = j THEN newJob.status ELSE jobRow[i].status : i \in TxJobs}
           t == [job |-> j, sawCancel |-> jobRow[j].cancel,
                 jobChanges |-> Changes(jobRow[j], newJob),
                 workerChanges |-> Changes(workerRow, newWorker),
                 batchChange |-> {TxVerdict(seen)} \ {batchRow}]
<1>1. tx' = [tx EXCEPT ![p] = t]
  BY DEF Begin
<1>2. jobRow[j] \in JobRow /\ workerRow \in WorkerRow
  BY DEF TxInv, TablesOK
<1>3. JobPart(t)
  BY <1>2 DEF JobPart
<1>4. WorkerPart(t)
  BY <1>2 DEF WorkerPart
<1>5. t.batchChange \subseteq BatchStatuses
  BY VerdictIsStatus
<1>6. Wellformed(t)
  BY <1>3, <1>4, <1>5 DEF Wellformed
<1>7. t.job = j
  OBVIOUS
<1> HIDE DEF t
<1> QED BY <1>1, <1>6, <1>7 DEF TxInv, OpenOK

\* A transaction begun on no job is well formed, too.
LEMMA BegunWithoutJob ==
  ASSUME TxInv, NEW p \in Processes, NEW newWorker \in WorkerRow, NEW newBatch \in BatchStatuses,
         BeginWithoutJob(p, newWorker, newBatch)
  PROVE  /\ OpenOK'
         /\ tx'[p].job = NoTxJob
         /\ \A q \in Processes \ {p} : tx'[q] = tx[q]
<1> DEFINE t == [job |-> NoTxJob, jobChanges |-> <<>>,
                 workerChanges |-> Changes(workerRow, newWorker),
                 batchChange |-> {newBatch} \ {batchRow}]
<1>1. tx' = [tx EXCEPT ![p] = t]
  BY DEF BeginWithoutJob
<1>2. workerRow \in WorkerRow
  BY DEF TxInv, TablesOK
<1>3. Wellformed(t)
  BY <1>2 DEF Wellformed, JobPart, WorkerPart
<1>4. t.job = NoTxJob
  OBVIOUS
<1> HIDE DEF t
<1> QED BY <1>1, <1>3, <1>4 DEF TxInv, OpenOK

-----------------------------------------------------------------------------
\* Every transaction but a commit begins one on a job that has not ended or that
\* the worker holds, or on no job; the worker only takes up a job that has not.
Begins(p, j) ==
  /\ UNCHANGED tables
  /\ OpenOK'
  /\ \A q \in Processes \ {p} : tx'[q] = tx[q]
  /\ tx'[p] = tx[p] \/ tx'[p].job = j
  /\ j = NoTxJob \/ (j \in TxJobs /\ (jobRow[j].status \notin Ended \/ holds = j))
  /\ holds' \in {holds, NoTxJob} \/ (holds' \in TxJobs /\ jobRow[holds'].status \notin Ended)
  /\ ThreadOK'

\* A released worker's row is a row.
LEMMA ReleasedRow == ASSUME TablesOK, NEW j PROVE Released(j) \in WorkerRow
  BY DEF Released, TablesOK, WorkerRow

\* A transaction that begins while the thread stays where it is, or goes on with
\* the job it holds.
LEMMA BeginBegins ==
  ASSUME TxInv, NEW p \in Processes, NEW j \in TxJobs, NEW newJob \in JobRow,
         NEW newWorker \in WorkerRow, Begin(p, j, newJob, newWorker), UNCHANGED <<tables, holds>>,
         jobRow[j].status \notin Ended \/ holds = j, thread' = thread \/ thread # "idle"
  PROVE  Begins(p, j)
  BY BegunWellformed DEF Begins, TxInv, ThreadOK

\* Beginning a transaction on no job is one of the ways a step begins one.
LEMMA BeginWithoutJobBegins ==
  ASSUME TxInv, NEW p \in Processes, NEW newWorker \in WorkerRow, NEW newBatch \in BatchStatuses,
         BeginWithoutJob(p, newWorker, newBatch), UNCHANGED <<tables, thread, holds>>
  PROVE  Begins(p, NoTxJob)
  BY BegunWithoutJob DEF Begins, TxInv, ThreadOK

\* Every step commits an open transaction or begins one.
LEMMA StepBegins ==
  ASSUME TxInv, TxNext
  PROVE  \/ \E p \in Processes : Commit(p)
         \/ \E p \in Processes, j \in TxJobs \union {NoTxJob} : Begins(p, j)
<1> DEFINE Goal == \E p \in Processes, j \in TxJobs \union {NoTxJob} : Begins(p, j)
<1>1. \A j \in TxJobs : jobRow[j] \in JobRow
  BY DEF TxInv, TablesOK
<1>2. workerRow \in WorkerRow /\ batchRow \in BatchStatuses
  BY DEF TxInv, TablesOK
<1>3. "api" \in Processes /\ "scheduler" \in Processes /\ "heartbeat" \in Processes
      /\ "thread" \in Processes
  BY DEF Processes
<1>4. \A j \in TxJobs : Released(j) \in WorkerRow
  BY ReleasedRow DEF TxInv
<1>5. ASSUME NEW j \in TxJobs, CancelJob(j) PROVE Goal
  <2>1. [jobRow[j] EXCEPT !.status = "canceled"] \in JobRow
        /\ [jobRow[j] EXCEPT !.cancel = TRUE] \in JobRow
    BY <1>1 DEF JobRow, Ended
  <2>2. jobRow[j].status \notin Ended
    BY <1>5 DEF CancelJob, Ended
  <2> QED BY <1>1, <1>2, <1>3, <1>4, <1>5, <2>1, <2>2, BeginBegins DEF CancelJob
<1>6. ASSUME NEW j \in TxJobs, AssignJobToWorker(j) PROVE Goal
  <2>1. [jobRow[j] EXCEPT !.status = "scheduled", !.mine = TRUE] \in JobRow
    BY <1>1 DEF JobRow, TxActive
  <2>2. [status |-> "busy", job |-> j] \in WorkerRow
    BY DEF WorkerRow
  <2>3. jobRow[j].status \notin Ended
    BY <1>6 DEF AssignJobToWorker, Ended
  <2> QED BY <1>3, <1>6, <2>1, <2>2, <2>3, BeginBegins DEF AssignJobToWorker
<1>7. ASSUME NEW j \in TxJobs, RequeueScheduledJob(j) PROVE Goal
  <2>1. [jobRow[j] EXCEPT !.status = "queued", !.mine = FALSE] \in JobRow
    BY <1>1 DEF JobRow
  <2>2. jobRow[j].status \notin Ended
    BY <1>7 DEF RequeueScheduledJob, Ended
  <2> QED BY <1>3, <1>4, <1>7, <2>1, <2>2, BeginBegins DEF RequeueScheduledJob
<1>8. CASE MarkWorkerOffline
  <2> DEFINE j == workerRow.job
             offline == [status |-> "offline", job |-> NoTxJob]
  <2>1. offline \in WorkerRow
    BY DEF WorkerRow
  <2>2. CASE j \in TxJobs /\ jobRow[j].status \in TxActive
    <3>1. AfterFailure(jobRow[j], TRUE, "failed") \in JobRow
      BY <1>1, <2>2, FailedRow
    <3>2. jobRow[j].status \notin Ended
      BY <2>2 DEF TxActive, Ended
    <3> QED BY <1>3, <1>8, <2>1, <2>2, <3>1, <3>2, BeginBegins DEF MarkWorkerOffline
  <2>3. CASE ~(j \in TxJobs /\ jobRow[j].status \in TxActive)
    BY <1>2, <1>3, <1>8, <2>1, <2>3, BeginWithoutJobBegins DEF MarkWorkerOffline
  <2> QED BY <2>2, <2>3
<1>9. CASE GetBatch
  BY <1>2, <1>3, <1>9, VerdictIsStatus, BeginWithoutJobBegins DEF GetBatch
<1>10. ASSUME NEW j \in TxJobs, TxFetchPayload(j) PROVE Goal
  <2>1. jobRow[j].status \notin Ended
    BY <1>10 DEF TxFetchPayload, Ended
  <2>2. Begins("api", NoTxJob)
    BY <1>10, <2>1 DEF TxFetchPayload, Begins, TxInv, OpenOK, ThreadOK
  <2> QED BY <1>3, <2>2
<1>11. CASE MarkJobRunning
  <2>1. thread # "idle" /\ holds \in TxJobs
    BY <1>11 DEF MarkJobRunning, TxInv, ThreadOK
  <2>2. [jobRow[holds] EXCEPT !.status = "running"] \in JobRow
    BY <1>1, <2>1 DEF JobRow, TxActive
  <2>3. CASE jobRow[holds].mine
    BY <1>2, <1>3, <1>11, <2>1, <2>2, <2>3, BeginBegins DEF MarkJobRunning
  <2>4. CASE ~jobRow[holds].mine
    <3>1. Begins("api", NoTxJob)
      BY <1>11, <2>4 DEF MarkJobRunning, Begins, TxInv, OpenOK, ThreadOK
    <3> QED BY <1>3, <3>1
  <2> QED BY <2>3, <2>4
<1>12. CASE CompleteJob
  <2>1. thread # "idle" /\ holds \in TxJobs
    BY <1>12 DEF CompleteJob, TxInv, ThreadOK
  <2>2. [jobRow[holds] EXCEPT !.status = "succeeded"] \in JobRow
    BY <1>1, <2>1 DEF JobRow, Ended
  <2>3. \A retryable \in BOOLEAN, end \in {"failed", "canceled"} :
          AfterFailure(jobRow[holds], retryable, end) \in JobRow
    BY <1>1, <2>1, FailedRow
  <2>4. PICK newJob \in JobRow : Begin("thread", holds, newJob, Released(holds))
    BY <1>12, <2>1, <2>2, <2>3 DEF CompleteJob
  <2> QED BY <1>3, <1>4, <1>12, <2>1, <2>4, BeginBegins DEF CompleteJob
<1>13. CASE UpsertWorkerHeartbeat
  <2>1. PICK j : BeginWithoutJob("heartbeat",
                   [status |-> IF j = NoTxJob THEN "idle" ELSE "busy", job |-> j], batchRow)
                 /\ j \in TxJobs \union {NoTxJob}
    BY <1>13 DEF UpsertWorkerHeartbeat, KeptJobs, ActiveJobs, TxInv, ThreadOK
  <2>2. [status |-> IF j = NoTxJob THEN "idle" ELSE "busy", job |-> j] \in WorkerRow
    BY <2>1 DEF WorkerRow
  <2> QED BY <1>2, <1>3, <1>13, <2>1, <2>2, BeginWithoutJobBegins DEF UpsertWorkerHeartbeat
<1> QED BY <1>5, <1>6, <1>7, <1>8, <1>9, <1>10, <1>11, <1>12, <1>13
        DEF TxNext, TxStart, TxThreadStep

-----------------------------------------------------------------------------
\* Rows and transactions are well-formed at first,
LEMMA TxInvInit == TxInit => TxInv
  BY TransactionsAssumption
     DEF TxInit, TxInv, TablesOK, ThreadOK, OpenOK, Queued, JobRow, WorkerRow, BatchStatuses, NoTx

\* and whatever order they commit in,
LEMMA CommitKeeps == ASSUME TxInv, NEW p \in Processes, Commit(p) PROVE TxInv'
<1> DEFINE t == tx[p]
<1>1. Wellformed(t)
  BY DEF Commit, TxInv, OpenOK
<1>2. jobRow' \in [TxJobs -> JobRow]
  <2>1. CASE t.job = NoTxJob
    BY <2>1 DEF Commit, TxInv, TablesOK
  <2>2. CASE t.job # NoTxJob
    <3>1. t.job \in TxJobs /\ Updated(jobRow[t.job], t.jobChanges) \in JobRow
      BY <1>1, <2>2, AppliedToJob DEF Wellformed, JobPart, TxInv, TablesOK
    <3> QED BY <2>2, <3>1 DEF Commit, TxInv, TablesOK
  <2> QED BY <2>1, <2>2
<1>3. workerRow' \in WorkerRow
  BY <1>1, AppliedToWorker DEF Commit, Wellformed, WorkerPart, TxInv, TablesOK
<1>4. batchRow' \in BatchStatuses
  BY <1>1 DEF Commit, Wellformed, TxInv, TablesOK
<1>5. ThreadOK'
  BY DEF Commit, ThreadAfterCommit, TxInv, ThreadOK
<1>6. OpenOK'
  BY DEF Commit, TxInv, OpenOK
<1> QED BY <1>2, <1>3, <1>4, <1>5, <1>6 DEF TxInv, TablesOK

\* they remain so.
LEMMA TxInvStep == TxInv /\ [TxNext]_txVars => TxInv'
<1> SUFFICES ASSUME TxInv, [TxNext]_txVars PROVE TxInv'
  OBVIOUS
<1>1. CASE UNCHANGED txVars
  BY <1>1 DEF txVars, tables, TxInv, TablesOK, ThreadOK, OpenOK
<1>2. ASSUME NEW p \in Processes, NEW j \in TxJobs \union {NoTxJob}, Begins(p, j) PROVE TxInv'
  BY <1>2 DEF Begins, tables, TxInv, TablesOK
<1> QED BY <1>1, <1>2, StepBegins, CommitKeeps

\* The invariant holds of every behaviour.
LEMMA TxInvariant == TxSpec => []TxInv
  BY TxInvInit, TxInvStep, PTL DEF TxSpec

-----------------------------------------------------------------------------
\* The rows keep to their types, retries within their budget, however
\* transactions overlap and overwrite each other's columns.
THEOREM RowsTypeCorrect == TxSpec => []TxTypeOK
<1>1. TxInv => TxTypeOK
  BY DEF TxInv, TablesOK, TxTypeOK, JobRow, WorkerRow, BatchStatuses
<1> QED BY <1>1, TxInvariant, PTL

\* Once no transaction and no worker holds an ended job, its row is final: a lost
\* update needs a transaction that read the row before.
THEOREM SettledOutcomes == TxSpec => SettledOutcomeIsFinal
<1>1. ASSUME TxInv, [TxNext]_txVars, NEW j \in TxJobs, Settled(j)
      PROVE  jobRow'[j] = jobRow[j] /\ Settled(j)'
  <2>1. CASE UNCHANGED txVars
    BY <1>1, <2>1 DEF txVars, tables, Settled
  <2>2. ASSUME NEW p \in Processes, Commit(p) PROVE jobRow'[j] = jobRow[j] /\ Settled(j)'
    <3>1. tx[p].job # j
      BY <1>1, <2>2 DEF Settled, Commit
    <3>2. jobRow'[j] = jobRow[j]
      BY <1>1, <2>2, <3>1 DEF Commit, TxInv, TablesOK, OpenOK, Wellformed, JobPart
    <3>3. holds' # j
      BY <1>1, <2>2, TransactionsAssumption DEF Commit, ThreadAfterCommit, Settled
    <3>4. \A q \in Processes : tx'[q] = NoTx \/ tx'[q].job # j
      BY <1>1, <2>2 DEF Commit, Settled, TxInv, OpenOK
    <3> QED BY <1>1, <3>2, <3>3, <3>4 DEF Settled
  <2>3. ASSUME NEW p \in Processes, NEW i \in TxJobs \union {NoTxJob}, Begins(p, i)
        PROVE  jobRow'[j] = jobRow[j] /\ Settled(j)'
    <3>1. jobRow' = jobRow
      BY <2>3 DEF Begins, tables
    <3>2. i # j
      BY <1>1, <2>3, TransactionsAssumption DEF Begins, Settled
    <3>3. holds' # j
      BY <1>1, <2>3, TransactionsAssumption DEF Begins, Settled
    <3>4. \A q \in Processes : tx'[q] = NoTx \/ tx'[q].job # j
      BY <1>1, <2>3, <3>2 DEF Begins, Settled
    <3> QED BY <1>1, <3>1, <3>3, <3>4 DEF Settled
  <2> QED BY <1>1, <2>1, <2>2, <2>3, StepBegins
<1>2. TxInv /\ [TxNext]_txVars
        => [\A j \in TxJobs : Settled(j) => jobRow'[j] = jobRow[j] /\ Settled(j)']_txVars
  BY <1>1
<1> QED BY <1>2, TxInvariant, PTL DEF TxSpec, SettledOutcomeIsFinal

\* A cancel request is only forgotten by a transaction that read it: columns that
\* a transaction did not change are not written back.
THEOREM CancelRequestsAreSeen == TxSpec => CancelRequestIsSeen
<1> DEFINE Forgets(p, j) == tx'[p] # tx[p] /\ tx[p] # NoTx /\ tx[p].job = j /\ tx[p].sawCancel
<1>1. ASSUME TxInv, [TxNext]_txVars, NEW j \in TxJobs, jobRow[j].cancel, ~jobRow'[j].cancel
      PROVE  \E p \in Processes : Forgets(p, j)
  <2>1. CASE UNCHANGED txVars
    BY <1>1, <2>1 DEF txVars, tables
  <2>2. ASSUME NEW p \in Processes, Commit(p) PROVE Forgets(p, j)
    <3>1. tx[p].job = j /\ jobRow'[j] = Updated(jobRow[j], tx[p].jobChanges)
      BY <1>1, <2>2 DEF Commit, TxInv, TablesOK, OpenOK, Wellformed, JobPart
    <3>2. j # NoTxJob
      BY TransactionsAssumption
    <3>3. PICK old, new \in JobRow :
            tx[p].jobChanges = Changes(old, new) /\ tx[p].sawCancel = old.cancel
      BY <2>2, <3>1, <3>2, <1>1 DEF Commit, TxInv, OpenOK, Wellformed, JobPart
    <3>4. old.cancel # new.cancel /\ ~new.cancel
      BY <1>1, <3>1, <3>3, AppliedToJob DEF TxInv, TablesOK
    <3>5. tx[p].sawCancel
      BY <3>3, <3>4 DEF JobRow
    <3>6. tx'[p] = NoTx /\ tx[p] # NoTx
      BY <1>1, <2>2 DEF Commit, TxInv, OpenOK
    <3> QED BY <3>1, <3>5, <3>6
  <2>3. ASSUME NEW p \in Processes, NEW i \in TxJobs \union {NoTxJob}, Begins(p, i) PROVE FALSE
    BY <1>1, <2>3 DEF Begins, tables
  <2> QED BY <1>1, <2>1, <2>2, <2>3, StepBegins
<1>2. TxInv /\ [TxNext]_txVars
        => [\A j \in TxJobs :
              jobRow[j].cancel /\ ~jobRow'[j].cancel => \E p \in Processes : Forgets(p, j)]_txVars
  BY <1>1
<1> QED BY <1>2, TxInvariant, PTL DEF TxSpec, CancelRequestIsSeen

-----------------------------------------------------------------------------
(* One scheduled job.                                                        *)

\* What a transaction of another process than the scheduler may be about to
\* write: it assigns no job, and gives one back only as a whole, to report a
\* failure of the job that the worker's thread holds.
OtherChanges(p, c) ==
  /\ "status" \in DOMAIN c =>
       c.status # "scheduled" /\ (c.status = "queued" => p = "thread" /\ thread = "reporting")
  /\ "mine" \in DOMAIN c =>
       /\ p = "thread" /\ thread = "reporting" /\ ~c.mine
       /\ "status" \in DOMAIN c /\ c.status = "queued"

\* What a transaction of the scheduler may be about to write of job j: an end,
\* a requeue that leaves the job with nobody, or an assignment while no job is
\* scheduled that leaves it with the worker, whose thread holds another job.
SchedulerChanges(j, c) ==
  /\ "status" \in DOMAIN c
  /\ \/ c.status \in {"failed"} /\ "mine" \notin DOMAIN c
     \/ /\ c.status = "queued"
        /\ IF "mine" \in DOMAIN c THEN ~c.mine ELSE ~jobRow[j].mine
     \/ /\ c.status = "scheduled" /\ \A i \in TxJobs : jobRow[i].status # "scheduled"
        /\ IF "mine" \in DOMAIN c THEN c.mine ELSE jobRow[j].mine /\ (thread # "idle" => holds # j)

ChangesOK ==
  \A p \in Processes :
    tx[p] # NoTx /\ tx[p].job # NoTxJob =>
      IF p = "scheduler" THEN SchedulerChanges(tx[p].job, tx[p].jobChanges)
      ELSE OtherChanges(p, tx[p].jobChanges)

\* A scheduled job is the worker's, and a job its thread holds is not the
\* worker's while it waits in the queue.
OwnedOK ==
  /\ \A j \in TxJobs : jobRow[j].status = "scheduled" => jobRow[j].mine
  /\ thread # "idle" => ~(jobRow[holds].status = "queued" /\ jobRow[holds].mine)
  /\ tx["thread"] # NoTx => thread \in {"claiming", "reporting"} /\ tx["thread"].job = holds

DispatchInv == TxInv /\ ChangesOK /\ OwnedOK /\ OneScheduledJob

\* The columns of a row that changes.
LEMMA ChangedColumns ==
  ASSUME NEW old \in JobRow, NEW new \in JobRow
  PROVE  LET c == Changes(old, new)
         IN /\ "status" \in DOMAIN c <=> old.status # new.status
            /\ "status" \in DOMAIN c => c.status = new.status
            /\ "mine" \in DOMAIN c <=> old.mine # new.mine
            /\ "mine" \in DOMAIN c => c.mine = new.mine
  BY DEF Changes, JobRow

\* A commit writes them and no others.
LEMMA WrittenColumns ==
  ASSUME NEW row \in JobRow, NEW c
  PROVE  /\ Updated(row, c).status = IF "status" \in DOMAIN c THEN c.status ELSE row.status
         /\ Updated(row, c).mine = IF "mine" \in DOMAIN c THEN c.mine ELSE row.mine
  BY DEF Updated, JobRow

\* A transaction's changes are allowed.
Allowed(p) ==
  tx[p] # NoTx /\ tx[p].job # NoTxJob =>
    IF p = "scheduler" THEN SchedulerChanges(tx[p].job, tx[p].jobChanges)
    ELSE OtherChanges(p, tx[p].jobChanges)

\* They remain so while another one begins, wherever the thread goes meanwhile.
LEMMA StillAllowed ==
  ASSUME DispatchInv, UNCHANGED tables, NEW p \in Processes, tx'[p] = tx[p],
         \/ UNCHANGED <<thread, holds>>
         \/ /\ thread \notin {"claiming", "reporting"}
            /\ \/ thread' = "idle"
               \/ thread # "idle" /\ holds' = holds
               \/ holds' \in TxJobs /\ jobRow[holds'].status = "scheduled"
  PROVE  Allowed(p)'
<1>1. Allowed(p) /\ UNCHANGED jobRow
  BY DEF DispatchInv, ChangesOK, Allowed, tables
<1>2. tx["thread"] # NoTx => thread \in {"claiming", "reporting"}
  BY DEF DispatchInv, OwnedOK
<1>3. p # "scheduler" /\ tx[p] # NoTx /\ tx[p].job # NoTxJob => OtherChanges(p, tx[p].jobChanges)'
  BY <1>1, <1>2 DEF Allowed, OtherChanges
<1>4. ASSUME p = "scheduler", tx[p] # NoTx, tx[p].job # NoTxJob
      PROVE  SchedulerChanges(tx[p].job, tx[p].jobChanges)'
  <2>1. SchedulerChanges(tx[p].job, tx[p].jobChanges)
    BY <1>1, <1>4 DEF Allowed
  <2>2. tx[p].job \in TxJobs
    BY <1>4 DEF DispatchInv, TxInv, OpenOK, Wellformed, JobPart
  <2> QED BY <1>1, <2>1, <2>2 DEF SchedulerChanges
<1> QED BY <1>3, <1>4 DEF Allowed

\* A transaction that begins on a job holds the changes of its row.
LEMMA BegunWith ==
  ASSUME TxInv, NEW p \in Processes, NEW j \in TxJobs, NEW newJob \in JobRow,
         NEW newWorker \in WorkerRow, Begin(p, j, newJob, newWorker)
  PROVE  /\ tx[p] = NoTx /\ tx'[p].job = j /\ tx'[p].jobChanges = Changes(jobRow[j], newJob)
         /\ \A q \in Processes \ {p} : tx'[q] = tx[q]
<1>1. \A q \in Processes \ {p} : tx'[q] = tx[q]
  BY BegunWellformed
<1> QED BY <1>1 DEF Begin, Free, TxInv, OpenOK

\* The beginning of a transaction on a job keeps the rest, given its changes are
\* allowed and the thread stays or begins it.
LEMMA BeginKeeps ==
  ASSUME DispatchInv, UNCHANGED <<tables, holds>>, NEW p \in Processes, NEW j \in TxJobs,
         tx'[p].job = j, Allowed(p)', \A q \in Processes \ {p} : tx'[q] = tx[q],
         \/ thread' = thread /\ p # "thread"
         \/ /\ p = "thread" /\ j = holds /\ thread' \in {"claiming", "reporting"}
            /\ thread \in {"fetched", "running"}
  PROVE  ChangesOK' /\ OwnedOK' /\ OneScheduledJob'
<1>1. \A q \in Processes : Allowed(q)'
  BY StillAllowed
<1>2. ChangesOK'
  BY <1>1 DEF ChangesOK, Allowed
<1>3. OwnedOK'
  BY DEF OwnedOK, DispatchInv, tables, Processes
<1>4. OneScheduledJob'
  BY DEF OneScheduledJob, DispatchInv, tables
<1> QED BY <1>2, <1>3, <1>4

\* Likewise that of one on no job.
LEMMA BeginWithoutJobKeeps ==
  ASSUME DispatchInv, UNCHANGED <<tables, thread, holds>>, NEW p \in Processes, p # "thread",
         tx'[p].job = NoTxJob, \A q \in Processes \ {p} : tx'[q] = tx[q]
  PROVE  ChangesOK' /\ OwnedOK' /\ OneScheduledJob'
<1>1. \A q \in Processes \ {p} : Allowed(q)'
  BY StillAllowed
<1>2. Allowed(p)'
  BY DEF Allowed
<1>3. ChangesOK'
  BY <1>1, <1>2 DEF ChangesOK, Allowed
<1>4. OwnedOK'
  BY DEF OwnedOK, DispatchInv, tables, Processes
<1>5. OneScheduledJob'
  BY DEF OneScheduledJob, DispatchInv, tables
<1> QED BY <1>3, <1>4, <1>5

\* Every transaction that begins is allowed.
LEMMA BeginsAllowed ==
  ASSUME DispatchInv, TxNext, \A p \in Processes : ~Commit(p)
  PROVE  ChangesOK' /\ OwnedOK' /\ OneScheduledJob'
<1> DEFINE Goal == ChangesOK' /\ OwnedOK' /\ OneScheduledJob'
<1>1. /\ TxInv /\ \A j \in TxJobs : jobRow[j] \in JobRow
      /\ workerRow \in WorkerRow /\ batchRow \in BatchStatuses
      /\ {"api", "scheduler", "heartbeat", "thread"} \subseteq Processes
  BY DEF DispatchInv, TxInv, TablesOK, Processes
<1>2. \A j \in TxJobs : Released(j) \in WorkerRow
  BY ReleasedRow DEF DispatchInv, TxInv
<1>3. \A j \in TxJobs : j # NoTxJob
  BY TransactionsAssumption
<1>4. ASSUME NEW j \in TxJobs, CancelJob(j) PROVE Goal
  <2>1. PICK newJob \in JobRow, newWorker \in WorkerRow :
          /\ Begin("api", j, newJob, newWorker)
          /\ newJob.mine = jobRow[j].mine /\ newJob.status \in {jobRow[j].status, "canceled"}
    <3>1. /\ [jobRow[j] EXCEPT !.status = "canceled"] \in JobRow
          /\ [jobRow[j] EXCEPT !.status = "canceled"].status = "canceled"
          /\ [jobRow[j] EXCEPT !.status = "canceled"].mine = jobRow[j].mine
      BY <1>1 DEF JobRow, Ended
    <3>2. /\ [jobRow[j] EXCEPT !.cancel = TRUE] \in JobRow
          /\ [jobRow[j] EXCEPT !.cancel = TRUE].status = jobRow[j].status
          /\ [jobRow[j] EXCEPT !.cancel = TRUE].mine = jobRow[j].mine
      BY <1>1 DEF JobRow
    <3> QED BY <1>1, <1>2, <1>4, <3>1, <3>2 DEF CancelJob
  <2>2. /\ tx'["api"].job = j /\ tx'["api"].jobChanges = Changes(jobRow[j], newJob)
        /\ \A q \in Processes \ {"api"} : tx'[q] = tx[q]
    BY <1>1, <2>1, BegunWith
  <2> DEFINE c == Changes(jobRow[j], newJob)
  <2>3. "mine" \notin DOMAIN c /\ ("status" \in DOMAIN c => c.status = "canceled")
    BY <1>1, <2>1, ChangedColumns
  <2>4. tx'["api"].jobChanges = c
    BY <2>2
  <2> HIDE DEF c
  <2>5. Allowed("api")'
    BY <2>3, <2>4 DEF Allowed, OtherChanges
  <2> QED BY <1>1, <1>4, <2>2, <2>5, BeginKeeps DEF CancelJob
<1>5. ASSUME NEW j \in TxJobs, NEW newJob \in JobRow, NEW newWorker \in WorkerRow,
             Begin("scheduler", j, newJob, newWorker), UNCHANGED <<tables, thread, holds>>,
             \/ /\ jobRow[j].status = "queued" /\ newJob.status = "scheduled" /\ newJob.mine
                /\ \A i \in TxJobs : jobRow[i].status # "scheduled"
             \/ jobRow[j].status \in TxActive /\ newJob.status = "queued" /\ ~newJob.mine
             \/ /\ jobRow[j].status \in TxActive /\ newJob.status = "failed"
                /\ newJob.mine = jobRow[j].mine
      PROVE  Goal
  <2>1. /\ tx'["scheduler"].job = j /\ tx'["scheduler"].jobChanges = Changes(jobRow[j], newJob)
        /\ \A q \in Processes \ {"scheduler"} : tx'[q] = tx[q]
    BY <1>1, <1>5, BegunWith
  <2>2. SchedulerChanges(j, Changes(jobRow[j], newJob))
    <3> DEFINE c == Changes(jobRow[j], newJob)
    <3>1. /\ "status" \in DOMAIN c <=> jobRow[j].status # newJob.status
          /\ "status" \in DOMAIN c => c.status = newJob.status
          /\ "mine" \in DOMAIN c <=> jobRow[j].mine # newJob.mine
          /\ "mine" \in DOMAIN c => c.mine = newJob.mine
      BY <1>1, ChangedColumns
    <3>2. jobRow[j].mine \in BOOLEAN /\ newJob.mine \in BOOLEAN
      BY <1>1 DEF JobRow
    <3>3. thread # "idle" /\ holds = j => ~(jobRow[j].status = "queued" /\ jobRow[j].mine)
      BY DEF DispatchInv, OwnedOK
    <3> HIDE DEF c
    <3>4. CASE /\ jobRow[j].status = "queued" /\ newJob.status = "scheduled" /\ newJob.mine
               /\ \A i \in TxJobs : jobRow[i].status # "scheduled"
      BY <3>1, <3>2, <3>3, <3>4 DEF SchedulerChanges, c
    <3>5. CASE jobRow[j].status \in TxActive /\ newJob.status = "queued" /\ ~newJob.mine
      BY <3>1, <3>2, <3>5 DEF SchedulerChanges, c, TxActive
    <3>6. CASE jobRow[j].status \in TxActive /\ newJob.status = "failed"
                 /\ newJob.mine = jobRow[j].mine
      BY <3>1, <3>6 DEF SchedulerChanges, c, TxActive
    <3> QED BY <1>5, <3>4, <3>5, <3>6
  <2>3. SchedulerChanges(j, Changes(jobRow[j], newJob))'
    BY <1>5, <2>2 DEF SchedulerChanges, tables, Changes
  <2>4. Allowed("scheduler")'
    BY <1>5, <2>1, <2>2 DEF Allowed, SchedulerChanges, tables
  <2> QED BY <1>1, <1>5, <2>1, <2>4, BeginKeeps
<1>6. ASSUME NEW j \in TxJobs, AssignJobToWorker(j) PROVE Goal
  <2> DEFINE new == [jobRow[j] EXCEPT !.status = "scheduled", !.mine = TRUE]
  <2>1. new \in JobRow /\ new.status = "scheduled" /\ new.mine
    BY <1>1 DEF JobRow, TxActive
  <2>2. [status |-> "busy", job |-> j] \in WorkerRow
    BY DEF WorkerRow
  <2>3. jobRow[j].status = "queued" /\ \A i \in TxJobs : jobRow[i].status # "scheduled"
    BY <1>6 DEF AssignJobToWorker, Dispatchable, ActiveJobs, TxActive, DispatchInv, OwnedOK
  <2>4. Begin("scheduler", j, new, [status |-> "busy", job |-> j])
        /\ UNCHANGED <<tables, thread, holds>>
    BY <1>6 DEF AssignJobToWorker
  <2> HIDE DEF new
  <2> QED BY <1>5, <2>1, <2>2, <2>3, <2>4
<1>7. ASSUME NEW j \in TxJobs, RequeueScheduledJob(j) PROVE Goal
  <2> DEFINE new == [jobRow[j] EXCEPT !.status = "queued", !.mine = FALSE]
  <2>1. new \in JobRow /\ new.status = "queued" /\ ~new.mine
    BY <1>1 DEF JobRow
  <2>2. /\ Begin("scheduler", j, new, Released(j)) /\ UNCHANGED <<tables, thread, holds>>
        /\ jobRow[j].status \in TxActive
    BY <1>7 DEF RequeueScheduledJob, TxActive
  <2> HIDE DEF new
  <2> QED BY <1>2, <1>5, <2>1, <2>2
<1>8. CASE MarkWorkerOffline
  <2> DEFINE j == workerRow.job
             offline == [status |-> "offline", job |-> NoTxJob]
  <2>1. offline \in WorkerRow
    BY DEF WorkerRow
  <2>2. CASE j \in TxJobs /\ jobRow[j].status \in TxActive
    <3> DEFINE new == AfterFailure(jobRow[j], TRUE, "failed")
    <3>1. new \in JobRow
      BY <1>1, <2>2, FailedRow
    <3>2. (new.status = "queued" /\ ~new.mine) \/ (new.status = "failed" /\ new.mine = jobRow[j].mine)
      BY <1>1, <2>2 DEF AfterFailure, JobRow
    <3>3. Begin("scheduler", j, new, offline) /\ UNCHANGED <<tables, thread, holds>>
      BY <1>8, <2>2 DEF MarkWorkerOffline
    <3> HIDE DEF new, offline, j
    <3> QED BY <1>5, <2>1, <2>2, <3>1, <3>2, <3>3
  <2>3. CASE ~(j \in TxJobs /\ jobRow[j].status \in TxActive)
    <3>1. BeginWithoutJob("scheduler", offline, batchRow) /\ UNCHANGED <<tables, thread, holds>>
      BY <1>8, <2>3 DEF MarkWorkerOffline
    <3> QED BY <1>1, <2>1, <3>1, BegunWithoutJob, BeginWithoutJobKeeps
  <2> QED BY <2>2, <2>3
<1>9. CASE GetBatch
  <2>1. TxVerdict({jobRow[j].status : j \in TxJobs}) \in BatchStatuses
    BY VerdictIsStatus
  <2>2. /\ BeginWithoutJob("api", workerRow, TxVerdict({jobRow[j].status : j \in TxJobs}))
        /\ UNCHANGED <<tables, thread, holds>>
    BY <1>9 DEF GetBatch
  <2>3. /\ tx'["api"].job = NoTxJob
        /\ \A q \in Processes \ {"api"} : tx'[q] = tx[q]
    BY <1>1, <2>1, <2>2, BegunWithoutJob
  <2> QED BY <1>1, <2>2, <2>3, BeginWithoutJobKeeps
<1>10. CASE UpsertWorkerHeartbeat
  <2>1. PICK j : BeginWithoutJob("heartbeat",
                   [status |-> IF j = NoTxJob THEN "idle" ELSE "busy", job |-> j], batchRow)
                 /\ j \in TxJobs \union {NoTxJob}
    BY <1>10 DEF UpsertWorkerHeartbeat, KeptJobs, ActiveJobs, DispatchInv, TxInv, ThreadOK
  <2>2. [status |-> IF j = NoTxJob THEN "idle" ELSE "busy", job |-> j] \in WorkerRow
    BY <2>1 DEF WorkerRow
  <2>3. /\ tx'["heartbeat"].job = NoTxJob
        /\ \A q \in Processes \ {"heartbeat"} : tx'[q] = tx[q]
    BY <1>1, <2>1, <2>2, BegunWithoutJob
  <2> QED BY <1>1, <1>10, <2>3, BeginWithoutJobKeeps DEF UpsertWorkerHeartbeat
<1>11. ASSUME UNCHANGED <<tables, tx>>, thread \in {"idle", "fetched"},
              \/ thread' = "idle"
              \/ holds' \in TxJobs /\ jobRow[holds'].status = "scheduled" /\ thread' = "fetched"
       PROVE  Goal
  <2>1. \A p \in Processes : Allowed(p)'
    BY <1>11, StillAllowed
  <2>2. ChangesOK'
    BY <2>1 DEF ChangesOK, Allowed
  <2>3. OwnedOK' /\ OneScheduledJob'
    BY <1>11 DEF OwnedOK, OneScheduledJob, DispatchInv, tables
  <2> QED BY <2>2, <2>3
<1>12. ASSUME NEW j \in TxJobs, TxFetchPayload(j) PROVE Goal
  BY <1>11, <1>12 DEF TxFetchPayload
<1>13. ASSUME NEW newJob \in JobRow, NEW newWorker \in WorkerRow,
              Begin("thread", holds, newJob, newWorker), UNCHANGED <<tables, holds>>,
              \/ thread = "fetched" /\ thread' = "claiming"
              \/ thread = "running" /\ thread' = "reporting",
              newJob.status # "scheduled" \/ newJob.status = jobRow[holds].status,
              \/ newJob.mine = jobRow[holds].mine /\ newJob.status # "queued"
              \/ newJob.status = "queued" /\ ~newJob.mine /\ thread' = "reporting"
       PROVE  Goal
  <2>1. holds \in TxJobs
    BY <1>13 DEF DispatchInv, TxInv, ThreadOK
  <2>2. /\ tx'["thread"].job = holds /\ tx'["thread"].jobChanges = Changes(jobRow[holds], newJob)
        /\ \A q \in Processes \ {"thread"} : tx'[q] = tx[q]
    BY <1>1, <1>13, <2>1, BegunWith
  <2>3. Allowed("thread")'
    <3> DEFINE c == Changes(jobRow[holds], newJob)
    <3>1. /\ "status" \in DOMAIN c <=> jobRow[holds].status # newJob.status
          /\ "status" \in DOMAIN c => c.status = newJob.status
          /\ "mine" \in DOMAIN c <=> jobRow[holds].mine # newJob.mine
          /\ "mine" \in DOMAIN c => c.mine = newJob.mine
      BY <1>1, <2>1, ChangedColumns
    <3>2. jobRow[holds].mine \in BOOLEAN /\ newJob.mine \in BOOLEAN
      BY <1>1, <2>1 DEF JobRow
    <3>3. ~(jobRow[holds].status = "queued" /\ jobRow[holds].mine)
      BY <1>13 DEF DispatchInv, OwnedOK
    <3> HIDE DEF c
    <3>4. /\ "status" \in DOMAIN c =>
               /\ c.status # "scheduled"
               /\ c.status = "queued" => thread' = "reporting"
          /\ "mine" \in DOMAIN c =>
               /\ thread' = "reporting" /\ ~c.mine
               /\ "status" \in DOMAIN c /\ c.status = "queued"
      BY <1>13, <3>1, <3>2, <3>3
    <3>5. tx'["thread"].jobChanges = c
      BY <2>2 DEF c
    <3> QED BY <3>4, <3>5 DEF Allowed, OtherChanges
  <2> QED BY <1>1, <1>13, <2>1, <2>2, <2>3, BeginKeeps
<1>14. CASE MarkJobRunning
  <2>1. thread = "fetched" /\ holds \in TxJobs
    BY <1>1, <1>14 DEF MarkJobRunning, TxInv, ThreadOK
  <2>2. CASE jobRow[holds].mine
    <3> DEFINE new == [jobRow[holds] EXCEPT !.status = "running"]
    <3>1. new \in JobRow /\ new.status = "running" /\ new.mine = jobRow[holds].mine
      BY <1>1, <2>1 DEF JobRow, TxActive
    <3>2. /\ Begin("thread", holds, new, workerRow) /\ thread' = "claiming"
          /\ UNCHANGED <<tables, holds>>
      BY <1>14, <2>2 DEF MarkJobRunning
    <3> HIDE DEF new
    <3> QED BY <1>1, <1>13, <2>1, <3>1, <3>2
  <2>3. CASE ~jobRow[holds].mine
    BY <1>11, <1>14, <2>3 DEF MarkJobRunning
  <2> QED BY <2>2, <2>3
<1>15. CASE CompleteJob
  <2>1. thread = "running" /\ holds \in TxJobs /\ thread' = "reporting" /\ UNCHANGED <<tables, holds>>
    BY <1>1, <1>15 DEF CompleteJob, TxInv, ThreadOK
  <2>2. /\ [jobRow[holds] EXCEPT !.status = "succeeded"] \in JobRow
        /\ [jobRow[holds] EXCEPT !.status = "succeeded"].status = "succeeded"
        /\ [jobRow[holds] EXCEPT !.status = "succeeded"].mine = jobRow[holds].mine
    BY <1>1, <2>1 DEF JobRow, Ended
  <2>3. ASSUME NEW retryable \in BOOLEAN, NEW end \in {"failed", "canceled"}
        PROVE  LET new == AfterFailure(jobRow[holds], retryable, end)
               IN /\ new \in JobRow
                  /\ \/ new.mine = jobRow[holds].mine /\ new.status \in {"failed", "canceled"}
                     \/ new.status = "queued" /\ ~new.mine
    <3>1. AfterFailure(jobRow[holds], retryable, end) \in JobRow
      BY <1>1, <2>1, FailedRow
    <3> QED BY <1>1, <2>1, <3>1 DEF AfterFailure, JobRow
  <2>4. PICK newJob \in JobRow :
          /\ Begin("thread", holds, newJob, Released(holds))
          /\ \/ newJob.mine = jobRow[holds].mine /\ newJob.status \in Ended
             \/ newJob.status = "queued" /\ ~newJob.mine
    <3>1. \/ Begin("thread", holds, [jobRow[holds] EXCEPT !.status = "succeeded"], Released(holds))
          \/ Begin("thread", holds, AfterFailure(jobRow[holds], FALSE, "canceled"), Released(holds))
          \/ \E retryable \in BOOLEAN :
               Begin("thread", holds, AfterFailure(jobRow[holds], retryable, "failed"), Released(holds))
      BY <1>15 DEF CompleteJob
    <3> QED BY <2>2, <2>3, <3>1 DEF Ended
  <2>5. newJob.status \notin {"scheduled", "queued"} \/ newJob.status = "queued"
    BY <2>4 DEF Ended
  <2>6. newJob.mine = jobRow[holds].mine /\ newJob.status \in Ended => newJob.status # "queued"
    BY DEF Ended
  <2> QED BY <1>2, <1>13, <2>1, <2>4, <2>5, <2>6
<1> QED BY <1>4, <1>6, <1>7, <1>8, <1>9, <1>10, <1>12, <1>14, <1>15
        DEF TxNext, TxStart, TxThreadStep

\* What a commit does to the rows of the jobs: it writes columns of at most one.
LEMMA CommittedRows ==
  ASSUME TxInv, NEW p \in Processes, Commit(p), NEW i \in TxJobs
  PROVE  LET c == tx[p].jobChanges
             row == jobRow[i]
         IN IF tx[p].job = i
            THEN /\ jobRow'[i].status = IF "status" \in DOMAIN c THEN c.status ELSE row.status
                 /\ jobRow'[i].mine = IF "mine" \in DOMAIN c THEN c.mine ELSE row.mine
            ELSE jobRow'[i] = row
<1>1. i # NoTxJob /\ jobRow[i] \in JobRow
  BY TransactionsAssumption DEF TxInv, TablesOK
<1>2. CASE tx[p].job = i
  <2>1. jobRow'[i] = Updated(jobRow[i], tx[p].jobChanges)
    BY <1>1, <1>2 DEF Commit, TxInv, TablesOK
  <2> QED BY <1>1, <1>2, <2>1, WrittenColumns
<1>3. CASE tx[p].job # i
  BY <1>3 DEF Commit, TxInv, TablesOK
<1> QED BY <1>2, <1>3

\* The commit of the scheduler is allowed by what it has kept to itself since.
LEMMA SchedulerCommits ==
  ASSUME DispatchInv, Commit("scheduler"), tx["scheduler"].job # NoTxJob
  PROVE  ChangesOK' /\ OwnedOK' /\ OneScheduledJob'
<1> DEFINE j == tx["scheduler"].job
           c == tx["scheduler"].jobChanges
<1>1. "scheduler" \in Processes /\ "thread" \in Processes /\ TxInv
  BY DEF Processes, DispatchInv
<1>2. tx["scheduler"] # NoTx /\ UNCHANGED <<thread, holds>> /\ tx'["scheduler"] = NoTx
      /\ \A q \in Processes \ {"scheduler"} : tx'[q] = tx[q]
  BY <1>1 DEF Commit, ThreadAfterCommit, TxInv, OpenOK
<1>3. SchedulerChanges(j, c) /\ j \in TxJobs
  BY <1>1, <1>2 DEF DispatchInv, ChangesOK, TxInv, OpenOK, Wellformed, JobPart
<1>4. /\ jobRow'[j].status = c.status
      /\ jobRow'[j].mine = IF "mine" \in DOMAIN c THEN c.mine ELSE jobRow[j].mine
      /\ \A i \in TxJobs \ {j} : jobRow'[i] = jobRow[i]
  BY <1>1, <1>3, CommittedRows DEF SchedulerChanges
<1> HIDE DEF j, c
<1>5. ChangesOK'
  BY <1>2 DEF ChangesOK, DispatchInv, OtherChanges
<1>6. OwnedOK'
  <2>1. \A i \in TxJobs : jobRow'[i].status = "scheduled" => jobRow'[i].mine
    BY <1>3, <1>4 DEF SchedulerChanges, DispatchInv, OwnedOK
  <2>2. thread # "idle" => ~(jobRow'[holds].status = "queued" /\ jobRow'[holds].mine)
    BY <1>3, <1>4 DEF SchedulerChanges, DispatchInv, OwnedOK, TxInv, ThreadOK
  <2> QED BY <1>1, <1>2, <2>1, <2>2 DEF OwnedOK, DispatchInv
<1>7. OneScheduledJob'
  BY <1>3, <1>4 DEF SchedulerChanges, DispatchInv, OneScheduledJob
<1> QED BY <1>5, <1>6, <1>7

\* So is that of any other process.
LEMMA OthersCommit ==
  ASSUME DispatchInv, NEW p \in Processes, p # "scheduler", Commit(p), tx[p].job # NoTxJob
  PROVE  ChangesOK' /\ OwnedOK' /\ OneScheduledJob'
<1> DEFINE j == tx[p].job
           c == tx[p].jobChanges
<1>1. "scheduler" \in Processes /\ "thread" \in Processes /\ TxInv
  BY DEF Processes, DispatchInv
<1>2. /\ tx[p] # NoTx /\ tx'[p] = NoTx
      /\ \A q \in Processes \ {p} : tx'[q] = tx[q]
  BY <1>1 DEF Commit, TxInv, OpenOK
<1>3. OtherChanges(p, c) /\ j \in TxJobs
  BY <1>1, <1>2 DEF DispatchInv, ChangesOK, TxInv, OpenOK, Wellformed, JobPart
<1>4. /\ jobRow'[j].status = IF "status" \in DOMAIN c THEN c.status ELSE jobRow[j].status
      /\ jobRow'[j].mine = IF "mine" \in DOMAIN c THEN c.mine ELSE jobRow[j].mine
      /\ \A i \in TxJobs \ {j} : jobRow'[i] = jobRow[i]
  BY <1>1, <1>3, CommittedRows
<1>5. /\ p # "thread" => UNCHANGED <<thread, holds>>
      /\ p = "thread" /\ thread = "claiming" => thread' = "running" /\ holds' = holds
      /\ p = "thread" /\ thread # "claiming" => thread' = "idle"
      /\ p = "thread" => j = holds /\ thread \in {"claiming", "reporting"}
  BY <1>1, <1>2 DEF Commit, ThreadAfterCommit, DispatchInv, OwnedOK
<1> HIDE DEF j, c
<1>6. \A i \in TxJobs : jobRow'[i].status = "scheduled" =>
        jobRow[i].status = "scheduled" /\ (i = j => "status" \notin DOMAIN c)
  BY <1>3, <1>4 DEF OtherChanges
<1>7. ChangesOK'
  <2>1. ASSUME NEW q \in Processes \ {p, "scheduler"}, tx'[q] # NoTx, tx'[q].job # NoTxJob
        PROVE  OtherChanges(q, tx[q].jobChanges) /\ (p = "thread" => q # "thread")
               /\ (p # "thread" => thread' = thread)
    BY <1>2, <1>5, <2>1 DEF DispatchInv, ChangesOK
  <2>2. ASSUME NEW q \in Processes \ {p, "scheduler"}, tx'[q] # NoTx, tx'[q].job # NoTxJob
        PROVE  OtherChanges(q, tx[q].jobChanges)'
    BY <1>2, <2>1, <2>2 DEF OtherChanges
  <2>3. ASSUME tx["scheduler"] # NoTx, tx["scheduler"].job # NoTxJob
        PROVE  SchedulerChanges(tx["scheduler"].job, tx["scheduler"].jobChanges)'
    <3> DEFINE k == tx["scheduler"].job
               d == tx["scheduler"].jobChanges
    <3>1. SchedulerChanges(k, d) /\ k \in TxJobs
      BY <1>1, <2>3 DEF DispatchInv, ChangesOK, TxInv, OpenOK, Wellformed, JobPart
    <3>2. tx'["scheduler"].job = k /\ tx'["scheduler"].jobChanges = d
      BY <1>1, <1>2
    <3> HIDE DEF k, d
    <3>3. jobRow'[k].mine => jobRow[k].mine
      BY <1>3, <1>4, <3>1 DEF OtherChanges
    <3>4. jobRow[k].mine /\ (thread # "idle" => holds # k)
            => jobRow'[k].mine /\ (thread' # "idle" => holds' # k)
      BY <1>3, <1>4, <1>5, <3>1 DEF OtherChanges
    <3>5. (\A i \in TxJobs : jobRow[i].status # "scheduled")
            => \A i \in TxJobs : jobRow'[i].status # "scheduled"
      BY <1>6
    <3> QED BY <3>1, <3>2, <3>3, <3>4, <3>5 DEF SchedulerChanges
  <2> QED BY <1>1, <1>2, <2>2, <2>3 DEF ChangesOK
<1>8. OwnedOK'
  <2>1. \A i \in TxJobs : jobRow'[i].status = "scheduled" => jobRow'[i].mine
    BY <1>3, <1>4, <1>6 DEF OtherChanges, DispatchInv, OwnedOK
  <2>2. thread' # "idle" => ~(jobRow'[holds'].status = "queued" /\ jobRow'[holds'].mine)
    <3>1. thread' # "idle" => thread # "idle" /\ holds' = holds /\ holds \in TxJobs
                              /\ ~(jobRow[holds].status = "queued" /\ jobRow[holds].mine)
      BY <1>5 DEF DispatchInv, OwnedOK, TxInv, ThreadOK
    <3>2. thread' # "idle" /\ p = "thread" => thread # "reporting"
      BY <1>5
    <3> QED BY <1>3, <1>4, <3>1, <3>2 DEF OtherChanges
  <2>3. tx'["thread"] # NoTx => thread' \in {"claiming", "reporting"} /\ tx'["thread"].job = holds'
    BY <1>1, <1>2, <1>5 DEF DispatchInv, OwnedOK
  <2> QED BY <2>1, <2>2, <2>3 DEF OwnedOK
<1>9. OneScheduledJob'
  BY <1>6 DEF DispatchInv, OneScheduledJob
<1> QED BY <1>7, <1>8, <1>9

\* A commit that writes no job leaves the rows of the jobs alone.
LEMMA NothingWritten ==
  ASSUME DispatchInv, NEW p \in Processes, Commit(p), tx[p].job = NoTxJob
  PROVE  ChangesOK' /\ OwnedOK' /\ OneScheduledJob'
<1>1. p # "thread" /\ tx[p] # NoTx
  BY TransactionsAssumption DEF DispatchInv, OwnedOK, TxInv, ThreadOK, Commit
<1>2. UNCHANGED <<jobRow, thread, holds>> /\ tx'[p] = NoTx
      /\ \A q \in Processes \ {p} : tx'[q] = tx[q]
  BY <1>1 DEF Commit, ThreadAfterCommit, DispatchInv, TxInv, OpenOK
<1>3. ChangesOK'
  BY <1>2 DEF ChangesOK, OtherChanges, SchedulerChanges, DispatchInv
<1>4. OwnedOK' /\ OneScheduledJob'
  BY <1>1, <1>2 DEF OwnedOK, OneScheduledJob, DispatchInv, Processes
<1> QED BY <1>3, <1>4

\* However transactions overlap, what the open ones are about to write remains
\* compatible with the rows they will write it to.
LEMMA DispatchInvariant == TxSpec => []DispatchInv
<1>1. TxInit => DispatchInv
  <2> SUFFICES ASSUME TxInit PROVE DispatchInv
    OBVIOUS
  <2>1. ChangesOK /\ OwnedOK /\ OneScheduledJob
    BY DEF TxInit, ChangesOK, OwnedOK, OneScheduledJob, Queued, Processes
  <2> QED BY <2>1, TxInvInit DEF DispatchInv
<1>2. DispatchInv /\ [TxNext]_txVars => DispatchInv'
  <2> SUFFICES ASSUME DispatchInv, [TxNext]_txVars PROVE DispatchInv'
    OBVIOUS
  <2>1. TxInv'
    BY TxInvStep DEF DispatchInv
  <2>2. CASE UNCHANGED txVars
    <3>1. UNCHANGED <<jobRow, tx, thread, holds>>
      BY <2>2 DEF txVars, tables
    <3>2. ChangesOK'
      BY <3>1 DEF ChangesOK, OtherChanges, SchedulerChanges, DispatchInv
    <3> QED BY <2>1, <3>1, <3>2 DEF OwnedOK, OneScheduledJob, DispatchInv
  <2>3. ASSUME NEW p \in Processes, Commit(p) PROVE DispatchInv'
    <3>1. ChangesOK' /\ OwnedOK' /\ OneScheduledJob'
      BY <2>3, NothingWritten, SchedulerCommits, OthersCommit
    <3> QED BY <2>1, <3>1 DEF DispatchInv
  <2>4. CASE TxNext /\ \A p \in Processes : ~Commit(p)
    BY <2>1, <2>4, BeginsAllowed DEF DispatchInv
  <2> QED BY <2>2, <2>3, <2>4
<1> QED BY <1>1, <1>2, PTL DEF TxSpec

\* The store's query for active jobs keeps the scheduler from giving a second job
\* to the worker, whatever transactions of the API, the heartbeats and the
\* worker's thread it overlaps with.
THEOREM OneJobIsScheduled == TxSpec => []OneScheduledJob
<1>1. DispatchInv => OneScheduledJob
  BY DEF DispatchInv
<1> QED BY <1>1, DispatchInvariant, PTL
=============================================================================
