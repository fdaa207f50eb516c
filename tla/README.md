# Verification of the GVHMR batch control plane

TLA+ models of the job control plane of this repository: how a job travels from
the API through PostgreSQL, the scheduler and Redis to a GPU worker and back, and
what remains true when processes crash, calls raise, messages are late and
heartbeats stop; and, below that level, the Redis commands, the database transactions,
the GVHMR subprocess with its files, and the workers' claims to a GPU. TLC checks small
instances; TLAPS proves the safety properties for any number of jobs, workers, batches,
retries, faults and messages.

Paths are relative to the repository root. `control_plane.py` and `queue.py` are in
`packages/common/src/gvhmr_batch_common/`; "scheduler main" and "worker main" are
`services/{scheduler,worker}/src/*/main.py`.

## 1. The system

| Component | State | Operations | Modelled in |
|---|---|---|---|
| Control plane store (`control_plane.py`, `models.py`) | PostgreSQL rows of jobs, batches, worker heartbeats, assignments | create/cancel, heartbeat upsert, two recovery passes, assign/revert, claim, complete, identity check | `ControlPlaneStore`, `StoreTransactions`, `WorkerIdentity` |
| Scheduler (scheduler main) | what it has popped or committed | reconcile at start; loop: offline pass, claim-timeout pass, sweep of queued jobs, dispatch | `Cluster`, `DispatchQueue` |
| Worker process (worker main) | `WorkerRuntimeState`, `idle_announced`, a thread, the scratch disk | start, heartbeat loop, work loop, `execute_assigned_job`, scratch cleanup | `Cluster`, `WorkerHost`, `WorkerIdentity` |
| Redis queue (`queue.py`) | `workers:idle`, priority lists with their set of members, one list per worker, signals | announce, enqueue, pop, push, clear | `Cluster`, `DispatchQueue` |
| API job and batch routes | none | store, then enqueue; cancel; poll a batch | `Cluster`, `DispatchQueue`, `StoreTransactions` |
| GVHMR runner (`runner.py`) | a subprocess | command, poll for end, cancel, timeout; artifacts | `WorkerHost`, `InferenceBridge` |
| Inference bridge (`bridge/`) | the files of a job's directory | preprocess, predict, render, each unless its file is there | `InferenceBridge`, `WorkerHost` |
| Cache keys (`cache.py`) | none | two keys of a request | `InferenceBridge` |
| Media helpers, object storage, web UI, uploads, migrations, deployment and test scripts | | | not modelled, see 8 |

The parts never call each other directly. API, scheduler and workers each work on the
store, one transaction per method, and on Redis, outside any transaction; almost every
hazard listed in PROJECT.json is a step of one of them that falls between a commit and
a Redis call, or between two reads, of another. What makes each part correct:

* store: job table, assignment ledger and batch status agree after every method; retries
  are charged exactly when a job that ran is queued again;
* scheduler: nothing that is queued is forgotten, nothing is given to a busy worker;
* worker: one job at a time, and a lost worker's job is recovered;
* queue: set and lists agree although they are written one after the other, and a start
  of the scheduler loses neither job nor message;
* host: the files of an interrupted attempt do no harm, no process or directory outlives
  its job, and one GPU is used by one worker;
* all together: a job is executed at most `max_retries + 1` times, its outcome stays,
  and it ends.

## 2. Modules

| Module | Content |
|---|---|
| `ControlPlaneStore` | one action per public method of the store; callers are unconstrained: any job may be claimed, completed or reverted in the name of any worker |
| `Cluster` | API, scheduler, worker processes and Redis structures; extends the store, whose actions are the only way it changes the tables |
| `JobLifecycle` | abstract specification: `jobs.status` as the store's methods move it, and the retry rule, with no workers, queues or messages |
| `InferenceBridge` | operators: cache keys, command line, and the bridge's program as a sequence of stages on files |
| `WorkerHost` | one worker container and its disk: executing thread, subprocess, files, cleanup loop; extends `InferenceBridge` |
| `DispatchQueue` | Redis command by command: API, scheduler from its start on, workers |
| `StoreTransactions` | the store's methods as transactions (read and decide, then commit the changed columns) that overlap |
| `WorkerIdentity` | containers that compete for a worker_id or a GPU slot |
| `MCControlPlaneStore`, `MCCluster`, `MCServices` | small instances and symmetry |
| `ControlPlaneStoreProofs`, `ClusterProofs`, `StoreTransactionsProofs`, `WorkerIdentityProofs`, `DispatchQueueProofs`, `InferenceBridgeProofs`, `WorkerHostProofs` | theorems and proofs about the module of that name |
| `LifecycleProofs` | theorems about `Cluster` with some events excluded, among them the refinement of `JobLifecycle` |

`ControlPlaneStore` and `Cluster` describe the whole at the level of a store method and
a queue method. The four service modules each open one of the things that are atomic or
absent there, and simplify the rest of the system to what touches their part.

### ControlPlaneStore and the code

Every column that a decision depends on is a variable; ids, timestamps that nothing
compares, messages, artifacts and uploads are left out. Timestamps are reduced to the
comparisons made with them: `heartbeatStale` (older than the offline cutoff),
`overdue` (assigned before the claim cutoff), `retryWait` (`next_retry_at` not reached).
`HeartbeatAges`, `AssignmentAges` and `RetryDelayElapses` are the passage of time.
A method is one transaction and one action; helpers shared by methods in the code
(`_transition_job_after_failure`, `_release_worker_for_job`, `_create_assignment`,
`_refresh_batch_state`) are shared operators here. `get_batch` also refreshes and
commits, which changes nothing as long as `BatchAgrees` holds (it does for methods that do not
overlap; for the others see `StoreTransactions`). A pass over several rows
(`mark_stale_workers_offline`, `requeue_stale_scheduled_jobs`) is one action on the whole
set, because the code commits once at its end. A call that raises before its commit
changes nothing and needs no action.

`KeptJobs` is nondeterministic where the code takes the least recently updated of several
jobs: that order is not modelled.

### Cluster and the code

Steps are cut where another process can get in between: after each transaction and, in
the paths where it matters, after each Redis call.

* Submission: `SubmitJob`/`SubmitBatch` store, `EnqueueSubmitted` enqueues; the jobs of a
  batch reach the queue one after the other. `ApiRaises` is the exception in between.
* Scheduler: one action per pass of the loop. `DispatchAvailableWork` is one turn of
  `dispatch_available_work` up to the store's decision: the two pops, the assignment and,
  after a refusal, the entries that go back. `PushWorkerJob`, `PushRaises` and
  `UndoDispatch` are separate, because a worker may act between the commit of an
  assignment and its message. While `dispatching` is set no other pass of the scheduler
  runs: the loop is sequential. `SchedulerRaises` loses whatever the loop held.
* Worker: `pc` says where the process is. `fetched`, `claiming` and `running` are
  separated by Redis and database calls; `finishing` and `fatal` are the window between
  the commit that ends a job and `state.set_running_job_id(None)` in the `finally`
  clause. A heartbeat in that window may report the old job or none. From the setting of
  `running_job_id` to the end of `mark_job_running` (worker main 499-503) the event loop
  does not yield, so no heartbeat falls there and `ClaimJob` is one action.
* A failing heartbeat cancels the work loop, but the interpreter waits for the executing
  thread: `HeartbeatLoopDies` leaves a silent process that finishes its job.
* `MayLoseMessage`: a process that dies after `BLPOP` and before it looked at the message
  takes the message with it.

`Events` selects what the environment may do, `MaxFaults` bounds the faults among it and
`MaxInbox` the messages waiting for one worker. `attempts` is a history variable.

Timing assumptions, all from the default settings: a message is claimed within the claim
timeout (30 s) unless a `slowClaim` happens; a worker silent for 30 s is also past the
offline cutoff (15 s); the retry delay (30 s) outlasts the heartbeat interval (5 s), the
offline cutoff and the window after a commit (`RetryDelayPasses`): by then a row that shows
the job is offline, whatever it still shows, or belongs to a worker that executes the job.

Atomicity that is coarser than the code, and why: the Redis structures change in one step
per method of `queue.py` (`DispatchQueue` has the commands), and the store's methods do
not overlap (`StoreTransactions` has them overlap). The idle set's pop and the possible
re-adding of the same worker after a refusal are one step: between them the only other
writers of the set are the worker itself, whose `SREM` might as well have come first, and
its announcement, which the re-adding repeats.

### InferenceBridge, WorkerHost and the code

A file is `absent`, `partial` (its writer was stopped) or `whole`. A stage of the bridge
is a record: the file it makes, what it reads for that, what it loads if the file is
already there. This is where the stages differ: an existing `bbx` or `vitpose` file is
loaded, an existing `vit_features` or `slam` file is not, but `load_data_dict` loads all
of them. Loading something partial raises, except for a video, which may be readable as a
shorter one; only the copy of the input is compared with the input, by its number of
frames. `Program(r)` is `main()` for request `r`. A number, a frame or a tensor is nowhere.

The command line goes through `NormalizeVideoType`, `VideoTypeArgument` and `EnabledVideos`
in the three steps of the code, because they do not compose to the identity: `none` is not
passed on, and an argument that is not passed means `all`. So `video_render` with
`video_type` `none` renders every video.

`pc` follows `execute_assigned_job` and the runner's loop: `prepared` (uploaded video in
place), `polling`, `terminating` and `killing` (the two waits), `collecting`, `reporting`.
The subprocess runs beside it (`stage`, `exitCode`) and outlives it when the cancel poll
raises (`PollRaises`) or the second wait expires (`KillExpires`). Whatever stops the
process in the middle of a stage may leave that stage's file partial. The cleanup thread
reads `running_job_id` once per pass and each job's status when it comes to its directory;
a pass goes on while the process winds up after an infrastructure failure, because
`asyncio.run` waits for its thread. Artifacts are uploaded one by one in the order of their
paths (`ArtifactOrder`), and an exception in between leaves the first of them published.
The age of a directory is one bit, `expired`, which only means something once the
directory can be looked at. The rest of the system appears as what it does to `status`,
`mine` (assigned here), `retries` and the cancel request; there is one retry on one disk,
which is where the files of two attempts meet.

### DispatchQueue and the code

Each client has a `script`, the commands of the method it is in, and runs them one at a
time; a client may stop between any two of them (`ApiRaises`, `SchedulerStops`). A
redis-py pipeline is a MULTI/EXEC, so `Execute` is one command; the `SADD`s before it are
not part of it. `pipe` is what the pipeline will push, by the list it goes to: the order
of entries for different lists makes no difference. The scheduler's phases are the
statements of `reconcile_dispatch_state`, of the loop and of `dispatch_available_work`. A
store method is one step here. `hidden` remembers the jobs of a client that was interrupted
just between `SADD` and the pipeline, or `LPOP` and `SREM`: such a job is in the set and in
no list, and no sweep enqueues it again until the scheduler restarts. `dropped` remembers
the workers a scheduler had in hand (`InHand`: popped, to be offered again, or to be sent a
message) when it was interrupted. `createdAt` is what a sweep sorts by within a priority,
with ties in any order (`InOrder`). `ApiRaises` covers an exception in the API and its
process ending.

### StoreTransactions and the code

Sessions are made with `autoflush=False` on PostgreSQL's default READ COMMITTED, no query
locks a row and no row has a version. So a method is two steps: it reads its rows and
decides what to write, and its commit writes the columns that differ from what it read
(`Changes`, `Updated`), whatever the rows hold by then. `_refresh_batch_state` sees its own
job as changed in memory and the other jobs as committed. Before the read of a later query
other transactions may commit in the code; reading everything at once is the earlier of
the possible times for it. No method
modelled here flushes, and so locks a row, before its commit: only the creation of jobs
and batches does, on rows nobody else knows.

### WorkerIdentity and the code

`ensure_worker_identity_available` and the first `upsert_worker_heartbeat` are two
transactions with the clock check between them, and heartbeats check nothing. The row's
age has three values because two cutoffs are compared with it (15 s by the scheduler,
30 s by the check). `slack` is a history variable that becomes true where the protocol
promises nothing: two rivals between check and registration at once, or a container that
uses the GPU while its row ages. Containers with equal id and equal slot are one worker
deployed twice, which the check cannot tell from a restart.

## 3. What is checked

| Run | Instance | Shows |
|---|---|---|
| `store_callers` | 3 jobs (two in a batch), 1 worker | types, `AssignmentLedger`, `QueuedIsUnassigned`, `OneDispatchPerWorker`, `BatchAgrees`, `RetryBudget`, `RequeueIsCharged`, `CancelRequestKept`, whoever calls |
| `cluster_outcomes` | 1 job, 2 workers, 2 faults, every event but `lostAck` | `AttemptsPaidFor`, `ReleasedOutcomeIsFinal`, `SuccessOverwrittenOnlyIfRetried` |
| `cluster_zombies` | 2 jobs, 2 workers, 1 fault | `OneJobPerWorker` whatever single fault happens but a late heartbeat, a silent worker that still executes among them |
| `cluster_lifecycle` | 2 jobs, 2 workers, 2 faults | refinement of `JobLifecycle`, `RunningJobIsWatched` |
| `live_recovery` | 2 jobs, 1 worker, 1 fault, fair | no job stays SCHEDULED or RUNNING |
| `live_jobs_end` | a batch of 2 jobs, 1 worker, 2 faults, fair | every job of the batch ends |
| `services`, host | 1 job, 2 requests, 1 retry, 2 faults | `PredictionFromWholeData`, `PublishedIsWhole`, `NoProcessOutlivesItsJob`, `CleanupSparesExecution`, `EveryRunEnds`, `ScratchIsReclaimed` |
| `services`, queue | a batch of 2 jobs (normal, high), 1 worker, 1 fault | `MembersHaveEntries`, `OnlyInterruptionsStrand`, `StartsOnlyAssigned`, `PriorityIsRespected`, `AssignedIsResent`, `QueuedIsDispatched` |
| `services`, store | 2 jobs of one batch, 1 worker, 1 retry, 2 events, 2 open transactions | `OneScheduledJob`, `SettledOutcomeIsFinal`, `CancelRequestIsSeen`, `VerdictSettles`, `WorkerRowSettles` |
| `services`, identity | 3 containers, two on one slot and two with one id | `IdentityIsExclusive`, `SlotIsNotLocked` |

`services` is one run: the four modules share no state, `MCServices` puts them side by
side, and a behaviour moves one of them (`part`), under the fairness of that one.

Each of these passes. Why the bounds are enough: the interesting cases need a job that
moves from one worker to another and back (two workers, one retry, which is what the code
inserts as `max_retries`), two jobs that compete for one worker (two jobs), and at most
two faults for each known way of breaking a property; `cluster_zombies` is the exception,
its one fault is part of what it says. Two messages in a worker's list are
an old one and a new one for the same or another job. `CHECK_DEADLOCK FALSE` because a
cluster whose jobs have all ended and whose workers are up may rest. `cluster_lifecycle`,
the largest run, allows one message per list; piled-up messages are the business of
`cluster_outcomes` and `cluster_zombies`.

In `services` one job is enough for the host, because a directory, its files and a row are
one job's own; two requests of it cover both camera modes, a mesh and two skeletons. Two faults allow an interrupted
attempt and something going wrong in its retry. In the queue two jobs of different priority
compete, and the one fault is a stop of a client between two commands, a push that
raises, a retry or a claim timeout that comes too early. In the store two open transactions
are a race on a row or on a batch.

Events left out of a run are left out because the property does not hold with them, or to
keep it small:

* `SuccessOverwrittenOnlyIfRetried` without `lostAck`: after a success that commits and
  still raises, the worker itself reports a failure over it (worker main 336, 374).
* `OneJobPerWorker` without `lateHeartbeat` (a live worker declared offline gets a new
  job) and `cancel` (a canceled job may be executing, see `canceled_runs`). With one fault it
  also holds when that fault is a silent worker or an unheard success; without these two it
  holds for any number of faults (`OneJobAtATime`, see 5).
* The lifecycle without `cancel`, `lostAck`, `heartbeatLoopDies`, `lateHeartbeat`: each of
  them lets a job leave a terminal state. `RunningJobIsWatched` without
  `heartbeatInWindow`: after a dispatch to a stale entry of the idle set such a heartbeat
  may overwrite the next job in the row, which a crash then hides from the recovery. This
  follows from worker main 413 and control_plane.py 470-496; no run covers it.
* `RunningIsTransient` without `fastRestart`: see `running_forgotten`.
* `JobsEnd` without the events that drop a worker's announcement (`heartbeatInWindow`,
  `pushFails`, `schedulerRaises`): see `idle_worker`. `OnlyInterruptionsStrand` says of the
  ways through the dispatch loop that none but an interruption loses a worker whose row is
  up to date.

Not checked: first come, first served within a priority, which
`Project_Definitions/04_Execution_and_State_Machine.md:64` asks for. `list_queued_jobs`
sorts by `created_at`, and `InOrder` follows it, but a list is filled by several clients:
two submissions push in the order in which they come to it, a job returned by a claim
timeout or retried goes to its end and one handed back by dispatch to its head. Nor is a
cancel request honoured by a charged retry, which clears it (control_plane.py 998);
`CancelRequestKept` says that nothing else does.

A definition `Foo_Bar` is `Foo` with a plausible mistake; putting it in Foo's place breaks
the property PROJECT.json names with it.

What the properties of `services` leave room for, because the code does:

* a job hidden in the set of enqueued jobs stays QUEUED until the scheduler restarts
  (`MembersHaveEntries`, `QueuedIsDispatched`: nothing else hides one); a worker whose idle
  entry was lost in an interruption waits until then too (`OnlyInterruptionsStrand`: nothing
  else loses one, `dropped` is the history of them);
* a cancel that commits between the queries and the commit of an assignment is overwritten,
  and so is an assignment by a cancel; the row of the worker that this leaves BUSY is set
  right by the heartbeats (`WorkerRowSettles`);
* two jobs that end at once may leave the batch with a stale verdict until a client polls it
  (`VerdictSettles`);
* a process whose job was reported as failed because the cancel poll raised, or because it
  survived `kill` for 5 s, still runs beside the next job (`NoProcessOutlivesItsJob`: no
  other process does);
* a prediction cut off while it was saved is published by the retry if nothing is rendered
  from it (`PublishedIsWhole`);
* a job canceled between fetch and claim comes back; its directory may be deleted under it
  (`CleanupSparesExecution`, history variable `revived`; see `canceled_runs`);
* one online worker per GPU slot is what the deployment document asks for
  (`Project_Definitions/05_Repo_and_Deployment_Structure.md:229`); rivals that start at the same moment, a worker that is silent and still executes, and one worker
  deployed twice with the same settings are the exceptions (`IdentityIsExclusive`).

### Where code and documents disagree

| Run | What happens |
|---|---|
| `canceled_runs` | a job canceled between a worker's fetch and its claim runs: `mark_job_running` compares only the assignee, and a cancel leaves the assignee in place |
| `success_lost` | completions compare neither status nor assignee: a late success of a silent worker is overwritten by the worker the job was retried on |
| `running_forgotten` | a worker that crashes and is back within the offline cutoff keeps its row BUSY with the lost job, which stays RUNNING |
| `batch_ended` | `partial_failed` is shown while jobs of the batch are still queued; `test/run_batch_test.py` stops polling there |
| `idle_worker` | a worker refused because its row is stale is dropped from the idle set and does not announce itself again |

## 4. Fairness

`FairSpec` assumes weak fairness of each step that a loop of the code repeats: the scheduler
polls every 2 s whatever the signals, the heartbeat loop every 5 s, the work loop polls its
list; a container that exits is restarted (`restart: unless-stopped` in
`deploy/compose.worker.yml`); the runner stops its subprocess at `runner_timeout_seconds`;
time passes for silent workers, unattended assignments and retry delays. Weak fairness is
enough because the passes of the scheduler do not disable one another for ever: dispatch
holds the scheduler only until its message is pushed or undone. Nothing is assumed of
users, of the API (`EnqueueSubmitted` may never happen) or of faults. In the service
modules: the thread and the cleanup loop go on, but nothing is assumed of the subprocess
(`EveryRunEnds`); a Redis client runs the commands it has begun; an open transaction
commits, clients poll the batch again and again and the heartbeat loop runs on
(`[]<>Polling`, `[]<>Beating`), and what the worker executes ends, which is what
`EveryRunEnds` shows; a container is started again and a row nobody writes grows old. The
strong fairness in `DispatchQueue` is the claim timeout of a job nobody is about to claim:
it passes although the scheduler is in its loop only now and then. These liveness
properties are of the form `[]<>P`: `P` may fail for a while, and comes back. Liveness is stated
per job, never by progress of the system as a whole.

## 5. What is proved

Every safety invariant and every action property of a passing run is a theorem, and so is
the refinement of `JobLifecycle`; the runs show them on a small instance, the theorems for
every value of the constants. Four of them have a restriction on `Events` as a hypothesis,
all others hold of the specification as it is, with every fault. The proofs rest on the
named assumptions of the modules: NULLs are not ids, a batch id is a batch or NULL, bounds
are naturals, a queued job has one of the three priorities, the jobs and workers of the
queue are finitely many (the scheduler makes a sequence of them), and a request is one that
`JobCreateRequest` admits, with any text as its `video_type`.

An invariant is seldom inductive as it stands. For each theorem the invariant that carries
the proof, and what it adds:

`ControlPlaneStoreProofs`: type correctness, then all store invariants as one inductive
invariant `StoreInv`. They need each other: the ledger is right because jobs are assigned
and released in the same methods, the retry rules rest on which statuses have an assignee,
and `CreateBatch` is harmless because the jobs of an absent batch do not exist
(`AbsentBatchHasNoJobs`, the one strengthening that is no property). The argument first
shows that every job and batch moves in one of few ways in every step (`Moves`), and then
that each way keeps each invariant. `RequeueCharged` and `CancelKept` follow from the same
moves. These hold of every caller, so of any scheduler or worker that uses the store.

`ClusterProofs`:

* `ClusterImplementsStore`: every step of the cluster is a step of the store or leaves
  the tables alone; the store's theorems therefore hold of the running system.
* `ExecutionsPaidFor`, `ExecutionsBounded`: a job is started at most once more than it was
  charged, hence at most `max_retries + 1` times, whatever the environment does. The
  invariant `AttemptsInv` adds that a job not yet running again, or that a worker is about
  to claim and still owns, has been started no more often than it was charged: only
  `QueuedIsUnassigned` and the charge on every requeue after a start make that inductive.
* `OutcomesFinal`: once no worker holds an ended job, its status never changes. The lemma
  `StatusIsWritten` says who writes a status: recovery passes, API and dispatcher look at it
  before they write; only a holder does not.
* `SuccessesStay`, unless a success may go unheard (`lostAck`): `SuccessInv` counts
  executions. Two workers that execute one job at once have both been counted in
  `attempts`, and so has the one that may still overwrite a success; `AttemptsInv` then
  says that the job was charged a retry.

`LifecycleProofs`, about a system that is `Orderly`: no user cancels, no live worker falls
silent (`heartbeatLoopDies`, `lateHeartbeat`), every worker hears of the success it has
stored. Crashes, slow claims, restarts at any speed, heartbeats in the window and exceptions
of API, scheduler and push remain, in any number.

* `OneJobAtATime`, `LifecycleImplemented`, `SuccessIsFinal`. `OrderlyInv` relates the three
  records of who works on what, which no transaction updates together: a worker about to
  start a job it owns finds it scheduled, one that executes a job has it running and is its
  assignee, one that is done with it has left it ended or waiting (`HoldInv`); a worker row
  shows no job that is active elsewhere or could be dispatched (`RowInv`); the jobs table
  gives a worker one job (`OneActiveJob`); only the dead are silent (`LiveInv`). `RowInv`
  is what makes the offline recovery harmless, which takes a job from a row and compares it
  with nothing.
* `RunningIsWatched` for a system that is `Unhurried` too (no `fastRestart`, no
  `heartbeatInWindow`): `WatchInv` adds that the row of an active job's assignee shows it
  BUSY with that job.
* Why the hypotheses: in the code nothing prevents what the excluded events do. A claim
  compares the assignee and not the status, so a `cancel` before it is undone
  (`canceled_runs`). A report compares nothing, so a worker that is taken for dead
  (`heartbeatLoopDies`, `lateHeartbeat`) or has not heard of its success (`lostAck`) takes a
  terminal state back (`success_lost`). A row kept BUSY by a quick restart (`fastRestart`)
  hides a lost job (`running_forgotten`), and a late report of an ended job
  (`heartbeatInWindow`) overwrites the job in a row (control_plane.py 470-496); of the last
  no run shows more than the worker that is refused (`idle_worker`).

`StoreTransactionsProofs`: `TxInv` says that an open transaction carries the difference of
two rows, of which it read one. With it, `RowsTypeCorrect`: whatever is merged with whatever,
the result is a row, with a retry count in its budget, although every charge was computed
from a count that may be stale. `CancelRequestsAreSeen`: a merge clears a request only if the
transaction had read it. `SettledOutcomes`: every step is a commit or begins a transaction
on a job that has not ended or that the worker holds (`StepBegins`), so an ended job that
nobody holds is never written again. `OneJobIsScheduled`: `DispatchInv` says for each process
what the commit it has open may still write (`ChangesOK`). An open assignment finds no
scheduled job, since only the scheduler schedules; a requeue that is overtaken leaves the
job with nobody, because it clears the assignee or finds it cleared (`OwnedOK`).

`WorkerIdentityProofs`: while `slack` is false the row of a container in use is fresh and its
own, so the check refuses its rivals, and rivals that passed the check at the same time
would have set `slack`; hence `SlotsAreExclusive`, for any containers, ids and slots.

`DispatchQueueProofs`: `QueueTyped` also types the scripts and pipelines of the clients, by
what the queue's methods can put there. `SetAndListsAgree`: every command keeps a member of
the set in a list, a pipeline or the next command of a script; the lemmas at the beginning
say what appending, joining and popping do to the elements of a sequence. `NothingStartsTwice`:
what a worker has fetched and still owns is scheduled (`Fetched`), however often the job is
pushed or enqueued. `NothingOvertakes`: while the scheduler walks through the lists, the
entries it began with are there, none of them in a list it has passed (`Looking`).
`MessagesAreResent`: at the start, a scheduled job is with its worker, in its list or in the
rest of the script (`Resent`). `WorkersAreOffered`: a worker that waits is in the idle set, has
a message or a job, or the scheduler has it in hand, unless it was dropped (`Offered`).

`InferenceBridgeProofs`: equal keys give equal arguments and programs, for every request;
and the lemmas on programs that the next module needs: where a program predicts, which of
its stages load the prediction and what a stage does to a directory.

`WorkerHostProofs`, on one disk with any jobs, requests, retries and faults:

* `ProcessesAreWatched`: `Watched` relates the row, the place of the thread and the process;
  `ExecutionIsSpared` follows from `Watched` and
  from what the cleanup has made sure of (`DoomedEnded`).
* `PredictionsAreSound`: a stage is only reached past the loads before it, so a process that
  is to predict has found its inputs whole, whoever wrote them (`DataOK`), and no render is
  there without a whole prediction (`RendersOK`).
* `ArtifactsAreWhole`: a process past a stage that loads the prediction found it whole
  (`LoadedOK`); on a first attempt something half-written means that the job fails
  (`BrokenFails`).

Model-checked only, because liveness is out of the prover's reach: `ScheduledIsTransient`,
`RunningIsTransient`, `JobsEnd`, `EveryRunEnds`, `ScratchIsReclaimed`, `QueuedIsDispatched`,
`VerdictSettles`, `WorkerRowSettles`, `SlotIsNotLocked`. The properties of the runs that
expect a violation are not theorems of the specification; `SuccessIsFinal` says when one of
them holds nevertheless.

## 6. How to run

In this directory: `tlc -config <run>.cfg MCCluster` (or `MCControlPlaneStore` for
`store_callers`, `MCServices` for `services`, which takes some minutes), and
`tlapm <module>.tla` for each of the modules named `...Proofs`.

## 7. Plan

1. An abstract queue (what is queued, offered and on its way) that `DispatchQueue` implements,
   and the steps of that implementation proved.
2. What the batch verdict of overlapping transactions may differ from, as an invariant.
3. Weaker hypotheses in `LifecycleProofs`: which edges outside of `JobLifecycle` a cancel
   allows, and no others.

## 8. Not modelled

* Inference and rendering themselves: numerical. `run_mock`, which starts no process.
* MinIO, beyond which files are published: a wrapper of its client. Keys made of a file
  name may coincide for two artifacts of one name, which the artifact rows do not notice.
* Uploads and artifact rows, web UI, health, dashboard and read-only routes: nothing in the
  state machine depends on them.
* Preflight checks, the value of the clock skew and the healthcheck file: they decide whether
  a worker process starts or is restarted, which every model allows at any time.
* The list of scheduler signals: it only wakes the loop earlier than its poll interval.
* Migrations (run once; the final schema is modelled) and the deployment, test and export
  scripts, which generate text or call the API.
* `schedule_next_job` and `get_scheduled_job_for_worker` have no caller.
