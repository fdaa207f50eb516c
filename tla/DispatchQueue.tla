---------------------------- MODULE DispatchQueue ----------------------------
(***************************************************************************)
(* The Redis structures of queue.py, one Redis command at a time, and the  *)
(* three kinds of clients that interleave on them: the API, which enqueues *)
(* what it has stored, the scheduler from its start on (reconciliation,    *)
(* sweep, dispatch), and the workers.                                      *)
(*                                                                         *)
(* Cluster has one step per method and a scheduler that is always up; here *)
(* a client may be interrupted between any two commands.  In turn, a store *)
(* method is one step, rows carry no more than dispatch looks at, and no   *)
(* worker dies.  A pipeline is a MULTI/EXEC and so one command.  The list  *)
(* of signals only wakes the scheduler earlier than its poll interval does *)
(* and is left out.                                                        *)
(*                                                                         *)
(* At most QueueMaxFaults faults happen.  Foo_Bar is Foo with a mistake.   *)
(***************************************************************************)
EXTENDS Naturals, SequencesExt

CONSTANTS QueueJobs, Workers, NoQueueJob, NoWorker,
          Submissions,  \* submissions under way in the API
          JobsOf,       \* the sequence of jobs of each of them
          Scheduler,    \* the other client that enqueues jobs
          PriorityOf,   \* the priority column
          QueueMaxFaults

Priorities == <<"high", "normal", "low">>

Names == {"high", "normal", "low"}

ASSUME QueueAssumption ==
  /\ NoQueueJob \notin QueueJobs /\ NoWorker \notin Workers /\ QueueMaxFaults \in Nat
  /\ IsFiniteSet(QueueJobs) /\ IsFiniteSet(Workers)
  /\ JobsOf \in [Submissions -> Seq(QueueJobs)] /\ Scheduler \notin Submissions
  /\ PriorityOf \in [QueueJobs -> Names]

VARIABLES
  rowStatus,  \* jobs.status; "delayed": QUEUED with next_retry_at in the future
  assigned,   \* jobs.assigned_worker_id
  createdAt,  \* jobs.created_at: how many rows there were then
  enqueued,   \* Redis: the set jobs:enqueued
  lists,      \* Redis: the list jobs:<priority>
  idle,       \* Redis: the set workers:idle
  inbox,      \* Redis: the list worker:<id>:jobs
  script,     \* per client of the queue: the commands it is going to issue
  pipe,       \* and the RPUSHes in its pipeline, by priority
  phase,      \* the scheduler: where it is when its script is done
  reusable,   \* its local reusable_workers
  poppedWorker, popped, level,  \* its local variables in dispatch_available_work
  seen,       \* history: the entries there when it began pop_next_job
  workerPc, held,  \* the workers: what they do, with which job
  dropped,    \* history: those a scheduler was to offer when it was interrupted
  hidden,     \* history: jobs of a client interrupted between two commands
  queueFaults \* faults that happened so far

rows   == <<rowStatus, assigned, createdAt>>
redis  == <<enqueued, lists, idle, inbox>>
locals == <<reusable, poppedWorker, popped, level, seen>>
workerVars == <<workerPc, held, dropped>>
queueVars == <<rows, redis, script, pipe, phase, locals, workerVars, hidden, queueFaults>>

Clients == Submissions \union {Scheduler}

JobStatuses == {"absent", "queued", "delayed", "scheduled", "running", "ended"}
Phases == {"down", "recovering", "clearing", "sweeping", "resending", "offering",  \* at start
           "loop", "loopSweep", "popWorker", "popJob", "assign", "undo"}

NoEntries == [p \in Names |-> <<>>]

QueueInit ==
  /\ rowStatus   = [j \in QueueJobs |-> "absent"]
  /\ assigned = [j \in QueueJobs |-> NoWorker]
  /\ createdAt = [j \in QueueJobs |-> 0]
  /\ enqueued = {} /\ idle = {}
  /\ lists    = NoEntries
  /\ inbox    = [w \in Workers |-> <<>>]
  /\ script   = [c \in Clients |-> <<>>]
  /\ pipe     = [c \in Clients |-> NoEntries]
  /\ phase = "down" /\ reusable = {} /\ poppedWorker = NoWorker /\ popped = NoQueueJob
  /\ level = 1 /\ seen = {}
  /\ workerPc   = [w \in Workers |-> "announcing"]
  /\ held = [w \in Workers |-> NoQueueJob]
  /\ hidden = {} /\ dropped = {} /\ queueFaults = 0

QueueFault == queueFaults < QueueMaxFaults /\ queueFaults' = queueFaults + 1

ActiveOn(w) == {j \in QueueJobs : rowStatus[j] \in {"scheduled", "running"} /\ assigned[j] = w}

Listed == UNION {ToSet(lists[p]) : p \in Names}

-----------------------------------------------------------------------------
(* Commands, and the methods of RedisDispatchQueue as sequences of them.     *)

Command(op, j, w) == [op |-> op, job |-> j, worker |-> w]

SaddJob(j)       == Command("saddJob", j, NoWorker)       \* into the pipeline if new
Execute          == Command("execute", NoQueueJob, NoWorker)
SaddFront(j)     == Command("saddFront", j, NoWorker)
LpushJob(j)      == Command("lpush", j, NoWorker)
SremJob(j)       == Command("srem", j, NoWorker)
SaddIdle(w)      == Command("saddIdle", NoQueueJob, w)
PushJob(w, j)    == Command("push", j, w)

EnqueueJobs(js)      == [i \in DOMAIN js |-> SaddJob(js[i])] \o <<Execute>>
RequeueJobFront(j)   == <<SaddFront(j), LpushJob(j)>>
RequeueIdleWorkers(ws) == [i \in DOMAIN ws |-> SaddIdle(ws[i])]

\* The entries are appended to the lists.
Pushed(entries) == [p \in Names |-> lists[p] \o entries[p]]

\* SADD returns 1.
IsNew(j) == j \notin enqueued

\* What command x of client c does.
Effect(c, x) ==
  CASE x.op = "saddJob" ->
         /\ enqueued' = enqueued \union {x.job}
         /\ pipe' = IF IsNew(x.job) THEN [pipe EXCEPT ![c][PriorityOf[x.job]] = Append(@, x.job)]
                                     ELSE pipe
         /\ UNCHANGED <<lists, idle, inbox>>
    [] x.op = "execute" ->
         /\ lists' = Pushed(pipe[c])
         /\ pipe' = [pipe EXCEPT ![c] = NoEntries]
         /\ UNCHANGED <<enqueued, idle, inbox>>
    [] x.op = "saddFront" ->
         enqueued' = enqueued \union {x.job} /\ UNCHANGED <<lists, idle, inbox, pipe>>
    [] x.op = "lpush" ->
         /\ lists' = [lists EXCEPT ![PriorityOf[x.job]] = <<x.job>> \o @]
         /\ UNCHANGED <<enqueued, idle, inbox, pipe>>
    [] x.op = "srem" ->
         enqueued' = enqueued \ {x.job} /\ UNCHANGED <<lists, idle, inbox, pipe>>
    [] x.op = "saddIdle" ->
         idle' = idle \union {x.worker} /\ UNCHANGED <<enqueued, lists, inbox, pipe>>
    [] x.op = "push" ->
         /\ inbox' = [inbox EXCEPT ![x.worker] = Append(@, x.job)]
         /\ UNCHANGED <<enqueued, lists, idle, pipe>>

RunCommand(c) ==
  /\ script[c] # <<>>
  /\ Effect(c, Head(script[c]))
  /\ script' = [script EXCEPT ![c] = Tail(@)]
  /\ UNCHANGED <<rows, phase, locals, workerVars, hidden, queueFaults>>

\* The jobs client c leaves in the set and not in a list if it stops here.
HalfDone(c) ==
  (UNION {ToSet(pipe[c][p]) : p \in Names})
    \union (IF script[c] # <<>> /\ Head(script[c]).op \in {"srem", "lpush"}
            THEN {Head(script[c]).job} ELSE {})

\* Client c stops here: an exception, or the end of its process.
Interrupt(c) ==
  /\ QueueFault
  /\ hidden' = hidden \union HalfDone(c)
  /\ pipe' = [pipe EXCEPT ![c] = NoEntries]
  /\ script' = [script EXCEPT ![c] = <<>>]

-----------------------------------------------------------------------------
(* The API.                                                                  *)

\* The jobs of a batch are created at the same time.
Submit(r) ==
  /\ \A j \in ToSet(JobsOf[r]) : rowStatus[j] = "absent"
  /\ LET now == Cardinality({j \in QueueJobs : rowStatus[j] # "absent"})
     IN createdAt' = [j \in QueueJobs |-> IF j \in ToSet(JobsOf[r]) THEN now ELSE createdAt[j]]
  /\ rowStatus' = [j \in QueueJobs |-> IF j \in ToSet(JobsOf[r]) THEN "queued" ELSE rowStatus[j]]
  /\ script' = [script EXCEPT ![r] = EnqueueJobs(JobsOf[r])]
  /\ UNCHANGED <<assigned, redis, pipe, phase, locals, workerVars, hidden, queueFaults>>

ApiRaises(r) ==
  /\ script[r] # <<>>
  /\ Interrupt(r)
  /\ UNCHANGED <<rows, redis, phase, locals, workerVars>>

-----------------------------------------------------------------------------
(* The scheduler.  Then(p, s): issue the commands s, then go on at p.        *)

At(p) == phase = p /\ script[Scheduler] = <<>>

NothingInHand ==
  reusable' = {} /\ poppedWorker' = NoWorker /\ popped' = NoQueueJob /\ level' = 1 /\ seen' = {}

Then(p, s) == phase' = p /\ script' = [script EXCEPT ![Scheduler] = s]

\* The jobs J in an order of the query: by priority, then by created_at.
InOrder(J) ==
  LET rank(j) == CHOOSE i \in 1 .. 3 : Priorities[i] = PriorityOf[j]
      before(i, j) == rank(i) < rank(j) \/ (rank(i) = rank(j) /\ createdAt[i] <= createdAt[j])
  IN {js \in SetToSeqs(J) : \A i, k \in DOMAIN js : i < k => before(js[i], js[k])}

\* list_queued_jobs may return this.
QueuedJobs == InOrder({j \in QueueJobs : rowStatus[j] = "queued"})

SchedulerStarts ==
  /\ At("down")
  /\ Then("recovering", <<>>)
  /\ UNCHANGED <<rows, redis, pipe, locals, workerVars, hidden, queueFaults>>

Unassign(J) ==
  /\ rowStatus' = [j \in QueueJobs |-> IF j \in J THEN "queued" ELSE rowStatus[j]]
  /\ assigned' = [j \in QueueJobs |-> IF j \in J THEN NoWorker ELSE assigned[j]]
  /\ UNCHANGED createdAt

\* Somebody is about to claim job j.
Attended(j) ==
  /\ rowStatus[j] = "scheduled"
  /\ held[assigned[j]] = j \/ j \in ToSet(inbox[assigned[j]])

\* requeue_stale_scheduled_jobs finds the jobs J; that an attended job exceeds
\* the claim timeout is a fault.
RequeueUnclaimed(J) ==
  /\ J # {} /\ \A j \in J : rowStatus[j] = "scheduled"
  /\ Unassign(J)
  /\ IF \E j \in J : Attended(j) THEN QueueFault ELSE UNCHANGED queueFaults

\* At start the commands for the reusable workers come later, in Offer, where
\* the rows of these workers are idle again.
RecoverAtStart ==
  /\ At("recovering")
  /\ \/ UNCHANGED <<rows, queueFaults>>
     \/ \E J \in SUBSET QueueJobs : RequeueUnclaimed(J)
  /\ Then("clearing", <<>>)
  /\ UNCHANGED <<redis, pipe, locals, workerVars, hidden>>

ClearDispatchState_KeepMembers ==
  /\ At("clearing")
  /\ idle' = {} /\ UNCHANGED enqueued
  /\ lists' = NoEntries
  /\ inbox' = [w \in Workers |-> <<>>]
  /\ hidden' = {} /\ dropped' = {}
  /\ Then("sweeping", <<>>)
  /\ UNCHANGED <<rows, pipe, locals, workerPc, held, queueFaults>>

\* One DEL; the SCAN before it finds every list of a worker, since nobody but
\* the scheduler pushes there.
ClearDispatchState ==
  /\ At("clearing")
  /\ idle' = {} /\ enqueued' = {}
  /\ lists' = NoEntries
  /\ inbox' = [w \in Workers |-> <<>>]
  /\ hidden' = {} /\ dropped' = {}
  /\ Then("sweeping", <<>>)
  /\ UNCHANGED <<rows, pipe, locals, workerPc, held, queueFaults>>

SweepAtStart ==
  /\ At("sweeping")
  /\ \E js \in QueuedJobs : Then("resending", EnqueueJobs(js))
  /\ UNCHANGED <<rows, redis, pipe, locals, workerVars, hidden, queueFaults>>

Resend_Nothing ==
  /\ At("resending")
  /\ Then("offering", <<>>)
  /\ UNCHANGED <<rows, redis, pipe, locals, workerVars, hidden, queueFaults>>

\* list_scheduled_jobs: the messages the clearing has deleted.
Resend ==
  LET js == SetToSeq({j \in QueueJobs : rowStatus[j] = "scheduled"})
  IN /\ At("resending")
     /\ Then("offering", [i \in DOMAIN js |-> PushJob(assigned[js[i]], js[i])])
     /\ UNCHANGED <<rows, redis, pipe, locals, workerVars, hidden, queueFaults>>

\* list_workers: a row that is IDLE and names no job is one without a job.
Offer ==
  /\ At("offering")
  /\ Then("loop", RequeueIdleWorkers(SetToSeq({w \in Workers : ActiveOn(w) = {}})))
  /\ UNCHANGED <<rows, redis, pipe, locals, workerVars, hidden, queueFaults>>

LoopFindsNone ==
  /\ At("loop")
  /\ Then("loopSweep", <<>>)
  /\ UNCHANGED <<rows, redis, pipe, locals, workerVars, hidden, queueFaults>>

\* The jobs go back into Redis at once, in the order of their assignments,
\* which may be any; their workers follow after the sweep.
LoopRequeues(J) ==
  /\ At("loop")
  /\ RequeueUnclaimed(J)
  /\ reusable' = {assigned[j] : j \in J}
  /\ \E js \in SetToSeqs(J) : Then("loopSweep", EnqueueJobs(js))
  /\ UNCHANGED <<redis, pipe, poppedWorker, popped, level, seen, workerVars, hidden>>

LoopSweeps ==
  /\ At("loopSweep")
  /\ \E js \in QueuedJobs :
       Then("popWorker", EnqueueJobs(js) \o RequeueIdleWorkers(SetToSeq(reusable)))
  /\ NothingInHand
  /\ UNCHANGED <<rows, redis, pipe, workerVars, hidden, queueFaults>>

PopIdleWorker_Unchecked ==
  /\ At("popWorker")
  /\ poppedWorker' \in idle \union {NoWorker}
  /\ idle' = idle \ {poppedWorker'}
  /\ Then("popJob", <<>>)
  /\ level' = 1 /\ seen' = Listed
  /\ UNCHANGED <<rows, enqueued, lists, inbox, pipe, reusable, popped, workerVars,
                 hidden, queueFaults>>

\* SPOP.
PopIdleWorker ==
  /\ At("popWorker")
  /\ IF idle = {}
     THEN Then("loop", <<>>) /\ NothingInHand /\ UNCHANGED idle
     ELSE /\ \E w \in idle : poppedWorker' = w /\ idle' = idle \ {w}
          /\ Then("popJob", <<>>)
          /\ level' = 1 /\ seen' = Listed
          /\ UNCHANGED <<reusable, popped>>
  /\ UNCHANGED <<rows, enqueued, lists, inbox, pipe, workerVars, hidden, queueFaults>>

PriorityAt_Reversed(i) == Priorities[4 - i]

PriorityAt(i) == Priorities[i]

AfterLpop_KeepMember(j) == <<>>

AfterLpop(j) == <<SremJob(j)>>

\* One LPOP of pop_next_job.
PopNextJob ==
  LET p == PriorityAt(level)
  IN /\ At("popJob")
     /\ IF lists[p] # <<>>
        THEN /\ popped' = Head(lists[p])
             /\ lists' = [lists EXCEPT ![p] = Tail(@)]
             /\ Then("assign", AfterLpop(Head(lists[p])))
             /\ level' = 1 /\ seen' = {} /\ UNCHANGED <<reusable, poppedWorker>>
        ELSE /\ UNCHANGED lists
             /\ IF level < 3
                THEN /\ level' = level + 1 /\ Then("popJob", <<>>)
                     /\ UNCHANGED <<reusable, poppedWorker, popped, seen>>
                ELSE Then("loop", <<SaddIdle(poppedWorker)>>) /\ NothingInHand
     /\ UNCHANGED <<rows, enqueued, idle, inbox, pipe, workerVars, hidden, queueFaults>>

AfterRefusedJob_DropWorker(w) == <<>>

AfterRefusedJob(w) == <<SaddIdle(w)>>

\* assign_job_to_worker, and what dispatch_available_work makes of its decision.
AssignJob ==
  /\ At("assign")
  /\ IF ActiveOn(poppedWorker) # {}
     THEN Then("popWorker", RequeueJobFront(popped)) /\ UNCHANGED rows
     ELSE IF rowStatus[popped] # "queued"
     THEN Then("popWorker", AfterRefusedJob(poppedWorker)) /\ UNCHANGED rows
     ELSE /\ rowStatus' = [rowStatus EXCEPT ![popped] = "scheduled"]
          /\ assigned' = [assigned EXCEPT ![popped] = poppedWorker]
          /\ UNCHANGED createdAt
          /\ Then("popWorker", <<PushJob(poppedWorker, popped)>>)
  /\ UNCHANGED <<redis, pipe, locals, workerVars, hidden, queueFaults>>

\* push_worker_job raises, before or after Redis has the message.
PushRaises ==
  /\ phase = "popWorker" /\ script[Scheduler] # <<>> /\ Head(script[Scheduler]).op = "push"
  /\ QueueFault
  /\ inbox' \in {inbox, [inbox EXCEPT ![poppedWorker] = Append(@, popped)]}
  /\ Then("undo", <<>>)
  /\ UNCHANGED <<rows, enqueued, lists, idle, pipe, locals, workerVars, hidden>>

\* revert_scheduled_job, the queue entries, and back to the loop.
UndoDispatch ==
  /\ At("undo")
  /\ IF rowStatus[popped] = "scheduled" /\ assigned[popped] = poppedWorker
     THEN Unassign({popped}) ELSE UNCHANGED rows
  /\ Then("loop", Append(RequeueJobFront(popped), SaddIdle(poppedWorker)))
  /\ NothingInHand
  /\ UNCHANGED <<redis, pipe, workerVars, hidden, queueFaults>>

\* The workers the scheduler has yet to offer or to send to.
InHand ==
  (reusable \union {poppedWorker} \union {x.worker : x \in ToSet(script[Scheduler])}) \ {NoWorker}

\* An exception in the loop is logged; anything else ends the process, and
\* the container starts it again.
SchedulerStops ==
  /\ phase # "down"
  /\ Interrupt(Scheduler) /\ NothingInHand
  /\ dropped' = dropped \union InHand
  /\ \/ phase' = "down"
     \/ phase \in {"loop", "loopSweep", "popWorker", "popJob", "assign", "undo"} /\ phase' = "loop"
  /\ UNCHANGED <<rows, redis, workerPc, held>>

SchedulerStep ==
  \/ SchedulerStarts \/ RecoverAtStart \/ ClearDispatchState \/ SweepAtStart \/ Resend \/ Offer
  \/ LoopFindsNone \/ LoopSweeps \/ PopIdleWorker \/ PopNextJob \/ AssignJob \/ UndoDispatch
  \/ RunCommand(Scheduler)
  \/ \E J \in SUBSET QueueJobs : LoopRequeues(J)

-----------------------------------------------------------------------------
(* The work loop of worker w.                                                *)

WorkerGoes(w, next) == workerPc' = [workerPc EXCEPT ![w] = next]

AnnounceWorkerIdle(w) ==
  /\ workerPc[w] = "announcing"
  /\ idle' = idle \union {w}
  /\ dropped' = dropped \ {w}
  /\ WorkerGoes(w, "waiting")
  /\ UNCHANGED <<rows, enqueued, lists, inbox, script, pipe, phase, locals, held,
                 hidden, queueFaults>>

PopWorkerJob(w) ==
  /\ workerPc[w] = "waiting" /\ inbox[w] # <<>>
  /\ held' = [held EXCEPT ![w] = Head(inbox[w])]
  /\ inbox' = [inbox EXCEPT ![w] = Tail(@)]
  /\ WorkerGoes(w, "popped")
  /\ UNCHANGED <<rows, enqueued, lists, idle, script, pipe, phase, locals, dropped,
                 hidden, queueFaults>>

IsMine_AnyStatus(j, w) == assigned[j] = w

IsMine(j, w) == rowStatus[j] = "scheduled" /\ assigned[j] = w

WorkerFetches(w) ==
  /\ workerPc[w] = "popped"
  /\ IF IsMine(held[w], w)
     THEN WorkerGoes(w, "fetched") /\ UNCHANGED held
     ELSE WorkerGoes(w, "announcing") /\ held' = [held EXCEPT ![w] = NoQueueJob]
  /\ UNCHANGED <<rows, redis, script, pipe, phase, locals, dropped, hidden, queueFaults>>

MarkWorkerBusy(w) ==
  /\ workerPc[w] = "fetched"
  /\ idle' = idle \ {w}
  /\ WorkerGoes(w, "claiming")
  /\ UNCHANGED <<rows, enqueued, lists, inbox, script, pipe, phase, locals, held, dropped,
                 hidden, queueFaults>>

WorkerClaims(w) ==
  /\ workerPc[w] = "claiming"
  /\ IF assigned[held[w]] = w
     THEN /\ WorkerGoes(w, "running")
          /\ rowStatus' = [rowStatus EXCEPT ![held[w]] = "running"]
          /\ UNCHANGED held
     ELSE /\ WorkerGoes(w, "announcing")
          /\ held' = [held EXCEPT ![w] = NoQueueJob]
          /\ UNCHANGED rowStatus
  /\ UNCHANGED <<assigned, createdAt, redis, script, pipe, phase, locals, dropped, hidden,
                 queueFaults>>

\* The job ends, or is to be retried.
JobEnds(w) ==
  /\ workerPc[w] = "running"
  /\ \/ rowStatus' = [rowStatus EXCEPT ![held[w]] = "ended"] /\ UNCHANGED <<assigned, queueFaults>>
     \/ /\ rowStatus' = [rowStatus EXCEPT ![held[w]] = "delayed"]
        /\ assigned' = [assigned EXCEPT ![held[w]] = NoWorker]
        /\ QueueFault
  /\ WorkerGoes(w, "announcing")
  /\ held' = [held EXCEPT ![w] = NoQueueJob]
  /\ UNCHANGED <<createdAt, redis, script, pipe, phase, locals, dropped, hidden>>

RetryDelayElapses(j) ==
  /\ rowStatus[j] = "delayed"
  /\ rowStatus' = [rowStatus EXCEPT ![j] = "queued"]
  /\ UNCHANGED <<assigned, createdAt, redis, script, pipe, phase, locals, workerVars, hidden,
                 queueFaults>>

WorkerStep(w) ==
  \/ AnnounceWorkerIdle(w) \/ PopWorkerJob(w) \/ WorkerFetches(w) \/ MarkWorkerBusy(w)
  \/ WorkerClaims(w) \/ JobEnds(w)

-----------------------------------------------------------------------------
QueueNext ==
  \/ \E r \in Submissions : Submit(r) \/ RunCommand(r) \/ ApiRaises(r)
  \/ SchedulerStep \/ PushRaises \/ SchedulerStops
  \/ \E w \in Workers : WorkerStep(w)
  \/ \E j \in QueueJobs : RetryDelayElapses(j)

QueueSpec == QueueInit /\ [][QueueNext]_queueVars

ClaimTimeoutOf(j) == ~Attended(j) /\ \E J \in SUBSET QueueJobs : j \in J /\ LoopRequeues(J)

\* Every process goes on, the scheduler's container is restarted, and the claim
\* timeout of a job nobody is about to claim passes.
QueueFairness ==
  /\ \A r \in Submissions : WF_queueVars(RunCommand(r))
  /\ WF_queueVars(SchedulerStep)
  /\ SF_queueVars(\E j \in QueueJobs : ClaimTimeoutOf(j))
  /\ \A w \in Workers : WF_queueVars(WorkerStep(w))
  /\ \A j \in QueueJobs : WF_queueVars(RetryDelayElapses(j))

QueueFairSpec == QueueSpec /\ QueueFairness

-----------------------------------------------------------------------------
(* What the queue guarantees.                                                *)

\* Rows, Redis and clients keep to their types.
QueueTypeOK ==
  /\ rowStatus \in [QueueJobs -> JobStatuses]
  /\ \A j \in QueueJobs : assigned[j] \in Workers \union {NoWorker}
                       /\ (rowStatus[j] \in {"scheduled", "running"} => assigned[j] # NoWorker)
  /\ enqueued \subseteq QueueJobs /\ Listed \subseteq QueueJobs /\ idle \subseteq Workers
  /\ inbox \in [Workers -> Seq(QueueJobs)]
  /\ phase \in Phases

\* The set of enqueued jobs and the lists agree although they are written one
\* after the other: a member without an entry is just being pushed or popped,
\* or belongs to a client that was interrupted exactly there.
MembersHaveEntries ==
  enqueued \ Listed \subseteq hidden \union UNION {HalfDone(c) : c \in Clients}

\* No double entry, old message or repeated message starts a job that has been
\* started already: what a worker starts is a job assigned to it.
StartsOnlyAssigned ==
  [][\A j \in QueueJobs :
       rowStatus'[j] = "running" /\ rowStatus[j] # "running"
         => rowStatus[j] = "scheduled"]_queueVars

\* A job is not dispatched before one of higher priority that had its entry
\* when the scheduler began to look for a job.
PriorityIsRespected ==
  [][phase = "popJob" /\ popped' \in QueueJobs \ {popped} =>
       \A j \in seen : \A p, q \in 1 .. 3 :
         PriorityOf[j] = Priorities[p] /\ PriorityOf[popped'] = Priorities[q] /\ p < q
           => j \notin Listed]_queueVars

\* A worker that waits for a message while no process is going to offer it.
Stranded(w) ==
  /\ workerPc[w] = "waiting" /\ w \notin idle /\ inbox[w] = <<>> /\ ActiveOn(w) = {}
  /\ \/ phase \in {"loop", "popWorker"}
     \/ phase = "loopSweep" /\ w \notin reusable
     \/ phase \in {"popJob", "assign", "undo"} /\ poppedWorker # w
  /\ \A x \in ToSet(script[Scheduler]) : x.worker # w

\* Nobody forgets to offer a worker whose row is up to date: one that waits in
\* vain for a message was in the hands of a scheduler that was interrupted, and
\* has not announced itself since.  (A row that is not is Cluster's business.)
OnlyInterruptionsStrand == \A w \in Workers : Stranded(w) => w \in dropped

\* Queued jobs are dispatched, whatever restarts and exceptions come in
\* between, unless an interruption hid the job or stranded the workers.
QueuedIsDispatched ==
  []<>(\A j \in QueueJobs :
         rowStatus[j] = "queued" => j \in hidden \/ \A w \in Workers : Stranded(w))

\* When the scheduler has started, the messages it has deleted are on their way
\* again: a job assigned to a worker has a message or is with the worker.
AssignedIsResent ==
  [][phase = "offering" /\ phase' = "loop" =>
       \A j \in QueueJobs : rowStatus[j] = "scheduled" =>
         LET w == assigned[j] IN held[w] = j \/ j \in ToSet(inbox[w])]_queueVars
=============================================================================
