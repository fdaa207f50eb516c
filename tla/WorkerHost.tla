----------------------------- MODULE WorkerHost -----------------------------
(***************************************************************************)
(* One worker container and its scratch disk: the thread that executes a   *)
(* job (execute_assigned_job), the GVHMR subprocess it starts, watches and *)
(* stops (runner.py), the files that process leaves behind for the next    *)
(* attempt (InferenceBridge), and the loop that deletes old directories.   *)
(*                                                                         *)
(* The rest of the system appears as what it does to the jobs table, in    *)
(* the steps of JobLifecycle; a worker that falls silent while it executes *)
(* is the business of Cluster.  Every job has a directory of its own, and  *)
(* every worker a scratch disk of its own.                                 *)
(*                                                                         *)
(* At most MaxFaults faults happen.  Foo_Bar is Foo with a mistake.        *)
(***************************************************************************)
EXTENDS InferenceBridge

CONSTANTS Jobs, NoJob,
          RequestsOf,  \* the requests that may be submitted as job j
          MaxRetries, MaxFaults

ASSUME HostAssumption ==
  /\ NoJob \notin Jobs
  /\ \A j \in Jobs : RequestsOf[j] \subseteq Request
  /\ MaxRetries \in Nat /\ MaxFaults \in Nat

VARIABLES
  request,          \* the job's columns that go into its RunnerJobSpec
  status,           \* jobs.status
  retries,          \* jobs.retry_count
  mine,             \* jobs.assigned_worker_id is this worker
  cancelRequested,  \* jobs.cancel_requested_at is set
  pc, job,          \* the work loop: what it does, with which payload
  why,              \* how the execution ended, as the thread sees it
  stage,            \* per job: the stage its subprocess is in; 0: no process
  exitCode,         \* "none" while the process runs
  dirs,             \* the job directories on the scratch disk
  files,            \* what they hold
  expired,          \* those past the time to live of their job's status
  published,        \* the objects in MinIO, by the file they were made from
  cleaner,          \* the cleanup pass under way
  revived,          \* history: jobs that were claimed after their cancellation
  faults            \* faults that happened so far

jobVars     == <<request, status, retries, mine, cancelRequested>>
processVars == <<stage, exitCode>>
diskVars    == <<dirs, files, expired>>
vars == <<jobVars, pc, job, why, processVars, diskVars, published, cleaner, revived, faults>>

Categories == {"canceled", "timeout", "infra_transient", "infra_permanent",
               "input_invalid", "algorithm_failure"}
ExitCodes  == {"none", "ok", "cuda", "asset", "other"}
Resting    == [active |-> NoJob, todo |-> {}, doomed |-> NoJob, on |-> FALSE]

Init ==
  /\ request         \in [Jobs -> UNION {RequestsOf[j] : j \in Jobs}]
  /\ \A j \in Jobs : request[j] \in RequestsOf[j]
  /\ status          = [j \in Jobs |-> "queued"]
  /\ retries         = [j \in Jobs |-> 0]
  /\ mine            = [j \in Jobs |-> FALSE]
  /\ cancelRequested = [j \in Jobs |-> FALSE]
  /\ pc = "idle" /\ job = NoJob /\ why = "none"
  /\ stage           = [j \in Jobs |-> 0]
  /\ exitCode        = [j \in Jobs |-> "none"]
  /\ dirs            = {}
  /\ files           = [j \in Jobs |-> Empty]
  /\ expired         = {}
  /\ published       = [j \in Jobs |-> Empty]
  /\ cleaner         = Resting
  /\ revived         = {}
  /\ faults          = 0

Live(j)   == stage[j] > 0 /\ exitCode[j] = "none"
Active(j) == mine[j] /\ status[j] \in {"scheduled", "running"}

\* The thread is in execute_assigned_job.
Executing == pc \in {"claimed", "prepared", "polling", "terminating", "killing",
                     "collecting", "reporting"}

\* state.running_job_id, set just before the job is claimed.
RunningJobId == IF Executing \/ pc = "holding" THEN job ELSE NoJob

Fault == faults < MaxFaults /\ faults' = faults + 1

-----------------------------------------------------------------------------
(* The other processes, as far as they change the row of a job.              *)

AssignHere(j) ==
  /\ status[j] = "queued" /\ pc # "down" /\ ~\E i \in Jobs : Active(i)
  /\ status' = [status EXCEPT ![j] = "scheduled"]
  /\ mine' = [mine EXCEPT ![j] = TRUE]
  /\ UNCHANGED <<request, retries, cancelRequested, faults>>

\* Another worker executes the job to its end.
EndElsewhere(j) ==
  /\ status[j] = "queued"
  /\ \E end \in {"succeeded", "failed"} : status' = [status EXCEPT ![j] = end]
  /\ UNCHANGED <<request, retries, mine, cancelRequested, faults>>

ClaimTimeout(j) ==
  /\ status[j] = "scheduled" /\ mine[j] /\ Fault
  /\ status' = [status EXCEPT ![j] = "queued"]
  /\ mine' = [mine EXCEPT ![j] = FALSE]
  /\ UNCHANGED <<request, retries, cancelRequested>>

UserCancels(j) ==
  /\ status[j] \in {"queued", "scheduled", "running"}
  /\ IF status[j] = "running"
     THEN cancelRequested' = [cancelRequested EXCEPT ![j] = TRUE] /\ UNCHANGED status
     ELSE status' = [status EXCEPT ![j] = "canceled"] /\ UNCHANGED cancelRequested
  /\ UNCHANGED <<request, retries, mine, faults>>

FailOrRetry_OneMore(j, retryable, end) ==
  IF retryable /\ retries[j] <= MaxRetries
  THEN /\ status' = [status EXCEPT ![j] = "queued"]
       /\ retries' = [retries EXCEPT ![j] = @ + 1]
       /\ mine' = [mine EXCEPT ![j] = FALSE]
       /\ cancelRequested' = [cancelRequested EXCEPT ![j] = FALSE]
  ELSE status' = [status EXCEPT ![j] = end] /\ UNCHANGED <<retries, mine, cancelRequested>>

\* _transition_job_after_failure.
FailOrRetry(j, retryable, end) ==
  IF retryable /\ retries[j] < MaxRetries
  THEN /\ status' = [status EXCEPT ![j] = "queued"]
       /\ retries' = [retries EXCEPT ![j] = @ + 1]
       /\ mine' = [mine EXCEPT ![j] = FALSE]
       /\ cancelRequested' = [cancelRequested EXCEPT ![j] = FALSE]
  ELSE status' = [status EXCEPT ![j] = end] /\ UNCHANGED <<retries, mine, cancelRequested>>

\* The scheduler gives up the job of a worker that is gone.
OfflineRecovery(j) ==
  /\ pc = "down" /\ Active(j)
  /\ FailOrRetry(j, TRUE, "failed")
  /\ UNCHANGED <<request, faults>>

Elsewhere(j) ==
  /\ AssignHere(j) \/ EndElsewhere(j) \/ ClaimTimeout(j) \/ UserCancels(j) \/ OfflineRecovery(j)
  /\ UNCHANGED <<pc, job, why, processVars, diskVars, published, cleaner, revived>>

-----------------------------------------------------------------------------
(* The work loop up to the subprocess.                                       *)

Goto(next) == pc' = next

FetchPayload(j) ==
  /\ pc = "idle" /\ status[j] = "scheduled" /\ mine[j]
  /\ Goto("fetched") /\ job' = j
  /\ UNCHANGED <<jobVars, why, processVars, diskVars, published, cleaner, revived, faults>>

SetRunningJobId ==
  /\ pc = "fetched"
  /\ Goto("holding")
  /\ UNCHANGED <<jobVars, job, why, processVars, diskVars, published, cleaner, revived, faults>>

\* mark_job_running compares the assignee and nothing else.
ClaimJob ==
  /\ pc = "holding"
  /\ IF mine[job]
     THEN /\ Goto("claimed") /\ UNCHANGED job
          /\ status' = [status EXCEPT ![job] = "running"]
          /\ revived' = revived \union (IF status[job] = "canceled" THEN {job} ELSE {})
     ELSE Goto("idle") /\ job' = NoJob /\ UNCHANGED <<status, revived>>
  /\ UNCHANGED <<request, retries, mine, cancelRequested, why, processVars, diskVars,
                 published, cleaner, faults>>

\* The directory is made or found, the upload is downloaded into it anew.
PrepareScratch ==
  /\ pc = "claimed"
  /\ dirs' = dirs \union {job}
  /\ \/ Goto("prepared") /\ expired' = expired \ {job} /\ UNCHANGED <<why, faults>>
     \/ Goto("reporting") /\ why' = "infra_permanent" /\ Fault /\ UNCHANGED expired
  /\ UNCHANGED <<jobVars, job, processVars, files, published, cleaner, revived>>

\* run_real: workdir.mkdir, the check of the input, and Popen.
StartProcess ==
  /\ pc = "prepared"
  /\ dirs' = dirs \union {job}
  /\ IF job \in dirs
     THEN /\ Goto("polling")
          /\ stage' = [stage EXCEPT ![job] = 1]
          /\ exitCode' = [exitCode EXCEPT ![job] = "none"]
          /\ UNCHANGED why
     ELSE Goto("reporting") /\ why' = "input_invalid" /\ UNCHANGED processVars
  /\ UNCHANGED <<jobVars, job, files, expired, published, cleaner, revived, faults>>

-----------------------------------------------------------------------------
(* The subprocess of job j.                                                  *)

Requests == UNION {RequestsOf[j] : j \in Jobs}

ProgramOfRequest == [r \in Requests |-> Program(r)]

ProgramOf(j) == ProgramOfRequest[request[j]]

InProgram(j) == Live(j) /\ stage[j] <= Len(ProgramOf(j))

BridgeStep(j) ==
  LET s == ProgramOf(j)[stage[j]]
  IN /\ InProgram(j) /\ j \in dirs
     /\ MayPass(files[j], s)
     /\ files' = [files EXCEPT ![j] = After(@, s)]
     /\ stage' = [stage EXCEPT ![j] = @ + 1]
     /\ UNCHANGED <<jobVars, pc, job, why, exitCode, dirs, expired, published, cleaner,
                    revived, faults>>

BridgeCompletes(j) ==
  /\ Live(j) /\ ~InProgram(j)
  /\ exitCode' = [exitCode EXCEPT ![j] = "ok"]
  /\ UNCHANGED <<jobVars, pc, job, why, stage, diskVars, published, cleaner, revived, faults>>

\* The processes of the jobs J stop where they are.
StopInTheMiddle(J) ==
  LET left(j) == IF j \in J \intersect dirs /\ InProgram(j)
                 THEN Leftovers(files[j], ProgramOf(j)[stage[j]]) ELSE {files[j]}
  IN /\ files' \in [Jobs -> UNION {left(j) : j \in Jobs}]
     /\ \A j \in Jobs : files'[j] \in left(j)
     /\ UNCHANGED <<dirs, expired>>

\* It loads something broken, its directory is gone, or something goes wrong.
BridgeRaises(j) ==
  /\ InProgram(j)
  /\ \/ /\ j \notin dirs \/ MayBreak(files[j], ProgramOf(j)[stage[j]])
        /\ exitCode' = [exitCode EXCEPT ![j] = "other"]
        /\ UNCHANGED faults
     \/ /\ Fault
        /\ \E code \in {"cuda", "asset", "other"} : exitCode' = [exitCode EXCEPT ![j] = code]
  /\ StopInTheMiddle({j})
  /\ UNCHANGED <<jobVars, pc, job, why, stage, published, cleaner, revived>>

-----------------------------------------------------------------------------
(* The runner watches it: every second, first whether it has ended, then     *)
(* whether the job is to be canceled, then whether its time is up.           *)

Reap(j) ==
  /\ stage' = [stage EXCEPT ![j] = 0]
  /\ exitCode' = [exitCode EXCEPT ![j] = "none"]

\* _detect_fatal_runtime_error and _classify_failure.
CategoryOf(code) ==
  CASE code = "cuda"  -> "infra_transient"
    [] code = "asset" -> "infra_permanent"
    [] OTHER          -> "algorithm_failure"

PollEnd ==
  /\ pc = "polling" /\ exitCode[job] # "none"
  /\ IF exitCode[job] = "ok"
     THEN Goto("collecting") /\ UNCHANGED why
     ELSE Goto("reporting") /\ why' = CategoryOf(exitCode[job])
  /\ Reap(job)
  /\ UNCHANGED <<jobVars, job, diskVars, published, cleaner, revived, faults>>

PollCancel ==
  /\ pc = "polling" /\ Live(job) /\ cancelRequested[job]
  /\ Goto("terminating") /\ why' = "canceled"
  /\ UNCHANGED <<jobVars, job, processVars, diskVars, published, cleaner, revived, faults>>

PollTimeout_IfCanceled ==
  /\ pc = "polling" /\ Live(job) /\ cancelRequested[job]
  /\ Goto("terminating") /\ why' = "timeout"
  /\ UNCHANGED <<jobVars, job, processVars, diskVars, published, cleaner, revived, faults>>

PollTimeout ==
  /\ pc = "polling" /\ Live(job) /\ ~cancelRequested[job]
  /\ Goto("terminating") /\ why' = "timeout"
  /\ UNCHANGED <<jobVars, job, processVars, diskVars, published, cleaner, revived, faults>>

\* is_cancel_requested raises: nobody stops the process.
PollRaises ==
  /\ pc = "polling" /\ Live(job) /\ Fault
  /\ Goto("reporting") /\ why' = "algorithm_failure"
  /\ UNCHANGED <<jobVars, job, processVars, diskVars, published, cleaner, revived>>

\* process.terminate(), and process.wait(10) returns.
ProcessStops ==
  /\ pc \in {"terminating", "killing"}
  /\ Goto("reporting")
  /\ Reap(job)
  /\ StopInTheMiddle({job})
  /\ UNCHANGED <<jobVars, job, why, published, cleaner, revived, faults>>

\* The wait expires: process.kill().
TerminateExpires_GiveUp ==
  /\ pc = "terminating"
  /\ Goto("reporting")
  /\ UNCHANGED <<jobVars, job, why, processVars, diskVars, published, cleaner, revived, faults>>

TerminateExpires ==
  /\ pc = "terminating"
  /\ Goto("killing")
  /\ UNCHANGED <<jobVars, job, why, processVars, diskVars, published, cleaner, revived, faults>>

\* A process in the middle of a driver call outlives the second wait; the
\* TimeoutExpired of subprocess is no TimeoutError.
KillExpires ==
  /\ pc = "killing" /\ Fault
  /\ Goto("reporting") /\ why' = "algorithm_failure"
  /\ UNCHANGED <<jobVars, job, processVars, diskVars, published, cleaner, revived>>

-----------------------------------------------------------------------------
(* Artifacts and the report.                                                 *)

\* sorted() of the paths; preprocess/ is a directory.
ArtifactOrder ==
  <<"0_input_video", "1_incam", "2_global", "hmr4d_results", "input", "joints", "mesh_comparison",
    "mesh_global", "mesh_incam", "bbx", "slam", "vit_features", "vitpose", "skeleton_incam",
    "skeleton_only">>

\* The objects once upload_file_artifact was called for the files of the
\* directory dir among the first n of that order.
UploadedUpTo(objects, dir, n) ==
  [f \in Files |-> IF f \in Discovered(dir) /\ \E i \in 1 .. n : ArtifactOrder[i] = f
                  THEN dir[f] ELSE objects[f]]

\* _discover_real_artifacts, then the uploads, one after the other: an
\* exception leaves the first of the objects written.  When all are, they are
\* the files; a file of an earlier attempt is still there.
CollectArtifacts ==
  /\ pc = "collecting"
  /\ Goto("reporting")
  /\ \/ /\ "hmr4d_results" \in Discovered(files[job])
        /\ why' = "succeeded"
        /\ published' = [published EXCEPT ![job] = files[job]]
        /\ UNCHANGED faults
     \/ /\ "hmr4d_results" \notin Discovered(files[job])
        /\ why' = "algorithm_failure" /\ UNCHANGED <<published, faults>>
     \/ /\ Fault
        /\ why' = "infra_permanent"
        /\ \E n \in 0 .. Len(ArtifactOrder) :
             published' = [published EXCEPT ![job] = UploadedUpTo(@, files[job], n)]
  /\ UNCHANGED <<jobVars, job, processVars, diskVars, cleaner, revived>>

\* The container goes down, and everything in it but the cleanup's thread.
ContainerStops ==
  /\ Goto("down") /\ job' = NoJob /\ why' = "none"
  /\ stage' = [j \in Jobs |-> 0]
  /\ exitCode' = [j \in Jobs |-> "none"]
  /\ StopInTheMiddle(Jobs)

\* complete_job_success or complete_job_failure; after an infrastructure
\* failure the worker leaves, otherwise it takes the next job.  asyncio.run
\* waits for the cleanup's thread before the process ends.
ReportEnd ==
  /\ pc = "reporting"
  /\ CASE why = "succeeded" -> status' = [status EXCEPT ![job] = "succeeded"]
                                 /\ UNCHANGED <<retries, mine, cancelRequested>>
       [] why = "canceled"  -> FailOrRetry(job, FALSE, "canceled")
       [] OTHER             -> FailOrRetry(job, why = "infra_transient", "failed")
  /\ IF why \in {"infra_transient", "infra_permanent"}
     THEN ContainerStops
     ELSE /\ Goto("idle") /\ job' = NoJob /\ why' = "none"
          /\ UNCHANGED <<processVars, diskVars>>
  /\ UNCHANGED <<request, published, cleaner, revived, faults>>

\* The report cannot be written, or the container is killed.
Crash ==
  /\ pc # "down" \/ cleaner.on
  /\ Fault
  /\ ContainerStops
  /\ cleaner' = Resting
  /\ UNCHANGED <<jobVars, published, revived>>

\* A job of the former container has been recovered by then; Cluster has the
\* restarts that are faster.
Start ==
  /\ pc = "down" /\ ~cleaner.on /\ ~\E j \in Jobs : Active(j)
  /\ Goto("idle")
  /\ UNCHANGED <<jobVars, job, why, processVars, diskVars, published, cleaner, revived, faults>>

-----------------------------------------------------------------------------
(* The cleanup of old directories, in a thread of its own.                   *)

\* While the job executes its status protects the directory, so that only what
\* has expired by then matters.
DirectoryExpires(j) ==
  /\ j \in dirs \ expired /\ ~(Executing /\ job = j)
  /\ expired' = expired \union {j}
  /\ UNCHANGED <<jobVars, pc, job, why, processVars, dirs, files, published, cleaner,
                 revived, faults>>

CleanupBegins ==
  /\ pc # "down" /\ ~cleaner.on /\ dirs # {}
  /\ cleaner' = [active |-> RunningJobId, todo |-> dirs, doomed |-> NoJob, on |-> TRUE]
  /\ UNCHANGED <<jobVars, pc, job, why, processVars, diskVars, published, revived, faults>>

Protected_RunningOnly(j) == j = cleaner.active \/ status[j] = "running"

Protected_AssignedHere(j) == j = cleaner.active \/ mine[j]

\* The job the worker was executing when the pass began, and the unfinished.
Protected(j) == j = cleaner.active \/ status[j] \in {"queued", "scheduled", "running"}

\* get_job, and the comparison of the directory's age with its time to live.
CleanupLooksAt(j) ==
  /\ cleaner.on /\ cleaner.doomed = NoJob /\ j \in cleaner.todo
  /\ cleaner' = [cleaner EXCEPT !.todo = @ \ {j},
                                !.doomed = IF ~Protected(j) /\ j \in expired THEN j ELSE NoJob]
  /\ UNCHANGED <<jobVars, pc, job, why, processVars, diskVars, published, revived, faults>>

\* rmtree; when it raises, the pass is over.
CleanupRemoves ==
  /\ cleaner.doomed # NoJob
  /\ \/ /\ dirs' = dirs \ {cleaner.doomed}
        /\ expired' = expired \ {cleaner.doomed}
        /\ files' = [files EXCEPT ![cleaner.doomed] = Empty]
        /\ cleaner' = [cleaner EXCEPT !.doomed = NoJob]
        /\ UNCHANGED faults
     \/ Fault /\ cleaner' = Resting /\ UNCHANGED diskVars
  /\ UNCHANGED <<jobVars, pc, job, why, processVars, published, revived>>

CleanupEnds ==
  /\ cleaner.on /\ cleaner.doomed = NoJob /\ cleaner.todo = {}
  /\ cleaner' = Resting
  /\ UNCHANGED <<jobVars, pc, job, why, processVars, diskVars, published, revived, faults>>

-----------------------------------------------------------------------------
ThreadStep ==
  \/ \E j \in Jobs : FetchPayload(j)
  \/ SetRunningJobId \/ ClaimJob \/ PrepareScratch \/ StartProcess
  \/ PollEnd \/ PollCancel \/ PollTimeout
  \/ ProcessStops \/ TerminateExpires
  \/ CollectArtifacts \/ ReportEnd \/ Start

CleanupStep ==
  \/ CleanupBegins \/ CleanupRemoves \/ CleanupEnds
  \/ \E j \in Jobs : CleanupLooksAt(j)

Next ==
  \/ \E j \in Jobs : \/ Elsewhere(j) \/ DirectoryExpires(j)
                     \/ BridgeStep(j) \/ BridgeCompletes(j) \/ BridgeRaises(j)
  \/ ThreadStep
  \/ PollRaises \/ KillExpires \/ Crash
  \/ CleanupStep

Spec == Init /\ [][Next]_vars

\* The loops go on and time passes; of the subprocess nothing is assumed.
Fairness ==
  /\ WF_vars(ThreadStep)
  /\ WF_vars(CleanupStep)
  /\ \A j \in Jobs : WF_vars(DirectoryExpires(j)) /\ WF_vars(OfflineRecovery(j) /\ Elsewhere(j))

FairSpec == Spec /\ Fairness

-----------------------------------------------------------------------------
(* What the host guarantees.                                                 *)

\* The state of the host keeps to its types.
HostTypeOK ==
  /\ retries \in [Jobs -> 0 .. MaxRetries]
  /\ job \in Jobs \union {NoJob} /\ (RunningJobId # NoJob => job # NoJob)
  /\ why \in {"none", "succeeded"} \union Categories
  /\ exitCode \in [Jobs -> ExitCodes]
  /\ \A j \in Jobs : stage[j] \in 0 .. Len(ProgramOf(j)) + 1
  /\ files \in [Jobs -> [Files -> FileState]]
  /\ published \in [Jobs -> [Files -> FileState]]
  /\ expired \subseteq dirs

\* A prediction is only computed from whole inputs: what an interrupted
\* attempt left of the preprocessing stops the next attempt instead.
PredictionFromWholeData ==
  [][\A j \in Jobs :
       files[j]["hmr4d_results"] = "absent" /\ files'[j]["hmr4d_results"] # "absent"
         => /\ \A f \in Preprocess : files[j][f] # "partial"
            /\ files[j]["0_input_video"] = "whole"]_vars

\* What a succeeded job publishes is whole unless the job was retried on this
\* disk, and a truncated prediction only gets out when nothing was rendered
\* from it.
PublishedIsWhole ==
  \A j \in Jobs :
    status[j] = "succeeded" /\ mine[j] =>
      /\ retries[j] = 0 => \A f \in Files : published[j][f] # "partial"
      /\ published[j]["hmr4d_results"] = "partial"
           => retries[j] > 0 /\ EnabledVideos(request[j]) \subseteq {"mesh_comparison"}

\* A process is never left running behind the back of a job that was canceled,
\* has succeeded or is to be retried: only a job reported as failed may still
\* have one.
NoProcessOutlivesItsJob ==
  \A j \in Jobs : Live(j) => (Executing /\ job = j) \/ status[j] = "failed"

\* The directory of the job in execution is not deleted, unless the job had
\* been canceled and came back.
CleanupSparesExecution ==
  [][\A j \in dirs \ dirs' : Executing /\ job = j => j \in revived]_vars

\* The runner does not wait forever, whatever the subprocess does.
EveryRunEnds ==
  \A j \in Jobs : []<>~(Executing /\ job = j)

\* The directory of an ended job is deleted in the end, so that the disk does
\* not fill up.
ScratchIsReclaimed ==
  \A j \in Jobs : []<>(status[j] \in {"succeeded", "failed", "canceled"} => j \notin dirs)
=============================================================================
