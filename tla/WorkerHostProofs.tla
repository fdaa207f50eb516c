--------------------------- MODULE WorkerHostProofs ---------------------------
(***************************************************************************)
(* The worker host, for any number of jobs, any requests, and any number   *)
(* of retries and faults.                                                  *)
(***************************************************************************)
EXTENDS WorkerHost, InferenceBridgeProofs

-----------------------------------------------------------------------------
(* The inductive invariants.                                                 *)

JobStates == {"queued", "scheduled", "running", "succeeded", "failed", "canceled"}

Places == {"idle", "down", "fetched", "holding", "claimed", "prepared", "polling", "terminating",
           "killing", "collecting", "reporting"}

\* The rows of the jobs.
RowsOK ==
  /\ status \in [Jobs -> JobStates]
  /\ retries \in [Jobs -> 0 .. MaxRetries]
  /\ mine \in [Jobs -> BOOLEAN] /\ cancelRequested \in [Jobs -> BOOLEAN]
  /\ \A j \in Jobs : request[j] \in RequestsOf[j]

\* The thread, and the process it watches.
ThreadOK ==
  /\ pc \in Places /\ why \in {"none", "succeeded"} \union Categories
  /\ job \in Jobs \union {NoJob} /\ (job = NoJob <=> pc \in {"idle", "down"})
  /\ stage \in [Jobs -> Nat] /\ exitCode \in [Jobs -> ExitCodes]
  /\ \A j \in Jobs : stage[j] <= Len(ProgramOf(j)) + 1

\* The disk, the object store and the cleanup.
DiskOK ==
  /\ dirs \subseteq Jobs /\ expired \subseteq dirs
  /\ files \in [Jobs -> Directories] /\ published \in [Jobs -> Directories]
  /\ cleaner \in [active : Jobs \union {NoJob}, todo : SUBSET Jobs,
                  doomed : Jobs \union {NoJob}, on : BOOLEAN]
  /\ revived \subseteq Jobs

HostTyped == RowsOK /\ ThreadOK /\ DiskOK

\* Whose a job is, and whose process is there.
Watched ==
  /\ \A j \in Jobs : /\ status[j] = "queued" => ~mine[j]
                     /\ status[j] \in {"scheduled", "running"} => mine[j]
                     /\ stage[j] > 0 =>
                          \/ pc \in {"polling", "terminating", "killing", "reporting"} /\ job = j
                          \/ status[j] = "failed"
  /\ Executing => status[job] = "running"
  /\ pc \in {"fetched", "holding"} /\ mine[job] => status[job] \in {"scheduled", "canceled"}
  /\ pc = "reporting" /\ stage[job] > 0 => why = "algorithm_failure"
  /\ pc # "reporting" => why # "succeeded"

\* What the cleanup is about to delete belongs to an ended job.
DoomedEnded ==
  cleaner.doomed # NoJob =>
    status[cleaner.doomed] \in {"succeeded", "failed", "canceled"} \/ cleaner.doomed \in revived

\* The inputs of a prediction, from their loading on.
DataOK ==
  \A j \in Jobs :
    /\ request[j].static_camera => files[j]["slam"] = "absent"
    /\ Live(j) /\ j \in dirs =>
         /\ stage[j] \in 2 .. PredictAt(request[j]) => files[j]["0_input_video"] = "whole"
         /\ stage[j] = PredictAt(request[j]) =>
              \A f \in Preprocess : (f = "slam" => ~request[j].static_camera) => files[j][f] = "whole"

\* A directory that is gone is empty, and no render is there without a whole
\* prediction.
RendersOK ==
  \A j \in Jobs : (j \notin dirs => files[j] = Empty) /\ RendersFollow(files[j])

\* A process that has come past the loading of the prediction found it whole.
LoadedOK ==
  \A j \in Jobs :
    /\ exitCode[j] = "ok" => stage[j] = Len(ProgramOf(j)) + 1
    /\ stage[j] > 0 /\ exitCode[j] \in {"none", "ok"} =>
         \A n \in 1 .. stage[j] - 1 :
           ProgramOf(j)[n] \in PredictionLoaders =>
             files[j]["hmr4d_results"] = "whole" \/ j \notin dirs
    /\ pc = "collecting" /\ job = j =>
         \/ files[j]["hmr4d_results"] # "partial"
         \/ EnabledVideos(request[j]) \subseteq {"mesh_comparison"}

Broken(dir) == \E f \in Files : dir[f] = "partial"

\* The job has failed or was canceled, or is on its way there.
Failing(j) ==
  \/ status[j] = "failed"
  \/ status[j] = "canceled" /\ ~(pc \in {"fetched", "holding"} /\ job = j)
  \/ status[j] = "running" /\ pc = "down"
  \/ /\ status[j] = "running" /\ job = j
     /\ \/ pc \in {"polling", "terminating", "killing"} /\ exitCode[j] \notin {"none", "ok"}
        \/ pc = "reporting" /\ why # "succeeded"

\* Only such a job may have left something half written without ever having been
\* retried.
BrokenFails == \A j \in Jobs : retries[j] = 0 /\ Broken(files[j]) => Failing(j)

\* What a succeeded job has published.
PublishedOK(j) ==
  /\ retries[j] = 0 => ~Broken(published[j])
  /\ published[j]["hmr4d_results"] = "partial"
       => retries[j] > 0 /\ EnabledVideos(request[j]) \subseteq {"mesh_comparison"}

PublishedFine ==
  \A j \in Jobs :
    (status[j] = "succeeded" /\ mine[j]) \/ (pc = "reporting" /\ why = "succeeded" /\ job = j)
      => PublishedOK(j)

-----------------------------------------------------------------------------
(* Programs, stages and interrupted processes of the host.                   *)

\* A job runs the program of its request.
LEMMA ProgramIs ==
  ASSUME RowsOK, NEW j \in Jobs
  PROVE  request[j] \in Requests /\ request[j] \in Request /\ ProgramOf(j) = Program(request[j])
<1>1. request[j] \in RequestsOf[j] /\ RequestsOf[j] \subseteq Request
  BY HostAssumption DEF RowsOK
<1>2. request[j] \in Requests
  BY <1>1 DEF Requests
<1>3. ProgramOf(j) = Program(request[j])
  BY <1>2 DEF ProgramOf, ProgramOfRequest
<1> QED BY <1>1, <1>2, <1>3

\* Its stages are numbered from one.
LEMMA StageIs ==
  ASSUME RowsOK, ThreadOK, NEW j \in Jobs, InProgram(j)
  PROVE  /\ stage[j] \in 1 .. Len(Program(request[j]))
         /\ ProgramOf(j)[stage[j]] = Program(request[j])[stage[j]]
         /\ Program(request[j])[stage[j]] \in Stages /\ Len(Program(request[j])) \in Nat
<1>1. ProgramOf(j) = Program(request[j])
  BY ProgramIs
<1>2. Program(request[j]) \in Seq(Stages)
  BY ProgramShape DEF Extends
<1>3. stage[j] \in Nat /\ stage[j] > 0 /\ stage[j] <= Len(Program(request[j]))
  BY <1>1 DEF InProgram, Live, ThreadOK
<1>4. Len(Program(request[j])) \in Nat
  BY <1>2
<1>5. stage[j] \in 1 .. Len(Program(request[j]))
  BY <1>3, <1>4
<1> QED BY <1>1, <1>2, <1>4, <1>5

\* The steps of the processes that stop where they are change nothing but the
\* file each of them is making.
LEMMA Stopped ==
  ASSUME HostTyped, NEW J, StopInTheMiddle(J)
  PROVE  /\ files' \in [Jobs -> Directories] /\ UNCHANGED <<dirs, expired>>
         /\ \A j \in Jobs :
              \/ files'[j] = files[j]
              \/ LET s == Program(request[j])[stage[j]]
                 IN /\ j \in J /\ j \in dirs /\ InProgram(j)
                    /\ stage[j] \in 1 .. Len(Program(request[j]))
                    /\ MayPass(files[j], s) /\ files'[j] \in Leftovers(files[j], s)
<1> DEFINE left(j) == IF j \in J \intersect dirs /\ InProgram(j)
                      THEN Leftovers(files[j], ProgramOf(j)[stage[j]]) ELSE {files[j]}
<1>1. /\ files' \in [Jobs -> UNION {left(j) : j \in Jobs}] /\ UNCHANGED <<dirs, expired>>
      /\ \A j \in Jobs : files'[j] \in left(j)
  BY DEF StopInTheMiddle
<1>2. ASSUME NEW j \in Jobs
      PROVE  \/ files'[j] = files[j]
             \/ LET s == Program(request[j])[stage[j]]
                IN /\ j \in J /\ j \in dirs /\ InProgram(j)
                   /\ stage[j] \in 1 .. Len(Program(request[j]))
                   /\ MayPass(files[j], s) /\ files'[j] \in Leftovers(files[j], s)
  <2>1. CASE j \in J \intersect dirs /\ InProgram(j)
    <3>1. stage[j] \in 1 .. Len(Program(request[j]))
          /\ ProgramOf(j)[stage[j]] = Program(request[j])[stage[j]]
      BY <2>1, StageIs DEF HostTyped
    <3>2. files'[j] \in Leftovers(files[j], Program(request[j])[stage[j]])
      BY <1>1, <2>1, <3>1
    <3> QED BY <2>1, <3>1, <3>2 DEF Leftovers
  <2>2. CASE ~(j \in J \intersect dirs /\ InProgram(j))
    BY <1>1, <2>2
  <2> QED BY <2>1, <2>2
<1>3. ASSUME NEW j \in Jobs PROVE files'[j] \in Directories
  <2>1. files[j] \in Directories
    BY DEF HostTyped, DiskOK
  <2>2. CASE files'[j] = files[j]
    BY <2>1, <2>2
  <2>3. CASE InProgram(j) /\ files'[j] \in Leftovers(files[j], Program(request[j])[stage[j]])
    <3>1. Program(request[j])[stage[j]] \in Stages
      BY <2>3, StageIs DEF HostTyped
    <3> QED BY <2>1, <2>3, <3>1, LeftoversOf
  <2> QED BY <1>2, <2>2, <2>3
<1> HIDE DEF left
<1>4. files' \in [Jobs -> Directories]
  BY <1>1, <1>3
<1> QED BY <1>1, <1>2, <1>4

\* A stage of a program changes the files of its job.
LEMMA Stepped ==
  ASSUME HostTyped, NEW j \in Jobs, BridgeStep(j)
  PROVE  LET s == Program(request[j])[stage[j]]
         IN /\ InProgram(j) /\ j \in dirs /\ stage[j] \in 1 .. Len(Program(request[j]))
            /\ MayPass(files[j], s)
            /\ files' = [files EXCEPT ![j] = After(files[j], s)]
            /\ After(files[j], s) \in Directories
            /\ stage' = [stage EXCEPT ![j] = stage[j] + 1]
<1> DEFINE s == Program(request[j])[stage[j]]
<1>1. /\ InProgram(j) /\ ProgramOf(j)[stage[j]] = s /\ s \in Stages
      /\ stage[j] \in 1 .. Len(Program(request[j]))
  BY StageIs DEF BridgeStep, HostTyped
<1>2. /\ j \in dirs /\ MayPass(files[j], s) /\ files' = [files EXCEPT ![j] = After(files[j], s)]
      /\ stage' = [stage EXCEPT ![j] = stage[j] + 1]
  BY <1>1 DEF BridgeStep
<1>3. files[j] \in Directories
  BY DEF HostTyped, DiskOK
<1>4. CASE s.op # "rename"
  BY <1>1, <1>2, <1>3, <1>4, AfterMake
<1>5. CASE s.op = "rename"
  <2>1. s \in Renders
    <3>1. stage[j] > PredictAt(request[j]) /\ (stage[j] > PredictAt(request[j]) => s \in Renders)
      <4>1. (stage[j] <= PredictAt(request[j]) => s.op # "rename") /\ PredictAt(request[j]) \in {6, 7}
        BY <1>1, NthStage
      <4>2. stage[j] > PredictAt(request[j]) => s \in Renders
        BY <1>1, NthStage
      <4> QED BY <1>1, <1>5, <4>1, <4>2
    <3> QED BY <3>1
  <2>2. PICK from \in {"1_incam", "2_global", "0_input_video"} : s.reads = {from}
    BY <1>5, <2>1, RenderFacts
  <2>3. from \in Files
    BY DEF Files, Videos
  <2> QED BY <1>1, <1>2, <1>3, <1>5, <2>2, <2>3, AfterRename
<1> QED BY <1>1, <1>2, <1>4, <1>5

-----------------------------------------------------------------------------
(* The types.                                                                *)

\* Nothing changes the request of a job, nor, for a new one, the types.
LEMMA RequestKept == [Next]_vars => UNCHANGED request
  BY DEF Next, vars, Elsewhere, AssignHere, EndElsewhere, ClaimTimeout, UserCancels, OfflineRecovery,
     DirectoryExpires, BridgeStep, BridgeCompletes, BridgeRaises, ThreadStep, FetchPayload,
     SetRunningJobId, ClaimJob, PrepareScratch, StartProcess, PollEnd, PollCancel, PollTimeout,
     ProcessStops, TerminateExpires, CollectArtifacts, ReportEnd, Start, PollRaises, KillExpires,
     Crash, CleanupStep, CleanupBegins, CleanupRemoves, CleanupEnds, CleanupLooksAt, jobVars

\* The rest of the system, the claim and the report change the rows; all other
\* steps leave them.
RowStep == (\E j \in Jobs : Elsewhere(j)) \/ ClaimJob \/ ReportEnd

\* The row of the job changes in a RowStep or not at all.
LEMMA RowsKept == [Next]_vars => RowStep \/ UNCHANGED jobVars
  BY DEF Next, vars, RowStep, DirectoryExpires, BridgeStep, BridgeCompletes, BridgeRaises, ThreadStep,
     FetchPayload, SetRunningJobId, PrepareScratch, StartProcess, PollEnd, PollCancel, PollTimeout,
     ProcessStops, TerminateExpires, CollectArtifacts, Start, PollRaises, KillExpires,
     Crash, CleanupStep, CleanupBegins, CleanupRemoves, CleanupEnds, CleanupLooksAt

\* What _transition_job_after_failure does to the rows.
LEMMA FailKeepsRows ==
  ASSUME RowsOK, NEW j \in Jobs, NEW retryable \in BOOLEAN, NEW end \in {"failed", "canceled"},
         FailOrRetry(j, retryable, end), UNCHANGED request
  PROVE  /\ RowsOK'
         /\ \A i \in Jobs \ {j} : /\ status'[i] = status[i] /\ mine'[i] = mine[i]
                                  /\ retries'[i] = retries[i]
         /\ \/ /\ status'[j] = "queued" /\ ~mine'[j] /\ retries'[j] > 0
               /\ retryable
            \/ status'[j] = end /\ mine'[j] = mine[j] /\ retries'[j] = retries[j]
<1>1. retries[j] \in 0 .. MaxRetries /\ MaxRetries \in Nat
  BY HostAssumption DEF RowsOK
<1>2. CASE retryable /\ retries[j] < MaxRetries
  <2>1. /\ status' = [status EXCEPT ![j] = "queued"] /\ retries' = [retries EXCEPT ![j] = @ + 1]
        /\ mine' = [mine EXCEPT ![j] = FALSE]
        /\ cancelRequested' = [cancelRequested EXCEPT ![j] = FALSE]
    BY <1>2 DEF FailOrRetry
  <2>2. retries[j] + 1 \in 0 .. MaxRetries /\ retries[j] + 1 > 0
    BY <1>1, <1>2
  <2> QED BY <1>2, <2>1, <2>2 DEF RowsOK, JobStates
<1>3. CASE ~(retryable /\ retries[j] < MaxRetries)
  BY <1>3 DEF FailOrRetry, RowsOK, JobStates
<1> QED BY <1>2, <1>3

\* Every step keeps the types of the rows.
LEMMA RowsTyped == HostTyped /\ [Next]_vars => RowsOK'
<1> SUFFICES ASSUME HostTyped, [Next]_vars PROVE RowsOK'
  OBVIOUS
<1>1. RowsOK /\ UNCHANGED request
  BY RequestKept DEF HostTyped
<1>2. CASE UNCHANGED jobVars
  BY <1>1, <1>2 DEF jobVars, RowsOK
<1>3. ASSUME NEW j \in Jobs, Elsewhere(j) PROVE RowsOK'
  <2>1. CASE AssignHere(j)
    BY <1>1, <2>1 DEF AssignHere, RowsOK, JobStates
  <2>2. CASE EndElsewhere(j)
    BY <1>1, <2>2 DEF EndElsewhere, RowsOK, JobStates
  <2>3. CASE ClaimTimeout(j)
    BY <1>1, <2>3 DEF ClaimTimeout, RowsOK, JobStates
  <2>4. CASE UserCancels(j)
    BY <1>1, <2>4 DEF UserCancels, RowsOK, JobStates
  <2>5. CASE OfflineRecovery(j)
    BY <1>1, <2>5, FailKeepsRows DEF OfflineRecovery
  <2> QED BY <1>3, <2>1, <2>2, <2>3, <2>4, <2>5 DEF Elsewhere
<1>4. CASE ClaimJob
  <2>1. job \in Jobs
    BY <1>4 DEF ClaimJob, HostTyped, ThreadOK
  <2> QED BY <1>1, <1>4, <2>1 DEF ClaimJob, RowsOK, JobStates
<1>5. CASE ReportEnd
  <2>1. job \in Jobs
    BY <1>5 DEF ReportEnd, HostTyped, ThreadOK
  <2>2. \/ /\ status' = [status EXCEPT ![job] = "succeeded"]
           /\ UNCHANGED <<retries, mine, cancelRequested>>
        \/ FailOrRetry(job, FALSE, "canceled")
        \/ FailOrRetry(job, why = "infra_transient", "failed")
    BY <1>5 DEF ReportEnd
  <2>3. CASE /\ status' = [status EXCEPT ![job] = "succeeded"]
             /\ UNCHANGED <<retries, mine, cancelRequested>>
    BY <1>1, <2>1, <2>3 DEF RowsOK, JobStates
  <2>4. CASE FailOrRetry(job, FALSE, "canceled")
    BY <1>1, <2>1, <2>4, FailKeepsRows
  <2>5. CASE FailOrRetry(job, why = "infra_transient", "failed")
    BY <1>1, <2>1, <2>5, FailKeepsRows
  <2> QED BY <2>2, <2>3, <2>4, <2>5
<1> QED BY <1>2, <1>3, <1>4, <1>5, RowsKept DEF RowStep

\* Every step keeps the types of the thread and of the process.
LEMMA ThreadTyped == HostTyped /\ [Next]_vars => ThreadOK'
<1> SUFFICES ASSUME HostTyped, [Next]_vars PROVE ThreadOK'
  OBVIOUS
<1>1. ThreadOK /\ UNCHANGED request
  BY RequestKept DEF HostTyped
<1>2. \A j \in Jobs : ProgramOf(j)' = ProgramOf(j)
  BY <1>1 DEF ProgramOf
<1>3. \A j \in Jobs : Len(ProgramOf(j)) \in Nat
  <2>1. ASSUME NEW j \in Jobs PROVE Program(request[j]) \in Seq(Stages)
    BY ProgramShape DEF Extends
  <2> QED BY <2>1, ProgramIs DEF HostTyped
<1> DEFINE ControlOK == /\ pc \in Places /\ why \in {"none", "succeeded"} \union Categories
                        /\ job \in Jobs \union {NoJob} /\ (job = NoJob <=> pc \in {"idle", "down"})
           ProcessOK == /\ stage \in [Jobs -> Nat] /\ exitCode \in [Jobs -> ExitCodes]
                        /\ \A j \in Jobs : stage[j] <= Len(ProgramOf(j)) + 1
<1>4. ControlOK'
  <2> USE <1>1 DEF ThreadOK, Places, Categories, Goto
  <2>1. CASE UNCHANGED <<pc, job, why>>
    BY <2>1
  <2>2. ASSUME NEW j \in Jobs, FetchPayload(j) PROVE ControlOK'
    BY <2>2, HostAssumption DEF FetchPayload
  <2>3. CASE SetRunningJobId \/ TerminateExpires \/ Start \/ ProcessStops
    BY <2>3 DEF SetRunningJobId, TerminateExpires, Start, ProcessStops
  <2>4. CASE ClaimJob
    BY <2>4 DEF ClaimJob
  <2>5. CASE PrepareScratch \/ StartProcess
    BY <2>5 DEF PrepareScratch, StartProcess
  <2>6. CASE PollEnd
    BY <2>6 DEF PollEnd, CategoryOf
  <2>7. CASE PollCancel \/ PollTimeout \/ PollRaises \/ KillExpires
    BY <2>7 DEF PollCancel, PollTimeout, PollRaises, KillExpires
  <2>8. CASE CollectArtifacts
    BY <2>8 DEF CollectArtifacts
  <2>9. CASE ReportEnd \/ Crash
    BY <2>9 DEF ReportEnd, Crash, ContainerStops
  <2>10. ASSUME \/ \E j \in Jobs : \/ Elsewhere(j) \/ DirectoryExpires(j) \/ BridgeStep(j)
                                   \/ BridgeCompletes(j) \/ BridgeRaises(j)
                \/ CleanupStep \/ UNCHANGED vars
         PROVE  UNCHANGED <<pc, job, why>>
    BY <2>10 DEF Elsewhere, DirectoryExpires, BridgeStep, BridgeCompletes, BridgeRaises, CleanupStep,
       CleanupBegins, CleanupRemoves, CleanupEnds, CleanupLooksAt, vars
  <2> QED BY <2>1, <2>2, <2>3, <2>4, <2>5, <2>6, <2>7, <2>8, <2>9, <2>10 DEF Next, ThreadStep
<1>5. ProcessOK'
  <2>1. CASE UNCHANGED processVars
    BY <1>1, <1>2, <2>1 DEF processVars, ThreadOK
  <2>2. ASSUME NEW j \in Jobs, Reap(j) PROVE ProcessOK'
    BY <1>1, <1>2, <1>3, <2>2 DEF Reap, ThreadOK, ExitCodes
  <2>3. CASE ContainerStops
    BY <1>1, <1>2, <1>3, <2>3 DEF ContainerStops, ThreadOK, ExitCodes
  <2>4. CASE StartProcess
    <3>1. job \in Jobs
      BY <1>1, <2>4 DEF StartProcess, ThreadOK
    <3>2. \/ UNCHANGED processVars
          \/ stage' = [stage EXCEPT ![job] = 1] /\ exitCode' = [exitCode EXCEPT ![job] = "none"]
      BY <2>4 DEF StartProcess
    <3>3. ASSUME stage' = [stage EXCEPT ![job] = 1], exitCode' = [exitCode EXCEPT ![job] = "none"]
          PROVE  ProcessOK'
      <4>1. \A j \in Jobs : 1 <= Len(ProgramOf(j)) + 1
        BY <1>3
      <4> HIDE DEF ProgramOf
      <4> QED BY <1>1, <1>2, <1>3, <3>1, <3>3, <4>1 DEF ThreadOK, ExitCodes
    <3> QED BY <2>1, <3>2, <3>3
  <2>5. ASSUME NEW j \in Jobs, BridgeStep(j) PROVE ProcessOK'
    <3>1. InProgram(j) /\ stage' = [stage EXCEPT ![j] = stage[j] + 1] /\ UNCHANGED exitCode
      BY <2>5 DEF BridgeStep
    <3>2. stage[j] <= Len(ProgramOf(j))
      BY <3>1 DEF InProgram
    <3> QED BY <1>1, <1>2, <1>3, <3>1, <3>2 DEF ThreadOK
  <2>6. ASSUME NEW j \in Jobs, BridgeCompletes(j) \/ BridgeRaises(j) PROVE ProcessOK'
    <3>1. UNCHANGED stage /\ \E code \in ExitCodes : exitCode' = [exitCode EXCEPT ![j] = code]
      BY <2>6 DEF BridgeCompletes, BridgeRaises, ExitCodes
    <3> QED BY <1>1, <1>2, <3>1 DEF ThreadOK
  <2>7. ASSUME PollEnd \/ ProcessStops PROVE ProcessOK'
    BY <1>1, <2>2, <2>7 DEF PollEnd, ProcessStops, ThreadOK
  <2>8. CASE ReportEnd \/ Crash
    BY <2>1, <2>3, <2>8 DEF ReportEnd, Crash
  <2>9. ASSUME \/ \E j \in Jobs : Elsewhere(j) \/ DirectoryExpires(j) \/ FetchPayload(j)
               \/ SetRunningJobId \/ ClaimJob \/ PrepareScratch \/ PollCancel \/ PollTimeout
               \/ TerminateExpires \/ CollectArtifacts \/ Start \/ PollRaises \/ KillExpires
               \/ CleanupStep \/ UNCHANGED vars
        PROVE  UNCHANGED processVars
    BY <2>9 DEF Elsewhere, DirectoryExpires, FetchPayload, SetRunningJobId, ClaimJob, PrepareScratch,
       PollCancel, PollTimeout, TerminateExpires, CollectArtifacts, Start, PollRaises, KillExpires,
       CleanupStep, CleanupBegins, CleanupRemoves, CleanupEnds, CleanupLooksAt, vars
  <2> QED BY <2>1, <2>4, <2>5, <2>6, <2>7, <2>8, <2>9 DEF Next, ThreadStep
<1> QED BY <1>4, <1>5 DEF ThreadOK

\* Every step keeps the types of the disk, the object store and the cleanup.
LEMMA DiskTyped == HostTyped /\ [Next]_vars => DiskOK'
<1> SUFFICES ASSUME HostTyped, [Next]_vars PROVE DiskOK'
  OBVIOUS
<1>1. DiskOK /\ (job \in Jobs \/ pc \in {"idle", "down"})
  BY DEF HostTyped, ThreadOK
<1>2. Empty \in Directories
  BY DEF Empty, Directories, FileState
<1> DEFINE Cleaners == [active : Jobs \union {NoJob}, todo : SUBSET Jobs,
                        doomed : Jobs \union {NoJob}, on : BOOLEAN]
<1>3. Resting \in Cleaners
  BY DEF Resting
<1> DEFINE StoreOK == published \in [Jobs -> Directories] /\ revived \subseteq Jobs
<1>4. StoreOK'
  <2>1. CASE UNCHANGED <<published, revived>>
    BY <1>1, <2>1 DEF DiskOK
  <2>2. CASE ClaimJob
    BY <1>1, <2>2 DEF ClaimJob, DiskOK
  <2>3. CASE CollectArtifacts
    <3>1. ASSUME NEW j \in Jobs, NEW n \in Nat
          PROVE  UploadedUpTo(published[j], files[j], n) \in Directories
      BY <1>1 DEF UploadedUpTo, Discovered, DiskOK, Directories
    <3>2. Len(ArtifactOrder) \in Nat
      BY DEF ArtifactOrder
    <3>3. 0 .. Len(ArtifactOrder) \subseteq Nat
      BY <3>2
    <3>4. \/ UNCHANGED published
          \/ published' = [published EXCEPT ![job] = files[job]]
          \/ \E n \in Nat :
               published' = [published EXCEPT ![job] = UploadedUpTo(published[job], files[job], n)]
      BY <2>3, <3>3 DEF CollectArtifacts
    <3>5. UNCHANGED revived /\ job \in Jobs
      BY <1>1, <2>3 DEF CollectArtifacts
    <3> QED BY <1>1, <3>1, <3>4, <3>5 DEF DiskOK
  <2> QED BY <2>1, <2>2, <2>3
       DEF Next, vars, Elsewhere, DirectoryExpires, BridgeStep, BridgeCompletes, BridgeRaises,
           ThreadStep, FetchPayload, SetRunningJobId, PrepareScratch, StartProcess, PollEnd,
           PollCancel, PollTimeout, ProcessStops, TerminateExpires, ReportEnd, Start, PollRaises,
           KillExpires, Crash, CleanupStep, CleanupBegins, CleanupRemoves, CleanupEnds,
           CleanupLooksAt
<1>5. cleaner' \in Cleaners
  <2>1. CASE UNCHANGED cleaner \/ cleaner' = Resting
    BY <1>1, <1>3, <2>1 DEF DiskOK
  <2>2. CASE CleanupBegins
    BY <1>1, <2>2 DEF CleanupBegins, DiskOK, RunningJobId, HostTyped, ThreadOK
  <2>3. ASSUME NEW j \in Jobs, CleanupLooksAt(j) PROVE cleaner' \in Cleaners
    BY <1>1, <2>3 DEF CleanupLooksAt, DiskOK
  <2>4. CASE CleanupRemoves
    BY <1>1, <1>3, <2>4 DEF CleanupRemoves, DiskOK
  <2> QED BY <2>1, <2>2, <2>3, <2>4
       DEF Next, vars, Elsewhere, DirectoryExpires, BridgeStep, BridgeCompletes, BridgeRaises,
           ThreadStep, FetchPayload, SetRunningJobId, ClaimJob, PrepareScratch, StartProcess,
           PollEnd, PollCancel, PollTimeout, ProcessStops, TerminateExpires, CollectArtifacts,
           ReportEnd, Start, PollRaises, KillExpires, Crash, ContainerStops, CleanupStep,
           CleanupEnds
<1> DEFINE ScratchOK == /\ dirs \subseteq Jobs /\ expired \subseteq dirs
                        /\ files \in [Jobs -> Directories]
<1>6. ScratchOK'
  <2>1. CASE UNCHANGED diskVars
    BY <1>1, <2>1 DEF diskVars, DiskOK
  <2>2. ASSUME NEW J, StopInTheMiddle(J) PROVE ScratchOK'
    BY <1>1, <2>2, Stopped DEF DiskOK
  <2>3. CASE PrepareScratch \/ StartProcess
    BY <1>1, <2>3 DEF PrepareScratch, StartProcess, DiskOK
  <2>4. ASSUME NEW j \in Jobs, BridgeStep(j) PROVE ScratchOK'
    <3>1. UNCHANGED <<dirs, expired>>
      BY <2>4 DEF BridgeStep
    <3>2. \E d \in Directories : files' = [files EXCEPT ![j] = d]
      BY <2>4, Stepped
    <3> QED BY <1>1, <3>1, <3>2 DEF DiskOK
  <2>5. ASSUME NEW j \in Jobs, DirectoryExpires(j) PROVE ScratchOK'
    BY <1>1, <2>5 DEF DirectoryExpires, DiskOK
  <2>6. CASE CleanupRemoves
    BY <1>1, <1>2, <2>1, <2>6 DEF CleanupRemoves, DiskOK
  <2>7. CASE ReportEnd \/ Crash
    BY <2>1, <2>2, <2>7 DEF ReportEnd, Crash, ContainerStops
  <2>8. ASSUME NEW j \in Jobs, BridgeRaises(j) PROVE ScratchOK'
    BY <2>2, <2>8 DEF BridgeRaises
  <2>9. CASE ProcessStops
    BY <2>2, <2>9 DEF ProcessStops
  <2>10. ASSUME \/ \E j \in Jobs : Elsewhere(j) \/ BridgeCompletes(j) \/ FetchPayload(j)
                \/ SetRunningJobId \/ ClaimJob \/ PollEnd \/ PollCancel \/ PollTimeout
                \/ TerminateExpires \/ CollectArtifacts \/ Start \/ PollRaises \/ KillExpires
                \/ CleanupBegins \/ CleanupEnds \/ (\E j \in Jobs : CleanupLooksAt(j))
                \/ UNCHANGED vars
         PROVE  UNCHANGED diskVars
    BY <2>10 DEF Elsewhere, BridgeCompletes, FetchPayload, SetRunningJobId, ClaimJob, PollEnd,
       PollCancel, PollTimeout, TerminateExpires, CollectArtifacts, Start, PollRaises, KillExpires,
       CleanupBegins, CleanupEnds, CleanupLooksAt, vars
  <2> QED BY <2>1, <2>3, <2>4, <2>5, <2>6, <2>7, <2>8, <2>9, <2>10
       DEF Next, ThreadStep, CleanupStep
<1> QED BY <1>4, <1>5, <1>6 DEF DiskOK

\* A host starts with an empty disk and no process.
LEMMA HostTypedInit == Init => HostTyped
<1> SUFFICES ASSUME Init PROVE HostTyped
  OBVIOUS
<1>1. Empty \in Directories
  BY DEF Empty, Directories, FileState
<1>2. RowsOK
  BY HostAssumption DEF Init, RowsOK, JobStates
<1>3. \A j \in Jobs : Len(ProgramOf(j)) \in Nat
  <2>1. ASSUME NEW j \in Jobs PROVE Program(request[j]) \in Seq(Stages)
    BY ProgramShape DEF Extends
  <2> QED BY <1>2, <2>1, ProgramIs
<1>4. /\ pc = "idle" /\ why = "none" /\ job = NoJob
      /\ stage = [j \in Jobs |-> 0] /\ exitCode = [j \in Jobs |-> "none"]
  BY DEF Init
<1>5. ThreadOK
  <2>1. \A j \in Jobs : 0 <= Len(ProgramOf(j)) + 1
    BY <1>3
  <2> HIDE DEF ProgramOf
  <2> QED BY <1>4, <2>1 DEF ThreadOK, Places, ExitCodes
<1>6. DiskOK
  BY <1>1 DEF Init, DiskOK, Resting
<1> QED BY <1>2, <1>5, <1>6 DEF HostTyped

\* Every step keeps files, processes and artifacts to their types.
LEMMA HostTypedStep == HostTyped /\ [Next]_vars => HostTyped'
  BY RowsTyped, ThreadTyped, DiskTyped DEF HostTyped

\* So they are typed throughout.
LEMMA HostIsTyped == Spec => []HostTyped
  BY HostTypedInit, HostTypedStep, PTL DEF Spec

\* The state of the host keeps to its types; in particular a process is never
\* past the end of its program, and a directory that has expired is there.
THEOREM HostTypes == Spec => []HostTypeOK
<1>1. HostTyped => HostTypeOK
  <2> SUFFICES ASSUME HostTyped PROVE HostTypeOK
    OBVIOUS
  <2>1. RunningJobId # NoJob => job # NoJob
    BY DEF RunningJobId
  <2>2. ASSUME NEW j \in Jobs PROVE stage[j] \in 0 .. Len(ProgramOf(j)) + 1
    <3>1. stage[j] \in Nat /\ stage[j] <= Len(ProgramOf(j)) + 1
      BY DEF HostTyped, ThreadOK
    <3>2. Len(ProgramOf(j)) \in Nat
      <4>1. Program(request[j]) \in Seq(Stages)
        BY ProgramShape DEF Extends
      <4> QED BY <4>1, ProgramIs DEF HostTyped
    <3> QED BY <3>1, <3>2
  <2> QED BY <2>1, <2>2 DEF HostTyped, RowsOK, ThreadOK, DiskOK, HostTypeOK, Directories
<1> QED BY <1>1, HostIsTyped, PTL

-----------------------------------------------------------------------------
(* Whose process runs.                                                       *)

\* The rest of the system keeps the rows of the jobs in execution running.
LEMMA WatchedElsewhere ==
  ASSUME HostTyped, Watched, NEW j \in Jobs, Elsewhere(j)
  PROVE  Watched'
<1>1. RowsOK /\ ThreadOK /\ UNCHANGED <<pc, job, why, stage, request>>
  BY RequestKept DEF HostTyped, Elsewhere, processVars, AssignHere, EndElsewhere, ClaimTimeout,
     UserCancels, OfflineRecovery
<1> USE <1>1 DEF RowsOK, ThreadOK, Watched, Executing, JobStates
<1>2. CASE AssignHere(j)
  BY <1>2 DEF AssignHere
<1>3. CASE EndElsewhere(j)
  BY <1>3 DEF EndElsewhere
<1>4. CASE ClaimTimeout(j)
  BY <1>4 DEF ClaimTimeout
<1>5. CASE UserCancels(j)
  BY <1>5 DEF UserCancels
<1>6. CASE OfflineRecovery(j)
  <2>1. FailOrRetry(j, TRUE, "failed") /\ pc = "down" /\ status[j] \in {"scheduled", "running"}
    BY <1>6 DEF OfflineRecovery, Active
  <2>2. /\ RowsOK'
        /\ \A i \in Jobs \ {j} : status'[i] = status[i] /\ mine'[i] = mine[i]
        /\ \/ status'[j] = "queued" /\ ~mine'[j]
           \/ status'[j] = "failed" /\ mine'[j] = mine[j]
    BY <2>1, FailKeepsRows
  <2> QED BY <2>1, <2>2
<1> QED BY <1>2, <1>3, <1>4, <1>5, <1>6 DEF Elsewhere

\* Every step keeps Watched.
LEMMA WatchedStep == HostTyped /\ Watched /\ [Next]_vars => Watched'
<1> SUFFICES ASSUME HostTyped, Watched, [Next]_vars PROVE Watched'
  OBVIOUS
<1>1. RowsOK /\ ThreadOK
  BY DEF HostTyped
<1> USE <1>1 DEF Goto, jobVars, processVars
<1>2. CASE UNCHANGED <<jobVars, pc, job, why, stage>>
  BY <1>2 DEF Watched, Executing
<1>3. ASSUME NEW j \in Jobs, Elsewhere(j) PROVE Watched'
  BY <1>3, WatchedElsewhere
<1>4. CASE Crash
  BY <1>4 DEF Crash, ContainerStops, Watched, Executing
<1>5. CASE ReportEnd
  <2>1. job \in Jobs /\ pc = "reporting" /\ status[job] = "running" /\ mine[job]
    BY <1>5 DEF ReportEnd, ThreadOK, Watched, Executing
  <2>2. \/ why = "succeeded" /\ status' = [status EXCEPT ![job] = "succeeded"] /\ UNCHANGED mine
        \/ why = "canceled" /\ FailOrRetry(job, FALSE, "canceled")
        \/ why \notin {"succeeded", "canceled"} /\ FailOrRetry(job, why = "infra_transient", "failed")
    BY <1>5 DEF ReportEnd
  <2>3. /\ \A i \in Jobs \ {job} : status'[i] = status[i] /\ mine'[i] = mine[i]
        /\ \/ status'[job] = "queued" /\ ~mine'[job] /\ why = "infra_transient"
           \/ status'[job] \in {"succeeded", "canceled", "failed"} /\ mine'[job] = mine[job]
        /\ why = "algorithm_failure" => status'[job] = "failed"
    <3>1. CASE why = "succeeded"
      BY <2>1, <2>2, <3>1 DEF RowsOK
    <3>2. CASE why = "canceled"
      <4>1. FailOrRetry(job, FALSE, "canceled") /\ UNCHANGED request
        BY <1>5, <2>2, <3>2 DEF ReportEnd
      <4> QED BY <2>1, <3>2, <4>1, FailKeepsRows
    <3>3. CASE why \notin {"succeeded", "canceled"}
      <4>1. FailOrRetry(job, why = "infra_transient", "failed") /\ UNCHANGED request
        BY <1>5, <2>2, <3>3 DEF ReportEnd
      <4> QED BY <2>1, <3>3, <4>1, FailKeepsRows
    <3> QED BY <3>1, <3>2, <3>3
  <2>4. pc' \in {"idle", "down"} /\ why' = "none"
        /\ (stage' = [j \in Jobs |-> 0] \/ (UNCHANGED stage /\ why # "infra_transient"))
    BY <1>5 DEF ReportEnd, ContainerStops
  <2> DEFINE RowOK(i) == /\ status[i] = "queued" => ~mine[i]
                         /\ status[i] \in {"scheduled", "running"} => mine[i]
  <2>5. ASSUME NEW i \in Jobs PROVE RowOK(i)'
    BY <2>1, <2>3 DEF Watched
  <2>6. ASSUME NEW i \in Jobs PROVE stage'[i] > 0 => status'[i] = "failed"
    <3>1. CASE stage' = [j \in Jobs |-> 0]
      BY <3>1
    <3>2. CASE UNCHANGED stage
      BY <2>1, <2>3, <3>2 DEF Watched
    <3> QED BY <2>4, <3>1, <3>2
  <2> QED BY <2>4, <2>5, <2>6 DEF Watched, Executing
<1>6. ASSUME NEW j \in Jobs, FetchPayload(j) PROVE Watched'
  BY <1>6 DEF FetchPayload, ThreadOK, Watched, Executing
<1>7. CASE SetRunningJobId
  BY <1>7 DEF SetRunningJobId, ThreadOK, Watched, Executing
<1>8. CASE ClaimJob
  BY <1>8 DEF ClaimJob, ThreadOK, RowsOK, Watched, Executing
<1>9. CASE PrepareScratch \/ CollectArtifacts
  <2>1. job \in Jobs /\ pc \in {"claimed", "collecting"} /\ status[job] = "running" /\ stage[job] = 0
    BY <1>9 DEF PrepareScratch, CollectArtifacts, ThreadOK, Watched, Executing
  <2>2. pc' \in {"prepared", "reporting"} /\ UNCHANGED <<jobVars, job, stage>>
        /\ (pc' = "prepared" => UNCHANGED why)
    BY <1>9 DEF PrepareScratch, CollectArtifacts
  <2> QED BY <2>1, <2>2 DEF ThreadOK, Watched, Executing
<1>10. CASE StartProcess
  <2>1. job \in Jobs /\ pc = "prepared" /\ status[job] = "running" /\ stage[job] = 0
    BY <1>10 DEF StartProcess, ThreadOK, Watched, Executing
  <2>2. /\ UNCHANGED <<jobVars, job>>
        /\ \/ pc' = "polling" /\ stage' = [stage EXCEPT ![job] = 1] /\ UNCHANGED why
           \/ pc' = "reporting" /\ why' = "input_invalid" /\ UNCHANGED stage
    BY <1>10 DEF StartProcess
  <2> QED BY <2>1, <2>2 DEF ThreadOK, Watched, Executing
<1>11. CASE PollEnd \/ ProcessStops
  <2>1. job \in Jobs /\ pc \in {"polling", "terminating", "killing"}
    BY <1>11 DEF PollEnd, ProcessStops, ThreadOK
  <2>2. /\ UNCHANGED <<jobVars, job>> /\ stage' = [stage EXCEPT ![job] = 0]
        /\ (pc' = "collecting" /\ UNCHANGED why) \/ pc' = "reporting"
    BY <1>11 DEF PollEnd, ProcessStops, Reap
  <2> QED BY <2>1, <2>2 DEF ThreadOK, Watched, Executing
<1>12. CASE PollCancel \/ PollTimeout \/ TerminateExpires
  BY <1>12 DEF PollCancel, PollTimeout, TerminateExpires, ThreadOK, Watched, Executing
<1>13. CASE PollRaises \/ KillExpires
  BY <1>13 DEF PollRaises, KillExpires, ThreadOK, Watched, Executing
<1>14. CASE Start
  BY <1>14 DEF Start, ThreadOK, Watched, Executing
<1>15. ASSUME NEW j \in Jobs, BridgeStep(j) PROVE Watched'
  BY <1>15 DEF BridgeStep, InProgram, Live, ThreadOK, Watched, Executing
<1>16. ASSUME \/ \E j \in Jobs : DirectoryExpires(j) \/ BridgeCompletes(j) \/ BridgeRaises(j)
              \/ CleanupStep \/ UNCHANGED vars
       PROVE  UNCHANGED <<jobVars, pc, job, why, stage>>
  BY <1>16 DEF DirectoryExpires, BridgeCompletes, BridgeRaises, CleanupStep, CleanupBegins,
     CleanupRemoves, CleanupEnds, CleanupLooksAt, vars
<1> QED BY <1>2, <1>3, <1>4, <1>5, <1>6, <1>7, <1>8, <1>9, <1>10, <1>11, <1>12, <1>13, <1>14,
           <1>15, <1>16 DEF Next, ThreadStep

\* A process runs only while its job is watched, throughout.
LEMMA WatchedInvariant == Spec => []Watched
<1>1. Init => Watched
  BY DEF Init, Watched, Executing
<1> QED BY <1>1, WatchedStep, HostIsTyped, PTL DEF Spec

\* A process is never left running behind the back of a job that was canceled,
\* has succeeded or is to be retried.
THEOREM ProcessesAreWatched == Spec => []NoProcessOutlivesItsJob
<1>1. Watched => NoProcessOutlivesItsJob
  BY DEF Watched, NoProcessOutlivesItsJob, Live, Executing
<1> QED BY <1>1, WatchedInvariant, PTL

-----------------------------------------------------------------------------
(* What the cleanup deletes.                                                 *)

\* An ended job stays ended, unless it was canceled after the worker had
\* fetched it.
LEMMA EndedStays ==
  ASSUME HostTyped, Watched, [Next]_vars
  PROVE  /\ revived \subseteq revived'
         /\ \A j \in Jobs : status[j] \in {"succeeded", "failed", "canceled"} =>
              status'[j] \in {"succeeded", "failed", "canceled"} \/ j \in revived'
<1>1. RowsOK /\ ThreadOK
  BY DEF HostTyped
<1>2. revived \subseteq revived' /\ (ClaimJob \/ UNCHANGED revived)
  BY DEF Next, vars, Elsewhere, DirectoryExpires, BridgeStep, BridgeCompletes, BridgeRaises,
     ThreadStep, FetchPayload, SetRunningJobId, ClaimJob, PrepareScratch, StartProcess, PollEnd,
     PollCancel, PollTimeout, ProcessStops, TerminateExpires, CollectArtifacts, ReportEnd, Start,
     PollRaises, KillExpires, Crash, CleanupStep, CleanupBegins, CleanupRemoves, CleanupEnds,
     CleanupLooksAt
<1> DEFINE Ended(j) == status[j] \in {"succeeded", "failed", "canceled"}
<1>3. CASE UNCHANGED jobVars
  BY <1>2, <1>3 DEF jobVars
<1>4. ASSUME NEW j \in Jobs, Elsewhere(j) PROVE \A i \in Jobs : Ended(i) => Ended(i)'
  <2> USE <1>1 DEF RowsOK
  <2>1. CASE AssignHere(j) \/ EndElsewhere(j) \/ ClaimTimeout(j)
    BY <2>1 DEF AssignHere, EndElsewhere, ClaimTimeout
  <2>2. CASE UserCancels(j)
    BY <2>2 DEF UserCancels
  <2>3. CASE OfflineRecovery(j)
    BY <2>3 DEF OfflineRecovery, Active, FailOrRetry
  <2> QED BY <1>4, <2>1, <2>2, <2>3 DEF Elsewhere
<1>5. CASE ClaimJob
  <2>1. job \in Jobs /\ pc = "holding"
    BY <1>1, <1>5 DEF ClaimJob, ThreadOK
  <2>2. mine[job] => status[job] \in {"scheduled", "canceled"}
    BY <2>1 DEF Watched
  <2>3. CASE mine[job]
    <3>1. /\ status' = [status EXCEPT ![job] = "running"]
          /\ revived' = revived \union (IF status[job] = "canceled" THEN {job} ELSE {})
      BY <1>5, <2>3 DEF ClaimJob
    <3> QED BY <1>1, <1>2, <2>1, <2>2, <2>3, <3>1 DEF RowsOK
  <2>4. CASE ~mine[job]
    <3>1. UNCHANGED status
      BY <1>5, <2>4 DEF ClaimJob
    <3> QED BY <1>2, <3>1
  <2> QED BY <2>3, <2>4
<1>6. CASE ReportEnd
  <2>1. job \in Jobs /\ status[job] = "running"
    BY <1>1, <1>6 DEF ReportEnd, ThreadOK, Watched, Executing
  <2>2. \E s \in JobStates : status' = [status EXCEPT ![job] = s]
    BY <1>6 DEF ReportEnd, FailOrRetry, JobStates
  <2> QED BY <1>1, <1>2, <2>1, <2>2 DEF RowsOK
<1> QED BY <1>2, <1>3, <1>4, <1>5, <1>6, RowsKept DEF RowStep

\* Every step keeps what the cleanup is about to delete an ended job's.
LEMMA DoomedStep == HostTyped /\ Watched /\ DoomedEnded /\ [Next]_vars => DoomedEnded'
<1> SUFFICES ASSUME HostTyped, Watched, DoomedEnded, [Next]_vars,
                    cleaner'.doomed # NoJob
             PROVE  \/ status'[cleaner'.doomed] \in {"succeeded", "failed", "canceled"}
                    \/ cleaner'.doomed \in revived'
  BY DEF DoomedEnded
<1>1. cleaner.doomed \in Jobs \union {NoJob}
  BY DEF HostTyped, DiskOK
<1>2. CASE cleaner'.doomed = cleaner.doomed
  BY <1>1, <1>2, EndedStays DEF DoomedEnded
<1>3. ASSUME NEW j \in Jobs, CleanupLooksAt(j)
      PROVE  \/ status'[cleaner'.doomed] \in {"succeeded", "failed", "canceled"}
             \/ cleaner'.doomed = cleaner.doomed
  <2>1. cleaner'.doomed = (IF ~Protected(j) /\ j \in expired THEN j ELSE NoJob) /\ UNCHANGED status
    BY <1>3 DEF CleanupLooksAt, jobVars, HostTyped, DiskOK
  <2>2. ~Protected(j) => status[j] \in {"succeeded", "failed", "canceled"}
    BY DEF Protected, HostTyped, RowsOK, JobStates
  <2> QED BY <2>1, <2>2
<1>4. ASSUME ~\E j \in Jobs : CleanupLooksAt(j)
      PROVE  cleaner'.doomed = cleaner.doomed
  <2>1. UNCHANGED cleaner \/ cleaner' = Resting \/ CleanupBegins \/ CleanupRemoves
    BY <1>4 DEF Next, vars, Elsewhere, DirectoryExpires, BridgeStep, BridgeCompletes, BridgeRaises,
       ThreadStep, FetchPayload, SetRunningJobId, ClaimJob, PrepareScratch, StartProcess, PollEnd,
       PollCancel, PollTimeout, ProcessStops, TerminateExpires, CollectArtifacts, ReportEnd, Start,
       PollRaises, KillExpires, Crash, ContainerStops, CleanupStep, CleanupEnds
  <2>2. cleaner' # Resting
    BY DEF Resting
  <2>3. ~CleanupBegins
    BY DEF CleanupBegins
  <2>4. ~CleanupRemoves
    BY <2>2 DEF CleanupRemoves, HostTyped, DiskOK
  <2> QED BY <2>1, <2>2, <2>3, <2>4
<1> QED BY <1>2, <1>3, <1>4

\* The directory of the job in execution is not deleted, unless the job had
\* been canceled and came back.
THEOREM ExecutionIsSpared == Spec => CleanupSparesExecution
<1>1. Init => DoomedEnded
  BY DEF Init, DoomedEnded, Resting
<1>2. Spec => []DoomedEnded
  BY <1>1, DoomedStep, HostIsTyped, WatchedInvariant, PTL DEF Spec
<1>3. Watched /\ DoomedEnded /\ [Next]_vars
        => [\A j \in dirs \ dirs' : Executing /\ job = j => j \in revived]_vars
  <2> SUFFICES ASSUME Watched, DoomedEnded, Next, NEW j \in dirs \ dirs', Executing, job = j
               PROVE  j \in revived
    BY DEF vars, diskVars
  <2>1. status[j] = "running"
    BY DEF Watched
  <2>2. CleanupRemoves
    BY DEF Next, Elsewhere, DirectoryExpires, BridgeStep, BridgeCompletes, BridgeRaises,
       ThreadStep, FetchPayload, SetRunningJobId, ClaimJob, PrepareScratch, StartProcess, PollEnd,
       PollCancel, PollTimeout, ProcessStops, TerminateExpires, CollectArtifacts, ReportEnd, Start,
       PollRaises, KillExpires, Crash, ContainerStops, StopInTheMiddle, CleanupStep, CleanupBegins,
       CleanupEnds, CleanupLooksAt, diskVars
  <2>3. j = cleaner.doomed /\ cleaner.doomed # NoJob
    BY <2>2 DEF CleanupRemoves, diskVars
  <2> QED BY <2>1, <2>3 DEF DoomedEnded
<1> QED BY <1>2, <1>3, WatchedInvariant, PTL DEF Spec, CleanupSparesExecution

-----------------------------------------------------------------------------
(* What one step does to the directory and the process of one job.           *)

\* The job has no process, or one that has failed.
Halted(j) == (stage[j] = 0 /\ exitCode[j] = "none") \/ exitCode[j] \in {"cuda", "asset", "other"}

\* A stage of its program is through.
Advanced(j) ==
  LET s == Program(request[j])[stage[j]]
  IN /\ InProgram(j) /\ j \in dirs /\ stage[j] \in 1 .. Len(Program(request[j]))
     /\ MayPass(files[j], s) /\ files'[j] = After(files[j], s)
     /\ stage'[j] = stage[j] + 1 /\ exitCode'[j] = exitCode[j] /\ j \in dirs'

\* Its process stops in the middle of a stage.
Interrupted(j) ==
  LET s == Program(request[j])[stage[j]]
  IN /\ InProgram(j) /\ j \in dirs /\ stage[j] \in 1 .. Len(Program(request[j]))
     /\ MayPass(files[j], s) /\ files'[j] \in Leftovers(files[j], s)
     /\ Halted(j)' /\ j \in dirs'

\* Its process has stopped or started, or is as it was or has come to its end.
ProcessGoesOn(j) ==
  \/ Halted(j)'
  \/ stage'[j] = 1 /\ exitCode'[j] = "none"
  \/ /\ stage'[j] = stage[j] /\ (j \in dirs' => j \in dirs \/ stage[j] = 0)
     /\ \/ exitCode'[j] = exitCode[j]
        \/ exitCode[j] = "none" /\ stage[j] = Len(ProgramOf(j)) + 1

Untouched(j) == files'[j] = files[j] /\ (j \in dirs => j \in dirs') /\ ProcessGoesOn(j)

Removed(j) == files'[j] = Empty /\ j \notin dirs' /\ ProcessGoesOn(j)

\* There is nothing else.
LEMMA DiskEffect ==
  ASSUME HostTyped, Watched, [Next]_vars, NEW j \in Jobs
  PROVE  Advanced(j) \/ Interrupted(j) \/ Untouched(j) \/ Removed(j)
<1>1. /\ stage \in [Jobs -> Nat] /\ exitCode \in [Jobs -> ExitCodes]
      /\ files \in [Jobs -> Directories] /\ dirs \subseteq Jobs
      /\ job \in Jobs \union {NoJob} /\ (job = NoJob <=> pc \in {"idle", "down"})
  BY DEF HostTyped, ThreadOK, DiskOK
<1>2. CASE UNCHANGED <<stage, exitCode, files, dirs>>
  BY <1>2 DEF Untouched, ProcessGoesOn
<1>3. ASSUME NEW J, StopInTheMiddle(J), j \in J => Halted(j)',
             j \notin J => stage'[j] = stage[j] /\ exitCode'[j] = exitCode[j]
      PROVE  Interrupted(j) \/ Untouched(j)
  <2>1. CASE files'[j] = files[j]
    BY <1>3, <2>1, Stopped DEF Untouched, ProcessGoesOn
  <2>2. CASE files'[j] # files[j]
    BY <1>3, <2>2, Stopped DEF Interrupted
  <2> QED BY <2>1, <2>2
<1>4. ASSUME ContainerStops PROVE Interrupted(j) \/ Untouched(j)
  <2>1. Halted(j)' /\ StopInTheMiddle(Jobs)
    BY <1>4 DEF ContainerStops, Halted
  <2> QED BY <1>3, <2>1
<1>5. CASE PrepareScratch
  <2>1. job \in Jobs /\ pc = "claimed"
    BY <1>1, <1>5 DEF PrepareScratch
  <2>2. stage[job] = 0
    <3>1. status[job] = "running"
      BY <2>1 DEF Watched, Executing
    <3> QED BY <1>1, <2>1, <3>1 DEF Watched
  <2>3. dirs' = dirs \union {job} /\ UNCHANGED <<stage, exitCode, files>>
    BY <1>5 DEF PrepareScratch, processVars
  <2> QED BY <1>1, <2>2, <2>3 DEF Untouched, ProcessGoesOn, Halted
<1>6. CASE StartProcess
  <2>1. job \in Jobs /\ pc = "prepared"
    BY <1>1, <1>6 DEF StartProcess
  <2>2. stage[job] = 0
    <3>1. status[job] = "running"
      BY <2>1 DEF Watched, Executing
    <3> QED BY <1>1, <2>1, <3>1 DEF Watched
  <2>3. /\ dirs' = dirs \union {job} /\ UNCHANGED files
        /\ \/ stage' = [stage EXCEPT ![job] = 1] /\ exitCode' = [exitCode EXCEPT ![job] = "none"]
           \/ UNCHANGED <<stage, exitCode>>
    BY <1>6 DEF StartProcess, processVars
  <2> QED BY <1>1, <2>2, <2>3 DEF Untouched, ProcessGoesOn, Halted
<1>7. ASSUME NEW i \in Jobs, BridgeStep(i) PROVE Advanced(j) \/ Untouched(j)
  <2>1. UNCHANGED <<exitCode, dirs>> /\ stage' = [stage EXCEPT ![i] = stage[i] + 1]
        /\ \E d : files' = [files EXCEPT ![i] = d]
    BY <1>7 DEF BridgeStep
  <2>2. CASE i = j
    BY <1>1, <1>7, <2>1, <2>2, Stepped DEF Advanced
  <2>3. CASE i # j
    BY <1>1, <2>1, <2>3 DEF Untouched, ProcessGoesOn
  <2> QED BY <2>2, <2>3
<1>8. ASSUME NEW i \in Jobs, BridgeCompletes(i) PROVE Untouched(j)
  <2>1. UNCHANGED <<stage, files, dirs>> /\ exitCode' = [exitCode EXCEPT ![i] = "ok"]
        /\ exitCode[i] = "none" /\ stage[i] > 0 /\ ~(stage[i] <= Len(ProgramOf(i)))
    BY <1>8 DEF BridgeCompletes, InProgram, Live, diskVars
  <2>2. Len(ProgramOf(i)) \in Nat /\ stage[i] <= Len(ProgramOf(i)) + 1
    <3>1. Program(request[i]) \in Seq(Stages)
      BY ProgramShape DEF Extends
    <3> QED BY <3>1, ProgramIs DEF HostTyped, ThreadOK
  <2>3. stage[i] = Len(ProgramOf(i)) + 1
    BY <1>1, <2>1, <2>2
  <2> HIDE DEF ProgramOf
  <2> QED BY <1>1, <2>1, <2>3 DEF Untouched, ProcessGoesOn
<1>9. ASSUME NEW i \in Jobs, BridgeRaises(i) PROVE Interrupted(j) \/ Untouched(j)
  <2>1. StopInTheMiddle({i}) /\ UNCHANGED stage
        /\ \E code \in {"cuda", "asset", "other"} : exitCode' = [exitCode EXCEPT ![i] = code]
    BY <1>9 DEF BridgeRaises
  <2>2. /\ j \in {i} => Halted(j)'
        /\ j \notin {i} => stage'[j] = stage[j] /\ exitCode'[j] = exitCode[j]
    BY <1>1, <2>1 DEF Halted
  <2> QED BY <1>3, <2>1, <2>2
<1>10. CASE PollEnd \/ ProcessStops
  <2>1. job \in Jobs
    BY <1>1, <1>10 DEF PollEnd, ProcessStops
  <2>2. /\ j \in {job} => Halted(j)'
        /\ j \notin {job} => stage'[j] = stage[j] /\ exitCode'[j] = exitCode[j]
    BY <1>1, <1>10, <2>1 DEF PollEnd, ProcessStops, Reap, Halted
  <2>3. CASE PollEnd
    BY <2>2, <2>3 DEF PollEnd, diskVars, Untouched, ProcessGoesOn
  <2>4. CASE ProcessStops
    BY <1>3, <2>2, <2>4 DEF ProcessStops
  <2> QED BY <1>10, <2>3, <2>4
<1>11. CASE ReportEnd \/ Crash
  BY <1>2, <1>4, <1>11 DEF ReportEnd, Crash, processVars, diskVars
<1>12. CASE CleanupRemoves
  <2>1. cleaner.doomed \in Jobs /\ UNCHANGED <<stage, exitCode>>
    BY <1>12 DEF CleanupRemoves, HostTyped, DiskOK, processVars
  <2>2. \/ dirs' = dirs \ {cleaner.doomed} /\ files' = [files EXCEPT ![cleaner.doomed] = Empty]
        \/ UNCHANGED <<files, dirs>>
    BY <1>12 DEF CleanupRemoves, diskVars
  <2> QED BY <1>1, <2>1, <2>2 DEF Untouched, Removed, ProcessGoesOn
<1>13. ASSUME \/ \E i \in Jobs : Elsewhere(i) \/ DirectoryExpires(i) \/ FetchPayload(i)
              \/ SetRunningJobId \/ ClaimJob \/ PollCancel \/ PollTimeout \/ TerminateExpires
              \/ CollectArtifacts \/ Start \/ PollRaises \/ KillExpires \/ CleanupBegins
              \/ CleanupEnds \/ (\E i \in Jobs : CleanupLooksAt(i)) \/ UNCHANGED vars
       PROVE  UNCHANGED <<stage, exitCode, files, dirs>>
  BY <1>13 DEF Elsewhere, DirectoryExpires, FetchPayload, SetRunningJobId, ClaimJob, PollCancel,
     PollTimeout, TerminateExpires, CollectArtifacts, Start, PollRaises, KillExpires, CleanupBegins,
     CleanupEnds, CleanupLooksAt, vars, processVars, diskVars
<1> QED BY <1>2, <1>5, <1>6, <1>7, <1>8, <1>9, <1>10, <1>11, <1>12, <1>13
     DEF Next, ThreadStep, CleanupStep

-----------------------------------------------------------------------------
(* What a prediction is made from, and what is made from it.                 *)

\* What is known of the stage a job is in.
LEMMA InStage ==
  ASSUME HostTyped, NEW j \in Jobs, Advanced(j) \/ Interrupted(j)
  PROVE  LET s == Program(request[j])[stage[j]]
         IN /\ stage[j] \in 1 .. Len(Program(request[j])) /\ Live(j) /\ j \in dirs
            /\ files[j] \in Directories /\ MayPass(files[j], s)
            /\ files'[j] \in {After(files[j], s)} \union Leftovers(files[j], s)
            /\ Advanced(j) => files'[j] = After(files[j], s)
  BY DEF Advanced, Interrupted, InProgram, HostTyped, DiskOK

\* Every step keeps renders to whole predictions.
LEMMA RendersStep == HostTyped /\ Watched /\ RendersOK /\ [Next]_vars => RendersOK'
<1> SUFFICES ASSUME HostTyped, Watched, RendersOK, [Next]_vars, NEW j \in Jobs
             PROVE  (j \notin dirs' => files'[j] = Empty) /\ RendersFollow(files'[j])
  BY DEF RendersOK
<1>1. RendersFollow(files[j]) /\ (j \notin dirs => files[j] = Empty)
  BY DEF RendersOK
<1>2. CASE Advanced(j) \/ Interrupted(j)
  <2>1. RendersFollow(files'[j])
    BY <1>1, <1>2, InStage, PredictionKept
  <2> QED BY <1>2, <2>1 DEF Advanced, Interrupted
<1>3. CASE Untouched(j)
  BY <1>1, <1>3 DEF Untouched
<1>4. CASE Removed(j)
  BY <1>4 DEF Removed, RendersFollow, Empty, Files, Videos
<1> QED BY <1>2, <1>3, <1>4, DiskEffect

\* Every step keeps the inputs of a prediction whole.
LEMMA DataStep == HostTyped /\ Watched /\ RendersOK /\ DataOK /\ [Next]_vars => DataOK'
<1> DEFINE Slam(j) == request[j].static_camera => files[j]["slam"] = "absent"
           Inputs(j) == /\ stage[j] \in 2 .. PredictAt(request[j]) => files[j]["0_input_video"] = "whole"
                        /\ stage[j] = PredictAt(request[j]) =>
                             \A f \in Preprocess :
                               (f = "slam" => ~request[j].static_camera) => files[j][f] = "whole"
<1> SUFFICES ASSUME HostTyped, Watched, RendersOK, DataOK, [Next]_vars, NEW j \in Jobs
             PROVE  Slam(j)' /\ (Live(j)' /\ j \in dirs' => Inputs(j)')
  BY DEF DataOK
<1>1. Slam(j) /\ (Live(j) /\ j \in dirs => Inputs(j)) /\ RendersFollow(files[j])
  BY DEF DataOK, RendersOK
<1>2. UNCHANGED request /\ PredictAt(request[j]) \in {6, 7} /\ stage[j] \in Nat
  BY RequestKept DEF PredictAt, HostTyped, ThreadOK
<1>3. CASE Advanced(j)
  <2>1. Live(j) /\ j \in dirs /\ stage'[j] = stage[j] + 1
    BY <1>3, InStage DEF Advanced
  <2>2. Slam(j)'
    BY <1>1, <1>2, <1>3, InStage, PredictionKept
  <2>3. /\ stage[j] = 1 => files'[j]["0_input_video"] = "whole"
        /\ stage[j] \in 2 .. PredictAt(request[j]) =>
             files'[j]["0_input_video"] = files[j]["0_input_video"]
        /\ stage[j] = PredictAt(request[j]) - 1 =>
             \A f \in Preprocess :
               (f = "slam" => ~request[j].static_camera) => files'[j][f] = "whole"
    BY <1>3, InStage, DataLoaded
  <2>4. Inputs(j)'
    BY <1>1, <1>2, <2>1, <2>3
  <2> QED BY <2>2, <2>4
<1>4. CASE Interrupted(j)
  <2>1. Slam(j)'
    BY <1>1, <1>2, <1>4, InStage, PredictionKept
  <2>2. ~Live(j)'
    BY <1>4 DEF Interrupted, Halted, Live
  <2> QED BY <2>1, <2>2
<1>5. CASE Untouched(j)
  <2>1. files'[j] = files[j] /\ ProcessGoesOn(j)
    BY <1>5 DEF Untouched
  <2>2. Live(j)' /\ j \in dirs' =>
          stage'[j] = 1 \/ (stage'[j] = stage[j] /\ Live(j) /\ j \in dirs)
    BY <1>2, <2>1 DEF ProcessGoesOn, Halted, Live
  <2> QED BY <1>1, <1>2, <2>1, <2>2
<1>6. CASE Removed(j)
  BY <1>6 DEF Removed, Empty, Files, Preprocess
<1> QED BY <1>3, <1>4, <1>5, <1>6, DiskEffect

\* What is said of the renderers holds throughout.
LEMMA RendersInvariant == Spec => []RendersOK
<1>1. Init => RendersOK
  BY DEF Init, RendersOK, RendersFollow, Empty, Files, Videos
<1> QED BY <1>1, RendersStep, HostIsTyped, WatchedInvariant, PTL DEF Spec

\* What is said of the data a prediction is computed from holds throughout.
LEMMA DataInvariant == Spec => []DataOK
<1>1. Init => DataOK
  BY DEF Init, DataOK, Live, Empty, Files, Preprocess
<1> QED BY <1>1, DataStep, HostIsTyped, WatchedInvariant, RendersInvariant, PTL DEF Spec

\* A prediction is only computed from whole inputs: what an interrupted
\* attempt left of the preprocessing stops the next attempt instead.
THEOREM PredictionsAreSound == Spec => PredictionFromWholeData
<1>1. HostTyped /\ Watched /\ RendersOK /\ DataOK /\ [Next]_vars =>
        [\A j \in Jobs :
           files[j]["hmr4d_results"] = "absent" /\ files'[j]["hmr4d_results"] # "absent"
             => /\ \A f \in Preprocess : files[j][f] # "partial"
                /\ files[j]["0_input_video"] = "whole"]_vars
  <2> SUFFICES ASSUME HostTyped, Watched, RendersOK, DataOK, [Next]_vars, NEW j \in Jobs,
                      files[j]["hmr4d_results"] = "absent",
                      files'[j]["hmr4d_results"] # "absent"
               PROVE  /\ \A f \in Preprocess : files[j][f] # "partial"
                      /\ files[j]["0_input_video"] = "whole"
    OBVIOUS
  <2>1. ~Untouched(j) /\ ~Removed(j)
    BY DEF Untouched, Removed, Empty, Files
  <2>2. Advanced(j) \/ Interrupted(j)
    BY <2>1, DiskEffect
  <2>3. stage[j] = PredictAt(request[j]) /\ Live(j) /\ j \in dirs
    <3>1. RendersFollow(files[j])
      BY DEF RendersOK
    <3> QED BY <2>2, <3>1, InStage, PredictionKept
  <2>4. PredictAt(request[j]) \in 2 .. PredictAt(request[j])
    BY DEF PredictAt
  <2> QED BY <2>3, <2>4 DEF DataOK
<1> QED BY <1>1, HostIsTyped, WatchedInvariant, RendersInvariant, DataInvariant, PTL
        DEF Spec, PredictionFromWholeData

-----------------------------------------------------------------------------
(* What is published.                                                        *)

\* Artifacts are collected from a process that ended well.
LEMMA Collecting ==
  ASSUME HostTyped, [Next]_vars, pc' = "collecting"
  PROVE  /\ job' = job /\ job \in Jobs
         /\ \/ pc = "collecting"
            \/ exitCode[job] = "ok" /\ UNCHANGED <<files, dirs>>
<1>1. \/ pc = "collecting" /\ job' = job
      \/ PollEnd
  BY DEF Next, vars, Elsewhere, DirectoryExpires, BridgeStep, BridgeCompletes, BridgeRaises,
     ThreadStep, FetchPayload, SetRunningJobId, ClaimJob, PrepareScratch, StartProcess,
     PollCancel, PollTimeout, ProcessStops, TerminateExpires, CollectArtifacts, ReportEnd, Start,
     PollRaises, KillExpires, Crash, ContainerStops, CleanupStep, CleanupBegins, CleanupRemoves,
     CleanupEnds, CleanupLooksAt, Goto
<1>2. CASE PollEnd
  BY <1>2 DEF PollEnd, Goto, diskVars, HostTyped, ThreadOK
<1> QED BY <1>1, <1>2 DEF HostTyped, ThreadOK

\* Every step keeps what a process has loaded whole.
LEMMA LoadedStep == HostTyped /\ Watched /\ RendersOK /\ LoadedOK /\ [Next]_vars => LoadedOK'
<1> DEFINE AtEnd(j) == exitCode[j] = "ok" => stage[j] = Len(ProgramOf(j)) + 1
           Whole(j) == files[j]["hmr4d_results"] = "whole" \/ j \notin dirs
           Loaded(j) == stage[j] > 0 /\ exitCode[j] \in {"none", "ok"} =>
                          \A n \in 1 .. stage[j] - 1 :
                            ProgramOf(j)[n] \in PredictionLoaders => Whole(j)
           Fit(j) == \/ files[j]["hmr4d_results"] # "partial"
                     \/ EnabledVideos(request[j]) \subseteq {"mesh_comparison"}
<1> SUFFICES ASSUME HostTyped, Watched, RendersOK, LoadedOK, [Next]_vars, NEW j \in Jobs
             PROVE  AtEnd(j)' /\ Loaded(j)' /\ (pc' = "collecting" /\ job' = j => Fit(j)')
  BY DEF LoadedOK
<1>1. AtEnd(j) /\ Loaded(j) /\ (pc = "collecting" /\ job = j => Fit(j))
  BY DEF LoadedOK
<1>2. /\ UNCHANGED request /\ ProgramOf(j)' = ProgramOf(j) /\ stage[j] \in Nat
      /\ exitCode[j] \in ExitCodes
  BY RequestKept DEF ProgramOf, HostTyped, ThreadOK
<1>3. /\ ProgramOf(j) = Program(request[j]) /\ Len(ProgramOf(j)) \in Nat
      /\ HasLoader(Program(request[j])) \/ EnabledVideos(request[j]) \subseteq {"mesh_comparison"}
  <2>1. Program(request[j]) \in Seq(Stages)
    BY ProgramShape DEF Extends
  <2> QED BY <2>1, ProgramIs, ProgramShape DEF HostTyped
<1>4. RendersFollow(files[j])
  BY DEF RendersOK
<1> HIDE DEF ProgramOf
<1>5. AtEnd(j)'
  BY <1>1, <1>2, DiskEffect
     DEF Advanced, Interrupted, Untouched, Removed, ProcessGoesOn, Halted, InProgram, Live
<1>6. Loaded(j)'
  <2>1. CASE Advanced(j)
    <3>1. /\ stage[j] \in 1 .. Len(Program(request[j])) /\ Live(j) /\ j \in dirs
          /\ stage'[j] = stage[j] + 1
      BY <2>1, InStage DEF Advanced
    <3>2. /\ files[j]["hmr4d_results"] = "whole" => files'[j]["hmr4d_results"] = "whole"
          /\ Program(request[j])[stage[j]] \in PredictionLoaders => files[j]["hmr4d_results"] = "whole"
      BY <1>4, <2>1, InStage, PredictionKept
    <3>3. ASSUME NEW n \in 1 .. stage'[j] - 1, ProgramOf(j)[n] \in PredictionLoaders
          PROVE  Whole(j)'
      <4>1. CASE n = stage[j]
        BY <1>3, <3>2, <3>3, <4>1
      <4>2. CASE n \in 1 .. stage[j] - 1
        BY <1>1, <3>1, <3>2, <3>3, <4>2 DEF Live
      <4> QED BY <1>2, <3>1, <4>1, <4>2
    <3> QED BY <1>2, <3>3
  <2>2. CASE Interrupted(j)
    BY <2>2 DEF Interrupted, Halted
  <2>3. CASE Untouched(j)
    <3>1. CASE Halted(j)'
      BY <3>1 DEF Halted
    <3>2. CASE stage'[j] = 1
      BY <3>2
    <3>3. CASE /\ stage'[j] = stage[j] /\ (j \in dirs' => j \in dirs \/ stage[j] = 0)
               /\ exitCode'[j] = exitCode[j] \/ exitCode[j] = "none"
      BY <1>1, <1>2, <2>3, <3>3 DEF Untouched
    <3> QED BY <2>3, <3>1, <3>2, <3>3 DEF Untouched, ProcessGoesOn
  <2>4. CASE Removed(j)
    BY <2>4 DEF Removed
  <2> QED BY <2>1, <2>2, <2>3, <2>4, DiskEffect
<1>7. ASSUME pc' = "collecting", job' = j PROVE Fit(j)'
  <2>1. CASE pc = "collecting"
    <3>1. job = j /\ Fit(j)
      BY <1>1, <1>7, <2>1, Collecting
    <3>2. stage[j] = 0
      <4>1. status[j] = "running"
        BY <2>1, <3>1 DEF Watched, Executing
      <4> QED BY <1>2, <2>1, <4>1 DEF Watched
    <3>3. Untouched(j) \/ Removed(j)
      BY <3>2, DiskEffect DEF Advanced, Interrupted, InProgram, Live
    <3> QED BY <1>2, <3>1, <3>3 DEF Untouched, Removed, Empty, Files
  <2>2. CASE pc # "collecting"
    <3>1. exitCode[j] = "ok" /\ files'[j] = files[j]
      BY <1>7, <2>2, Collecting
    <3>2. CASE EnabledVideos(request[j]) \subseteq {"mesh_comparison"}
      BY <1>2, <3>2
    <3>3. CASE HasLoader(Program(request[j]))
      <4>1. PICK n \in 1 .. Len(ProgramOf(j)) : ProgramOf(j)[n] \in PredictionLoaders
        BY <1>3, <3>3 DEF HasLoader
      <4>2. n \in 1 .. stage[j] - 1 /\ stage[j] > 0
        BY <1>1, <1>3, <3>1
      <4>3. Whole(j)
        BY <1>1, <3>1, <4>1, <4>2
      <4> QED BY <3>1, <4>3 DEF RendersOK, Empty, Files
    <3> QED BY <1>3, <3>2, <3>3
  <2> QED BY <2>1, <2>2
<1> QED BY <1>5, <1>6, <1>7

\* What is said of the data a program has loaded holds throughout.
LEMMA LoadedInvariant == Spec => []LoadedOK
<1>1. Init => LoadedOK
  BY DEF Init, LoadedOK
<1> QED BY <1>1, LoadedStep, HostIsTyped, WatchedInvariant, RendersInvariant, PTL DEF Spec

\* The job has a process, which would leave something half written if it
\* stopped now.
Exposed(j) ==
  /\ stage[j] > 0
  /\ \/ status[j] = "failed"
     \/ /\ status[j] = "running" /\ job = j
        /\ pc \in {"polling", "terminating", "killing", "reporting"}
        /\ pc = "reporting" => why = "algorithm_failure"

\* What is broken now was broken before or breaks in this step.
LEMMA BrokenBy ==
  ASSUME HostTyped, Watched, BrokenFails, [Next]_vars, NEW j \in Jobs, retries[j] = 0, Broken(files'[j])
  PROVE  Failing(j) \/ (Exposed(j) /\ InProgram(j) /\ Interrupted(j))
<1>1. CASE Broken(files[j])
  BY <1>1 DEF BrokenFails
<1>2. CASE ~Broken(files[j])
  <2>1. ~Untouched(j) /\ ~Removed(j)
    BY <1>2 DEF Untouched, Removed, Empty, Broken
  <2>2. ~Advanced(j)
    <3>1. ASSUME Advanced(j) PROVE FALSE
      <4>1. \A f \in Files : files'[j][f] # "partial"
        BY <1>2, <3>1, InStage, WholeFromWhole DEF Broken
      <4> QED BY <4>1 DEF Broken
    <3> QED BY <3>1
  <2>3. Interrupted(j)
    BY <2>1, <2>2, DiskEffect
  <2>4. InProgram(j) /\ stage[j] > 0
    BY <2>3 DEF Interrupted, InProgram, Live
  <2>5. Exposed(j)
    BY <2>4 DEF Watched, Exposed, Executing
  <2> QED BY <2>3, <2>4, <2>5
<1> QED BY <1>1, <1>2

\* Nothing makes the number of retries of a job zero again.
LEMMA RetriesKept ==
  ASSUME HostTyped, [Next]_vars, NEW j \in Jobs, retries'[j] = 0
  PROVE  retries[j] = 0
<1>1. RowsOK /\ UNCHANGED request
  BY RequestKept DEF HostTyped
<1>2. CASE UNCHANGED jobVars
  BY <1>2 DEF jobVars
<1>3. ASSUME NEW i \in Jobs, Elsewhere(i) PROVE retries[j] = 0
  <2>1. CASE OfflineRecovery(i)
    <3>1. FailOrRetry(i, TRUE, "failed")
      BY <2>1 DEF OfflineRecovery
    <3>2. /\ \A k \in Jobs \ {i} : retries'[k] = retries[k]
          /\ retries'[i] > 0 \/ retries'[i] = retries[i]
      BY <1>1, <3>1, FailKeepsRows
    <3> QED BY <3>2
  <2> QED BY <1>3, <2>1 DEF Elsewhere, AssignHere, EndElsewhere, ClaimTimeout, UserCancels
<1>4. CASE ClaimJob
  BY <1>4 DEF ClaimJob
<1>5. CASE ReportEnd
  <2>1. job \in Jobs
    BY <1>5 DEF ReportEnd, HostTyped, ThreadOK
  <2>2. \/ UNCHANGED retries
        \/ FailOrRetry(job, FALSE, "canceled")
        \/ FailOrRetry(job, why = "infra_transient", "failed")
    BY <1>5 DEF ReportEnd
  <2>3. \/ UNCHANGED retries
        \/ /\ \A k \in Jobs \ {job} : retries'[k] = retries[k]
           /\ retries'[job] > 0 \/ retries'[job] = retries[job]
    <3>1. CASE FailOrRetry(job, FALSE, "canceled")
      BY <1>1, <2>1, <3>1, FailKeepsRows
    <3>2. CASE FailOrRetry(job, why = "infra_transient", "failed")
      BY <1>1, <2>1, <3>2, FailKeepsRows
    <3> QED BY <2>2, <3>1, <3>2
  <2> QED BY <2>1, <2>3
<1> QED BY <1>2, <1>3, <1>4, <1>5, RowsKept DEF RowStep

\* Every step keeps broken files to failing jobs.
LEMMA BrokenStep ==
  HostTyped /\ Watched /\ BrokenFails /\ [Next]_vars => BrokenFails'
<1> SUFFICES ASSUME HostTyped, Watched, BrokenFails, [Next]_vars, NEW j \in Jobs,
                    retries'[j] = 0, Broken(files'[j])
             PROVE  Failing(j)'
  BY DEF BrokenFails
<1>1. retries[j] = 0
  BY RetriesKept
<1>2. Failing(j) \/ (Exposed(j) /\ InProgram(j) /\ Interrupted(j))
  BY <1>1, BrokenBy
<1>3. /\ status \in [Jobs -> JobStates] /\ mine \in [Jobs -> BOOLEAN] /\ RowsOK
      /\ stage \in [Jobs -> Nat] /\ exitCode \in [Jobs -> ExitCodes]
      /\ job \in Jobs \union {NoJob} /\ (job = NoJob <=> pc \in {"idle", "down"})
  BY DEF HostTyped, RowsOK, ThreadOK
<1>4. /\ status[j] \in {"scheduled", "running"} => mine[j]
      /\ pc \in {"fetched", "holding"} /\ mine[job] => status[job] \in {"scheduled", "canceled"}
      /\ Executing => status[job] = "running"
      /\ pc # "reporting" => why # "succeeded"
  BY DEF Watched
<1>5. CASE Failing(j) /\ UNCHANGED <<status, pc, job, why, exitCode>>
  BY <1>5 DEF Failing
<1>6. ASSUME NEW i \in Jobs, Elsewhere(i) PROVE Failing(j)'
  <2>1. UNCHANGED <<pc, job, why, stage, exitCode, files, dirs>>
    BY <1>6 DEF Elsewhere, processVars, diskVars
  <2>2. ~Interrupted(j)
    BY <2>1 DEF Interrupted, InProgram, Live, Halted
  <2>3. Failing(j)
    BY <1>2, <2>2
  <2>4. CASE AssignHere(i) \/ EndElsewhere(i) \/ ClaimTimeout(i)
    BY <1>3, <2>1, <2>3, <2>4 DEF AssignHere, EndElsewhere, ClaimTimeout, Failing
  <2>5. CASE UserCancels(i)
    BY <1>3, <2>1, <2>3, <2>5 DEF UserCancels, Failing
  <2>6. CASE OfflineRecovery(i)
    <3>1. /\ FailOrRetry(i, TRUE, "failed") /\ UNCHANGED request /\ pc = "down"
          /\ status[i] \in {"scheduled", "running"}
      BY <2>6 DEF OfflineRecovery, Active
    <3>2. /\ \A k \in Jobs \ {i} : status'[k] = status[k]
          /\ (status'[i] = "queued" /\ retries'[i] > 0) \/ status'[i] = "failed"
      BY <1>3, <3>1, FailKeepsRows
    <3> QED BY <2>1, <2>3, <3>2 DEF Failing
  <2> QED BY <1>6, <2>4, <2>5, <2>6 DEF Elsewhere
<1>7. ASSUME ContainerStops, UNCHANGED status PROVE Failing(j)'
  BY <1>2, <1>3, <1>7 DEF ContainerStops, Goto, Failing, Exposed
<1>8. CASE Crash
  BY <1>7, <1>8 DEF Crash, jobVars
<1>9. CASE ReportEnd
  <2>1. job \in Jobs /\ pc = "reporting" /\ status[job] = "running" /\ job # NoJob
    BY <1>3, <1>4, <1>9 DEF ReportEnd, Executing
  <2>2. pc' \in {"idle", "down"}
    BY <1>9 DEF ReportEnd, ContainerStops, Goto
  <2>3. CASE j = job
    <3>1. why # "succeeded"
      BY <1>2, <2>1, <2>3 DEF Failing, Exposed
    <3>2. /\ UNCHANGED request
          /\ FailOrRetry(job, FALSE, "canceled") \/ FailOrRetry(job, why = "infra_transient", "failed")
      BY <1>9, <3>1 DEF ReportEnd
    <3>3. (status'[j] = "queued" /\ retries'[j] > 0) \/ status'[j] \in {"failed", "canceled"}
      BY <1>3, <2>1, <2>3, <3>2, FailKeepsRows
    <3> QED BY <2>2, <3>3 DEF Failing
  <2>4. CASE j # job
    <3>1. status'[j] = status[j]
      BY <1>3, <1>9, <2>1, <2>4 DEF ReportEnd, FailOrRetry
    <3> QED BY <1>2, <2>1, <2>2, <2>4, <3>1 DEF Failing, Exposed
  <2> QED BY <2>3, <2>4
<1>10. CASE ProcessStops
  <2>1. /\ pc \in {"terminating", "killing"} /\ pc' = "reporting"
        /\ UNCHANGED <<job, why, status>>
    BY <1>10 DEF ProcessStops, Goto, jobVars
  <2> QED BY <1>2, <1>4, <2>1 DEF Failing, Exposed
<1>11. ASSUME NEW i \in Jobs, BridgeRaises(i) PROVE Failing(j)'
  <2>1. /\ InProgram(i) /\ UNCHANGED <<pc, job, why, status, stage>>
        /\ \E code \in {"cuda", "asset", "other"} : exitCode' = [exitCode EXCEPT ![i] = code]
    BY <1>11 DEF BridgeRaises, jobVars
  <2>2. exitCode'[j] = exitCode[j] \/ exitCode'[j] \in {"cuda", "asset", "other"}
    BY <1>3, <2>1
  <2>3. CASE Failing(j)
    BY <2>1, <2>2, <2>3 DEF Failing
  <2>4. CASE Exposed(j) /\ Interrupted(j)
    <3>1. exitCode'[j] \in {"cuda", "asset", "other"}
      BY <2>1, <2>4 DEF Interrupted, Halted, Exposed, InProgram, Live
    <3> QED BY <2>1, <2>4, <3>1 DEF Exposed, Failing
  <2> QED BY <1>2, <2>3, <2>4
<1>12. ASSUME stage'[j] = stage[j] /\ exitCode'[j] = exitCode[j] PROVE Failing(j)
  BY <1>2, <1>12 DEF Interrupted, InProgram, Live, Halted
<1>13. ASSUME NEW i \in Jobs, BridgeStep(i) \/ BridgeCompletes(i) PROVE Failing(j)'
  <2>1. /\ Live(i) /\ UNCHANGED <<status, pc, job, why>>
        /\ exitCode' = exitCode \/ exitCode' = [exitCode EXCEPT ![i] = "ok"]
    BY <1>13 DEF BridgeStep, BridgeCompletes, InProgram, jobVars
  <2>2. ~Interrupted(j)
    <3>1. exitCode'[j] \in {exitCode[j], "ok"}
      BY <1>3, <2>1
    <3>2. stage'[j] = stage[j] \/ stage'[j] = stage[j] + 1
      BY <1>3, <1>13 DEF BridgeStep, BridgeCompletes
    <3> QED BY <1>3, <3>1, <3>2 DEF Interrupted, Halted, InProgram, Live
  <2>3. exitCode'[j] = exitCode[j] \/ exitCode[j] = "none"
    BY <1>3, <2>1 DEF Live
  <2> QED BY <1>2, <2>1, <2>2, <2>3 DEF Failing, Live
<1>14. CASE PollEnd
  <2>1. /\ pc = "polling" /\ UNCHANGED <<job, status, files, dirs>> /\ job \in Jobs
        /\ \/ exitCode[job] = "ok" /\ pc' = "collecting"
           \/ pc' = "reporting" /\ why' = CategoryOf(exitCode[job])
    BY <1>3, <1>14 DEF PollEnd, Goto, jobVars, diskVars
  <2>2. CategoryOf(exitCode[job]) # "succeeded"
    BY DEF CategoryOf
  <2>3. ~Interrupted(j)
    <3>1. j = job \/ (stage'[j] = stage[j] /\ exitCode'[j] = exitCode[j])
      BY <1>3, <1>14 DEF PollEnd, Reap
    <3>2. exitCode[job] # "none"
      BY <1>14 DEF PollEnd
    <3> QED BY <3>1, <3>2 DEF Interrupted, Halted, InProgram, Live
  <2> QED BY <1>2, <2>1, <2>2, <2>3 DEF Failing
<1>15. CASE StartProcess
  <2>1. /\ pc = "prepared" /\ UNCHANGED <<job, status, files>> /\ job \in Jobs
        /\ \/ stage'[j] = 1 /\ exitCode'[j] = "none"
           \/ stage'[j] = stage[j] /\ exitCode'[j] = exitCode[j]
    BY <1>3, <1>15 DEF StartProcess, jobVars, processVars
  <2>2. pc' \in {"polling", "reporting"}
    BY <1>15 DEF StartProcess, Goto
  <2>3. ~Interrupted(j)
    BY <2>1 DEF Interrupted, Halted, InProgram, Live
  <2> QED BY <1>2, <2>1, <2>2, <2>3 DEF Failing
<1>16. CASE ClaimJob
  <2>1. pc = "holding" /\ job \in Jobs /\ UNCHANGED <<exitCode, stage>>
        /\ pc' \in {"claimed", "idle"} /\ job' \in {job, NoJob}
    BY <1>3, <1>16 DEF ClaimJob, Goto, processVars
  <2>2. Failing(j) /\ status[j] \in {"failed", "canceled"}
    BY <1>3, <1>12, <2>1 DEF Failing
  <2>3. status'[j] = status[j]
    <3>1. j = job /\ mine[job] => FALSE
      BY <1>4, <2>1, <2>2 DEF Failing
    <3> QED BY <1>3, <1>16, <3>1 DEF ClaimJob
  <2> QED BY <2>1, <2>2, <2>3 DEF Failing
<1>17. ASSUME NEW i \in Jobs, FetchPayload(i) PROVE Failing(j)'
  <2>1. /\ pc = "idle" /\ status[i] = "scheduled" /\ pc' = "fetched" /\ job' = i
        /\ UNCHANGED <<status, exitCode, stage>>
    BY <1>17 DEF FetchPayload, Goto, jobVars, processVars
  <2> QED BY <1>3, <1>12, <2>1 DEF Failing
<1>18. CASE SetRunningJobId \/ PrepareScratch \/ CollectArtifacts
  <2>1. /\ \/ pc = "fetched" /\ pc' = "holding"
           \/ pc \in {"claimed", "collecting"} /\ pc' \in {"prepared", "reporting"}
        /\ UNCHANGED <<status, exitCode, stage, job>>
    BY <1>18 DEF SetRunningJobId, PrepareScratch, CollectArtifacts, Goto, jobVars, processVars
  <2> QED BY <1>3, <1>12, <2>1 DEF Failing
<1>19. CASE PollCancel \/ PollTimeout \/ PollRaises
  <2>1. pc = "polling" /\ exitCode[job] = "none" /\ UNCHANGED <<status, exitCode, stage, job>>
        /\ pc' \in {"terminating", "reporting"}
    BY <1>19 DEF PollCancel, PollTimeout, PollRaises, Live, Goto, jobVars, processVars
  <2> QED BY <1>3, <1>12, <2>1 DEF Failing
<1>20. CASE TerminateExpires \/ KillExpires
  <2>1. /\ pc \in {"terminating", "killing"} /\ UNCHANGED <<status, exitCode, stage, job>>
        /\ pc' = "killing" \/ (pc' = "reporting" /\ why' = "algorithm_failure")
    BY <1>20 DEF TerminateExpires, KillExpires, Goto, jobVars, processVars
  <2> QED BY <1>3, <1>12, <2>1 DEF Failing
<1>21. CASE Start
  <2>1. pc = "down" /\ ~Active(j) /\ UNCHANGED <<status, exitCode, stage, job>> /\ pc' = "idle"
    BY <1>21 DEF Start, Goto, jobVars, processVars
  <2>2. status[j] # "running"
    BY <1>4, <2>1 DEF Active
  <2> QED BY <1>3, <1>12, <2>1, <2>2 DEF Failing
<1>22. ASSUME \/ \E i \in Jobs : DirectoryExpires(i)
              \/ CleanupStep \/ UNCHANGED vars
       PROVE  UNCHANGED <<status, pc, job, why, stage, exitCode>>
  BY <1>22 DEF DirectoryExpires, CleanupStep, CleanupBegins, CleanupRemoves, CleanupEnds,
     CleanupLooksAt, vars, jobVars, processVars
<1> QED BY <1>5, <1>6, <1>8, <1>9, <1>10, <1>11, <1>12, <1>13, <1>14, <1>15, <1>16, <1>17, <1>18,
           <1>19, <1>20, <1>21, <1>22 DEF Next, ThreadStep

\* A program that has met a broken file fails, throughout.
LEMMA BrokenInvariant == Spec => []BrokenFails
<1>1. Init => BrokenFails
  BY DEF Init, BrokenFails, Broken, Empty
<1> QED BY <1>1, BrokenStep, HostIsTyped, WatchedInvariant, PTL DEF Spec

\* A succeeded job whose row is this worker's.
Ours(j) == status[j] = "succeeded" /\ mine[j]

\* A job whose success is about to be reported.
Reported(j) == pc = "reporting" /\ why = "succeeded" /\ job = j

\* A job gets there by the collection of its artifacts only.
LEMMA PublishedBy ==
  ASSUME HostTyped, Watched, [Next]_vars, NEW j \in Jobs, Ours(j)' \/ Reported(j)'
  PROVE  \/ /\ Ours(j) \/ Reported(j)
            /\ retries'[j] = retries[j] /\ published'[j] = published[j]
         \/ /\ CollectArtifacts /\ job = j /\ Reported(j)'
<1>1. /\ status \in [Jobs -> JobStates] /\ mine \in [Jobs -> BOOLEAN] /\ RowsOK
      /\ published \in [Jobs -> Directories] /\ UNCHANGED request
      /\ job \in Jobs \union {NoJob} /\ (job = NoJob <=> pc \in {"idle", "down"})
  BY RequestKept DEF HostTyped, RowsOK, ThreadOK, DiskOK
<1>2. /\ status[j] = "queued" => ~mine[j]
      /\ Executing => status[job] = "running"
      /\ pc # "reporting" => why # "succeeded"
  BY DEF Watched
<1>3. CASE UNCHANGED <<status, mine, retries, pc, why, job, published>>
  BY <1>3 DEF Ours, Reported
<1>4. ASSUME NEW i \in Jobs, Elsewhere(i)
      PROVE  (Ours(j) \/ Reported(j)) /\ retries'[j] = retries[j] /\ published'[j] = published[j]
  <2>1. UNCHANGED <<pc, why, job, published>>
    BY <1>4 DEF Elsewhere
  <2>2. CASE AssignHere(i) \/ EndElsewhere(i) \/ ClaimTimeout(i)
    BY <1>1, <1>2, <2>1, <2>2 DEF AssignHere, EndElsewhere, ClaimTimeout, Ours, Reported
  <2>3. CASE UserCancels(i)
    BY <1>1, <2>1, <2>3 DEF UserCancels, Ours, Reported
  <2>4. CASE OfflineRecovery(i)
    <3>1. FailOrRetry(i, TRUE, "failed") /\ pc = "down"
      BY <2>4 DEF OfflineRecovery
    <3>2. /\ \A k \in Jobs \ {i} : status'[k] = status[k] /\ mine'[k] = mine[k]
                                   /\ retries'[k] = retries[k]
          /\ status'[i] \in {"queued", "failed"}
      BY <1>1, <3>1, FailKeepsRows
    <3> QED BY <2>1, <3>1, <3>2 DEF Ours, Reported
  <2> QED BY <1>4, <2>2, <2>3, <2>4 DEF Elsewhere
<1>5. ASSUME UNCHANGED jobVars, published'[j] = published[j], ~Reported(j)' \/ Reported(j)
      PROVE  (Ours(j) \/ Reported(j)) /\ retries'[j] = retries[j] /\ published'[j] = published[j]
  BY <1>5 DEF Ours, jobVars
<1>6. CASE ClaimJob
  <2>1. /\ job \in Jobs /\ pc' \in {"claimed", "idle"} /\ UNCHANGED <<mine, retries, published>>
        /\ status' = status \/ status' = [status EXCEPT ![job] = "running"]
    BY <1>1, <1>6 DEF ClaimJob, Goto
  <2> QED BY <1>1, <2>1 DEF Ours, Reported
<1>7. CASE ReportEnd
  <2>1. job \in Jobs /\ pc = "reporting" /\ pc' \in {"idle", "down"} /\ UNCHANGED published
    BY <1>1, <1>7 DEF ReportEnd, ContainerStops, Goto
  <2>2. CASE j # job
    <3>1. status'[j] = status[j] /\ mine'[j] = mine[j] /\ retries'[j] = retries[j]
      <4>1. retries \in [Jobs -> 0 .. MaxRetries]
        BY <1>1 DEF RowsOK
      <4> QED BY <1>1, <1>7, <2>1, <2>2, <4>1 DEF ReportEnd, FailOrRetry
    <3> QED BY <2>1, <3>1 DEF Ours, Reported
  <2>3. CASE j = job /\ why = "succeeded"
    <3>1. UNCHANGED retries
      BY <1>7, <2>3 DEF ReportEnd
    <3> QED BY <2>1, <2>3, <3>1 DEF Reported
  <2>4. CASE j = job /\ why # "succeeded"
    <3>1. FailOrRetry(job, FALSE, "canceled") \/ FailOrRetry(job, why = "infra_transient", "failed")
      BY <1>7, <2>4 DEF ReportEnd
    <3>2. status'[j] # "succeeded"
      BY <1>1, <2>1, <2>4, <3>1 DEF FailOrRetry
    <3> QED BY <2>1, <3>2 DEF Ours, Reported
  <2> QED BY <2>2, <2>3, <2>4
<1>8. CASE CollectArtifacts
  <2>1. /\ pc = "collecting" /\ job \in Jobs /\ status[job] = "running" /\ UNCHANGED <<jobVars, job>>
    BY <1>1, <1>2, <1>8 DEF CollectArtifacts, Executing
  <2>2. CASE j = job
    BY <1>8, <2>1, <2>2 DEF Ours, jobVars
  <2>3. CASE j # job
    <3>1. published'[j] = published[j]
      BY <1>1, <1>8, <2>1, <2>3 DEF CollectArtifacts
    <3> QED BY <1>5, <2>1, <2>3, <3>1 DEF Reported
  <2> QED BY <2>2, <2>3
<1>9. CASE PrepareScratch \/ StartProcess \/ PollEnd \/ PollCancel \/ PollTimeout \/ PollRaises
           \/ ProcessStops \/ TerminateExpires \/ KillExpires
  <2>1. UNCHANGED <<jobVars, job, published>>
    BY <1>9 DEF PrepareScratch, StartProcess, PollEnd, PollCancel, PollTimeout, PollRaises,
       ProcessStops, TerminateExpires, KillExpires
  <2>2. pc # "reporting" /\ (pc' # "reporting" \/ why' = why
          \/ why' \in Categories)
    BY <1>9 DEF PrepareScratch, StartProcess, PollEnd, PollCancel, PollTimeout, PollRaises,
       ProcessStops, TerminateExpires, KillExpires, Goto, CategoryOf, Categories
  <2>3. ~Reported(j)'
    BY <1>2, <2>2 DEF Reported, Categories
  <2> QED BY <1>5, <2>1, <2>3
<1>10. CASE (\E i \in Jobs : FetchPayload(i)) \/ SetRunningJobId \/ Start \/ Crash
  <2>1. UNCHANGED <<jobVars, published>> /\ pc' \in {"fetched", "holding", "idle", "down"}
    BY <1>10 DEF FetchPayload, SetRunningJobId, Start, Crash, ContainerStops, Goto
  <2> QED BY <1>5, <2>1 DEF Reported
<1>11. ASSUME \/ \E i \in Jobs : DirectoryExpires(i) \/ BridgeStep(i) \/ BridgeCompletes(i)
                                 \/ BridgeRaises(i)
              \/ CleanupStep \/ UNCHANGED vars
       PROVE  UNCHANGED <<status, mine, retries, pc, why, job, published>>
  BY <1>11 DEF DirectoryExpires, BridgeStep, BridgeCompletes, BridgeRaises, CleanupStep,
     CleanupBegins, CleanupRemoves, CleanupEnds, CleanupLooksAt, vars, jobVars
<1> QED BY <1>3, <1>4, <1>6, <1>7, <1>8, <1>9, <1>10, <1>11 DEF Next, ThreadStep

\* Every step keeps what succeeded jobs have published sound.
LEMMA PublishedStep ==
  HostTyped /\ Watched /\ LoadedOK /\ BrokenFails /\ PublishedFine /\ [Next]_vars => PublishedFine'
<1> SUFFICES ASSUME HostTyped, Watched, LoadedOK, BrokenFails, PublishedFine, [Next]_vars,
                    NEW j \in Jobs, Ours(j)' \/ Reported(j)'
             PROVE  PublishedOK(j)'
  BY DEF PublishedFine, Ours, Reported
<1>1. UNCHANGED request
  BY RequestKept
<1>2. CASE /\ Ours(j) \/ Reported(j)
           /\ retries'[j] = retries[j] /\ published'[j] = published[j]
  BY <1>1, <1>2 DEF PublishedFine, PublishedOK, Ours, Reported
<1>3. CASE CollectArtifacts /\ job = j /\ Reported(j)'
  <2>1. pc = "collecting" /\ status[j] = "running" /\ UNCHANGED retries
    BY <1>3 DEF CollectArtifacts, Watched, Executing, jobVars
  <2>2. published' = [published EXCEPT ![j] = files[j]] /\ published \in [Jobs -> Directories]
    BY <1>3 DEF CollectArtifacts, Reported, HostTyped, DiskOK
  <2>3. retries[j] = 0 => ~Broken(files[j])
    BY <2>1 DEF BrokenFails, Failing
  <2>4. files[j]["hmr4d_results"] = "partial" => EnabledVideos(request[j]) \subseteq {"mesh_comparison"}
    BY <1>3, <2>1 DEF LoadedOK
  <2>5. files[j]["hmr4d_results"] = "partial" => Broken(files[j])
    BY DEF Broken, Files
  <2>6. retries[j] \in Nat
    BY HostAssumption DEF HostTyped, RowsOK
  <2>7. published'[j] = files[j]
    BY <2>2
  <2> QED BY <1>1, <2>1, <2>3, <2>4, <2>5, <2>6, <2>7 DEF PublishedOK
<1> QED BY <1>2, <1>3, PublishedBy

\* What a succeeded job publishes is whole unless the job was retried on this
\* disk, and a truncated prediction only gets out when nothing was rendered
\* from it.
THEOREM ArtifactsAreWhole == Spec => []PublishedIsWhole
<1>1. Init => PublishedFine
  BY DEF Init, PublishedFine
<1>2. Spec => []PublishedFine
  BY <1>1, PublishedStep, HostIsTyped, WatchedInvariant, LoadedInvariant, BrokenInvariant, PTL
     DEF Spec
<1>3. PublishedFine => PublishedIsWhole
  BY DEF PublishedFine, PublishedOK, PublishedIsWhole, Broken
<1> QED BY <1>2, <1>3, PTL
=============================================================================
