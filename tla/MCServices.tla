----------------------------- MODULE MCServices -----------------------------
(***************************************************************************)
(* Small instances of WorkerHost, DispatchQueue, StoreTransactions and     *)
(* WorkerIdentity for TLC, side by side: the four share no state, and a    *)
(* behaviour is one of the one that part names, the others staying as they *)
(* are initially.                                                          *)
(***************************************************************************)
EXTENDS WorkerHost, DispatchQueue, StoreTransactions, WorkerIdentity

CONSTANTS j1, j2, c1, c2, c3

VARIABLE part

-----------------------------------------------------------------------------
(* The worker host.                                                          *)

\* A moving camera and one rendered video.
Mesh == [static_camera |-> FALSE, use_dpvo |-> FALSE, f_mm |-> 0,
         video_render |-> TRUE, video_type |-> <<"mesh_incam">>]

\* A static camera and two videos.
Skeletons == [Mesh EXCEPT !.static_camera = TRUE, !.video_type = <<"skeleton_incam", "skeleton_only">>]

\* One job is enough: directories and rows are the job's own, and for the
\* cleanup another job in execution is no job in execution.
MCRequestsOf == [j \in Jobs |-> {Mesh, Skeletons}]

-----------------------------------------------------------------------------
(* The dispatch queue: the jobs of one batch, a normal and a high one.       *)

MCJobsOf == [r \in Submissions |-> <<j1, j2>>]

MCPriorityOf == [j \in QueueJobs |-> IF j = j1 THEN "normal" ELSE "high"]

-----------------------------------------------------------------------------
(* Worker identities: c2 has the slot of c1, c3 has its id.                  *)

MCIdOf == [c \in Containers |-> IF c = c2 THEN "b" ELSE "a"]

MCSlotOf == [c \in Containers |-> IF c = c3 THEN "gpu1" ELSE "gpu0"]

-----------------------------------------------------------------------------
partVars == <<part, vars, queueVars, txVars, identityVars>>

ServicesInit ==
  /\ Init /\ QueueInit /\ TxInit /\ IdentityInit
  /\ \/ part = "host"
     \/ part \in {"queue", "store", "identity"} /\ \A j \in Jobs : request[j] = Skeletons

ServicesNext ==
  \/ part = "host"     /\ Next         /\ UNCHANGED <<part, queueVars, txVars, identityVars>>
  \/ part = "queue"    /\ QueueNext    /\ UNCHANGED <<part, vars, txVars, identityVars>>
  \/ part = "store"    /\ TxNext       /\ UNCHANGED <<part, vars, queueVars, identityVars>>
  \/ part = "identity" /\ IdentityNext /\ UNCHANGED <<part, vars, queueVars, txVars>>

\* What the four modules assume, of the one that moves.
ServicesFairness ==
  /\ WF_vars(part = "host" /\ ThreadStep)
  /\ WF_vars(part = "host" /\ CleanupStep)
  /\ \A j \in Jobs : WF_vars(part = "host" /\ DirectoryExpires(j))
                       /\ WF_vars(part = "host" /\ OfflineRecovery(j) /\ Elsewhere(j))
  /\ \A r \in Submissions : WF_queueVars(part = "queue" /\ RunCommand(r))
  /\ WF_queueVars(part = "queue" /\ SchedulerStep)
  /\ \A w \in Workers : WF_queueVars(part = "queue" /\ WorkerStep(w))
  /\ \A j \in QueueJobs : WF_queueVars(part = "queue" /\ RetryDelayElapses(j))
  /\ SF_queueVars(part = "queue" /\ \E j \in QueueJobs : ClaimTimeoutOf(j))
  /\ \A p \in Processes : WF_txVars(part = "store" /\ Commit(p))
  /\ []<>(part = "store" => Polling) /\ []<>(part = "store" => Beating)
  /\ []<>(part = "store" => thread = "idle")
  /\ \A c \in Containers : WF_identityVars(part = "identity" /\ EnsureIdentityAvailable(c))
  /\ \A i \in WorkerIds : WF_identityVars(part = "identity" /\ Unattended(i) /\ RowAges(i))

ServicesSpec == ServicesInit /\ [][ServicesNext]_partVars /\ ServicesFairness
=============================================================================
