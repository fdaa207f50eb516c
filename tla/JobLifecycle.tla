---------------------------- MODULE JobLifecycle ----------------------------
(***************************************************************************)
(* What a client sees of each job on its own: the jobs.status column as    *)
(* the methods of the store move it, and the retry rule, without workers,  *)
(* queues or messages.  One step may move several jobs, because one        *)
(* recovery pass does.                                                     *)
(***************************************************************************)
EXTENDS Naturals

CONSTANTS Jobs, MaxRetries

VARIABLES
  status,   \* the status shown for each job
  retries   \* the automatic retries used up

Status == {"absent", "queued", "scheduled", "running", "succeeded", "failed", "canceled"}

Init ==
  /\ status  = [j \in Jobs |-> "absent"]
  /\ retries = [j \in Jobs |-> 0]

\* Job j moves from one of the states in From to the state to.
Edge(j, From, to) == status[j] \in From /\ status'[j] = to

Submit(j)       == Edge(j, {"absent"}, "queued")
Schedule(j)     == Edge(j, {"queued"}, "scheduled")
ClaimTimeout(j) == Edge(j, {"scheduled"}, "queued")
Begin(j)        == Edge(j, {"scheduled"}, "running")
Cancel(j)       == Edge(j, {"queued", "scheduled", "running"}, "canceled")
Fail(j)         == Edge(j, {"scheduled", "running"}, "failed")
Succeed(j)      == Edge(j, {"running"}, "succeeded")
Rest(j)         == status'[j] = status[j]

AutoRetry(j) ==
  /\ Edge(j, {"scheduled", "running"}, "queued")
  /\ retries[j] < MaxRetries
  /\ retries'[j] = retries[j] + 1

Uncharged(j) ==
  /\ \/ Submit(j) \/ Schedule(j) \/ ClaimTimeout(j) \/ Begin(j)
     \/ Cancel(j) \/ Fail(j) \/ Succeed(j) \/ Rest(j)
  /\ retries'[j] = retries[j]

Next ==
  /\ status' \in [Jobs -> Status]
  /\ retries' \in [Jobs -> Nat]
  /\ \A j \in Jobs : AutoRetry(j) \/ Uncharged(j)

Spec == Init /\ [][Next]_<<status, retries>>
=============================================================================
