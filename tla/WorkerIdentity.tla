---------------------------- MODULE WorkerIdentity ----------------------------
(***************************************************************************)
(* Who may run on a GPU: the check a worker makes when it starts           *)
(* (ensure_worker_identity_available), the row it registers in another     *)
(* transaction, and the heartbeats, which check nothing.  Several          *)
(* containers may be deployed, by mistake or to replace one another, with  *)
(* one worker_id or with one GPU slot.                                     *)
(*                                                                         *)
(* A slot stands for node_name and gpu_slot.  A row is late once it is     *)
(* older than the scheduler's offline cutoff (15 s), and stale once it is  *)
(* older than identity_stale_after_seconds (30 s).                         *)
(*                                                                         *)
(* Foo_Bar is Foo with a mistake.                                          *)
(***************************************************************************)
EXTENDS Naturals

CONSTANTS Containers,
          IdOf, SlotOf,  \* their settings
          NoSlot

ASSUME IdentityAssumption == \A c \in Containers : SlotOf[c] # NoSlot

VARIABLES
  registry,  \* worker_heartbeats: per worker_id slot, age and whether it is OFFLINE
  boot,      \* per container: how far it has come
  slack      \* history: two rivals started at once, or the row of a container in use was late

identityVars == <<registry, boot, slack>>

WorkerIds == {IdOf[c] : c \in Containers}

\* As good as no row at all.
NoRow == [slot |-> NoSlot, age |-> "stale", offline |-> FALSE]

IdentityInit ==
  /\ registry = [i \in WorkerIds |-> NoRow]
  /\ boot = [c \in Containers |-> "down"]
  /\ slack = FALSE

\* Containers that share an id or a slot; those that share both are one worker
\* deployed twice, which the check does not tell from a restart.
Rivals(c) == {d \in Containers : (IdOf[d] = IdOf[c]) # (SlotOf[d] = SlotOf[c])}

\* Its heartbeat loop may be gone while its thread still uses the GPU.
InUse(c) == boot[c] \in {"up", "executingOnly"}

Boots(c, next) == boot' = [boot EXCEPT ![c] = next]

-----------------------------------------------------------------------------
(* Start, heartbeats and end of a worker.                                    *)

Online(i) == registry[i].age # "stale" /\ ~registry[i].offline

IdentityAvailable_AnyAge(c) ==
  /\ registry[IdOf[c]].slot \in {NoSlot, SlotOf[c]}
  /\ \A i \in WorkerIds \ {IdOf[c]} : registry[i].slot # SlotOf[c]

IdentityAvailable_IdOnly(c) == Online(IdOf[c]) => registry[IdOf[c]].slot = SlotOf[c]

IdentityAvailable(c) ==
  /\ Online(IdOf[c]) => registry[IdOf[c]].slot = SlotOf[c]
  /\ \A i \in WorkerIds \ {IdOf[c]} : Online(i) => registry[i].slot # SlotOf[c]

\* A container that is refused exits and is started again.
EnsureIdentityAvailable(c) ==
  /\ boot[c] = "down"
  /\ IdentityAvailable(c)
  /\ Boots(c, "checked")
  /\ slack' = (slack \/ \E d \in Rivals(c) : boot[d] = "checked")
  /\ UNCHANGED registry

\* upsert_worker_heartbeat, as far as identities go.
WriteRow(c) ==
  registry' = [registry EXCEPT ![IdOf[c]] =
                 [slot |-> SlotOf[c], age |-> "fresh", offline |-> FALSE]]

RegisterWorker(c) ==
  /\ boot[c] = "checked"
  /\ Boots(c, "up")
  /\ WriteRow(c)
  /\ UNCHANGED slack

BeatOf(c) == boot[c] = "up" /\ WriteRow(c) /\ UNCHANGED <<boot, slack>>

\* The clock skew is too large, or anything else ends the process.
ContainerExits(c) == boot[c] # "down" /\ Boots(c, "down") /\ UNCHANGED <<registry, slack>>

\* A heartbeat raises: the process ends only after the thread that executes.
BeatFails(c) == boot[c] = "up" /\ Boots(c, "executingOnly") /\ UNCHANGED <<registry, slack>>

-----------------------------------------------------------------------------
(* Time, and the scheduler.                                                  *)

Older == [fresh |-> "late", late |-> "stale"]

RowAges(i) ==
  /\ registry[i].age \in DOMAIN Older
  /\ registry' = [registry EXCEPT ![i].age = Older[@]]
  /\ slack' = (slack \/ \E c \in Containers : IdOf[c] = i /\ InUse(c))
  /\ UNCHANGED boot

Unattended(i) == \A c \in Containers : IdOf[c] = i => boot[c] # "up"

\* mark_stale_workers_offline.
MarkRowOffline(i) ==
  /\ registry[i].slot # NoSlot /\ registry[i].age # "fresh" /\ ~registry[i].offline
  /\ registry' = [registry EXCEPT ![i].offline = TRUE]
  /\ UNCHANGED <<boot, slack>>

-----------------------------------------------------------------------------
IdentityNext ==
  \/ \E c \in Containers : \/ EnsureIdentityAvailable(c) \/ RegisterWorker(c)
                           \/ BeatOf(c) \/ BeatFails(c) \/ ContainerExits(c)
  \/ \E i \in WorkerIds : RowAges(i) \/ MarkRowOffline(i)

IdentitySpec == IdentityInit /\ [][IdentityNext]_identityVars

\* Containers that exit are started again, and what nobody writes grows old.
IdentityFairness ==
  /\ \A c \in Containers : WF_identityVars(EnsureIdentityAvailable(c))
  /\ \A i \in WorkerIds : WF_identityVars(Unattended(i) /\ RowAges(i))

IdentityFairSpec == IdentitySpec /\ IdentityFairness

-----------------------------------------------------------------------------
(* What the check is worth.                                                  *)

\* Two containers never use one GPU slot or one worker_id at once, although
\* check and registration are two transactions and heartbeats check nothing,
\* unless rivals once started at the same time or a container in use had
\* fallen silent.
IdentityIsExclusive ==
  ~slack => \A c \in Containers : InUse(c) => \A d \in Rivals(c) : ~InUse(d)

\* A worker that is gone does not lock its slot or its id for ever: again and
\* again every container that is down is welcome, unless a rival runs.
SlotIsNotLocked ==
  []<>(\A c \in Containers :
         boot[c] = "down" => IdentityAvailable(c) \/ \E d \in Rivals(c) : boot[d] # "down")
=============================================================================
