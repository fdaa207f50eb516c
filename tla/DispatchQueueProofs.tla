------------------------- MODULE DispatchQueueProofs -------------------------
(***************************************************************************)
(* The Redis structures of the dispatch queue, for any number of jobs,     *)
(* workers, submissions and faults.                                        *)
(***************************************************************************)
EXTENDS DispatchQueue, FiniteSetTheorems, TLAPS

-----------------------------------------------------------------------------
(* The elements of a sequence.                                               *)

\* The elements by index.
LEMMA ElementsByIndex ==
  ASSUME NEW S, NEW s \in Seq(S)
  PROVE  ToSet(s) = {s[i] : i \in 1 .. Len(s)}
<1>1. DOMAIN s = 1 .. Len(s)
  OBVIOUS
<1> QED BY <1>1 DEF ToSet

\* The elements of a sequence are what the sequence is over.
LEMMA ElementsTyped ==
  ASSUME NEW S, NEW s \in Seq(S)
  PROVE  ToSet(s) \subseteq S
  BY DEF ToSet

\* An empty sequence has none.
LEMMA ElementsOfEmpty == ToSet(<<>>) = {}
  BY DEF ToSet

\* A sequence of one.
LEMMA ElementsOfOne ==
  ASSUME NEW x
  PROVE  ToSet(<<x>>) = {x}
  BY DEF ToSet

\* Appending adds one at the end.
LEMMA AppendByIndex ==
  ASSUME NEW S, NEW s \in Seq(S), NEW x \in S
  PROVE  /\ Append(s, x) \in Seq(S) /\ Len(Append(s, x)) = Len(s) + 1
         /\ \A i \in 1 .. Len(s) : Append(s, x)[i] = s[i]
         /\ Append(s, x)[Len(s) + 1] = x
  OBVIOUS

\* Appending adds one element.
LEMMA ElementsOfAppend ==
  ASSUME NEW S, NEW s \in Seq(S), NEW x \in S
  PROVE  Append(s, x) \in Seq(S) /\ ToSet(Append(s, x)) = ToSet(s) \union {x}
  BY AppendByIndex DEF ToSet

\* Concatenation unites.
LEMMA ElementsOfConcat ==
  ASSUME NEW S, NEW s \in Seq(S), NEW t \in Seq(S)
  PROVE  s \o t \in Seq(S) /\ ToSet(s \o t) = ToSet(s) \union ToSet(t)
<1>1. s \o t \in Seq(S) /\ Len(s \o t) = Len(s) + Len(t)
  OBVIOUS
<1>2. \A i \in 1 .. Len(s) : (s \o t)[i] = s[i]
  OBVIOUS
<1>3. \A i \in 1 .. Len(t) : (s \o t)[Len(s) + i] = t[i]
  OBVIOUS
<1>4. /\ ToSet(s) = {s[i] : i \in 1 .. Len(s)} /\ ToSet(t) = {t[i] : i \in 1 .. Len(t)}
      /\ ToSet(s \o t) = {(s \o t)[i] : i \in 1 .. Len(s) + Len(t)}
  BY <1>1, ElementsByIndex
<1>5. ASSUME NEW x \in ToSet(s \o t) PROVE x \in ToSet(s) \union ToSet(t)
  <2>1. PICK i \in 1 .. Len(s) + Len(t) : x = (s \o t)[i]
    BY <1>4
  <2>2. i \in 1 .. Len(s) \/ (i - Len(s) \in 1 .. Len(t) /\ i = Len(s) + (i - Len(s)))
    OBVIOUS
  <2> QED BY <1>2, <1>3, <1>4, <2>1, <2>2
<1>6. ASSUME NEW x \in ToSet(s) PROVE x \in ToSet(s \o t)
  BY <1>2, <1>4
<1>7. ASSUME NEW x \in ToSet(t) PROVE x \in ToSet(s \o t)
  <2>1. PICK i \in 1 .. Len(t) : x = t[i]
    BY <1>4
  <2>2. Len(s) + i \in 1 .. Len(s) + Len(t)
    OBVIOUS
  <2> QED BY <1>3, <1>4, <2>1, <2>2
<1>8. ToSet(s \o t) = ToSet(s) \union ToSet(t)
  BY <1>5, <1>6, <1>7
<1> QED BY <1>1, <1>8

\* An element in front.
LEMMA ElementsOfPush ==
  ASSUME NEW S, NEW s \in Seq(S), NEW x \in S
  PROVE  <<x>> \o s \in Seq(S) /\ ToSet(<<x>> \o s) = {x} \union ToSet(s)
<1>1. <<x>> \in Seq(S)
  OBVIOUS
<1>2. ToSet(<<x>>) = {x}
  BY ElementsOfOne
<1>3. <<x>> \o s \in Seq(S) /\ ToSet(<<x>> \o s) = ToSet(<<x>>) \union ToSet(s)
  BY <1>1, ElementsOfConcat, Zenon
<1> QED BY <1>2, <1>3

\* Head and tail divide a sequence.
LEMMA ElementsOfTail ==
  ASSUME NEW S, NEW s \in Seq(S), s # <<>>
  PROVE  /\ Tail(s) \in Seq(S) /\ Head(s) \in S
         /\ ToSet(s) = {Head(s)} \union ToSet(Tail(s))
<1>1. Tail(s) \in Seq(S) /\ Head(s) \in S /\ Len(Tail(s)) = Len(s) - 1 /\ Len(s) > 0
  OBVIOUS
<1>2. \A i \in 1 .. Len(s) - 1 : Tail(s)[i] = s[i + 1]
  OBVIOUS
<1>3. Head(s) = s[1]
  OBVIOUS
<1>4. ToSet(s) = {s[i] : i \in 1 .. Len(s)} /\ ToSet(Tail(s)) = {Tail(s)[i] : i \in 1 .. Len(s) - 1}
  BY <1>1, ElementsByIndex
<1>5. ASSUME NEW x \in ToSet(s) PROVE x = Head(s) \/ x \in ToSet(Tail(s))
  <2>1. PICK i \in 1 .. Len(s) : x = s[i]
    BY <1>4
  <2>2. i = 1 \/ (i - 1 \in 1 .. Len(s) - 1 /\ Tail(s)[i - 1] = s[i])
    BY <1>1, <1>2
  <2> QED BY <1>3, <1>4, <2>1, <2>2
<1>6. ASSUME NEW x \in ToSet(Tail(s)) PROVE x \in ToSet(s)
  BY <1>1, <1>2, <1>4
<1>7. Head(s) \in ToSet(s)
  BY <1>1, <1>3, <1>4
<1> QED BY <1>1, <1>5, <1>6, <1>7

\* The sequence made of a finite set has the elements of the set.
LEMMA ElementsOfSet ==
  ASSUME NEW S, IsFiniteSet(S)
  PROVE  SetToSeq(S) \in Seq(S) /\ ToSet(SetToSeq(S)) = S
<1> DEFINE n == Cardinality(S)
<1>1. n \in Nat /\ ExistsBijection(1 .. n, S)
  BY FS_CardinalityType
<1>2. PICK g \in Bijection(1 .. n, S) : TRUE
  BY <1>1 DEF ExistsBijection
<1>3. g \in [1 .. n -> S] /\ IsInjective(g)
  BY <1>2 DEF Bijection, Injection, IsInjective
<1>4. SetToSeq(S) \in [1 .. n -> S] /\ IsInjective(SetToSeq(S))
  BY <1>3 DEF SetToSeq
<1>5. SetToSeq(S) \in Injection(1 .. n, S)
  BY <1>4 DEF Injection, IsInjective
<1>6. IsFiniteSet(1 .. n) /\ Cardinality(1 .. n) = n
  BY <1>1, FS_Interval
<1>7. SetToSeq(S) \in Surjection(1 .. n, S)
  BY <1>5, <1>6, FS_Injection
<1>8. SetToSeq(S) \in Seq(S)
  BY <1>1, <1>4
<1> QED BY <1>4, <1>7, <1>8 DEF Surjection, ToSet

-----------------------------------------------------------------------------
(* The types of rows, Redis structures, scripts and local variables.         *)

JobOps == {"saddJob", "saddFront", "lpush", "srem"}

Commands ==
  [op : JobOps, job : QueueJobs, worker : {NoWorker}]
    \union [op : {"execute"}, job : {NoQueueJob}, worker : {NoWorker}]
    \union [op : {"saddIdle"}, job : {NoQueueJob}, worker : Workers]
    \union [op : {"push"}, job : QueueJobs, worker : Workers]

InOwnList(entries) == \A p \in Names : \A j \in ToSet(entries[p]) : PriorityOf[j] = p

\* SADD and LPUSH of one job stay together.
FrontThenPush(s) ==
  \A i \in DOMAIN s : s[i].op = "saddFront" =>
    i + 1 \in DOMAIN s /\ s[i + 1] = LpushJob(s[i].job)

\* The commands of a script that need no more.
Plain(s) == \A x \in ToSet(s) : x.op \in {"saddJob", "execute", "saddIdle", "srem"}

RowsOK ==
  /\ rowStatus \in [QueueJobs -> JobStatuses]
  /\ assigned \in [QueueJobs -> Workers \union {NoWorker}]
  /\ \A j \in QueueJobs :
       /\ rowStatus[j] \in {"scheduled", "running"} => assigned[j] # NoWorker
       /\ assigned[j] # NoWorker => rowStatus[j] \in {"scheduled", "running", "ended"}

RedisOK ==
  /\ enqueued \subseteq QueueJobs /\ idle \subseteq Workers
  /\ lists \in [Names -> Seq(QueueJobs)] /\ InOwnList(lists)
  /\ inbox \in [Workers -> Seq(QueueJobs)]

ScriptsOK ==
  /\ script \in [Clients -> Seq(Commands)]
  /\ pipe \in [Clients -> [Names -> Seq(QueueJobs)]]
  /\ \A c \in Clients : InOwnList(pipe[c])
  /\ \A r \in Submissions : \A x \in ToSet(script[r]) : x.op \in {"saddJob", "execute"}
  /\ FrontThenPush(script[Scheduler])

LocalsOK ==
  /\ phase \in Phases /\ reusable \subseteq Workers /\ level \in 1 .. 3
  /\ poppedWorker \in Workers \union {NoWorker} /\ popped \in QueueJobs \union {NoQueueJob}
  /\ phase \in {"popJob", "assign", "undo"} => poppedWorker \in Workers
  /\ phase \in {"assign", "undo"} => popped \in QueueJobs
  /\ \A x \in ToSet(script[Scheduler]) : x.op = "push" =>
       phase = "offering" \/ (phase = "popWorker" /\ x = PushJob(poppedWorker, popped))

WorkersOK ==
  /\ workerPc \in [Workers -> {"announcing", "waiting", "popped", "fetched", "claiming",
                               "running"}]
  /\ held \in [Workers -> QueueJobs \union {NoQueueJob}]
  /\ \A w \in Workers : workerPc[w] \in {"announcing", "waiting"} <=> held[w] = NoQueueJob

QueueTyped == RowsOK /\ RedisOK /\ ScriptsOK /\ LocalsOK /\ WorkersOK

\* Every command is one.
LEMMA CommandsTyped ==
  /\ \A j \in QueueJobs : {SaddJob(j), SaddFront(j), LpushJob(j), SremJob(j)} \subseteq Commands
  /\ \A w \in Workers : SaddIdle(w) \in Commands
  /\ \A w \in Workers, j \in QueueJobs : PushJob(w, j) \in Commands
  /\ Execute \in Commands
  BY DEF Commands, JobOps, SaddJob, SaddFront, LpushJob, SremJob, SaddIdle, PushJob, Execute, Command

\* What enqueue_jobs is going to issue.
LEMMA EnqueueScript ==
  ASSUME NEW js \in Seq(QueueJobs)
  PROVE  /\ EnqueueJobs(js) \in Seq(Commands)
         /\ \A x \in ToSet(EnqueueJobs(js)) : x.op \in {"saddJob", "execute"}
<1> DEFINE adds == [i \in DOMAIN js |-> SaddJob(js[i])]
<1>1. adds \in Seq(Commands)
  <2>1. \A i \in 1 .. Len(js) : SaddJob(js[i]) \in Commands
    BY CommandsTyped
  <2>2. adds \in [1 .. Len(js) -> Commands] /\ Len(js) \in Nat
    BY <2>1
  <2> QED BY <2>2
<1>2. \A x \in ToSet(adds) : x.op = "saddJob"
  BY DEF ToSet, SaddJob, Command
<1>3. <<Execute>> \in Seq(Commands) /\ \A x \in ToSet(<<Execute>>) : x.op = "execute"
  <2>1. ToSet(<<Execute>>) = {Execute}
    BY ElementsOfOne
  <2>2. Execute.op = "execute"
    BY DEF Execute, Command
  <2> QED BY <2>1, <2>2, CommandsTyped
<1> HIDE DEF adds
<1>4. EnqueueJobs(js) = adds \o <<Execute>>
  BY DEF EnqueueJobs, adds
<1>5. <<Execute>> \in Seq(Commands)
  BY <1>3
<1>6. /\ adds \o <<Execute>> \in Seq(Commands)
      /\ ToSet(adds \o <<Execute>>) = ToSet(adds) \union ToSet(<<Execute>>)
  BY <1>1, <1>5, ElementsOfConcat, Zenon
<1> QED BY <1>2, <1>3, <1>4, <1>6

\* What requeue_idle_worker is going to issue for some workers.
LEMMA IdleScript ==
  ASSUME NEW ws \in Seq(Workers)
  PROVE  /\ RequeueIdleWorkers(ws) \in Seq(Commands)
         /\ \A x \in ToSet(RequeueIdleWorkers(ws)) : x.op = "saddIdle"
<1>1. \A i \in 1 .. Len(ws) : SaddIdle(ws[i]) \in Commands
  BY CommandsTyped
<1>2. RequeueIdleWorkers(ws) \in [1 .. Len(ws) -> Commands] /\ Len(ws) \in Nat
  BY <1>1 DEF RequeueIdleWorkers
<1>3. RequeueIdleWorkers(ws) \in Seq(Commands)
  BY <1>2
<1> QED BY <1>3 DEF ToSet, SaddIdle, Command, RequeueIdleWorkers

\* What requeue_job_front is going to issue.
LEMMA FrontScript ==
  ASSUME NEW j \in QueueJobs, NEW w \in Workers
  PROVE  LET one == RequeueJobFront(j)
             two == Append(RequeueJobFront(j), SaddIdle(w))
         IN /\ one \in Seq(Commands) /\ two \in Seq(Commands)
            /\ FrontThenPush(one) /\ FrontThenPush(two)
            /\ \A x \in ToSet(one) \union ToSet(two) : x.op # "push"
<1> DEFINE one == RequeueJobFront(j)
           two == Append(RequeueJobFront(j), SaddIdle(w))
<1>1. /\ one \in Seq(Commands) /\ Len(one) = 2
      /\ one[1] = SaddFront(j) /\ one[2] = LpushJob(j)
  BY CommandsTyped DEF RequeueJobFront
<1> HIDE DEF one
<1>2. /\ two \in Seq(Commands) /\ Len(two) = 3
      /\ two[1] = SaddFront(j) /\ two[2] = LpushJob(j) /\ two[3] = SaddIdle(w)
  <2>1. SaddIdle(w) \in Commands /\ two = Append(one, SaddIdle(w))
    BY CommandsTyped DEF one
  <2> HIDE DEF two
  <2>2. two \in Seq(Commands) /\ Len(two) = Len(one) + 1 /\ two[Len(one) + 1] = SaddIdle(w)
    BY <1>1, <2>1, AppendByIndex
  <2>3. two[1] = one[1] /\ two[2] = one[2]
    BY <1>1, <2>1, AppendByIndex
  <2> QED BY <1>1, <2>2, <2>3
<1> HIDE DEF two
<1>3. SaddFront(j).op = "saddFront" /\ LpushJob(j).op = "lpush" /\ SaddIdle(w).op = "saddIdle"
  BY DEF SaddFront, LpushJob, SaddIdle, Command
<1>4. SaddFront(j).job = j
  BY DEF SaddFront, Command
<1>5. DOMAIN one = 1 .. 2 /\ DOMAIN two = 1 .. 3
  BY <1>1, <1>2
<1>6. FrontThenPush(one) /\ FrontThenPush(two)
  BY <1>1, <1>2, <1>3, <1>4, <1>5 DEF FrontThenPush
<1>7. \A x \in ToSet(one) \union ToSet(two) : x.op # "push"
  BY <1>1, <1>2, <1>3, <1>5 DEF ToSet
<1> QED BY <1>1, <1>2, <1>6, <1>7 DEF one, two

\* A listing of jobs is a sequence of them.
LEMMA InOrderTyped ==
  ASSUME NEW J \in SUBSET QueueJobs
  PROVE  SetToSeqs(J) \subseteq Seq(QueueJobs) /\ InOrder(J) \subseteq Seq(QueueJobs)
<1>1. Cardinality(J) \in Nat
  BY QueueAssumption, FS_Subset, FS_CardinalityType
<1>2. SetToSeqs(J) \subseteq [1 .. Cardinality(J) -> J]
  BY DEF SetToSeqs
<1>3. SetToSeqs(J) \subseteq Seq(QueueJobs)
  BY <1>1, <1>2
<1> QED BY <1>3 DEF InOrder

\* Redis starts empty, and no client has sent anything.
LEMMA TypedInit == QueueInit => QueueTyped
<1> SUFFICES ASSUME QueueInit PROVE QueueTyped
  OBVIOUS
<1>1. NoEntries \in [Names -> Seq(QueueJobs)] /\ InOwnList(NoEntries)
  BY ElementsOfEmpty DEF NoEntries, InOwnList
<1>2. RowsOK /\ RedisOK /\ WorkersOK
  BY <1>1, QueueAssumption DEF QueueInit, RowsOK, RedisOK, WorkersOK, JobStatuses
<1>3. \A c \in Clients : script[c] = <<>> /\ pipe[c] = NoEntries
  BY DEF QueueInit
<1>4. ScriptsOK
  <2>1. script \in [Clients -> Seq(Commands)] /\ pipe \in [Clients -> [Names -> Seq(QueueJobs)]]
    BY <1>1 DEF QueueInit
  <2>2. FrontThenPush(<<>>)
    BY DEF FrontThenPush
  <2> QED BY <1>1, <1>3, <2>1, <2>2, ElementsOfEmpty DEF ScriptsOK, Clients
<1>5. LocalsOK
  BY <1>3, ElementsOfEmpty DEF QueueInit, LocalsOK, Phases, Clients
<1> QED BY <1>2, <1>4, <1>5 DEF QueueTyped

\* A command keeps the types.
LEMMA RunCommandTyped ==
  ASSUME QueueTyped, NEW c \in Clients, RunCommand(c)
  PROVE  QueueTyped'
<1> DEFINE x == Head(script[c])
<1>1. script[c] \in Seq(Commands) /\ script[c] # <<>>
  BY DEF QueueTyped, ScriptsOK, RunCommand
<1>2. /\ x \in Commands /\ x \in ToSet(script[c]) /\ Tail(script[c]) \in Seq(Commands)
      /\ ToSet(Tail(script[c])) \subseteq ToSet(script[c])
  BY <1>1, ElementsOfTail
<1>3. \A d \in Clients : script'[d] = IF d = c THEN Tail(script[c]) ELSE script[d]
  BY DEF RunCommand, QueueTyped, ScriptsOK
<1>4. \A d \in Clients : ToSet(script'[d]) \subseteq ToSet(script[d])
  BY <1>2, <1>3
<1>5. script' \in [Clients -> Seq(Commands)]
  BY <1>2 DEF RunCommand, QueueTyped, ScriptsOK
<1>6. Effect(c, x)
  BY DEF RunCommand
<1>7. FrontThenPush(script'[Scheduler])
  <2>1. FrontThenPush(script[Scheduler]) /\ Scheduler \in Clients
    BY DEF QueueTyped, ScriptsOK, Clients
  <2>2. ASSUME c = Scheduler PROVE FrontThenPush(Tail(script[c]))
    <3>1. \A i \in DOMAIN Tail(script[c]) :
            i + 1 \in DOMAIN script[c] /\ Tail(script[c])[i] = script[c][i + 1]
      BY <1>1
    <3>2. \A i \in Nat : i + 1 \in DOMAIN script[c] /\ i # 0 => i \in DOMAIN Tail(script[c])
      BY <1>1
    <3>3. ASSUME NEW i \in DOMAIN Tail(script[c]), Tail(script[c])[i].op = "saddFront"
          PROVE  /\ i + 1 \in DOMAIN Tail(script[c])
                 /\ Tail(script[c])[i + 1] = LpushJob(Tail(script[c])[i].job)
      <4>1. (i + 1) + 1 \in DOMAIN script[c] /\ script[c][(i + 1) + 1] = LpushJob(script[c][i + 1].job)
        BY <2>1, <2>2, <3>1, <3>3 DEF FrontThenPush
      <4>2. i \in Nat
        BY <1>1
      <4> QED BY <3>1, <3>2, <4>1, <4>2
    <3> QED BY <3>3 DEF FrontThenPush
  <2> QED BY <1>3, <2>1, <2>2
<1> HIDE DEF x
<1>8. RedisOK' /\ pipe' \in [Clients -> [Names -> Seq(QueueJobs)]] /\ \A d \in Clients : InOwnList(pipe'[d])
  <2> USE DEF QueueTyped, RedisOK, ScriptsOK
  <2>1. CASE x.op = "saddJob"
    <3>1. x.job \in QueueJobs /\ PriorityOf[x.job] \in Names
      BY <1>2, <2>1, QueueAssumption DEF Commands, JobOps
    <3>2. enqueued' = enqueued \union {x.job} /\ UNCHANGED <<lists, idle, inbox>>
      BY <1>6, <2>1 DEF Effect
    <3>3. pipe' = pipe \/ pipe' = [pipe EXCEPT ![c][PriorityOf[x.job]] = Append(@, x.job)]
      BY <1>6, <2>1 DEF Effect
    <3>4. CASE pipe' = pipe
      BY <3>1, <3>2, <3>4
    <3>5. CASE pipe' = [pipe EXCEPT ![c][PriorityOf[x.job]] = Append(@, x.job)]
      <4> DEFINE p0 == PriorityOf[x.job]
      <4>1. /\ Append(pipe[c][p0], x.job) \in Seq(QueueJobs)
            /\ ToSet(Append(pipe[c][p0], x.job)) = ToSet(pipe[c][p0]) \union {x.job}
        BY <3>1, ElementsOfAppend
      <4>2. pipe' \in [Clients -> [Names -> Seq(QueueJobs)]]
        BY <3>1, <3>5, <4>1
      <4>3. \A d \in Clients, p \in Names :
              pipe'[d][p] = IF d = c /\ p = p0 THEN Append(pipe[c][p0], x.job) ELSE pipe[d][p]
        BY <3>1, <3>5
      <4>4. \A d \in Clients : InOwnList(pipe'[d])
        <5> SUFFICES ASSUME NEW d \in Clients, NEW p \in Names, NEW j \in ToSet(pipe'[d][p])
                     PROVE  PriorityOf[j] = p
          BY DEF InOwnList
        <5>1. j \in ToSet(pipe[d][p]) \/ (p = p0 /\ j = x.job)
          BY <4>1, <4>3
        <5> QED BY <5>1 DEF InOwnList
      <4> QED BY <3>1, <3>2, <4>2, <4>4
    <3> QED BY <3>3, <3>4, <3>5
  <2>2. CASE x.op = "execute"
    <3>1. /\ lists' = Pushed(pipe[c]) /\ pipe' = [pipe EXCEPT ![c] = NoEntries]
          /\ UNCHANGED <<enqueued, idle, inbox>>
      BY <1>6, <2>2 DEF Effect
    <3>2. \A p \in Names : /\ lists[p] \o pipe[c][p] \in Seq(QueueJobs)
                           /\ ToSet(lists[p] \o pipe[c][p]) = ToSet(lists[p]) \union ToSet(pipe[c][p])
      BY ElementsOfConcat
    <3>3. lists' \in [Names -> Seq(QueueJobs)] /\ InOwnList(lists')
      BY <3>1, <3>2 DEF Pushed, InOwnList
    <3>4. NoEntries \in [Names -> Seq(QueueJobs)] /\ InOwnList(NoEntries)
      BY ElementsOfEmpty DEF NoEntries, InOwnList
    <3> QED BY <3>1, <3>3, <3>4
  <2>3. CASE x.op = "saddFront"
    <3>1. x.job \in QueueJobs
      BY <1>2, <2>3 DEF Commands, JobOps
    <3>2. enqueued' = enqueued \union {x.job} /\ UNCHANGED <<lists, idle, inbox, pipe>>
      BY <1>6, <2>3 DEF Effect
    <3> QED BY <3>1, <3>2
  <2>4. CASE x.op = "lpush"
    <3>1. x.job \in QueueJobs /\ PriorityOf[x.job] \in Names
      BY <1>2, <2>4, QueueAssumption DEF Commands, JobOps
    <3>2. /\ lists' = [lists EXCEPT ![PriorityOf[x.job]] = <<x.job>> \o @]
          /\ UNCHANGED <<enqueued, idle, inbox, pipe>>
      BY <1>6, <2>4 DEF Effect
    <3> DEFINE p0 == PriorityOf[x.job]
    <3>3. /\ <<x.job>> \o lists[p0] \in Seq(QueueJobs)
          /\ ToSet(<<x.job>> \o lists[p0]) = {x.job} \union ToSet(lists[p0])
      BY <3>1, ElementsOfPush
    <3>4. lists' \in [Names -> Seq(QueueJobs)] /\ InOwnList(lists')
      BY <3>1, <3>2, <3>3 DEF InOwnList
    <3> QED BY <3>2, <3>4
  <2>5. CASE x.op = "srem"
    BY <1>6, <2>5 DEF Effect
  <2>6. CASE x.op = "saddIdle"
    <3>1. x.worker \in Workers
      BY <1>2, <2>6 DEF Commands, JobOps
    <3>2. idle' = idle \union {x.worker} /\ UNCHANGED <<enqueued, lists, inbox, pipe>>
      BY <1>6, <2>6 DEF Effect
    <3> QED BY <3>1, <3>2
  <2>7. CASE x.op = "push"
    <3>1. x.worker \in Workers /\ x.job \in QueueJobs
      BY <1>2, <2>7 DEF Commands, JobOps
    <3>2. /\ inbox' = [inbox EXCEPT ![x.worker] = Append(@, x.job)]
          /\ UNCHANGED <<enqueued, lists, idle, pipe>>
      BY <1>6, <2>7 DEF Effect
    <3>3. Append(inbox[x.worker], x.job) \in Seq(QueueJobs)
      BY <3>1
    <3> QED BY <3>1, <3>2, <3>3
  <2>8. x.op \in {"saddJob", "execute", "saddFront", "lpush", "srem", "saddIdle", "push"}
    BY <1>2 DEF Commands, JobOps
  <2> QED BY <2>1, <2>2, <2>3, <2>4, <2>5, <2>6, <2>7, <2>8
<1>9. ScriptsOK'
  BY <1>4, <1>5, <1>7, <1>8 DEF QueueTyped, ScriptsOK, Clients
<1>10. RowsOK' /\ WorkersOK'
  BY DEF RunCommand, QueueTyped, RowsOK, WorkersOK, rows, workerVars
<1>11. LocalsOK'
  BY <1>4 DEF RunCommand, QueueTyped, LocalsOK, locals, Clients, PushJob
<1> QED BY <1>8, <1>9, <1>10, <1>11 DEF QueueTyped

\* A new script of the scheduler.
LEMMA NewScript ==
  ASSUME QueueTyped, NEW p, NEW s \in Seq(Commands), Then(p, s), FrontThenPush(s), UNCHANGED pipe
  PROVE  ScriptsOK' /\ phase' = p /\ script'[Scheduler] = s
<1>1. Scheduler \in Clients /\ \A r \in Submissions : r \in Clients /\ r # Scheduler
  BY QueueAssumption DEF Clients
<1>2. script' \in [Clients -> Seq(Commands)] /\ script'[Scheduler] = s
  BY <1>1 DEF QueueTyped, ScriptsOK, Then
<1>3. \A r \in Submissions : script'[r] = script[r]
  BY <1>1 DEF QueueTyped, ScriptsOK, Then
<1> QED BY <1>2, <1>3 DEF QueueTyped, ScriptsOK, Then

\* One without pairs of commands and messages.
LEMMA PlainScript ==
  ASSUME QueueTyped, NEW p, NEW s \in Seq(Commands), Then(p, s), Plain(s), UNCHANGED pipe
  PROVE  /\ ScriptsOK' /\ phase' = p /\ script'[Scheduler] = s
         /\ \A x \in ToSet(script'[Scheduler]) : x.op # "push"
<1>1. FrontThenPush(s)
  <2>1. \A i \in DOMAIN s : s[i] \in ToSet(s)
    BY DEF ToSet
  <2> QED BY <2>1 DEF FrontThenPush, Plain
<1>2. \A x \in ToSet(s) : x.op # "push"
  BY DEF Plain
<1> QED BY <1>1, <1>2, NewScript

\* The empty script, and the scripts of enqueue_jobs and requeue_idle_worker.
LEMMA PlainScripts ==
  /\ <<>> \in Seq(Commands) /\ Plain(<<>>)
  /\ \A js \in Seq(QueueJobs) : EnqueueJobs(js) \in Seq(Commands) /\ Plain(EnqueueJobs(js))
  /\ \A ws \in Seq(Workers) :
       RequeueIdleWorkers(ws) \in Seq(Commands) /\ Plain(RequeueIdleWorkers(ws))
  /\ \A js \in Seq(QueueJobs), ws \in Seq(Workers) :
       /\ EnqueueJobs(js) \o RequeueIdleWorkers(ws) \in Seq(Commands)
       /\ Plain(EnqueueJobs(js) \o RequeueIdleWorkers(ws))
  /\ \A j \in QueueJobs : <<SremJob(j)>> \in Seq(Commands) /\ Plain(<<SremJob(j)>>)
  /\ \A w \in Workers : <<SaddIdle(w)>> \in Seq(Commands) /\ Plain(<<SaddIdle(w)>>)
<1>1. <<>> \in Seq(Commands) /\ Plain(<<>>)
  BY ElementsOfEmpty DEF Plain
<1>2. ASSUME NEW js \in Seq(QueueJobs)
      PROVE  EnqueueJobs(js) \in Seq(Commands) /\ Plain(EnqueueJobs(js))
  BY EnqueueScript DEF Plain
<1>3. ASSUME NEW ws \in Seq(Workers)
      PROVE  RequeueIdleWorkers(ws) \in Seq(Commands) /\ Plain(RequeueIdleWorkers(ws))
  BY IdleScript DEF Plain
<1>4. ASSUME NEW js \in Seq(QueueJobs), NEW ws \in Seq(Workers)
      PROVE  /\ EnqueueJobs(js) \o RequeueIdleWorkers(ws) \in Seq(Commands)
             /\ Plain(EnqueueJobs(js) \o RequeueIdleWorkers(ws))
  <2> DEFINE s == EnqueueJobs(js)
             t == RequeueIdleWorkers(ws)
  <2>1. s \in Seq(Commands) /\ t \in Seq(Commands)
    BY <1>2, <1>3
  <2>2. Plain(s) /\ Plain(t)
    BY <1>2, <1>3
  <2> HIDE DEF s, t
  <2>3. s \o t \in Seq(Commands) /\ ToSet(s \o t) = ToSet(s) \union ToSet(t)
    BY <2>1, ElementsOfConcat, Zenon
  <2> QED BY <2>2, <2>3 DEF Plain, s, t
<1>5. ASSUME NEW j \in QueueJobs PROVE <<SremJob(j)>> \in Seq(Commands) /\ Plain(<<SremJob(j)>>)
  <2>1. SremJob(j) \in Commands /\ SremJob(j).op = "srem"
    BY CommandsTyped DEF SremJob, Command
  <2> QED BY <2>1, ElementsOfOne DEF Plain
<1>6. ASSUME NEW w \in Workers PROVE <<SaddIdle(w)>> \in Seq(Commands) /\ Plain(<<SaddIdle(w)>>)
  <2>1. SaddIdle(w) \in Commands /\ SaddIdle(w).op = "saddIdle"
    BY CommandsTyped DEF SaddIdle, Command
  <2> QED BY <2>1, ElementsOfOne DEF Plain
<1> QED BY <1>1, <1>2, <1>3, <1>4, <1>5, <1>6

\* Rows set back to queued.
LEMMA UnassignTyped ==
  ASSUME RowsOK, NEW J, Unassign(J)
  PROVE  RowsOK'
  BY DEF RowsOK, Unassign, JobStatuses

\* The sequences the scheduler makes of sets of jobs and workers.
LEMMA SetsTyped ==
  /\ \A J \in SUBSET QueueJobs : SetToSeq(J) \in Seq(QueueJobs) /\ ToSet(SetToSeq(J)) = J
  /\ \A W \in SUBSET Workers : SetToSeq(W) \in Seq(Workers)
  /\ \A J \in SUBSET QueueJobs : SetToSeqs(J) \subseteq Seq(QueueJobs)
  /\ QueuedJobs \subseteq Seq(QueueJobs)
<1>1. ASSUME NEW J \in SUBSET QueueJobs PROVE SetToSeq(J) \in Seq(QueueJobs) /\ ToSet(SetToSeq(J)) = J
  <2>1. SetToSeq(J) \in Seq(J) /\ ToSet(SetToSeq(J)) = J
    BY QueueAssumption, FS_Subset, ElementsOfSet
  <2> QED BY <2>1
<1>2. ASSUME NEW W \in SUBSET Workers PROVE SetToSeq(W) \in Seq(Workers)
  <2>1. SetToSeq(W) \in Seq(W)
    BY QueueAssumption, FS_Subset, ElementsOfSet
  <2> QED BY <2>1
<1>3. QueuedJobs \subseteq Seq(QueueJobs)
  BY InOrderTyped DEF QueuedJobs
<1> QED BY <1>1, <1>2, <1>3, InOrderTyped

\* What the scheduler sends again when it starts.
LEMMA ResendScript ==
  ASSUME RowsOK
  PROVE  LET js == SetToSeq({j \in QueueJobs : rowStatus[j] = "scheduled"})
             s == [i \in DOMAIN js |-> PushJob(assigned[js[i]], js[i])]
         IN /\ s \in Seq(Commands) /\ FrontThenPush(s)
            /\ \A j \in QueueJobs : rowStatus[j] = "scheduled" => PushJob(assigned[j], j) \in ToSet(s)
<1> DEFINE js == SetToSeq({j \in QueueJobs : rowStatus[j] = "scheduled"})
           s == [i \in DOMAIN js |-> PushJob(assigned[js[i]], js[i])]
<1>1. /\ js \in Seq({j \in QueueJobs : rowStatus[j] = "scheduled"})
      /\ ToSet(js) = {j \in QueueJobs : rowStatus[j] = "scheduled"}
  BY QueueAssumption, FS_Subset, ElementsOfSet
<1> HIDE DEF js
<1>2. \A i \in 1 .. Len(js) : js[i] \in QueueJobs /\ rowStatus[js[i]] = "scheduled"
  BY <1>1
<1>3. \A i \in 1 .. Len(js) : assigned[js[i]] \in Workers
  BY <1>2 DEF RowsOK
<1>4. \A i \in 1 .. Len(js) : s[i] = PushJob(assigned[js[i]], js[i]) /\ s[i] \in Commands
  <2>1. DOMAIN js = 1 .. Len(js)
    BY <1>1
  <2> QED BY <1>2, <1>3, <2>1, CommandsTyped
<1>5. s \in [1 .. Len(js) -> Commands] /\ Len(js) \in Nat
  <2>1. DOMAIN js = 1 .. Len(js) /\ Len(js) \in Nat
    BY <1>1
  <2>2. s = [i \in 1 .. Len(js) |-> s[i]]
    BY <2>1
  <2> HIDE DEF s
  <2> QED BY <1>4, <2>1, <2>2
<1>6. s \in Seq(Commands)
  BY <1>5
<1>7. FrontThenPush(s)
  BY DEF FrontThenPush, PushJob, Command
<1>8. ASSUME NEW j \in QueueJobs, rowStatus[j] = "scheduled" PROVE PushJob(assigned[j], j) \in ToSet(s)
  <2>1. PICK i \in DOMAIN js : js[i] = j
    BY <1>1, <1>8 DEF ToSet
  <2> QED BY <2>1 DEF ToSet
<1> QED BY <1>6, <1>7, <1>8 DEF js

\* The start of the scheduler keeps the types.
LEMMA StartTyped ==
  ASSUME QueueTyped,
         \/ SchedulerStarts \/ RecoverAtStart \/ ClearDispatchState \/ SweepAtStart
         \/ Resend \/ Offer
  PROVE  QueueTyped'
<1>1. CASE SchedulerStarts
  <2>1. ScriptsOK' /\ phase' = "recovering" /\ \A x \in ToSet(script'[Scheduler]) : x.op # "push"
    BY <1>1, PlainScripts, PlainScript DEF SchedulerStarts
  <2> QED BY <1>1, <2>1 DEF SchedulerStarts, QueueTyped, RowsOK, RedisOK, LocalsOK, WorkersOK, rows,
             redis, locals, workerVars, Phases
<1>2. CASE RecoverAtStart
  <2>1. ScriptsOK' /\ phase' = "clearing" /\ \A x \in ToSet(script'[Scheduler]) : x.op # "push"
    BY <1>2, PlainScripts, PlainScript DEF RecoverAtStart
  <2>2. RowsOK'
    <3>1. UNCHANGED rows \/ \E J \in SUBSET QueueJobs : Unassign(J)
      BY <1>2 DEF RecoverAtStart, RequeueUnclaimed, rows
    <3> QED BY <3>1, UnassignTyped DEF QueueTyped, RowsOK, rows
  <2> QED BY <1>2, <2>1, <2>2 DEF RecoverAtStart, QueueTyped, RedisOK, LocalsOK, WorkersOK,
             redis, locals, workerVars, Phases
<1>3. CASE ClearDispatchState
  <2>1. ScriptsOK' /\ phase' = "sweeping" /\ \A x \in ToSet(script'[Scheduler]) : x.op # "push"
    BY <1>3, PlainScripts, PlainScript DEF ClearDispatchState
  <2>2. RedisOK'
    BY <1>3, ElementsOfEmpty DEF ClearDispatchState, RedisOK, NoEntries, InOwnList
  <2> QED BY <1>3, <2>1, <2>2 DEF ClearDispatchState, QueueTyped, RowsOK, LocalsOK, WorkersOK, rows,
             locals, workerVars, Phases
<1>4. CASE SweepAtStart
  <2>1. ScriptsOK' /\ phase' = "resending" /\ \A x \in ToSet(script'[Scheduler]) : x.op # "push"
    <3>1. PICK js \in QueuedJobs : Then("resending", EnqueueJobs(js))
      BY <1>4 DEF SweepAtStart
    <3>2. js \in Seq(QueueJobs)
      BY SetsTyped
    <3> QED BY <1>4, <3>1, <3>2, PlainScripts, PlainScript DEF SweepAtStart
  <2> QED BY <1>4, <2>1 DEF SweepAtStart, QueueTyped, RowsOK, RedisOK, LocalsOK, WorkersOK, rows,
             redis, locals, workerVars, Phases
<1>5. CASE Resend
  <2>1. ScriptsOK' /\ phase' = "offering"
    BY <1>5, NewScript, ResendScript DEF Resend, QueueTyped
  <2>2. UNCHANGED <<rows, redis, locals, workerVars>>
    BY <1>5 DEF Resend
  <2>3. UNCHANGED <<reusable, poppedWorker, popped, level>>
    BY <2>2 DEF locals
  <2>4. LocalsOK'
    BY <2>1, <2>3 DEF QueueTyped, LocalsOK, Phases
  <2> QED BY <2>1, <2>2, <2>4 DEF QueueTyped, RowsOK, RedisOK, WorkersOK, rows, redis, workerVars
<1>6. CASE Offer
  <2>1. ScriptsOK' /\ phase' = "loop" /\ \A x \in ToSet(script'[Scheduler]) : x.op # "push"
    BY <1>6, PlainScripts, PlainScript, SetsTyped DEF Offer
  <2> QED BY <1>6, <2>1 DEF Offer, QueueTyped, RowsOK, RedisOK, LocalsOK, WorkersOK, rows,
             redis, locals, workerVars, Phases
<1> QED BY <1>1, <1>2, <1>3, <1>4, <1>5, <1>6

\* So do the passes of its loop before dispatch.
LEMMA SweepTyped ==
  ASSUME QueueTyped,
         LoopFindsNone \/ LoopSweeps \/ \E J \in SUBSET QueueJobs : LoopRequeues(J)
  PROVE  QueueTyped'
<1>1. CASE LoopFindsNone
  <2>1. ScriptsOK' /\ phase' = "loopSweep" /\ \A x \in ToSet(script'[Scheduler]) : x.op # "push"
    BY <1>1, PlainScripts, PlainScript DEF LoopFindsNone
  <2> QED BY <1>1, <2>1 DEF LoopFindsNone, QueueTyped, RowsOK, RedisOK, LocalsOK, WorkersOK, rows,
             redis, locals, workerVars, Phases
<1>2. CASE LoopSweeps
  <2>1. PICK js \in QueuedJobs :
          Then("popWorker", EnqueueJobs(js) \o RequeueIdleWorkers(SetToSeq(reusable)))
    BY <1>2 DEF LoopSweeps
  <2>3. SetToSeq(reusable) \in Seq(Workers) /\ js \in Seq(QueueJobs)
    BY SetsTyped DEF QueueTyped, LocalsOK
  <2>2. ScriptsOK' /\ phase' = "popWorker" /\ \A x \in ToSet(script'[Scheduler]) : x.op # "push"
    BY <1>2, <2>1, <2>3, PlainScripts, PlainScript DEF LoopSweeps
  <2> QED BY <1>2, <2>2 DEF LoopSweeps, NothingInHand, QueueTyped, RowsOK, RedisOK, LocalsOK,
             WorkersOK, rows, redis, workerVars, Phases
<1>3. ASSUME NEW J \in SUBSET QueueJobs, LoopRequeues(J) PROVE QueueTyped'
  <2>1. ScriptsOK' /\ phase' = "loopSweep" /\ \A x \in ToSet(script'[Scheduler]) : x.op # "push"
    <3>1. PICK js \in SetToSeqs(J) : Then("loopSweep", EnqueueJobs(js))
      BY <1>3 DEF LoopRequeues
    <3>2. js \in Seq(QueueJobs)
      BY SetsTyped
    <3> QED BY <1>3, <3>1, <3>2, PlainScripts, PlainScript DEF LoopRequeues
  <2>2. RowsOK'
    BY <1>3, UnassignTyped DEF LoopRequeues, RequeueUnclaimed, QueueTyped
  <2>3. reusable' \subseteq Workers
    BY <1>3 DEF LoopRequeues, RequeueUnclaimed, QueueTyped, RowsOK
  <2> QED BY <1>3, <2>1, <2>2, <2>3 DEF LoopRequeues, QueueTyped, RedisOK, LocalsOK, WorkersOK,
             redis, workerVars, Phases
<1> QED BY <1>1, <1>2, <1>3

\* The head of a list leaves it.
LEMMA ListPopped ==
  ASSUME RedisOK, NEW p \in Names, lists[p] # <<>>,
         lists' = [lists EXCEPT ![p] = Tail(lists[p])], UNCHANGED <<enqueued, idle, inbox>>
  PROVE  /\ RedisOK' /\ Head(lists[p]) \in QueueJobs /\ PriorityOf[Head(lists[p])] = p
         /\ \A q \in Names : ToSet(lists[q]) = ToSet(lists'[q])
                               \union (IF q = p THEN {Head(lists[p])} ELSE {})
<1>1. /\ Tail(lists[p]) \in Seq(QueueJobs) /\ Head(lists[p]) \in QueueJobs
      /\ ToSet(lists[p]) = {Head(lists[p])} \union ToSet(Tail(lists[p]))
  BY ElementsOfTail DEF RedisOK
<1>2. \A q \in Names : lists'[q] = IF q = p THEN Tail(lists[p]) ELSE lists[q]
  BY DEF RedisOK
<1>3. lists' \in [Names -> Seq(QueueJobs)] /\ InOwnList(lists')
  BY <1>1, <1>2 DEF RedisOK, InOwnList
<1> QED BY <1>1, <1>2, <1>3 DEF RedisOK, InOwnList

\* Dispatch keeps the types.
LEMMA DispatchTyped ==
  ASSUME QueueTyped,
         \/ PopIdleWorker \/ PopNextJob \/ AssignJob \/ UndoDispatch \/ PushRaises
         \/ SchedulerStops
  PROVE  QueueTyped'
<1>1. CASE PopIdleWorker
  <2>1. ScriptsOK' /\ phase' \in {"loop", "popJob"} /\ \A x \in ToSet(script'[Scheduler]) : x.op # "push"
    BY <1>1, PlainScripts, PlainScript DEF PopIdleWorker
  <2>2. CASE idle = {}
    BY <1>1, <2>1, <2>2 DEF PopIdleWorker, Then, NothingInHand, QueueTyped, RowsOK, RedisOK, LocalsOK,
       WorkersOK, rows, workerVars, Phases
  <2>3. CASE idle # {}
    BY <1>1, <2>1, <2>3 DEF PopIdleWorker, QueueTyped, RowsOK, RedisOK, LocalsOK, WorkersOK, rows,
       workerVars, Phases
  <2> QED BY <2>2, <2>3
<1>2. CASE PopNextJob
  <2> DEFINE p == PriorityAt(level)
  <2>1. p \in Names /\ poppedWorker \in Workers
    BY <1>2 DEF PopNextJob, At, QueueTyped, LocalsOK, PriorityAt, Priorities, Names
  <2> HIDE DEF p
  <2>2. CASE lists[p] # <<>>
    <3>1. /\ popped' = Head(lists[p]) /\ lists' = [lists EXCEPT ![p] = Tail(lists[p])]
          /\ Then("assign", <<SremJob(Head(lists[p]))>>) /\ level' = 1
          /\ UNCHANGED <<reusable, poppedWorker, rows, enqueued, idle, inbox, pipe, workerVars>>
      BY <1>2, <2>2 DEF PopNextJob, AfterLpop, p
    <3>2. RedisOK' /\ popped' \in QueueJobs
      BY <2>1, <2>2, <3>1, ListPopped DEF QueueTyped
    <3>3. ScriptsOK' /\ phase' = "assign" /\ \A x \in ToSet(script'[Scheduler]) : x.op # "push"
      BY <3>1, <3>2, PlainScripts, PlainScript
    <3> QED BY <2>1, <3>1, <3>2, <3>3 DEF QueueTyped, RowsOK, LocalsOK, WorkersOK, rows, workerVars, Phases
  <2>3. CASE lists[p] = <<>>
    <3>1. ScriptsOK' /\ phase' \in {"popJob", "loop"} /\ \A x \in ToSet(script'[Scheduler]) : x.op # "push"
      BY <1>2, <2>1, <2>3, PlainScripts, PlainScript DEF PopNextJob, p
    <3> QED BY <1>2, <2>1, <2>3, <3>1 DEF PopNextJob, p, Then, NothingInHand, QueueTyped, RowsOK, RedisOK,
               LocalsOK, WorkersOK, rows, workerVars, Phases
  <2> QED BY <2>2, <2>3
<1>3. CASE AssignJob
  <2>1. popped \in QueueJobs /\ poppedWorker \in Workers
    BY <1>3 DEF AssignJob, At, QueueTyped, LocalsOK
  <2>2. UNCHANGED <<redis, pipe, locals, workerVars>>
    BY <1>3 DEF AssignJob
  <2>3. CASE Then("popWorker", RequeueJobFront(popped)) /\ UNCHANGED rows
    <3>1. ScriptsOK' /\ phase' = "popWorker" /\ \A x \in ToSet(script'[Scheduler]) : x.op # "push"
      BY <2>1, <2>2, <2>3, FrontScript, NewScript
    <3> QED BY <2>2, <2>3, <3>1 DEF QueueTyped, RowsOK, RedisOK, LocalsOK, WorkersOK, rows, redis, locals,
               workerVars, Phases
  <2>4. CASE Then("popWorker", <<SaddIdle(poppedWorker)>>) /\ UNCHANGED rows
    <3>1. ScriptsOK' /\ phase' = "popWorker" /\ \A x \in ToSet(script'[Scheduler]) : x.op # "push"
      BY <2>1, <2>2, <2>4, PlainScripts, PlainScript
    <3> QED BY <2>2, <2>4, <3>1 DEF QueueTyped, RowsOK, RedisOK, LocalsOK, WorkersOK, rows, redis, locals,
               workerVars, Phases
  <2>5. CASE /\ Then("popWorker", <<PushJob(poppedWorker, popped)>>)
             /\ rowStatus' = [rowStatus EXCEPT ![popped] = "scheduled"]
             /\ assigned' = [assigned EXCEPT ![popped] = poppedWorker]
    <3>1. PushJob(poppedWorker, popped) \in Commands /\ PushJob(poppedWorker, popped).op = "push"
      BY <2>1, CommandsTyped DEF PushJob, Command
    <3>2. FrontThenPush(<<PushJob(poppedWorker, popped)>>)
      BY <3>1 DEF FrontThenPush
    <3>3. ToSet(<<PushJob(poppedWorker, popped)>>) = {PushJob(poppedWorker, popped)}
      BY ElementsOfOne
    <3>4. <<PushJob(poppedWorker, popped)>> \in Seq(Commands)
      BY <3>1
    <3>5. ScriptsOK' /\ phase' = "popWorker"
          /\ script'[Scheduler] = <<PushJob(poppedWorker, popped)>>
      BY <2>2, <2>5, <3>2, <3>4, NewScript
    <3>6. RowsOK'
      BY <2>1, <2>5, QueueAssumption DEF QueueTyped, RowsOK, JobStatuses
    <3>7. PushJob(poppedWorker', popped') = PushJob(poppedWorker, popped)
      BY <2>2 DEF locals
    <3>8. \A x \in ToSet(script'[Scheduler]) : x = PushJob(poppedWorker', popped')
      BY <3>3, <3>5, <3>7
    <3>9. LocalsOK'
      BY <2>2, <3>5, <3>8 DEF QueueTyped, LocalsOK, locals, Phases, PushJob
    <3> QED BY <2>2, <3>5, <3>6, <3>9 DEF QueueTyped, RedisOK, WorkersOK, redis, workerVars
  <2> QED BY <1>3, <2>3, <2>4, <2>5 DEF AssignJob, AfterRefusedJob
<1>4. CASE UndoDispatch
  <2>1. popped \in QueueJobs /\ poppedWorker \in Workers
    BY <1>4 DEF UndoDispatch, At, QueueTyped, LocalsOK
  <2>2. ScriptsOK' /\ phase' = "loop" /\ \A x \in ToSet(script'[Scheduler]) : x.op # "push"
    BY <1>4, <2>1, FrontScript, NewScript DEF UndoDispatch
  <2>3. RowsOK'
    <3>1. UNCHANGED rows \/ Unassign({popped})
      BY <1>4 DEF UndoDispatch
    <3> QED BY <3>1, UnassignTyped DEF QueueTyped, RowsOK, rows
  <2> QED BY <1>4, <2>2, <2>3 DEF UndoDispatch, NothingInHand, QueueTyped, RedisOK, LocalsOK, WorkersOK,
             redis, workerVars, Phases
<1>5. CASE PushRaises
  <2>1. script[Scheduler] \in Seq(Commands) /\ script[Scheduler] # <<>>
    BY <1>5 DEF PushRaises, QueueTyped, ScriptsOK, Clients
  <2>2. Head(script[Scheduler]) \in ToSet(script[Scheduler]) /\ Head(script[Scheduler]) \in Commands
    BY <2>1, ElementsOfTail
  <2>3. Head(script[Scheduler]) = PushJob(poppedWorker, popped)
    BY <1>5, <2>2 DEF PushRaises, QueueTyped, LocalsOK
  <2>4. popped \in QueueJobs /\ poppedWorker \in Workers
    BY <2>2, <2>3, QueueAssumption DEF PushJob, Command, Commands, JobOps
  <2>5. ScriptsOK' /\ phase' = "undo" /\ \A x \in ToSet(script'[Scheduler]) : x.op # "push"
    BY <1>5, PlainScripts, PlainScript DEF PushRaises
  <2>6. RedisOK'
    <3>1. Append(inbox[poppedWorker], popped) \in Seq(QueueJobs)
      BY <2>4 DEF QueueTyped, RedisOK
    <3> QED BY <1>5, <2>4, <3>1 DEF PushRaises, QueueTyped, RedisOK
  <2> QED BY <1>5, <2>4, <2>5, <2>6 DEF PushRaises, QueueTyped, RowsOK, LocalsOK, WorkersOK, rows, locals,
             workerVars, Phases
<1>6. CASE SchedulerStops
  <2>1. NoEntries \in [Names -> Seq(QueueJobs)] /\ InOwnList(NoEntries)
    BY ElementsOfEmpty DEF NoEntries, InOwnList
  <2>2. /\ script' = [script EXCEPT ![Scheduler] = <<>>] /\ pipe' = [pipe EXCEPT ![Scheduler] = NoEntries]
        /\ phase' \in {"down", "loop"} /\ NothingInHand
        /\ UNCHANGED <<rows, redis, workerPc, held>>
    BY <1>6 DEF SchedulerStops, Interrupt
  <2>3. FrontThenPush(<<>>)
    BY DEF FrontThenPush
  <2>4. Scheduler \in Clients /\ \A r \in Submissions : r \in Clients /\ r # Scheduler
    BY QueueAssumption DEF Clients
  <2>5. script'[Scheduler] = <<>> /\ \A r \in Submissions : script'[r] = script[r]
    BY <2>2, <2>4 DEF QueueTyped, ScriptsOK
  <2>6. ScriptsOK'
    <3>1. script' \in [Clients -> Seq(Commands)]
      <4>1. <<>> \in Seq(Commands)
        OBVIOUS
      <4> QED BY <2>2, <4>1 DEF QueueTyped, ScriptsOK
    <3>2. \A c \in Clients : pipe'[c] = IF c = Scheduler THEN NoEntries ELSE pipe[c]
      BY <2>2 DEF QueueTyped, ScriptsOK
    <3>3. pipe' \in [Clients -> [Names -> Seq(QueueJobs)]]
      BY <2>1, <2>2 DEF QueueTyped, ScriptsOK
    <3>4. \A c \in Clients : InOwnList(pipe'[c])
      BY <2>1, <3>2 DEF QueueTyped, ScriptsOK
    <3>5. \A r \in Submissions : \A x \in ToSet(script'[r]) : x.op \in {"saddJob", "execute"}
      BY <2>5 DEF QueueTyped, ScriptsOK
    <3> QED BY <2>3, <2>5, <3>1, <3>3, <3>4, <3>5 DEF ScriptsOK
  <2>7. LocalsOK'
    BY <2>2, <2>5, ElementsOfEmpty DEF NothingInHand, LocalsOK, Phases
  <2> QED BY <2>2, <2>6, <2>7 DEF QueueTyped, RowsOK, RedisOK, WorkersOK, rows, redis, workerVars
<1> QED BY <1>1, <1>2, <1>3, <1>4, <1>5, <1>6

\* API and workers keep the types.
LEMMA ClientsTyped ==
  ASSUME QueueTyped,
         \/ \E r \in Submissions : Submit(r) \/ ApiRaises(r)
         \/ \E w \in Workers : WorkerStep(w)
         \/ \E j \in QueueJobs : RetryDelayElapses(j)
  PROVE  QueueTyped'
<1>1. ASSUME NEW r \in Submissions, Submit(r) PROVE QueueTyped'
  <2>1. JobsOf[r] \in Seq(QueueJobs) /\ r \in Clients /\ r # Scheduler /\ Scheduler \in Clients
    BY QueueAssumption DEF Clients
  <2>2. /\ EnqueueJobs(JobsOf[r]) \in Seq(Commands)
        /\ \A x \in ToSet(EnqueueJobs(JobsOf[r])) : x.op \in {"saddJob", "execute"}
    BY <2>1, EnqueueScript
  <2>3. \A c \in Clients : script'[c] = IF c = r THEN EnqueueJobs(JobsOf[r]) ELSE script[c]
    BY <1>1, <2>1 DEF Submit, QueueTyped, ScriptsOK
  <2>4. script' \in [Clients -> Seq(Commands)]
    BY <1>1, <2>2 DEF Submit, QueueTyped, ScriptsOK
  <2>5. script'[Scheduler] = script[Scheduler]
    BY <2>1, <2>3
  <2>6. ScriptsOK'
    BY <1>1, <2>2, <2>3, <2>4, <2>5 DEF Submit, QueueTyped, ScriptsOK, Clients
  <2>7. RowsOK'
    BY <1>1 DEF Submit, QueueTyped, RowsOK, JobStatuses
  <2>8. LocalsOK'
    BY <1>1, <2>5 DEF Submit, QueueTyped, LocalsOK, locals, PushJob
  <2> QED BY <1>1, <2>6, <2>7, <2>8 DEF Submit, QueueTyped, RedisOK, WorkersOK, redis, workerVars
<1>2. ASSUME NEW r \in Submissions, ApiRaises(r) PROVE QueueTyped'
  <2>1. r \in Clients /\ r # Scheduler /\ Scheduler \in Clients
    BY QueueAssumption DEF Clients
  <2>2. NoEntries \in [Names -> Seq(QueueJobs)] /\ InOwnList(NoEntries)
    BY ElementsOfEmpty DEF NoEntries, InOwnList
  <2>3. /\ script' = [script EXCEPT ![r] = <<>>] /\ pipe' = [pipe EXCEPT ![r] = NoEntries]
        /\ UNCHANGED <<rows, redis, phase, locals, workerVars>>
    BY <1>2 DEF ApiRaises, Interrupt
  <2>4. script'[Scheduler] = script[Scheduler]
    BY <2>1, <2>3 DEF QueueTyped, ScriptsOK
  <2>5. ScriptsOK'
    BY <2>1, <2>2, <2>3, <2>4, ElementsOfEmpty DEF QueueTyped, ScriptsOK, Clients
  <2>6. LocalsOK'
    BY <2>3, <2>4 DEF QueueTyped, LocalsOK, locals, PushJob
  <2> QED BY <2>3, <2>5, <2>6 DEF QueueTyped, RowsOK, RedisOK, WorkersOK, rows, redis, workerVars
<1>3. ASSUME NEW w \in Workers, WorkerStep(w) PROVE QueueTyped'
  <2> USE DEF QueueTyped, RowsOK, RedisOK, ScriptsOK, LocalsOK, WorkersOK, rows, redis, locals, WorkerGoes,
              JobStatuses
  <2>1. CASE AnnounceWorkerIdle(w)
    BY <2>1, QueueAssumption DEF AnnounceWorkerIdle
  <2>2. CASE PopWorkerJob(w)
    <3>1. inbox[w] \in Seq(QueueJobs) /\ inbox[w] # <<>>
      BY <2>2 DEF PopWorkerJob
    <3>2. Head(inbox[w]) \in QueueJobs /\ Tail(inbox[w]) \in Seq(QueueJobs)
      BY <3>1
    <3> QED BY <2>2, <3>2, QueueAssumption DEF PopWorkerJob
  <2>3. CASE WorkerFetches(w)
    BY <2>3, QueueAssumption DEF WorkerFetches
  <2>4. CASE MarkWorkerBusy(w)
    BY <2>4, QueueAssumption DEF MarkWorkerBusy
  <2>5. CASE WorkerClaims(w)
    <3>1. held[w] \in QueueJobs
      BY <2>5 DEF WorkerClaims
    <3>2. RowsOK'
      <4>1. UNCHANGED assigned
        BY <2>5 DEF WorkerClaims
      <4>2. CASE assigned[held[w]] = w
        <5>1. rowStatus' = [rowStatus EXCEPT ![held[w]] = "running"] /\ w # NoWorker
          BY <2>5, <4>2, QueueAssumption DEF WorkerClaims
        <5> QED BY <3>1, <4>1, <4>2, <5>1
      <4>3. CASE assigned[held[w]] # w
        BY <2>5, <4>1, <4>3 DEF WorkerClaims
      <4> QED BY <4>2, <4>3
    <3>3. WorkersOK'
      BY <2>5, QueueAssumption DEF WorkerClaims
    <3> QED BY <2>5, <3>2, <3>3 DEF WorkerClaims
  <2>6. CASE JobEnds(w)
    <3>1. held[w] \in QueueJobs
      BY <2>6 DEF JobEnds
    <3>2. RowsOK'
      <4>1. CASE rowStatus' = [rowStatus EXCEPT ![held[w]] = "ended"] /\ UNCHANGED assigned
        BY <3>1, <4>1
      <4>2. CASE /\ rowStatus' = [rowStatus EXCEPT ![held[w]] = "delayed"]
                 /\ assigned' = [assigned EXCEPT ![held[w]] = NoWorker]
        BY <3>1, <4>2
      <4> QED BY <2>6, <4>1, <4>2 DEF JobEnds
    <3>3. WorkersOK'
      BY <2>6, QueueAssumption DEF JobEnds
    <3> QED BY <2>6, <3>2, <3>3 DEF JobEnds
  <2> QED BY <1>3, <2>1, <2>2, <2>3, <2>4, <2>5, <2>6 DEF WorkerStep
<1>4. ASSUME NEW j \in QueueJobs, RetryDelayElapses(j) PROVE QueueTyped'
  BY <1>4 DEF RetryDelayElapses, QueueTyped, RowsOK, RedisOK, ScriptsOK, LocalsOK, WorkersOK, rows, redis,
     locals, workerVars, JobStatuses
<1> QED BY <1>1, <1>2, <1>3, <1>4

\* No command, script or pipeline leaves the types of the keys.
LEMMA TypedStep == QueueTyped /\ [QueueNext]_queueVars => QueueTyped'
<1> SUFFICES ASSUME QueueTyped, [QueueNext]_queueVars PROVE QueueTyped'
  OBVIOUS
<1>1. CASE UNCHANGED queueVars
  BY <1>1 DEF queueVars, QueueTyped, RowsOK, RedisOK, ScriptsOK, LocalsOK, WorkersOK, rows, redis, locals,
     workerVars, InOwnList, PushJob
<1>2. CASE QueueNext
  <2>1. CASE SchedulerStep \/ PushRaises \/ SchedulerStops
    BY <2>1, StartTyped, SweepTyped, DispatchTyped, RunCommandTyped DEF SchedulerStep, Clients
  <2>2. CASE \E r \in Submissions : Submit(r) \/ RunCommand(r) \/ ApiRaises(r)
    BY <2>2, ClientsTyped, RunCommandTyped DEF Clients
  <2> QED BY <1>2, <2>1, <2>2, ClientsTyped DEF QueueNext
<1> QED BY <1>1, <1>2

\* So keys, pipelines and clients keep to their types throughout.
LEMMA Typed == QueueSpec => []QueueTyped
  BY TypedInit, TypedStep, PTL DEF QueueSpec

\* The rows, Redis and the clients keep to their types.
THEOREM RedisTyped == QueueSpec => []QueueTypeOK
<1>1. QueueTyped => QueueTypeOK
  <2> SUFFICES ASSUME QueueTyped PROVE QueueTypeOK
    OBVIOUS
  <2>1. Listed \subseteq QueueJobs
    BY ElementsTyped DEF QueueTyped, RedisOK, Listed
  <2> QED BY <2>1 DEF QueueTyped, RowsOK, RedisOK, LocalsOK, QueueTypeOK
<1> QED BY <1>1, Typed, PTL

-----------------------------------------------------------------------------
(* The set of enqueued jobs and the lists.                                   *)

\* The jobs a client has half done: those in its pipeline f, and that of the
\* command it is going to issue, the first of s.
LEMMA HalfDoneParts ==
  ASSUME NEW f, NEW s, NEW j
  PROVE  j \in (UNION {ToSet(f[p]) : p \in Names})
               \union (IF s # <<>> /\ Head(s).op \in {"srem", "lpush"} THEN {Head(s).job} ELSE {})
           <=> \/ \E p \in Names : j \in ToSet(f[p])
               \/ s # <<>> /\ Head(s).op \in {"srem", "lpush"} /\ j = Head(s).job
<1> DEFINE A == UNION {ToSet(f[p]) : p \in Names}
           B == IF s # <<>> /\ Head(s).op \in {"srem", "lpush"} THEN {Head(s).job} ELSE {}
<1>1. j \in A <=> \E p \in Names : j \in ToSet(f[p])
  OBVIOUS
<1>2. j \in B <=> s # <<>> /\ Head(s).op \in {"srem", "lpush"} /\ j = Head(s).job
  OBVIOUS
<1> HIDE DEF A, B
<1>3. j \in A \union B <=> j \in A \/ j \in B
  OBVIOUS
<1> QED BY <1>1, <1>2, <1>3, Zenon DEF A, B

\* A client is half done with the jobs in its pipelines and with the one its
\* script has begun to move.
LEMMA HalfDoneMembers ==
  ASSUME NEW c \in Clients, NEW j
  PROVE  /\ j \in HalfDone(c) <=> \/ \E p \in Names : j \in ToSet(pipe[c][p])
                                \/ /\ script[c] # <<>> /\ Head(script[c]).op \in {"srem", "lpush"}
                                   /\ j = Head(script[c]).job
         /\ j \in HalfDone(c)' <=> \/ \E p \in Names : j \in ToSet(pipe'[c][p])
                                 \/ /\ script'[c] # <<>>
                                    /\ Head(script'[c]).op \in {"srem", "lpush"}
                                    /\ j = Head(script'[c]).job
<1>1. j \in HalfDone(c) <=> \/ \E p \in Names : j \in ToSet(pipe[c][p])
                           \/ /\ script[c] # <<>> /\ Head(script[c]).op \in {"srem", "lpush"}
                              /\ j = Head(script[c]).job
  BY HalfDoneParts, Zenon DEF HalfDone
<1>2. j \in HalfDone(c)' <=> \/ \E p \in Names : j \in ToSet(pipe'[c][p])
                            \/ /\ script'[c] # <<>> /\ Head(script'[c]).op \in {"srem", "lpush"}
                               /\ j = Head(script'[c]).job
  BY HalfDoneParts, Zenon DEF HalfDone
<1> QED BY <1>1, <1>2

\* A client that neither fills its pipeline nor is between the two commands of
\* a pair has as many jobs half done as before, or more.
LEMMA HalfDoneKept ==
  ASSUME NEW c \in Clients, pipe'[c] = pipe[c],
         \/ script[c] = <<>>
         \/ Head(script[c]).op \notin {"srem", "lpush"}
         \/ script'[c] = script[c]
  PROVE  HalfDone(c) \subseteq HalfDone(c)'
  BY DEF HalfDone

\* A command keeps set and lists together.
LEMMA MembersCommand ==
  ASSUME QueueTyped, MembersHaveEntries, NEW c \in Clients, RunCommand(c)
  PROVE  MembersHaveEntries'
<1> DEFINE x == Head(script[c])
<1>1. /\ script[c] \in Seq(Commands) /\ script[c] # <<>> /\ x \in Commands
      /\ Effect(c, x) /\ script' = [script EXCEPT ![c] = Tail(@)] /\ UNCHANGED hidden
  BY ElementsOfTail DEF QueueTyped, ScriptsOK, RunCommand
<1>2. script'[c] = Tail(script[c]) /\ \A d \in Clients : d # c => script'[d] = script[d]
  BY <1>1 DEF QueueTyped, ScriptsOK
<1>3. x.op \in {"saddJob", "execute", "saddFront", "lpush", "srem", "saddIdle", "push"}
  BY <1>1 DEF Commands, JobOps
<1> HIDE DEF x
<1> SUFFICES ASSUME NEW j \in enqueued', j \notin Listed', j \notin hidden
             PROVE  \E d \in Clients : j \in HalfDone(d)'
  BY <1>1 DEF MembersHaveEntries
<1>4. j \in enqueued /\ j \notin Listed => \E d \in Clients : j \in HalfDone(d)
  BY DEF MembersHaveEntries
<1>5. CASE x.op = "saddJob"
  <2>1. x.job \in QueueJobs /\ PriorityOf[x.job] \in Names
    BY <1>1, <1>5, QueueAssumption DEF Commands, JobOps
  <2>2. /\ enqueued' = enqueued \union {x.job} /\ UNCHANGED lists
        /\ pipe' = IF IsNew(x.job) THEN [pipe EXCEPT ![c][PriorityOf[x.job]] = Append(@, x.job)]
                                    ELSE pipe
    BY <1>1, <1>5 DEF Effect
  <2>3. /\ Append(pipe[c][PriorityOf[x.job]], x.job) \in Seq(QueueJobs)
        /\ ToSet(Append(pipe[c][PriorityOf[x.job]], x.job))
             = ToSet(pipe[c][PriorityOf[x.job]]) \union {x.job}
    BY <2>1, ElementsOfAppend DEF QueueTyped, ScriptsOK
  <2>4. \A d \in Clients, p \in Names :
          /\ ToSet(pipe[d][p]) \subseteq ToSet(pipe'[d][p])
          /\ IsNew(x.job) /\ d = c /\ p = PriorityOf[x.job] => x.job \in ToSet(pipe'[d][p])
    BY <2>1, <2>2, <2>3 DEF QueueTyped, ScriptsOK
  <2>5. \A d \in Clients : HalfDone(d) \subseteq HalfDone(d)'
    BY <1>2, <1>5, <2>4 DEF HalfDone, x
  <2>6. CASE j \in enqueued
    BY <1>4, <2>2, <2>5, <2>6 DEF Listed
  <2>7. CASE j \notin enqueued
    BY <2>1, <2>2, <2>4, <2>7 DEF HalfDone, IsNew
  <2> QED BY <2>6, <2>7
<1>6. CASE x.op = "execute"
  <2>1. lists' = Pushed(pipe[c]) /\ pipe' = [pipe EXCEPT ![c] = NoEntries] /\ UNCHANGED enqueued
    BY <1>1, <1>6 DEF Effect
  <2>2. \A p \in Names : ToSet(lists'[p]) = ToSet(lists[p]) \union ToSet(pipe[c][p])
    BY <2>1, ElementsOfConcat DEF QueueTyped, ScriptsOK, RedisOK, Pushed
  <2>3. j \notin Listed /\ j \notin HalfDone(c)
    BY <1>1, <1>6, <2>2 DEF Listed, HalfDone, x
  <2>4. \A d \in Clients : d # c => HalfDone(d) \subseteq HalfDone(d)'
    BY <1>2, <2>1, HalfDoneKept DEF QueueTyped, ScriptsOK
  <2> QED BY <1>4, <2>1, <2>3, <2>4
<1>7. CASE x.op = "saddFront"
  <2>1. enqueued' = enqueued \union {x.job} /\ UNCHANGED <<lists, pipe>>
    BY <1>1, <1>7 DEF Effect
  <2>2. \A d \in Clients : HalfDone(d) \subseteq HalfDone(d)'
    BY <1>2, <1>7, <2>1, HalfDoneKept DEF x
  <2>3. x.job \in HalfDone(c)'
    <3>1. c = Scheduler
      <4>1. x \in ToSet(script[c])
        BY <1>1, ElementsOfTail DEF x
      <4> QED BY <1>7, <4>1 DEF QueueTyped, ScriptsOK, Clients
    <3>2. 2 \in DOMAIN script[c] /\ script[c][2] = LpushJob(x.job)
      BY <1>1, <1>7, <3>1 DEF QueueTyped, ScriptsOK, FrontThenPush, x
    <3>3. script'[c] # <<>> /\ Head(script'[c]) = script[c][2]
      <4>1. ASSUME NEW t \in Seq(Commands), 2 \in DOMAIN t
            PROVE  Tail(t) # <<>> /\ Head(Tail(t)) = t[2]
        <5>1. Len(Tail(t)) = Len(t) - 1 /\ Len(t) >= 2 /\ Tail(t) \in Seq(Commands)
          BY <4>1
        <5>2. Tail(t)[1] = t[2] /\ Head(Tail(t)) = Tail(t)[1]
          BY <4>1, <5>1
        <5>3. Tail(t) # <<>>
          <6>1. Len(<<>>) = 0 /\ Len(Tail(t)) # 0
            BY <5>1
          <6> QED BY <6>1
        <5> QED BY <5>2, <5>3
      <4> QED BY <1>1, <1>2, <3>2, <4>1
    <3>4. LpushJob(x.job).op = "lpush" /\ LpushJob(x.job).job = x.job
      BY DEF LpushJob, Command
    <3> QED BY <3>2, <3>3, <3>4, HalfDoneMembers
  <2> QED BY <1>4, <2>1, <2>2, <2>3 DEF Listed
<1>8. CASE x.op = "lpush"
  <2>1. x.job \in QueueJobs /\ PriorityOf[x.job] \in Names
    BY <1>1, <1>8, QueueAssumption DEF Commands, JobOps
  <2>2. /\ lists' = [lists EXCEPT ![PriorityOf[x.job]] = <<x.job>> \o @]
        /\ UNCHANGED <<enqueued, pipe>>
    BY <1>1, <1>8 DEF Effect
  <2>3. ToSet(<<x.job>> \o lists[PriorityOf[x.job]])
          = {x.job} \union ToSet(lists[PriorityOf[x.job]])
    BY <2>1, ElementsOfPush DEF QueueTyped, RedisOK
  <2>4. Listed \union {x.job} \subseteq Listed'
    BY <2>1, <2>2, <2>3 DEF QueueTyped, RedisOK, Listed
  <2>5. \A d \in Clients : d # c => HalfDone(d) \subseteq HalfDone(d)'
    BY <1>2, <2>2, HalfDoneKept
  <2>6. HalfDone(c) \subseteq HalfDone(c)' \union {x.job}
    BY <2>2, HalfDoneMembers DEF x
  <2> QED BY <1>4, <2>2, <2>4, <2>5, <2>6
<1>9. CASE x.op = "srem"
  <2>1. enqueued' = enqueued \ {x.job} /\ UNCHANGED <<lists, pipe>>
    BY <1>1, <1>9 DEF Effect
  <2>2. \A d \in Clients : d # c => HalfDone(d) \subseteq HalfDone(d)'
    BY <1>2, <2>1, HalfDoneKept
  <2>3. HalfDone(c) \subseteq HalfDone(c)' \union {x.job}
    BY <2>1, HalfDoneMembers DEF x
  <2> QED BY <1>4, <2>1, <2>2, <2>3 DEF Listed
<1>10. CASE x.op \in {"saddIdle", "push"}
  <2>1. UNCHANGED <<enqueued, lists, pipe>>
    BY <1>1, <1>10 DEF Effect
  <2>2. \A d \in Clients : HalfDone(d) \subseteq HalfDone(d)'
    BY <1>2, <1>10, <2>1, HalfDoneKept DEF x
  <2> QED BY <1>4, <2>1, <2>2 DEF Listed
<1> QED BY <1>3, <1>5, <1>6, <1>7, <1>8, <1>9, <1>10

\* So does an interruption: what it hides is recorded.
LEMMA MembersInterrupt ==
  ASSUME QueueTyped, MembersHaveEntries, NEW c \in Clients, Interrupt(c),
         UNCHANGED <<enqueued, lists>>
  PROVE  MembersHaveEntries'
<1>1. \A d \in Clients : d # c => pipe'[d] = pipe[d] /\ script'[d] = script[d]
  BY DEF Interrupt, QueueTyped, ScriptsOK
<1>2. \A d \in Clients : d # c => HalfDone(d) \subseteq HalfDone(d)'
  BY <1>1, HalfDoneKept
<1>3. hidden' = hidden \union HalfDone(c)
  BY DEF Interrupt
<1> QED BY <1>2, <1>3 DEF MembersHaveEntries, Listed

\* And what leaves set, lists and half-done jobs alone.
LEMMA MembersKept ==
  ASSUME MembersHaveEntries, UNCHANGED <<enqueued, lists, hidden>>,
         \A c \in Clients : HalfDone(c) \subseteq HalfDone(c)'
  PROVE  MembersHaveEntries'
  BY DEF MembersHaveEntries, Listed

\* A new script of the scheduler, when the last one is done.
LEMMA HalfDoneThen ==
  ASSUME QueueTyped, NEW s, script[Scheduler] = <<>>,
         script' = [script EXCEPT ![Scheduler] = s], UNCHANGED pipe
  PROVE  \A c \in Clients : HalfDone(c) \subseteq HalfDone(c)'
<1>1. \A c \in Clients : c # Scheduler => script'[c] = script[c]
  BY DEF QueueTyped, ScriptsOK
<1> QED BY <1>1, HalfDoneKept

\* Every step keeps set and lists together.
LEMMA MembersStep ==
  QueueTyped /\ MembersHaveEntries /\ [QueueNext]_queueVars => MembersHaveEntries'
<1> SUFFICES ASSUME QueueTyped, MembersHaveEntries, [QueueNext]_queueVars
             PROVE  MembersHaveEntries'
  OBVIOUS
<1>1. Scheduler \in Clients /\ \A r \in Submissions : r \in Clients /\ r # Scheduler
  BY QueueAssumption DEF Clients
<1>2. CASE UNCHANGED <<enqueued, lists, script, pipe, hidden>>
  <2>1. \A c \in Clients : HalfDone(c) \subseteq HalfDone(c)'
    BY <1>2, HalfDoneKept
  <2> QED BY <1>2, <2>1, MembersKept
<1>3. ASSUME NEW r \in Submissions, Submit(r) PROVE MembersHaveEntries'
  <2>1. script[r] = <<>> \/ Head(script[r]).op \notin {"srem", "lpush"}
    <3>1. script[r] \in Seq(Commands)
      BY <1>1 DEF QueueTyped, ScriptsOK
    <3>2. script[r] # <<>> => Head(script[r]) \in ToSet(script[r])
      BY <3>1, ElementsOfTail
    <3> QED BY <3>2 DEF QueueTyped, ScriptsOK
  <2>2. \A c \in Clients : c # r => script'[c] = script[c]
    BY <1>3 DEF Submit, QueueTyped, ScriptsOK
  <2>3. UNCHANGED <<enqueued, lists, pipe, hidden>>
    BY <1>3 DEF Submit, redis
  <2>4. \A c \in Clients : HalfDone(c) \subseteq HalfDone(c)'
    BY <2>1, <2>2, <2>3, HalfDoneKept
  <2> QED BY <2>3, <2>4, MembersKept
<1>4. ASSUME NEW r \in Submissions, ApiRaises(r) PROVE MembersHaveEntries'
  BY <1>1, <1>4, MembersInterrupt DEF ApiRaises, redis
<1>5. CASE SchedulerStops
  BY <1>1, <1>5, MembersInterrupt DEF SchedulerStops, redis
<1>6. CASE ClearDispatchState
  BY <1>6 DEF ClearDispatchState, MembersHaveEntries
<1>7. CASE PushRaises
  <2>1. UNCHANGED <<enqueued, lists, pipe, hidden>> /\ Head(script[Scheduler]).op = "push"
    BY <1>7 DEF PushRaises
  <2>2. \A c \in Clients : c # Scheduler => script'[c] = script[c]
    BY <1>7 DEF PushRaises, Then, QueueTyped, ScriptsOK
  <2>3. \A c \in Clients : HalfDone(c) \subseteq HalfDone(c)'
    BY <2>1, <2>2, HalfDoneKept
  <2> QED BY <2>1, <2>3, MembersKept
<1>8. CASE PopNextJob
  <2> DEFINE p == PriorityAt(level)
  <2>1. p \in Names /\ script[Scheduler] = <<>> /\ UNCHANGED <<enqueued, pipe, hidden>>
    BY <1>8 DEF PopNextJob, At, QueueTyped, LocalsOK, PriorityAt, Priorities, Names
  <2>2. CASE UNCHANGED lists
    <3>1. \E s : script' = [script EXCEPT ![Scheduler] = s]
      BY <1>8 DEF PopNextJob, Then
    <3>2. \A c \in Clients : HalfDone(c) \subseteq HalfDone(c)'
      BY <2>1, <3>1, HalfDoneThen
    <3> QED BY <2>1, <2>2, <3>2, MembersKept
  <2>3. CASE lists[p] # <<>>
    <3>1. /\ lists' = [lists EXCEPT ![p] = Tail(lists[p])]
          /\ script' = [script EXCEPT ![Scheduler] = <<SremJob(Head(lists[p]))>>]
          /\ UNCHANGED <<idle, inbox>>
      BY <1>8, <2>3 DEF PopNextJob, AfterLpop, Then
    <3>2. \A c \in Clients : HalfDone(c) \subseteq HalfDone(c)'
      BY <2>1, <3>1, HalfDoneThen
    <3>3. Head(lists[p]) \in HalfDone(Scheduler)'
      <4>1. script'[Scheduler] = <<SremJob(Head(lists[p]))>>
        BY <1>1, <3>1 DEF QueueTyped, ScriptsOK
      <4>2. script'[Scheduler] # <<>> /\ Head(script'[Scheduler]) = SremJob(Head(lists[p]))
        BY <4>1
      <4>3. SremJob(Head(lists[p])).op = "srem" /\ SremJob(Head(lists[p])).job = Head(lists[p])
        BY DEF SremJob, Command
      <4> QED BY <1>1, <4>2, <4>3, HalfDoneMembers
    <3>4. Listed \subseteq Listed' \union {Head(lists[p])}
      <4>1. \A q \in Names : ToSet(lists[q]) = ToSet(lists'[q])
                               \union (IF q = p THEN {Head(lists[p])} ELSE {})
        BY <2>1, <2>3, <3>1, ListPopped DEF QueueTyped
      <4> QED BY <4>1 DEF Listed
    <3> QED BY <1>1, <2>1, <3>2, <3>3, <3>4 DEF MembersHaveEntries
  <2> QED BY <1>8, <2>2, <2>3 DEF PopNextJob
<1>9. ASSUME \/ SchedulerStarts \/ RecoverAtStart \/ SweepAtStart \/ Resend \/ Offer
             \/ LoopFindsNone \/ LoopSweeps \/ PopIdleWorker \/ AssignJob \/ UndoDispatch
             \/ \E J \in SUBSET QueueJobs : LoopRequeues(J)
      PROVE  MembersHaveEntries'
  <2>1. /\ script[Scheduler] = <<>> /\ \E s : script' = [script EXCEPT ![Scheduler] = s]
        /\ UNCHANGED <<enqueued, lists, pipe, hidden>>
    BY <1>9 DEF SchedulerStarts, RecoverAtStart, SweepAtStart, Resend, Offer, LoopFindsNone,
       LoopSweeps, PopIdleWorker, AssignJob, UndoDispatch, LoopRequeues, At, Then, redis
  <2>2. \A c \in Clients : HalfDone(c) \subseteq HalfDone(c)'
    BY <2>1, HalfDoneThen
  <2> QED BY <2>1, <2>2, MembersKept
<1>10. ASSUME NEW w \in Workers, WorkerStep(w) PROVE MembersHaveEntries'
  BY <1>2, <1>10 DEF WorkerStep, AnnounceWorkerIdle, PopWorkerJob, WorkerFetches, MarkWorkerBusy,
     WorkerClaims, JobEnds, redis
<1>11. ASSUME NEW j \in QueueJobs, RetryDelayElapses(j) PROVE MembersHaveEntries'
  BY <1>2, <1>11 DEF RetryDelayElapses, redis
<1>12. CASE UNCHANGED queueVars
  BY <1>2, <1>12 DEF queueVars, redis
<1> QED BY <1>1, <1>3, <1>4, <1>5, <1>6, <1>7, <1>8, <1>9, <1>10, <1>11, <1>12, MembersCommand
        DEF QueueNext, SchedulerStep

\* The set of enqueued jobs and the lists agree, but for what is being pushed
\* or popped and what an interruption has hidden.
THEOREM SetAndListsAgree == QueueSpec => []MembersHaveEntries
<1>1. QueueInit => MembersHaveEntries
  BY DEF QueueInit, MembersHaveEntries
<1> QED BY <1>1, MembersStep, Typed, PTL DEF QueueSpec

-----------------------------------------------------------------------------
(* What a worker starts.                                                     *)

\* A worker that has fetched a job finds it as it was when the claim comes, or
\* assigned to somebody else, and what it runs is its own.
Fetched ==
  \A w \in Workers :
    /\ workerPc[w] \in {"fetched", "claiming"} /\ assigned[held[w]] = w
         => rowStatus[held[w]] = "scheduled"
    /\ workerPc[w] = "running" => assigned[held[w]] = w /\ rowStatus[held[w]] = "running"

\* Rows without a worker: those of jobs not dispatched.
LEMMA AssignedRows ==
  ASSUME RowsOK, NEW j \in QueueJobs, NEW w \in Workers, assigned[j] = w
  PROVE  rowStatus[j] \in {"scheduled", "running", "ended"} /\ w # NoWorker
  BY QueueAssumption DEF RowsOK

\* Jobs set back were scheduled.
LEMMA FetchedUnassign ==
  ASSUME QueueTyped, Fetched, NEW J \in SUBSET QueueJobs, Unassign(J),
         \A j \in J : rowStatus[j] = "scheduled", UNCHANGED workerVars
  PROVE  Fetched'
<1>1. \A j \in QueueJobs : /\ j \in J => assigned'[j] = NoWorker
                           /\ j \notin J => assigned'[j] = assigned[j] /\ rowStatus'[j] = rowStatus[j]
  BY DEF Unassign
<1>2. \A w \in Workers : workerPc[w] \in {"fetched", "claiming", "running"} => held[w] \in QueueJobs
  BY DEF QueueTyped, WorkersOK
<1> QED BY <1>1, <1>2, QueueAssumption DEF Fetched, workerVars

\* Every step keeps it.
LEMMA FetchedStep == QueueTyped /\ Fetched /\ [QueueNext]_queueVars => Fetched'
<1> SUFFICES ASSUME QueueTyped, Fetched, [QueueNext]_queueVars PROVE Fetched'
  OBVIOUS
<1>1. \A w \in Workers : workerPc[w] \in {"fetched", "claiming", "running"} => held[w] \in QueueJobs
  BY DEF QueueTyped, WorkersOK
<1>2. ASSUME UNCHANGED <<rows, workerPc, held>> PROVE Fetched'
  BY <1>2 DEF Fetched, rows
<1>3. ASSUME NEW r \in Submissions, Submit(r) PROVE Fetched'
  <2>1. \A j \in QueueJobs : rowStatus'[j] = rowStatus[j] \/ rowStatus[j] = "absent"
    BY <1>3 DEF Submit
  <2>2. UNCHANGED <<assigned, workerVars>>
    BY <1>3 DEF Submit
  <2> QED BY <1>1, <2>1, <2>2, AssignedRows DEF Fetched, workerVars, QueueTyped
<1>4. ASSUME NEW j \in QueueJobs, RetryDelayElapses(j) PROVE Fetched'
  <2>1. \A k \in QueueJobs : rowStatus'[k] = rowStatus[k] \/ rowStatus[k] = "delayed"
    BY <1>4 DEF RetryDelayElapses, QueueTyped, RowsOK
  <2>2. UNCHANGED <<assigned, workerVars>>
    BY <1>4 DEF RetryDelayElapses
  <2> QED BY <1>1, <2>1, <2>2, AssignedRows DEF Fetched, workerVars, QueueTyped
<1>5. ASSUME RecoverAtStart \/ \E J \in SUBSET QueueJobs : LoopRequeues(J) PROVE Fetched'
  BY <1>2, <1>5, FetchedUnassign DEF RecoverAtStart, LoopRequeues, RequeueUnclaimed, workerVars
<1>6. CASE UndoDispatch
  <2>1. popped \in QueueJobs
    BY <1>6 DEF UndoDispatch, At, QueueTyped, LocalsOK
  <2>2. CASE rowStatus[popped] = "scheduled" /\ Unassign({popped})
    BY <1>6, <2>1, <2>2, FetchedUnassign DEF UndoDispatch
  <2> QED BY <1>2, <1>6, <2>2 DEF UndoDispatch, workerVars
<1>7. CASE AssignJob
  <2>1. CASE /\ rowStatus[popped] = "queued"
             /\ rowStatus' = [rowStatus EXCEPT ![popped] = "scheduled"]
             /\ assigned' = [assigned EXCEPT ![popped] = poppedWorker]
    <3>1. popped \in QueueJobs /\ UNCHANGED workerVars
      BY <1>7 DEF AssignJob, At, QueueTyped, LocalsOK
    <3>2. \A w \in Workers : workerPc[w] = "running" => held[w] # popped
      BY <2>1 DEF Fetched
    <3> QED BY <1>1, <2>1, <3>1, <3>2 DEF Fetched, workerVars, QueueTyped, RowsOK
  <2> QED BY <1>2, <1>7, <2>1 DEF AssignJob, workerVars
<1>8. ASSUME NEW w \in Workers, WorkerStep(w) PROVE Fetched'
  <2>1. \A v \in Workers : v # w => workerPc'[v] = workerPc[v] /\ held'[v] = held[v]
    BY <1>8 DEF WorkerStep, AnnounceWorkerIdle, PopWorkerJob, WorkerFetches, MarkWorkerBusy,
       WorkerClaims, JobEnds, WorkerGoes, QueueTyped, WorkersOK
  <2>2. CASE AnnounceWorkerIdle(w) \/ PopWorkerJob(w)
    <3>1. workerPc'[w] \in {"waiting", "popped"} /\ UNCHANGED rows
      BY <2>2 DEF AnnounceWorkerIdle, PopWorkerJob, WorkerGoes, QueueTyped, WorkersOK
    <3> QED BY <2>1, <3>1 DEF Fetched, rows
  <2>3. CASE WorkerFetches(w)
    <3>1. UNCHANGED rows /\ (workerPc'[w] = "announcing" \/ (/\ workerPc'[w] = "fetched"
                                                           /\ held'[w] = held[w]
                                                           /\ rowStatus[held[w]] = "scheduled"))
      BY <2>3 DEF WorkerFetches, WorkerGoes, IsMine, QueueTyped, WorkersOK
    <3> QED BY <2>1, <3>1 DEF Fetched, rows
  <2>4. CASE MarkWorkerBusy(w)
    <3>1. /\ UNCHANGED <<rows, held>> /\ workerPc'[w] = "claiming" /\ workerPc[w] = "fetched"
      BY <2>4 DEF MarkWorkerBusy, WorkerGoes, QueueTyped, WorkersOK
    <3> QED BY <2>1, <3>1 DEF Fetched, rows
  <2>5. CASE WorkerClaims(w)
    <3>1. CASE assigned[held[w]] = w
      <4>1. /\ held' = held /\ workerPc'[w] = "running" /\ held[w] \in QueueJobs
            /\ UNCHANGED assigned
            /\ rowStatus' = [rowStatus EXCEPT ![held[w]] = "running"]
        BY <1>1, <2>5, <3>1 DEF WorkerClaims, WorkerGoes, QueueTyped, WorkersOK
      <4>2. /\ rowStatus'[held[w]] = "running"
            /\ \A j \in QueueJobs : j # held[w] => rowStatus'[j] = rowStatus[j]
        BY <4>1 DEF QueueTyped, RowsOK
      <4> QED BY <1>1, <2>1, <3>1, <4>1, <4>2 DEF Fetched
    <3>2. CASE assigned[held[w]] # w
      <4>1. UNCHANGED rows /\ workerPc'[w] = "announcing"
        BY <2>5, <3>2 DEF WorkerClaims, WorkerGoes, QueueTyped, WorkersOK, rows
      <4> QED BY <2>1, <4>1 DEF Fetched, rows
    <3> QED BY <3>1, <3>2
  <2>6. CASE JobEnds(w)
    <3>1. held[w] \in QueueJobs /\ assigned[held[w]] = w /\ workerPc'[w] = "announcing"
      BY <1>1, <2>6 DEF JobEnds, WorkerGoes, Fetched, QueueTyped, WorkersOK
    <3>2. \A j \in QueueJobs : /\ j # held[w] => rowStatus'[j] = rowStatus[j] /\ assigned'[j] = assigned[j]
                               /\ assigned'[j] \in {assigned[j], NoWorker}
      BY <2>6, <3>1 DEF JobEnds, QueueTyped, RowsOK
    <3> QED BY <1>1, <2>1, <3>1, <3>2, QueueAssumption DEF Fetched
  <2> QED BY <1>8, <2>2, <2>3, <2>4, <2>5, <2>6 DEF WorkerStep
<1>9. CASE UNCHANGED queueVars
  BY <1>2, <1>9 DEF queueVars, workerVars
<1>10. ASSUME NEW c \in Clients, RunCommand(c) PROVE Fetched'
  BY <1>2, <1>10 DEF RunCommand, workerVars
<1>11. ASSUME NEW r \in Submissions, ApiRaises(r) PROVE Fetched'
  BY <1>2, <1>11 DEF ApiRaises, workerVars
<1>12. ASSUME \/ SchedulerStarts \/ ClearDispatchState \/ SweepAtStart \/ Resend \/ Offer
              \/ LoopFindsNone \/ LoopSweeps \/ PopIdleWorker \/ PopNextJob \/ PushRaises
       PROVE  Fetched'
  BY <1>2, <1>12 DEF SchedulerStarts, ClearDispatchState, SweepAtStart, Resend, Offer,
     LoopFindsNone, LoopSweeps, PopIdleWorker, PopNextJob, PushRaises, workerVars
<1>14. CASE SchedulerStops
  BY <1>2, <1>14 DEF SchedulerStops
<1>13. Scheduler \in Clients /\ \A r \in Submissions : r \in Clients
  BY DEF Clients
<1> QED BY <1>3, <1>4, <1>5, <1>6, <1>7, <1>8, <1>9, <1>10, <1>11, <1>12, <1>13,
           <1>14 DEF QueueNext, SchedulerStep

\* Whatever entries and messages are old or double, a worker starts nothing
\* but a job that is scheduled, and so nothing twice.
LEMMA StartsStep ==
  ASSUME QueueTyped, Fetched, QueueNext, NEW j \in QueueJobs,
         rowStatus'[j] = "running", rowStatus[j] # "running"
  PROVE  rowStatus[j] = "scheduled"
<1>1. ASSUME NEW w \in Workers, WorkerStep(w) PROVE rowStatus[j] = "scheduled"
  <2>1. CASE WorkerClaims(w)
    <3>1. assigned[held[w]] = w /\ workerPc[w] = "claiming"
          /\ rowStatus' = [rowStatus EXCEPT ![held[w]] = "running"]
      BY <2>1 DEF WorkerClaims
    <3>2. rowStatus[held[w]] = "scheduled" /\ held[w] = j
      BY <3>1 DEF Fetched, QueueTyped, RowsOK
    <3> QED BY <3>2
  <2>2. CASE JobEnds(w)
    BY <2>2 DEF JobEnds, QueueTyped, RowsOK
  <2> QED BY <1>1, <2>1, <2>2 DEF WorkerStep, AnnounceWorkerIdle, PopWorkerJob, WorkerFetches,
             MarkWorkerBusy, rows
<1>2. ASSUME NEW r \in Submissions, Submit(r) PROVE FALSE
  BY <1>2 DEF Submit
<1>3. ASSUME NEW k \in QueueJobs, RetryDelayElapses(k) PROVE FALSE
  BY <1>3 DEF RetryDelayElapses, QueueTyped, RowsOK
<1>4. ASSUME NEW J, Unassign(J) PROVE FALSE
  BY <1>4 DEF Unassign
<1>5. CASE AssignJob
  BY <1>5 DEF AssignJob, rows, QueueTyped, RowsOK
<1>6. CASE RecoverAtStart \/ UndoDispatch \/ \E J \in SUBSET QueueJobs : LoopRequeues(J)
  BY <1>4, <1>6 DEF RecoverAtStart, UndoDispatch, LoopRequeues, RequeueUnclaimed, rows
<1>7. ASSUME \/ SchedulerStarts \/ ClearDispatchState \/ SweepAtStart \/ Resend \/ Offer
             \/ LoopFindsNone \/ LoopSweeps \/ PopIdleWorker \/ PopNextJob \/ PushRaises
             \/ SchedulerStops \/ RunCommand(Scheduler)
             \/ \E r \in Submissions : RunCommand(r) \/ ApiRaises(r)
      PROVE  UNCHANGED rows
  BY <1>7 DEF SchedulerStarts, ClearDispatchState, SweepAtStart, Resend, Offer, LoopFindsNone,
     LoopSweeps, PopIdleWorker, PopNextJob, PushRaises, SchedulerStops, RunCommand, ApiRaises
<1> QED BY <1>1, <1>2, <1>3, <1>5, <1>6, <1>7 DEF QueueNext, SchedulerStep, rows

\* What a worker holds between fetch and end, always.
LEMMA FetchedAlways == QueueSpec => []Fetched
<1>1. QueueInit => Fetched
  BY DEF QueueInit, Fetched
<1> QED BY <1>1, FetchedStep, Typed, PTL DEF QueueSpec

\* No double entry, old message or repeated message starts a started job.
THEOREM NothingStartsTwice == QueueSpec => StartsOnlyAssigned
<1>1. QueueTyped /\ Fetched /\ [QueueNext]_queueVars =>
        [\A j \in QueueJobs : rowStatus'[j] = "running" /\ rowStatus[j] # "running"
            => rowStatus[j] = "scheduled"]_queueVars
  BY StartsStep
<1> QED BY <1>1, FetchedAlways, Typed, PTL DEF QueueSpec, StartsOnlyAssigned

-----------------------------------------------------------------------------
(* The order of dispatch.                                                    *)

\* While the scheduler looks for a job, the entries it began with are there,
\* and none in the lists it has found empty.
Looking ==
  phase = "popJob" =>
    /\ seen \subseteq Listed
    /\ \A j \in seen : \A p \in 1 .. 3 : PriorityOf[j] = Priorities[p] => level <= p

\* A command takes nothing from the lists.
LEMMA CommandsKeepEntries ==
  ASSUME QueueTyped, NEW c \in Clients, RunCommand(c)
  PROVE  Listed \subseteq Listed'
<1> DEFINE x == Head(script[c])
<1>1. x \in Commands /\ Effect(c, x)
  BY ElementsOfTail DEF QueueTyped, ScriptsOK, RunCommand
<1> HIDE DEF x
<1>2. CASE x.op = "execute"
  <2>1. lists' = Pushed(pipe[c])
    BY <1>1, <1>2 DEF Effect
  <2>2. \A p \in Names : ToSet(lists'[p]) = ToSet(lists[p]) \union ToSet(pipe[c][p])
    BY <2>1, ElementsOfConcat DEF QueueTyped, ScriptsOK, RedisOK, Pushed
  <2> QED BY <2>2 DEF Listed
<1>3. CASE x.op = "lpush"
  <2>1. x.job \in QueueJobs /\ PriorityOf[x.job] \in Names
    BY <1>1, <1>3, QueueAssumption DEF Commands, JobOps
  <2>2. lists' = [lists EXCEPT ![PriorityOf[x.job]] = <<x.job>> \o @]
    BY <1>1, <1>3 DEF Effect
  <2>3. ToSet(<<x.job>> \o lists[PriorityOf[x.job]])
          = {x.job} \union ToSet(lists[PriorityOf[x.job]])
    BY <2>1, ElementsOfPush DEF QueueTyped, RedisOK
  <2> QED BY <2>1, <2>2, <2>3 DEF QueueTyped, RedisOK, Listed
<1>4. CASE x.op \notin {"execute", "lpush"}
  <2>1. x.op \in {"saddJob", "saddFront", "srem", "saddIdle", "push"}
    BY <1>1, <1>4 DEF Commands, JobOps
  <2>2. UNCHANGED lists
    BY <1>1, <2>1 DEF Effect
  <2> QED BY <2>2 DEF Listed
<1> QED BY <1>2, <1>3, <1>4

\* Every step keeps it.
LEMMA LookingStep == QueueTyped /\ Looking /\ [QueueNext]_queueVars => Looking'
<1> SUFFICES ASSUME QueueTyped, Looking, [QueueNext]_queueVars, phase' = "popJob"
             PROVE  /\ seen' \subseteq Listed'
                    /\ \A j \in seen' : \A p \in 1 .. 3 : PriorityOf[j] = Priorities[p] => level' <= p
  BY DEF Looking
<1>1. CASE UNCHANGED <<lists, phase, level, seen>>
  BY <1>1 DEF Looking, Listed
<1>2. ASSUME NEW c \in Clients, RunCommand(c) PROVE Looking'
  BY <1>2, CommandsKeepEntries DEF RunCommand, locals, Looking
<1>3. CASE PopIdleWorker
  <2>1. level' = 1 /\ seen' = Listed /\ UNCHANGED lists
    BY <1>3 DEF PopIdleWorker, Then
  <2> QED BY <2>1 DEF Listed
<1>4. CASE PopNextJob
  <2>1. /\ phase = "popJob" /\ lists[PriorityAt(level)] = <<>> /\ level' = level + 1
        /\ UNCHANGED <<lists, seen>>
    BY <1>4 DEF PopNextJob, At, Then
  <2>2. ASSUME NEW j \in seen, NEW p \in 1 .. 3, PriorityOf[j] = Priorities[p] PROVE level + 1 <= p
    <3>1. j \in Listed /\ level <= p /\ level \in 1 .. 3
      BY <2>1, <2>2 DEF Looking, QueueTyped, LocalsOK
    <3>2. PICK q \in Names : j \in ToSet(lists[q])
      BY <3>1 DEF Listed
    <3>3. q = Priorities[p]
      BY <2>2, <3>2 DEF QueueTyped, RedisOK, InOwnList
    <3>4. Priorities[p] # Priorities[level]
      BY <2>1, <3>2, <3>3, ElementsOfEmpty DEF PriorityAt
    <3> QED BY <3>1, <3>4
  <2> QED BY <2>1, <2>2 DEF Looking, Listed
<1>5. ASSUME \/ \E r \in Submissions : Submit(r) \/ ApiRaises(r)
             \/ \E w \in Workers : WorkerStep(w)
             \/ \E j \in QueueJobs : RetryDelayElapses(j)
             \/ UNCHANGED queueVars
      PROVE  UNCHANGED <<lists, phase, level, seen>>
  BY <1>5 DEF Submit, ApiRaises, RetryDelayElapses, WorkerStep, AnnounceWorkerIdle, PopWorkerJob,
     WorkerFetches, MarkWorkerBusy, WorkerClaims, JobEnds, queueVars, redis, locals
<1>6. ASSUME \/ SchedulerStarts \/ RecoverAtStart \/ ClearDispatchState \/ SweepAtStart \/ Resend
             \/ Offer \/ LoopFindsNone \/ LoopSweeps \/ AssignJob \/ UndoDispatch
             \/ PushRaises \/ SchedulerStops \/ \E J \in SUBSET QueueJobs : LoopRequeues(J)
      PROVE  FALSE
  BY <1>6 DEF SchedulerStarts, RecoverAtStart, ClearDispatchState, SweepAtStart, Resend, Offer,
     LoopFindsNone, LoopSweeps, AssignJob, UndoDispatch, PushRaises, SchedulerStops, LoopRequeues,
     Then
<1>7. Scheduler \in Clients /\ \A r \in Submissions : r \in Clients
  BY DEF Clients
<1> QED BY <1>1, <1>2, <1>3, <1>4, <1>5, <1>6, <1>7 DEF QueueNext, SchedulerStep, Looking

\* The job the scheduler pops is of the highest priority that had an entry.
LEMMA PopStep ==
  ASSUME QueueTyped, Looking, QueueNext, phase = "popJob", popped' \in QueueJobs \ {popped},
         NEW j \in seen, NEW p \in 1 .. 3, NEW q \in 1 .. 3,
         PriorityOf[j] = Priorities[p], PriorityOf[popped'] = Priorities[q], p < q
  PROVE  FALSE
<1>1. CASE PopNextJob
  <2>1. lists[PriorityAt(level)] # <<>> /\ popped' = Head(lists[PriorityAt(level)])
        /\ lists' = [lists EXCEPT ![PriorityAt(level)] = Tail(lists[PriorityAt(level)])]
        /\ UNCHANGED <<enqueued, idle, inbox>>
    BY <1>1, QueueAssumption DEF PopNextJob, NothingInHand
  <2>2. PriorityAt(level) \in Names /\ level \in 1 .. 3
    BY DEF QueueTyped, LocalsOK, PriorityAt, Priorities, Names
  <2>3. PriorityOf[popped'] = Priorities[level]
    BY <2>1, <2>2, ListPopped DEF QueueTyped, PriorityAt
  <2>4. level = q
    BY <2>2, <2>3 DEF Priorities
  <2> QED BY <2>4 DEF Looking
<1>2. ASSUME \/ SchedulerStarts \/ RecoverAtStart \/ ClearDispatchState \/ SweepAtStart \/ Resend
             \/ Offer \/ LoopFindsNone \/ LoopSweeps \/ PopIdleWorker \/ AssignJob \/ UndoDispatch
             \/ PushRaises \/ \E J \in SUBSET QueueJobs : LoopRequeues(J)
      PROVE  FALSE
  BY <1>2 DEF SchedulerStarts, RecoverAtStart, ClearDispatchState, SweepAtStart, Resend, Offer,
     LoopFindsNone, LoopSweeps, PopIdleWorker, AssignJob, UndoDispatch, PushRaises, LoopRequeues,
     At
<1>3. CASE SchedulerStops
  BY <1>3, QueueAssumption DEF SchedulerStops, NothingInHand
<1>4. ASSUME \/ \E r \in Submissions : Submit(r) \/ ApiRaises(r) \/ RunCommand(r)
             \/ RunCommand(Scheduler)
             \/ \E w \in Workers : WorkerStep(w)
             \/ \E k \in QueueJobs : RetryDelayElapses(k)
      PROVE  UNCHANGED popped
  BY <1>4 DEF Submit, ApiRaises, RunCommand, RetryDelayElapses, WorkerStep, AnnounceWorkerIdle,
     PopWorkerJob, WorkerFetches, MarkWorkerBusy, WorkerClaims, JobEnds, locals
<1> QED BY <1>1, <1>2, <1>3, <1>4 DEF QueueNext, SchedulerStep

\* A job of lower priority does not overtake one that had its entry when the
\* scheduler began to look.
THEOREM NothingOvertakes == QueueSpec => PriorityIsRespected
<1>1. QueueInit => Looking
  BY DEF QueueInit, Looking
<1>2. QueueTyped /\ Looking /\ [QueueNext]_queueVars =>
        [phase = "popJob" /\ popped' \in QueueJobs \ {popped} =>
           \A j \in seen : \A p, q \in 1 .. 3 :
             PriorityOf[j] = Priorities[p] /\ PriorityOf[popped'] = Priorities[q] /\ p < q
               => j \notin Listed]_queueVars
  BY PopStep
<1> QED BY <1>1, <1>2, LookingStep, Typed, PTL DEF QueueSpec, PriorityIsRespected

-----------------------------------------------------------------------------
(* The start of the scheduler.                                               *)

\* When the messages deleted at start are being sent again, each scheduled job
\* is with its worker, in the worker's list, or still to be sent.
Resent ==
  phase = "offering" =>
    \A j \in QueueJobs : rowStatus[j] = "scheduled" =>
      \/ held[assigned[j]] = j \/ j \in ToSet(inbox[assigned[j]])
      \/ PushJob(assigned[j], j) \in ToSet(script[Scheduler])

\* A command of the scheduler keeps it.
LEMMA ResentCommand ==
  ASSUME QueueTyped, Resent, RunCommand(Scheduler)
  PROVE  Resent'
<1> DEFINE x == Head(script[Scheduler])
<1>1. /\ script[Scheduler] \in Seq(Commands) /\ script[Scheduler] # <<>>
      /\ x \in Commands /\ Effect(Scheduler, x)
      /\ script'[Scheduler] = Tail(script[Scheduler]) /\ UNCHANGED <<rows, phase, workerVars>>
  BY ElementsOfTail DEF QueueTyped, ScriptsOK, RunCommand, Clients
<1>2. ToSet(script[Scheduler]) = {x} \union ToSet(script'[Scheduler])
  BY <1>1, ElementsOfTail
<1> HIDE DEF x
<1>3. CASE x.op # "push"
  <2>1. UNCHANGED inbox
    BY <1>1, <1>3 DEF Effect, Commands, JobOps
  <2>2. \A w, j : PushJob(w, j) # x
    BY <1>3 DEF PushJob, Command
  <2> QED BY <1>1, <1>2, <2>1, <2>2 DEF Resent, rows, workerVars, PushJob
<1>4. CASE x.op = "push"
  <2>1. x.worker \in Workers /\ x.job \in QueueJobs
    BY <1>1, <1>4 DEF Commands, JobOps
  <2>2. inbox' = [inbox EXCEPT ![x.worker] = Append(@, x.job)]
    BY <1>1, <1>4 DEF Effect
  <2>3. ToSet(Append(inbox[x.worker], x.job)) = ToSet(inbox[x.worker]) \union {x.job}
    BY <2>1, ElementsOfAppend DEF QueueTyped, RedisOK
  <2>4. \A w \in Workers : /\ ToSet(inbox[w]) \subseteq ToSet(inbox'[w])
                           /\ w = x.worker => x.job \in ToSet(inbox'[w])
    BY <2>1, <2>2, <2>3 DEF QueueTyped, RedisOK
  <2>5. \A w, j : PushJob(w, j) = x => w = x.worker /\ j = x.job
    BY DEF PushJob, Command
  <2>6. \A j \in QueueJobs : rowStatus[j] = "scheduled" => assigned[j] \in Workers
    BY DEF QueueTyped, RowsOK
  <2> QED BY <1>1, <1>2, <2>4, <2>5, <2>6 DEF Resent, rows, workerVars, PushJob
<1> QED BY <1>3, <1>4

\* So does a step of a worker.
LEMMA ResentWorker ==
  ASSUME QueueTyped, Fetched, Resent, NEW w \in Workers, WorkerStep(w)
  PROVE  Resent'
<1>1. UNCHANGED <<script, phase>>
  BY DEF WorkerStep, AnnounceWorkerIdle, PopWorkerJob, WorkerFetches, MarkWorkerBusy, WorkerClaims,
     JobEnds
<1>2. \A v \in Workers : v # w => inbox'[v] = inbox[v] /\ held'[v] = held[v]
  BY DEF WorkerStep, AnnounceWorkerIdle, PopWorkerJob, WorkerFetches, MarkWorkerBusy, WorkerClaims,
     JobEnds, QueueTyped, WorkersOK, RedisOK, redis
<1>3. \A j \in QueueJobs : rowStatus'[j] = "scheduled" =>
        rowStatus[j] = "scheduled" /\ assigned'[j] = assigned[j] /\ assigned[j] \in Workers
  BY DEF WorkerStep, AnnounceWorkerIdle, PopWorkerJob, WorkerFetches, MarkWorkerBusy, WorkerClaims,
     JobEnds, QueueTyped, WorkersOK, RowsOK, rows
<1>4. ASSUME NEW j \in QueueJobs, rowStatus'[j] = "scheduled", assigned[j] = w,
             held[w] = j \/ j \in ToSet(inbox[w])
      PROVE  held'[w] = j \/ j \in ToSet(inbox'[w])
  <2>1. rowStatus[j] = "scheduled"
    BY <1>3, <1>4
  <2>2. CASE AnnounceWorkerIdle(w) \/ MarkWorkerBusy(w)
    BY <1>4, <2>2 DEF AnnounceWorkerIdle, MarkWorkerBusy
  <2>3. CASE PopWorkerJob(w)
    <3>1. /\ held'[w] = Head(inbox[w]) /\ inbox'[w] = Tail(inbox[w])
          /\ held[w] = NoQueueJob /\ inbox[w] # <<>> /\ inbox[w] \in Seq(QueueJobs)
      BY <2>3 DEF PopWorkerJob, QueueTyped, WorkersOK, RedisOK
    <3>2. ToSet(inbox[w]) = {Head(inbox[w])} \union ToSet(Tail(inbox[w]))
      BY <3>1, ElementsOfTail
    <3> QED BY <1>4, <3>1, <3>2, QueueAssumption
  <2>4. CASE WorkerFetches(w)
    BY <1>4, <2>1, <2>4 DEF WorkerFetches, IsMine, QueueTyped, WorkersOK, redis
  <2>5. CASE WorkerClaims(w)
    BY <1>4, <2>5 DEF WorkerClaims, QueueTyped, WorkersOK, RowsOK, redis
  <2>6. CASE JobEnds(w)
    BY <1>4, <2>1, <2>6 DEF JobEnds, Fetched, QueueTyped, WorkersOK, RowsOK, redis
  <2> QED BY <2>2, <2>3, <2>4, <2>5, <2>6 DEF WorkerStep
<1> QED BY <1>1, <1>2, <1>3, <1>4 DEF Resent, PushJob

\* Every step keeps it.
LEMMA ResentStep == QueueTyped /\ Fetched /\ Resent /\ [QueueNext]_queueVars => Resent'
<1> SUFFICES ASSUME QueueTyped, Fetched, Resent, [QueueNext]_queueVars PROVE Resent'
  OBVIOUS
<1>1. ASSUME UNCHANGED <<phase, held, inbox, assigned>>, script'[Scheduler] = script[Scheduler],
             \A j \in QueueJobs : rowStatus'[j] = "scheduled" => rowStatus[j] = "scheduled"
      PROVE  Resent'
  BY <1>1 DEF Resent, PushJob
<1>2. Scheduler \in Clients /\ \A r \in Submissions : r \in Clients /\ r # Scheduler
  BY QueueAssumption DEF Clients
<1>3. ASSUME NEW r \in Submissions, Submit(r) PROVE Resent'
  <2>1. script'[Scheduler] = script[Scheduler]
    BY <1>2, <1>3 DEF Submit, QueueTyped, ScriptsOK
  <2>2. \A j \in QueueJobs : rowStatus'[j] = "scheduled" => rowStatus[j] = "scheduled"
    BY <1>3 DEF Submit
  <2> QED BY <1>1, <1>3, <2>1, <2>2 DEF Submit, redis, workerVars
<1>4. ASSUME NEW r \in Submissions, RunCommand(r) PROVE Resent'
  <2>1. script[r] \in Seq(Commands) /\ script[r] # <<>> /\ Effect(r, Head(script[r]))
        /\ script'[Scheduler] = script[Scheduler] /\ UNCHANGED <<rows, phase, workerVars>>
    BY <1>2, <1>4 DEF RunCommand, QueueTyped, ScriptsOK
  <2>2. Head(script[r]).op \in {"saddJob", "execute"}
    BY <2>1, ElementsOfTail DEF QueueTyped, ScriptsOK
  <2>3. UNCHANGED inbox
    BY <2>1, <2>2 DEF Effect
  <2> QED BY <1>1, <2>1, <2>3 DEF rows, workerVars
<1>5. ASSUME NEW r \in Submissions, ApiRaises(r) PROVE Resent'
  <2>1. script'[Scheduler] = script[Scheduler]
    BY <1>2, <1>5 DEF ApiRaises, Interrupt, QueueTyped, ScriptsOK
  <2> QED BY <1>1, <1>5, <2>1 DEF ApiRaises, rows, redis, workerVars
<1>6. ASSUME NEW j \in QueueJobs, RetryDelayElapses(j) PROVE Resent'
  <2>1. \A k \in QueueJobs : rowStatus'[k] = "scheduled" => rowStatus[k] = "scheduled"
    BY <1>6 DEF RetryDelayElapses, QueueTyped, RowsOK
  <2> QED BY <1>1, <1>6, <2>1 DEF RetryDelayElapses, redis, workerVars
<1>7. CASE UNCHANGED queueVars
  BY <1>1, <1>7 DEF queueVars, rows, redis, workerVars
<1>8. CASE Resend
  <2>1. \A j \in QueueJobs : rowStatus[j] = "scheduled" =>
          PushJob(assigned[j], j) \in ToSet(script'[Scheduler])
    BY <1>2, <1>8, ResendScript DEF Resend, Then, QueueTyped, ScriptsOK
  <2> QED BY <1>8, <2>1 DEF Resend, Resent, rows, PushJob
<1>9. ASSUME \/ SchedulerStarts \/ RecoverAtStart \/ ClearDispatchState \/ SweepAtStart
             \/ Offer \/ LoopFindsNone \/ LoopSweeps \/ PopIdleWorker \/ PopNextJob \/ AssignJob
             \/ UndoDispatch \/ PushRaises \/ SchedulerStops
             \/ \E J \in SUBSET QueueJobs : LoopRequeues(J)
      PROVE  phase' # "offering"
  BY <1>9 DEF SchedulerStarts, RecoverAtStart, ClearDispatchState, SweepAtStart, Offer,
     LoopFindsNone, LoopSweeps, PopIdleWorker, PopNextJob, AssignJob, UndoDispatch, PushRaises,
     SchedulerStops, LoopRequeues, Then
<1> QED BY <1>3, <1>4, <1>5, <1>6, <1>7, <1>8, <1>9, ResentCommand, ResentWorker
        DEF QueueNext, SchedulerStep, Resent

\* The loop begins when nothing is left to send.
LEMMA LoopBegins ==
  ASSUME QueueTyped, QueueNext, phase = "offering", phase' = "loop"
  PROVE  script[Scheduler] = <<>>
<1>1. ASSUME \/ \E r \in Submissions : Submit(r) \/ ApiRaises(r) \/ RunCommand(r)
             \/ RunCommand(Scheduler)
             \/ \E w \in Workers : WorkerStep(w)
             \/ \E k \in QueueJobs : RetryDelayElapses(k)
      PROVE  UNCHANGED phase
  BY <1>1 DEF Submit, ApiRaises, RunCommand, RetryDelayElapses, WorkerStep, AnnounceWorkerIdle,
     PopWorkerJob, WorkerFetches, MarkWorkerBusy, WorkerClaims, JobEnds
<1>2. ASSUME \/ SchedulerStarts \/ RecoverAtStart \/ ClearDispatchState \/ SweepAtStart \/ Resend
             \/ LoopFindsNone \/ LoopSweeps \/ PopIdleWorker \/ PopNextJob \/ AssignJob
             \/ UndoDispatch \/ PushRaises \/ SchedulerStops
             \/ \E J \in SUBSET QueueJobs : LoopRequeues(J)
      PROVE  FALSE
  BY <1>2 DEF SchedulerStarts, RecoverAtStart, ClearDispatchState, SweepAtStart, Resend,
     LoopFindsNone, LoopSweeps, PopIdleWorker, PopNextJob, AssignJob, UndoDispatch, PushRaises,
     SchedulerStops, LoopRequeues, Then, At
<1>3. CASE Offer
  BY <1>3 DEF Offer, At
<1> QED BY <1>1, <1>2, <1>3 DEF QueueNext, SchedulerStep

\* When the scheduler has started, every scheduled job has its message again.
THEOREM MessagesAreResent == QueueSpec => AssignedIsResent
<1>1. QueueInit => Resent
  BY DEF QueueInit, Resent
<1>2. QueueTyped /\ Resent /\ [QueueNext]_queueVars =>
        [phase = "offering" /\ phase' = "loop" =>
           \A j \in QueueJobs : rowStatus[j] = "scheduled" =>
             LET w == assigned[j] IN held[w] = j \/ j \in ToSet(inbox[w])]_queueVars
  BY LoopBegins, ElementsOfEmpty DEF Resent
<1> QED BY <1>1, <1>2, ResentStep, FetchedAlways, Typed, PTL DEF QueueSpec, AssignedIsResent

-----------------------------------------------------------------------------
(* Workers that wait in vain.                                                *)

\* Worker w is offered or does not need to be.
Found(w) == workerPc[w] # "waiting" \/ w \in idle \/ inbox[w] # <<>> \/ ActiveOn(w) # {}

\* The scheduler is going to offer it, or to send it a message.
ToBeOffered(w) ==
  \/ phase \notin {"loop", "loopSweep", "popWorker", "popJob", "assign", "undo"}
  \/ phase = "loopSweep" /\ w \in reusable
  \/ phase \in {"popJob", "assign", "undo"} /\ poppedWorker = w
  \/ \E x \in ToSet(script[Scheduler]) : x.worker = w

\* A message is the only command of its script.
OneMessage ==
  phase = "popWorker" =>
    \A x, y \in ToSet(script[Scheduler]) : x.op = "push" => y.worker = x.worker

Offered == OneMessage /\ \A w \in Workers : Found(w) \/ ToBeOffered(w) \/ w \in dropped

\* The commands that offer some workers name them all.
LEMMA IdleScriptNames ==
  ASSUME NEW ws \in Seq(Workers), NEW w \in ToSet(ws)
  PROVE  \E x \in ToSet(RequeueIdleWorkers(ws)) : x.worker = w
<1>1. PICK i \in DOMAIN ws : ws[i] = w
  BY DEF ToSet
<1>2. i \in DOMAIN RequeueIdleWorkers(ws) /\ RequeueIdleWorkers(ws)[i] = SaddIdle(w)
  BY <1>1 DEF RequeueIdleWorkers
<1>3. SaddIdle(w) \in ToSet(RequeueIdleWorkers(ws))
  BY <1>2 DEF ToSet
<1> QED BY <1>3 DEF SaddIdle, Command

\* A set of workers as a sequence.
LEMMA WorkerSequence ==
  ASSUME NEW W \in SUBSET Workers
  PROVE  SetToSeq(W) \in Seq(Workers) /\ ToSet(SetToSeq(W)) = W
<1>1. SetToSeq(W) \in Seq(W) /\ ToSet(SetToSeq(W)) = W
  BY QueueAssumption, FS_Subset, ElementsOfSet
<1> QED BY <1>1

\* A command of the scheduler keeps every worker offered.
LEMMA OfferedCommand ==
  ASSUME QueueTyped, Offered, RunCommand(Scheduler)
  PROVE  Offered'
<1> DEFINE x == Head(script[Scheduler])
<1>1. /\ script[Scheduler] \in Seq(Commands) /\ script[Scheduler] # <<>>
      /\ x \in Commands /\ Effect(Scheduler, x)
      /\ script'[Scheduler] = Tail(script[Scheduler])
      /\ UNCHANGED <<rows, phase, locals, workerVars>>
  BY ElementsOfTail DEF QueueTyped, ScriptsOK, RunCommand, Clients
<1>2. ToSet(script[Scheduler]) = {x} \union ToSet(script'[Scheduler])
  BY <1>1, ElementsOfTail
<1> HIDE DEF x
<1>3. OneMessage'
  BY <1>1, <1>2 DEF Offered, OneMessage
<1>4. \A w \in Workers : ActiveOn(w)' = ActiveOn(w)
  BY <1>1 DEF ActiveOn, rows
<1>5. \A w \in Workers : w \in idle => w \in idle'
  BY <1>1 DEF Effect, Commands, JobOps
<1>6. \A w \in Workers : inbox[w] # <<>> => inbox'[w] # <<>>
  <2>1. CASE x.op = "push"
    <3>1. x.worker \in Workers /\ x.job \in QueueJobs
          /\ inbox' = [inbox EXCEPT ![x.worker] = Append(@, x.job)]
      BY <1>1, <2>1 DEF Effect, Commands, JobOps
    <3>2. inbox[x.worker] \in Seq(QueueJobs)
      BY <3>1 DEF QueueTyped, RedisOK
    <3>3. Append(inbox[x.worker], x.job) # <<>>
      BY <3>1, <3>2, AppendByIndex
    <3> QED BY <3>1, <3>3 DEF QueueTyped, RedisOK
  <2>2. CASE x.op # "push"
    BY <1>1, <2>2 DEF Effect, Commands, JobOps
  <2> QED BY <2>1, <2>2
<1>7. ASSUME NEW w \in Workers, x.worker = w PROVE Found(w)'
  <2>1. w # NoWorker
    BY QueueAssumption
  <2>2. CASE x.op = "saddIdle"
    BY <1>1, <1>7, <2>2 DEF Effect, Found
  <2>3. CASE x.op = "push"
    <3>1. x.job \in QueueJobs /\ inbox' = [inbox EXCEPT ![w] = Append(@, x.job)]
      BY <1>1, <1>7, <2>3 DEF Effect, Commands, JobOps
    <3>2. inbox[w] \in Seq(QueueJobs) /\ inbox'[w] = Append(inbox[w], x.job)
      BY <3>1 DEF QueueTyped, RedisOK
    <3>3. Append(inbox[w], x.job) # <<>>
      BY <3>1, <3>2, AppendByIndex
    <3> QED BY <3>2, <3>3 DEF Found
  <2> QED BY <1>1, <1>7, <2>1, <2>2, <2>3 DEF Commands, JobOps
<1>8. ASSUME NEW w \in Workers PROVE Found(w)' \/ ToBeOffered(w)' \/ w \in dropped'
  <2>1. CASE Found(w)
    BY <1>1, <1>4, <1>5, <1>6, <2>1 DEF Found, workerVars
  <2>2. CASE ToBeOffered(w)
    BY <1>1, <1>2, <1>7, <2>2 DEF ToBeOffered, locals
  <2>3. CASE w \in dropped
    BY <1>1, <2>3 DEF workerVars
  <2> QED BY <2>1, <2>2, <2>3 DEF Offered
<1> QED BY <1>3, <1>8 DEF Offered

\* So does a step of a worker: what it takes away from itself it does not wait
\* for, and from others it takes nothing.
LEMMA OfferedWorker ==
  ASSUME QueueTyped, Fetched, Offered, NEW w \in Workers, WorkerStep(w)
  PROVE  Offered'
<1>1. UNCHANGED <<script, phase, locals>>
  BY DEF WorkerStep, AnnounceWorkerIdle, PopWorkerJob, WorkerFetches, MarkWorkerBusy, WorkerClaims,
     JobEnds
<1>2. OneMessage' /\ \A v \in Workers : ToBeOffered(v) => ToBeOffered(v)'
  BY <1>1 DEF Offered, OneMessage, ToBeOffered, locals
<1>3. \A v \in Workers \ {w} : /\ v \in idle => v \in idle'
                               /\ v \in dropped => v \in dropped'
                               /\ inbox'[v] = inbox[v] /\ workerPc'[v] = workerPc[v]
  BY DEF WorkerStep, AnnounceWorkerIdle, PopWorkerJob, WorkerFetches, MarkWorkerBusy, WorkerClaims,
     JobEnds, WorkerGoes, QueueTyped, WorkersOK, RedisOK, redis
<1>4. \A v \in Workers : v # w => ActiveOn(v) \subseteq ActiveOn(v)'
  <2>1. CASE AnnounceWorkerIdle(w) \/ PopWorkerJob(w) \/ WorkerFetches(w) \/ MarkWorkerBusy(w)
    <3>1. UNCHANGED rows
      BY <2>1 DEF AnnounceWorkerIdle, PopWorkerJob, WorkerFetches, MarkWorkerBusy
    <3> QED BY <3>1 DEF ActiveOn, rows
  <2>2. CASE WorkerClaims(w)
    <3>1. UNCHANGED assigned
      BY <2>2 DEF WorkerClaims, rows
    <3>2. \A j \in QueueJobs : rowStatus'[j] \in {rowStatus[j], "running"}
      BY <2>2 DEF WorkerClaims, QueueTyped, RowsOK
    <3> QED BY <3>1, <3>2 DEF ActiveOn
  <2>3. CASE JobEnds(w)
    <3>1. held[w] \in QueueJobs /\ assigned[held[w]] = w
      BY <2>3 DEF JobEnds, Fetched, QueueTyped, WorkersOK
    <3>2. \A j \in QueueJobs : j # held[w] => rowStatus'[j] = rowStatus[j] /\ assigned'[j] = assigned[j]
      BY <2>3, <3>1 DEF JobEnds, QueueTyped, RowsOK
    <3> QED BY <3>1, <3>2 DEF ActiveOn
  <2> QED BY <2>1, <2>2, <2>3 DEF WorkerStep
<1>5. Found(w)'
  BY DEF WorkerStep, AnnounceWorkerIdle, PopWorkerJob, WorkerFetches, MarkWorkerBusy, WorkerClaims,
     JobEnds, WorkerGoes, QueueTyped, WorkersOK, Found
<1>6. ASSUME NEW v \in Workers PROVE Found(v)' \/ ToBeOffered(v)' \/ v \in dropped'
  <2>1. CASE v = w
    BY <1>5, <2>1
  <2>2. CASE v # w /\ Found(v)
    <3>1. ActiveOn(v) # {} => ActiveOn(v)' # {}
      BY <1>4, <2>2
    <3>2. /\ v \in idle => v \in idle'
          /\ inbox'[v] = inbox[v] /\ workerPc'[v] = workerPc[v]
      BY <1>3, <2>2
    <3> QED BY <2>2, <3>1, <3>2 DEF Found
  <2>3. CASE v # w /\ (ToBeOffered(v) \/ v \in dropped)
    BY <1>1, <1>3, <2>3 DEF ToBeOffered, locals
  <2> QED BY <2>1, <2>2, <2>3 DEF Offered
<1> QED BY <1>2, <1>6 DEF Offered

\* A step after which the tables, messages and announcements are as before,
\* with a script that names the same workers.
LEMMA OfferedKept ==
  ASSUME Offered, UNCHANGED <<rowStatus, assigned, workerPc, idle, inbox, dropped>>,
         OneMessage', \A w \in Workers : ToBeOffered(w) => ToBeOffered(w)'
  PROVE  Offered'
  BY DEF Offered, Found, ActiveOn

\* A step of the scheduler's start.
LEMMA OfferedStart ==
  ASSUME QueueTyped, Offered,
         SchedulerStarts \/ RecoverAtStart \/ ClearDispatchState \/ SweepAtStart \/ Resend
  PROVE  Offered'
<1>1. phase' \in {"recovering", "clearing", "sweeping", "resending", "offering"}
  BY DEF SchedulerStarts, RecoverAtStart, ClearDispatchState, SweepAtStart, Resend, Then
<1> QED BY <1>1 DEF Offered, OneMessage, ToBeOffered

\* The end of the start offers every worker without a job.
LEMMA OfferedOffer ==
  ASSUME QueueTyped, Offered, Offer
  PROVE  Offered'
<1> DEFINE W == {w \in Workers : ActiveOn(w) = {}}
<1>1. /\ phase' = "loop" /\ script'[Scheduler] = RequeueIdleWorkers(SetToSeq(W))
      /\ UNCHANGED rows
  BY DEF Offer, Then, QueueTyped, ScriptsOK, Clients
<1>2. W \subseteq Workers
  OBVIOUS
<1>3. \A w \in Workers : ActiveOn(w)' = ActiveOn(w)
  BY <1>1 DEF ActiveOn, rows
<1>4. ASSUME NEW w \in Workers, ActiveOn(w) = {} PROVE ToBeOffered(w)'
  <2>1. w \in W
    BY <1>4
  <2> HIDE DEF W
  <2> QED BY <1>1, <1>2, <2>1, WorkerSequence, IdleScriptNames DEF ToBeOffered
<1> QED BY <1>1, <1>3, <1>4 DEF Offered, OneMessage, Found

\* The passes of the loop before dispatch: the claim timeout takes jobs from
\* workers it keeps in hand, and the sweep offers those.
LEMMA OfferedSweep ==
  ASSUME QueueTyped, Offered,
         LoopFindsNone \/ LoopSweeps \/ \E J \in SUBSET QueueJobs : LoopRequeues(J)
  PROVE  Offered'
<1>1. CASE LoopFindsNone
  <2>1. /\ phase = "loop" /\ script[Scheduler] = <<>> /\ phase' = "loopSweep"
        /\ UNCHANGED <<rows, redis, workerVars>>
    BY <1>1 DEF LoopFindsNone, At, Then
  <2>2. \A w \in Workers : ~ToBeOffered(w)
    BY <2>1, ElementsOfEmpty DEF ToBeOffered
  <2>3. OneMessage'
    BY <2>1 DEF OneMessage
  <2> QED BY <2>1, <2>2, <2>3, OfferedKept DEF rows, redis, workerVars
<1>2. CASE LoopSweeps
  <2>1. PICK js \in QueuedJobs :
          Then("popWorker", EnqueueJobs(js) \o RequeueIdleWorkers(SetToSeq(reusable)))
    BY <1>2 DEF LoopSweeps
  <2> DEFINE s == EnqueueJobs(js)
             t == RequeueIdleWorkers(SetToSeq(reusable))
  <2>2. js \in Seq(QueueJobs) /\ SetToSeq(reusable) \in Seq(Workers) /\ ToSet(SetToSeq(reusable)) = reusable
    BY SetsTyped, WorkerSequence DEF QueueTyped, LocalsOK
  <2>3. /\ s \in Seq(Commands) /\ t \in Seq(Commands)
        /\ \A x \in ToSet(s) : x.op # "push"
        /\ \A x \in ToSet(t) : x.op # "push"
        /\ \A w \in reusable : \E x \in ToSet(t) : x.worker = w
    BY <2>2, EnqueueScript, IdleScript, IdleScriptNames
  <2>4. script'[Scheduler] = s \o t
    BY <2>1 DEF Then, QueueTyped, ScriptsOK, Clients
  <2> HIDE DEF s, t
  <2>5. ToSet(s \o t) = ToSet(s) \union ToSet(t)
    BY <2>3, ElementsOfConcat
  <2>6. /\ phase = "loopSweep" /\ script[Scheduler] = <<>>
        /\ UNCHANGED <<rows, redis, workerVars>>
    BY <1>2 DEF LoopSweeps, At
  <2>7. \A w \in Workers : ToBeOffered(w) => ToBeOffered(w)'
    BY <2>3, <2>4, <2>5, <2>6, ElementsOfEmpty DEF ToBeOffered
  <2>8. OneMessage'
    BY <2>3, <2>4, <2>5 DEF OneMessage
  <2> QED BY <2>6, <2>7, <2>8, OfferedKept DEF rows, redis, workerVars
<1>3. ASSUME NEW J \in SUBSET QueueJobs, LoopRequeues(J) PROVE Offered'
  <2>1. /\ phase = "loop" /\ script[Scheduler] = <<>> /\ phase' = "loopSweep"
        /\ reusable' = {assigned[j] : j \in J}
        /\ Unassign(J) /\ UNCHANGED <<redis, workerVars>>
    BY <1>3 DEF LoopRequeues, RequeueUnclaimed, At, Then
  <2>2. OneMessage'
    BY <2>1 DEF OneMessage
  <2>3. ASSUME NEW w \in Workers PROVE Found(w)' \/ ToBeOffered(w)' \/ w \in dropped'
    <3>1. Found(w) \/ w \in dropped
      BY <2>1, ElementsOfEmpty DEF Offered, ToBeOffered
    <3>2. CASE \E j \in J : assigned[j] = w
      BY <2>1, <3>2 DEF ToBeOffered
    <3>3. CASE ~\E j \in J : assigned[j] = w
      <4>1. ActiveOn(w) \subseteq ActiveOn(w)'
        BY <2>1, <3>3 DEF ActiveOn, Unassign
      <4>2. ActiveOn(w) # {} => ActiveOn(w)' # {}
        BY <4>1
      <4> QED BY <2>1, <3>1, <4>2 DEF Found, redis, workerVars
    <3> QED BY <3>2, <3>3
  <2> QED BY <2>2, <2>3 DEF Offered
<1> QED BY <1>1, <1>2, <1>3

\* The pops: the worker popped is in hand, and offered again if there is no job.
LEMMA OfferedPops ==
  ASSUME QueueTyped, Offered, PopIdleWorker \/ PopNextJob
  PROVE  Offered'
<1>1. script[Scheduler] = <<>> /\ ToSet(script[Scheduler]) = {} /\ Scheduler \in Clients
  BY ElementsOfEmpty DEF PopIdleWorker, PopNextJob, At, Clients
<1>2. UNCHANGED <<rowStatus, assigned, workerPc, inbox, dropped>>
  BY DEF PopIdleWorker, PopNextJob, rows, workerVars
<1>3. phase' # "popWorker"
  BY DEF PopIdleWorker, PopNextJob, Then
<1>4. CASE PopIdleWorker
  <2>1. phase = "popWorker"
    BY <1>4 DEF PopIdleWorker, At
  <2>2. ASSUME NEW w \in Workers PROVE Found(w)' \/ ToBeOffered(w)' \/ w \in dropped'
    <3>1. Found(w) \/ w \in dropped
      BY <1>1, <2>1 DEF Offered, ToBeOffered
    <3>2. w \in idle => w \in idle' \/ (phase' = "popJob" /\ poppedWorker' = w)
      BY <1>4 DEF PopIdleWorker, Then
    <3> QED BY <1>2, <3>1, <3>2 DEF Found, ActiveOn, ToBeOffered
  <2> QED BY <1>3, <2>2 DEF Offered, OneMessage
<1>5. CASE PopNextJob
  <2>1. phase = "popJob" /\ UNCHANGED idle
    BY <1>5 DEF PopNextJob, At
  <2>2. \/ phase' \in {"popJob", "assign"} /\ UNCHANGED poppedWorker
        \/ Then("loop", <<SaddIdle(poppedWorker)>>)
    BY <1>5 DEF PopNextJob, Then
  <2>3. ASSUME Then("loop", <<SaddIdle(poppedWorker)>>)
        PROVE  \E x \in ToSet(script'[Scheduler]) : x.worker = poppedWorker
    <3>1. script'[Scheduler] = <<SaddIdle(poppedWorker)>>
      BY <1>1, <2>3 DEF Then, QueueTyped, ScriptsOK
    <3> QED BY <3>1, ElementsOfOne DEF SaddIdle, Command
  <2>4. ASSUME NEW w \in Workers PROVE ToBeOffered(w) => ToBeOffered(w)'
    BY <1>1, <2>1, <2>2, <2>3 DEF ToBeOffered
  <2>5. OneMessage'
    BY <1>3 DEF OneMessage
  <2> QED BY <1>2, <2>1, <2>4, <2>5, OfferedKept
<1> QED BY <1>4, <1>5

\* The assignment and its undo: the worker popped has the job, had another one,
\* or is offered again.
LEMMA OfferedAssign ==
  ASSUME QueueTyped, Offered, AssignJob \/ UndoDispatch
  PROVE  Offered'
<1>1. /\ script[Scheduler] = <<>> /\ ToSet(script[Scheduler]) = {} /\ Scheduler \in Clients
      /\ phase \in {"assign", "undo"} /\ popped \in QueueJobs /\ poppedWorker \in Workers
  BY ElementsOfEmpty DEF AssignJob, UndoDispatch, At, Clients, QueueTyped, LocalsOK
<1>2. UNCHANGED <<workerPc, inbox, idle, dropped>>
  BY DEF AssignJob, UndoDispatch, redis, workerVars
<1>3. \A w \in Workers : w = poppedWorker \/ Found(w) \/ w \in dropped
  BY <1>1 DEF Offered, ToBeOffered
<1>4. CASE AssignJob
  <2>1. phase = "assign" /\ phase' = "popWorker"
    BY <1>4 DEF AssignJob, At, Then
  <2>2. CASE ActiveOn(poppedWorker) # {}
    <3>1. script'[Scheduler] = RequeueJobFront(popped) /\ UNCHANGED rows
      BY <1>1, <1>4, <2>2 DEF AssignJob, Then, QueueTyped, ScriptsOK
    <3>2. \A w \in Workers : ActiveOn(w)' = ActiveOn(w)
      BY <3>1 DEF ActiveOn, rows
    <3>3. OneMessage'
      BY <1>1, <3>1, FrontScript DEF OneMessage
    <3> QED BY <1>2, <1>3, <2>2, <3>2, <3>3 DEF Offered, Found
  <2>3. CASE ActiveOn(poppedWorker) = {} /\ rowStatus[popped] # "queued"
    <3>1. script'[Scheduler] = <<SaddIdle(poppedWorker)>> /\ UNCHANGED rows
      BY <1>1, <1>4, <2>3 DEF AssignJob, AfterRefusedJob, Then, QueueTyped, ScriptsOK
    <3>2. \A w \in Workers : ActiveOn(w)' = ActiveOn(w)
      BY <3>1 DEF ActiveOn, rows
    <3>3. ToSet(script'[Scheduler]) = {SaddIdle(poppedWorker)}
      BY <3>1, ElementsOfOne
    <3>4. OneMessage' /\ ToBeOffered(poppedWorker)'
      <4>1. SaddIdle(poppedWorker).worker = poppedWorker
        BY DEF SaddIdle, Command
      <4>2. UNCHANGED poppedWorker
        BY <1>4 DEF AssignJob, locals
      <4> QED BY <3>3, <4>1, <4>2 DEF OneMessage, ToBeOffered
    <3>5. ASSUME NEW w \in Workers, Found(w) PROVE Found(w)'
      BY <1>2, <3>2, <3>5 DEF Found
    <3>6. ASSUME NEW w \in Workers, w = poppedWorker PROVE ToBeOffered(w)'
      BY <3>3, <3>6 DEF ToBeOffered, SaddIdle, Command
    <3> QED BY <1>2, <1>3, <3>4, <3>5, <3>6 DEF Offered
  <2>4. CASE ActiveOn(poppedWorker) = {} /\ rowStatus[popped] = "queued"
    <3>1. /\ script'[Scheduler] = <<PushJob(poppedWorker, popped)>>
          /\ rowStatus' = [rowStatus EXCEPT ![popped] = "scheduled"]
          /\ assigned' = [assigned EXCEPT ![popped] = poppedWorker]
      BY <1>1, <1>4, <2>4 DEF AssignJob, Then, QueueTyped, ScriptsOK
    <3>2. ToSet(script'[Scheduler]) = {PushJob(poppedWorker, popped)}
      BY <3>1, ElementsOfOne
    <3>3. OneMessage'
      BY <3>2 DEF OneMessage
    <3>4. ASSUME NEW w \in Workers, w = poppedWorker PROVE popped \in ActiveOn(w)'
      BY <1>1, <3>1, <3>4 DEF ActiveOn, QueueTyped, RowsOK
    <3>5. ASSUME NEW w \in Workers, ActiveOn(w) # {} PROVE ActiveOn(w)' # {}
      <4>1. PICK j \in ActiveOn(w) : TRUE
        BY <3>5
      <4>2. j \in QueueJobs /\ j # popped
        BY <2>4, <4>1 DEF ActiveOn
      <4>3. j \in ActiveOn(w)'
        BY <3>1, <4>1, <4>2 DEF ActiveOn, QueueTyped, RowsOK
      <4> QED BY <4>3
    <3>6. ASSUME NEW w \in Workers, Found(w) \/ w = poppedWorker PROVE Found(w)'
      <4>1. w = poppedWorker => ActiveOn(w)' # {}
        BY <3>4
      <4> QED BY <1>2, <3>5, <3>6, <4>1 DEF Found
    <3> QED BY <1>2, <1>3, <3>3, <3>6 DEF Offered
  <2> QED BY <2>2, <2>3, <2>4
<1>5. CASE UndoDispatch
  <2>1. /\ phase' = "loop"
        /\ script'[Scheduler] = Append(RequeueJobFront(popped), SaddIdle(poppedWorker))
    BY <1>1, <1>5 DEF UndoDispatch, Then, QueueTyped, ScriptsOK
  <2>2. SaddIdle(poppedWorker) \in ToSet(script'[Scheduler])
    <3>1. RequeueJobFront(popped) \in Seq(Commands) /\ SaddIdle(poppedWorker) \in Commands
      BY <1>1, FrontScript, CommandsTyped
    <3> QED BY <2>1, <3>1, ElementsOfAppend
  <2>3. OneMessage'
    BY <2>1 DEF OneMessage
  <2>4. ASSUME NEW w \in Workers, w = poppedWorker PROVE ToBeOffered(w)'
    BY <2>2, <2>4 DEF ToBeOffered, SaddIdle, Command
  <2>5. ASSUME NEW w \in Workers, w # poppedWorker, ActiveOn(w) # {} PROVE ActiveOn(w)' # {}
    <3>1. UNCHANGED rows \/ (assigned[popped] = poppedWorker /\ Unassign({popped}))
      BY <1>5 DEF UndoDispatch
    <3>2. ActiveOn(w) \subseteq ActiveOn(w)'
      BY <2>5, <3>1 DEF ActiveOn, Unassign, rows
    <3> QED BY <2>5, <3>2
  <2>6. ASSUME NEW w \in Workers, w # poppedWorker, Found(w) PROVE Found(w)'
    BY <1>2, <2>5, <2>6 DEF Found
  <2> QED BY <1>2, <1>3, <2>3, <2>4, <2>6 DEF Offered
<1> QED BY <1>4, <1>5

\* A push that raises leaves the worker in hand, and an interruption lets go of
\* those in hand and of no others.
LEMMA OfferedFails ==
  ASSUME QueueTyped, Offered, PushRaises \/ SchedulerStops
  PROVE  Offered'
<1>1. CASE PushRaises
  <2>1. /\ script[Scheduler] \in Seq(Commands) /\ script[Scheduler] # <<>>
        /\ phase = "popWorker" /\ Head(script[Scheduler]).op = "push"
        /\ phase' = "undo" /\ UNCHANGED <<rows, idle, workerVars, poppedWorker>>
        /\ inbox' \in {inbox, [inbox EXCEPT ![poppedWorker] = Append(@, popped)]}
    BY <1>1 DEF PushRaises, Then, locals, QueueTyped, ScriptsOK, Clients
  <2>2. Head(script[Scheduler]) \in ToSet(script[Scheduler]) /\ Head(script[Scheduler]) \in Commands
    BY <2>1, ElementsOfTail
  <2>3. Head(script[Scheduler]) = PushJob(poppedWorker, popped)
    BY <2>1, <2>2 DEF QueueTyped, LocalsOK
  <2>4. popped \in QueueJobs /\ poppedWorker \in Workers
    BY <2>2, <2>3, QueueAssumption DEF PushJob, Command, Commands, JobOps
  <2>5. \A x \in ToSet(script[Scheduler]) : x.worker = poppedWorker
    BY <2>1, <2>2, <2>3 DEF Offered, OneMessage, PushJob, Command
  <2>6. ASSUME NEW w \in Workers, inbox[w] # <<>> PROVE inbox'[w] # <<>>
    <3>1. inbox[poppedWorker] \in Seq(QueueJobs)
      BY <2>4 DEF QueueTyped, RedisOK
    <3>2. Append(inbox[poppedWorker], popped) # <<>>
      BY <2>4, <3>1, AppendByIndex
    <3> QED BY <2>1, <2>4, <2>6, <3>2 DEF QueueTyped, RedisOK
  <2>7. \A w \in Workers : ActiveOn(w)' = ActiveOn(w)
    BY <2>1 DEF ActiveOn, rows
  <2>8. ASSUME NEW w \in Workers PROVE Found(w)' \/ ToBeOffered(w)' \/ w \in dropped'
    <3>1. CASE Found(w)
      BY <2>1, <2>6, <2>7, <3>1 DEF Found, workerVars
    <3>2. CASE ToBeOffered(w)
      BY <2>1, <2>5, <3>2 DEF ToBeOffered
    <3>3. CASE w \in dropped
      BY <2>1, <3>3 DEF workerVars
    <3> QED BY <3>1, <3>2, <3>3 DEF Offered
  <2> QED BY <2>1, <2>8 DEF Offered, OneMessage
<1>2. CASE SchedulerStops
  <2>1. /\ phase' \in {"down", "loop"} /\ dropped' = dropped \union InHand
        /\ UNCHANGED <<rows, redis, workerPc, held>>
        /\ phase \notin {"loop", "loopSweep", "popWorker", "popJob", "assign", "undo"} => phase' = "down"
    BY <1>2 DEF SchedulerStops
  <2>2. \A w \in Workers : ActiveOn(w)' = ActiveOn(w)
    BY <2>1 DEF ActiveOn, rows
  <2>3. ASSUME NEW w \in Workers PROVE Found(w)' \/ ToBeOffered(w)' \/ w \in dropped'
    <3>1. CASE Found(w)
      BY <2>1, <2>2, <3>1 DEF Found, redis
    <3>2. CASE phase \notin {"loop", "loopSweep", "popWorker", "popJob", "assign", "undo"}
      BY <2>1, <3>2 DEF ToBeOffered
    <3>3. CASE w \in reusable \/ poppedWorker = w \/ \E x \in ToSet(script[Scheduler]) : x.worker = w
      <4>1. w # NoWorker
        BY QueueAssumption
      <4>2. w \in InHand
        BY <3>3, <4>1 DEF InHand
      <4> QED BY <2>1, <4>2
    <3>4. CASE w \in dropped
      BY <2>1, <3>4
    <3> QED BY <3>1, <3>2, <3>3, <3>4 DEF Offered, ToBeOffered
  <2> QED BY <2>1, <2>3 DEF Offered, OneMessage
<1> QED BY <1>1, <1>2

\* Every step keeps every worker offered, an interruption excepted.
LEMMA OfferedStep == QueueTyped /\ Fetched /\ Offered /\ [QueueNext]_queueVars => Offered'
<1> SUFFICES ASSUME QueueTyped, Fetched, Offered, [QueueNext]_queueVars PROVE Offered'
  OBVIOUS
<1>1. Scheduler \in Clients /\ \A r \in Submissions : r \in Clients /\ r # Scheduler
  BY QueueAssumption DEF Clients
<1>2. ASSUME UNCHANGED <<redis, phase, locals, workerVars>>, script'[Scheduler] = script[Scheduler],
             \A w \in Workers : ActiveOn(w)' = ActiveOn(w)
      PROVE  Offered'
  BY <1>2 DEF Offered, OneMessage, Found, ToBeOffered, redis, locals, workerVars
<1>3. ASSUME NEW r \in Submissions, Submit(r) PROVE Offered'
  <2>1. script'[Scheduler] = script[Scheduler]
    BY <1>1, <1>3 DEF Submit, QueueTyped, ScriptsOK
  <2>2. ASSUME NEW w \in Workers, NEW j \in QueueJobs
        PROVE  (j \in ActiveOn(w)') <=> (j \in ActiveOn(w))
    BY <1>3 DEF Submit, ActiveOn
  <2>3. \A w \in Workers : ActiveOn(w)' = ActiveOn(w)
    BY <2>2 DEF ActiveOn
  <2> QED BY <1>2, <1>3, <2>1, <2>3 DEF Submit
<1>4. ASSUME NEW r \in Submissions, ApiRaises(r) PROVE Offered'
  <2>1. script'[Scheduler] = script[Scheduler]
    BY <1>1, <1>4 DEF ApiRaises, Interrupt, QueueTyped, ScriptsOK
  <2> QED BY <1>2, <1>4, <2>1 DEF ApiRaises, ActiveOn, rows
<1>5. ASSUME NEW r \in Submissions, RunCommand(r) PROVE Offered'
  <2>1. /\ script[r] \in Seq(Commands) /\ script[r] # <<>> /\ Effect(r, Head(script[r]))
        /\ script'[Scheduler] = script[Scheduler] /\ UNCHANGED <<rows, phase, locals, workerVars>>
    BY <1>1, <1>5 DEF RunCommand, QueueTyped, ScriptsOK
  <2>2. Head(script[r]).op \in {"saddJob", "execute"}
    BY <2>1, ElementsOfTail DEF QueueTyped, ScriptsOK
  <2>3. UNCHANGED <<idle, inbox>>
    BY <2>1, <2>2 DEF Effect
  <2> QED BY <2>1, <2>3 DEF Offered, OneMessage, Found, ToBeOffered, ActiveOn, rows, locals, workerVars
<1>6. ASSUME NEW j \in QueueJobs, RetryDelayElapses(j) PROVE Offered'
  <2>1. \A w \in Workers : ActiveOn(w)' = ActiveOn(w)
    BY <1>6 DEF RetryDelayElapses, ActiveOn, QueueTyped, RowsOK
  <2> QED BY <1>2, <1>6, <2>1 DEF RetryDelayElapses
<1>7. CASE UNCHANGED queueVars
  BY <1>2, <1>7 DEF queueVars, ActiveOn, rows
<1> QED BY <1>3, <1>4, <1>5, <1>6, <1>7, OfferedCommand, OfferedWorker, OfferedStart, OfferedOffer,
           OfferedSweep, OfferedPops, OfferedAssign, OfferedFails DEF QueueNext, SchedulerStep

\* A worker whose row is up to date only waits in vain if the scheduler was
\* interrupted when it was about to offer it or to send it a message.
THEOREM WorkersAreOffered == QueueSpec => []OnlyInterruptionsStrand
<1>1. QueueInit => Offered
  BY DEF QueueInit, Offered, OneMessage, Found
<1>2. Offered => OnlyInterruptionsStrand
  BY DEF Offered, Found, ToBeOffered, OnlyInterruptionsStrand, Stranded
<1> QED BY <1>1, <1>2, OfferedStep, FetchedAlways, Typed, PTL DEF QueueSpec
=============================================================================
