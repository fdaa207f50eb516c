------------------------ MODULE WorkerIdentityProofs ------------------------
(***************************************************************************)
(* How far the check of a starting worker protects its GPU slot, for any   *)
(* number of containers, ids and slots.                                    *)
(*                                                                         *)
(* While nothing has gone wrong (~slack) the row of a container in use is  *)
(* fresh, so that the check refuses its rivals; and rivals that checked at *)
(* the same time would have set slack.  Hence two rivals are never both up *)
(* or on their way up.                                                     *)
(***************************************************************************)
EXTENDS WorkerIdentity, TLAPS

Row == [slot : {SlotOf[c] : c \in Containers} \union {NoSlot},
        age : {"fresh", "late", "stale"}, offline : BOOLEAN]

IdentityTypeOK ==
  /\ registry \in [WorkerIds -> Row]
  /\ boot \in [Containers -> {"down", "checked", "up", "executingOnly"}]
  /\ slack \in BOOLEAN

Shown(c) == [slot |-> SlotOf[c], age |-> "fresh", offline |-> FALSE]

InUseIsShown == \A c \in Containers : InUse(c) => registry[IdOf[c]] = Shown(c)

RivalsAreDown == \A c \in Containers : boot[c] # "down" => \A d \in Rivals(c) : boot[d] = "down"

IdentityInv == IdentityTypeOK /\ (~slack => InUseIsShown /\ RivalsAreDown)

-----------------------------------------------------------------------------
\* Rivals share exactly one of id and slot, and each is the other's rival.
LEMMA RivalsShareOne ==
  ASSUME NEW c \in Containers, NEW d \in Containers
  PROVE  /\ d \in Rivals(c) <=> \/ IdOf[d] = IdOf[c] /\ SlotOf[d] # SlotOf[c]
                                \/ IdOf[d] # IdOf[c] /\ SlotOf[d] = SlotOf[c]
         /\ d \in Rivals(c) <=> c \in Rivals(d)
  BY DEF Rivals

\* The check refuses a container while a rival of it is shown.
LEMMA ShownRivalRefuses ==
  ASSUME NEW c \in Containers, NEW d \in Rivals(c), registry[IdOf[d]] = Shown(d)
  PROVE  ~IdentityAvailable(c)
<1>1. d \in Containers
  BY DEF Rivals
<1>2. IdOf[c] \in WorkerIds /\ IdOf[d] \in WorkerIds
  BY <1>1 DEF WorkerIds
<1>3. Online(IdOf[d]) /\ registry[IdOf[d]].slot = SlotOf[d]
  BY DEF Online, Shown
<1> QED BY <1>1, <1>2, <1>3, RivalsShareOne DEF IdentityAvailable

\* Writing the row of a container keeps the rows of those in use as they are to
\* be, if the rivals of it are not in use.
LEMMA WrittenRow ==
  ASSUME IdentityTypeOK, NEW c \in Containers, WriteRow(c),
         \A d \in Rivals(c) : ~InUse(d), InUseIsShown
  PROVE  /\ registry'[IdOf[c]] = Shown(c)
         /\ \A d \in Containers : InUse(d) => registry'[IdOf[d]] = Shown(d)
<1>1. IdOf[c] \in WorkerIds /\ registry' = [registry EXCEPT ![IdOf[c]] = Shown(c)]
  BY DEF WorkerIds, WriteRow, Shown
<1>2. registry'[IdOf[c]] = Shown(c)
  BY <1>1 DEF IdentityTypeOK
<1>3. ASSUME NEW d \in Containers, InUse(d) PROVE registry'[IdOf[d]] = Shown(d)
  <2>1. CASE IdOf[d] = IdOf[c]
    <3>1. SlotOf[d] = SlotOf[c]
      BY <1>3, <2>1, RivalsShareOne
    <3> QED BY <1>2, <2>1, <3>1 DEF Shown
  <2>2. CASE IdOf[d] # IdOf[c]
    <3>1. IdOf[d] \in WorkerIds
      BY DEF WorkerIds
    <3> QED BY <1>1, <1>3, <2>2, <3>1 DEF IdentityTypeOK, InUseIsShown
  <2> QED BY <2>1, <2>2
<1> QED BY <1>2, <1>3

\* A row that is written is a row.
LEMMA WrittenType ==
  ASSUME IdentityTypeOK, NEW c \in Containers, WriteRow(c)
  PROVE  registry' \in [WorkerIds -> Row]
<1>1. Shown(c) \in Row
  BY DEF Shown, Row
<1> QED BY <1>1 DEF IdentityTypeOK, WriteRow, Shown

-----------------------------------------------------------------------------
\* Nothing runs at first.
LEMMA IdentityInvInit == IdentityInit => IdentityInv
<1> SUFFICES ASSUME IdentityInit PROVE IdentityInv
  OBVIOUS
<1>1. NoRow \in Row
  BY DEF NoRow, Row
<1> QED BY <1>1 DEF IdentityInit, IdentityInv, IdentityTypeOK, InUseIsShown, InUse, RivalsAreDown

\* Every step keeps the types.
LEMMA IdentityTypeStep == IdentityTypeOK /\ [IdentityNext]_identityVars => IdentityTypeOK'
<1> SUFFICES ASSUME IdentityTypeOK, [IdentityNext]_identityVars PROVE IdentityTypeOK'
  OBVIOUS
<1>1. ASSUME NEW c \in Containers, EnsureIdentityAvailable(c) \/ BeatFails(c) \/ ContainerExits(c)
      PROVE  IdentityTypeOK'
  BY <1>1 DEF IdentityTypeOK, EnsureIdentityAvailable, BeatFails, ContainerExits, Boots
<1>2. ASSUME NEW c \in Containers, RegisterWorker(c) \/ BeatOf(c) PROVE IdentityTypeOK'
  BY <1>2, WrittenType DEF IdentityTypeOK, RegisterWorker, BeatOf, Boots
<1>3. ASSUME NEW i \in WorkerIds, RowAges(i) PROVE IdentityTypeOK'
  BY <1>3 DEF IdentityTypeOK, RowAges, Older, Row
<1>4. ASSUME NEW i \in WorkerIds, MarkRowOffline(i) PROVE IdentityTypeOK'
  BY <1>4 DEF IdentityTypeOK, MarkRowOffline, Row
<1>5. CASE UNCHANGED identityVars
  BY <1>5 DEF IdentityTypeOK, identityVars
<1> QED BY <1>1, <1>2, <1>3, <1>4, <1>5 DEF IdentityNext

\* Every step keeps what holds of rows and rivals.
LEMMA IdentityInvStep == IdentityInv /\ [IdentityNext]_identityVars => IdentityInv'
<1> SUFFICES ASSUME IdentityInv, [IdentityNext]_identityVars, ~slack'
             PROVE  InUseIsShown' /\ RivalsAreDown'
  BY IdentityTypeStep DEF IdentityInv
<1> USE DEF IdentityInv
<1>1. ~slack /\ IdentityTypeOK /\ InUseIsShown /\ RivalsAreDown
  BY DEF IdentityNext, identityVars, EnsureIdentityAvailable, RegisterWorker, BeatOf, BeatFails,
     ContainerExits, RowAges, MarkRowOffline, IdentityTypeOK
<1>2. ASSUME NEW c \in Containers, EnsureIdentityAvailable(c)
      PROVE  InUseIsShown' /\ RivalsAreDown'
  <2>1. \A d \in Rivals(c) : d \in Containers /\ boot[d] = "down"
    BY <1>1, <1>2, ShownRivalRefuses
       DEF EnsureIdentityAvailable, IdentityTypeOK, InUseIsShown, InUse, Rivals
  <2>2. RivalsAreDown'
    BY <1>1, <1>2, <2>1, RivalsShareOne
       DEF EnsureIdentityAvailable, RivalsAreDown, IdentityTypeOK, Boots, Rivals
  <2> QED BY <1>1, <1>2, <2>2
             DEF EnsureIdentityAvailable, InUseIsShown, InUse, IdentityTypeOK, Boots
<1>3. ASSUME NEW c \in Containers, RegisterWorker(c) PROVE InUseIsShown' /\ RivalsAreDown'
  <2>1. \A d \in Rivals(c) : ~InUse(d)
    BY <1>1, <1>3 DEF RegisterWorker, RivalsAreDown, InUse
  <2>2. InUseIsShown'
    BY <1>1, <1>3, <2>1, WrittenRow
       DEF RegisterWorker, InUseIsShown, InUse, IdentityTypeOK, Boots, Shown
  <2> QED BY <1>1, <1>3, <2>2 DEF RegisterWorker, RivalsAreDown, IdentityTypeOK, Boots, Rivals
<1>4. ASSUME NEW c \in Containers, BeatOf(c) PROVE InUseIsShown' /\ RivalsAreDown'
  <2>1. \A d \in Rivals(c) : ~InUse(d)
    BY <1>1, <1>4 DEF BeatOf, RivalsAreDown, InUse
  <2> QED BY <1>1, <1>4, <2>1, WrittenRow
             DEF BeatOf, InUseIsShown, RivalsAreDown, InUse, Shown, Rivals
<1>5. ASSUME NEW c \in Containers, BeatFails(c) \/ ContainerExits(c)
      PROVE  InUseIsShown' /\ RivalsAreDown'
  BY <1>1, <1>5 DEF BeatFails, ContainerExits, Boots, InUseIsShown, InUse, RivalsAreDown,
     IdentityTypeOK, Rivals, Shown
<1>6. ASSUME NEW i \in WorkerIds, RowAges(i) PROVE InUseIsShown' /\ RivalsAreDown'
  <2>1. \A c \in Containers : InUse(c) => IdOf[c] # i
    BY <1>6 DEF RowAges
  <2> QED BY <1>1, <1>6, <2>1
             DEF RowAges, InUseIsShown, InUse, RivalsAreDown, IdentityTypeOK, Rivals, Shown, WorkerIds
<1>7. ASSUME NEW i \in WorkerIds, MarkRowOffline(i) PROVE InUseIsShown' /\ RivalsAreDown'
  <2>1. \A c \in Containers : InUse(c) => IdOf[c] # i
    <3>1. registry[i].age # "fresh"
      BY <1>7 DEF MarkRowOffline
    <3>2. \A c \in Containers : Shown(c).age = "fresh"
      BY DEF Shown
    <3> QED BY <1>1, <3>1, <3>2 DEF InUseIsShown
  <2> QED BY <1>1, <1>7, <2>1
             DEF MarkRowOffline, InUseIsShown, InUse, RivalsAreDown, IdentityTypeOK, Rivals,
                 Shown, WorkerIds
<1>8. CASE UNCHANGED identityVars
  BY <1>1, <1>8 DEF identityVars, InUseIsShown, InUse, RivalsAreDown, Rivals, Shown
<1> QED BY <1>2, <1>3, <1>4, <1>5, <1>6, <1>7, <1>8 DEF IdentityNext

-----------------------------------------------------------------------------
\* Two containers never use one GPU slot or one worker_id at once, unless rivals
\* once passed the check at the same time or a container in use had fallen silent.
THEOREM SlotsAreExclusive == IdentitySpec => []IdentityIsExclusive
<1>1. IdentityInv => IdentityIsExclusive
  BY DEF IdentityInv, RivalsAreDown, IdentityIsExclusive, InUse
<1> QED BY <1>1, IdentityInvInit, IdentityInvStep, PTL DEF IdentitySpec
=============================================================================
