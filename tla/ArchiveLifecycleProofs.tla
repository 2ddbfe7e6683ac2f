----------------------- MODULE ArchiveLifecycleProofs -----------------------
(***************************************************************************)
(* What holds of the operator and its users for every set of archives and  *)
(* collectors, every combination of loops, faults and users, and every     *)
(* bound.                                                                  *)
(***************************************************************************)
EXTENDS ArchiveLifecycle, TLAPS

-----------------------------------------------------------------------------
(* Type correctness, in four parts *)

Places == {"idle", "get", "check", "exists", "collect", "collecting", "condition",
           "zip", "zipping", "status", "delete", "crs", "next"}

TypedApi ==
  /\ born \in [Archives -> 0 .. MaxCreated]
  /\ required \in [Archives -> SUBSET Collectors]
  /\ terminating \subseteq {a \in Archives : Present(a)}
  /\ cond \in [Archives -> [Collectors -> {"unknown", "true", "false"}]]
  /\ created \in [Archives -> BOOLEAN]

TypedDisk ==
  /\ work \in [Archives -> [Collectors -> WorkStates]]
  /\ zip \in [Archives -> ZipStates]

\* The functions of the processes have their domains.
TypedMem ==
  /\ queue \subseteq Archives
  /\ up \in BOOLEAN
  /\ pc \in [Procs -> Places]
  /\ id \in [Procs -> Archives \cup {None}]
  /\ left \in [Procs -> SUBSET Collectors]
  /\ pc["worker"] \in {"idle", "get", "check", "exists", "collect",
                       "collecting", "condition", "zip", "zipping", "status", "delete"}
  /\ pc["sync"] \in {"idle", "crs", "next", "delete"}
  /\ pc["gc"] \in {"idle", "check", "next", "delete"}
  /\ \A p \in Procs : pc[p] = "delete" => id[p] \in Archives
  /\ pc["worker"] # "idle" => id["worker"] \in Archives
  /\ spec \subseteq Collectors
  /\ failed \in BOOLEAN
  /\ stored \subseteq Archives
  /\ listed \in [{"sync", "gc"} -> [Archives -> 0 .. MaxCreated]]
  /\ doomed \subseteq Archives

\* The seconds of creation are no more than the creations.
TypedCount ==
  /\ used \subseteq Archives /\ second \in 0 .. MaxCreated
  /\ made \in 0 .. MaxCreated /\ changes \in 0 .. MaxChanges /\ crashes \in 0 .. MaxCrashes
  /\ second <= made

\* TypeOK with what makes it inductive.
Typed == TypedApi /\ TypedDisk /\ TypedMem /\ TypedCount

\* The parts give the whole.
LEMMA TypedIsTypeOK == Typed => TypeOK
  BY DEF Typed, TypeOK, TypedApi, TypedDisk, TypedCount, TypedMem

\* The bounds are numbers, and no archive is none.
LEMMA Numbers ==
  /\ MaxCreated \in Nat /\ MaxChanges \in Nat /\ MaxCrashes \in Nat
  /\ None \notin Archives
  BY ArchiveLifecycleAssumption DEF ArchiveLifecycleAssumption

\* A process that has just started is well-typed.
LEMMA FreshTyped ==
  ASSUME FreshMemory, queue \subseteq Archives, up \in BOOLEAN
  PROVE  TypedMem
<1>1. pc \in [Procs -> Places] /\ id \in [Procs -> Archives \cup {None}]
      /\ left \in [Procs -> SUBSET Collectors]
  BY DEF FreshMemory, Places
<1>2. listed \in [{"sync", "gc"} -> [Archives -> 0 .. MaxCreated]]
  BY Numbers DEF FreshMemory, NoCRs
<1>3. \A p \in Procs : pc[p] = "idle"
  BY DEF FreshMemory
<1> QED
  BY <1>1, <1>2, <1>3 DEF TypedMem, FreshMemory, Procs

\* The operator starts well-typed.
LEMMA InitTyped == Init => Typed
<1> SUFFICES ASSUME Init PROVE Typed
  OBVIOUS
<1>1. TypedApi /\ TypedCount
  BY Numbers DEF Init, TypedApi, TypedCount, NoCRs
<1>2. TypedDisk
  BY DEF Init, TypedDisk, WorkStates, ZipStates
<1>3. TypedMem
  BY FreshTyped DEF Init
<1> QED
  BY <1>1, <1>2, <1>3 DEF Typed

\* The empty list of CRs.
LEMMA NoCRsTyped == NoCRs \in [Archives -> 0 .. MaxCreated]
  BY Numbers DEF NoCRs

\* A part whose variables do not change stays typed.
LEMMA Untouched ==
  /\ TypedApi /\ UNCHANGED api => TypedApi'
  /\ TypedDisk /\ UNCHANGED disk => TypedDisk'
  /\ TypedMem /\ UNCHANGED <<queue, up, mem>> => TypedMem'
  /\ TypedCount /\ UNCHANGED count => TypedCount'
  BY DEF TypedApi, TypedDisk, TypedMem, TypedCount, api, disk, mem, count, Present

\* The state of one collector's directory changes.
LEMMA SetWorkTyped ==
  ASSUME TypedDisk, NEW a \in Archives, NEW c \in Collectors, NEW state \in WorkStates,
         SetWork(a, c, state), UNCHANGED zip
  PROVE  TypedDisk'
<1>1. work[a] \in [Collectors -> WorkStates]
  BY DEF TypedDisk
<1>2. [work[a] EXCEPT ![c] = state] \in [Collectors -> WorkStates]
  BY <1>1
<1>3. work' = [work EXCEPT ![a] = [work[a] EXCEPT ![c] = state]]
  BY DEF SetWork
<1> QED
  BY <1>2, <1>3 DEF TypedDisk

\* One condition of one CR changes.
LEMMA SetCondTyped ==
  ASSUME TypedApi, NEW a \in Archives, NEW c \in Collectors, NEW value \in {"true", "false"},
         cond' = [cond EXCEPT ![a][c] = value], UNCHANGED <<born, required, terminating, created>>
  PROVE  TypedApi'
<1>1. cond[a] \in [Collectors -> {"unknown", "true", "false"}]
  BY DEF TypedApi
<1>2. [cond[a] EXCEPT ![c] = value] \in [Collectors -> {"unknown", "true", "false"}]
  BY <1>1
<1>3. cond' = [cond EXCEPT ![a] = [cond[a] EXCEPT ![c] = value]]
  OBVIOUS
<1> QED
  BY <1>2, <1>3 DEF TypedApi, Present

\* Reconcile returns.
LEMMA ReturnTyped ==
  ASSUME TypedMem, id["worker"] \in Archives, NEW again \in BOOLEAN, Return(again),
         UNCHANGED <<up, stored, listed, doomed>>
  PROVE  TypedMem'
  BY Numbers DEF TypedMem, Return, Goto, Procs, Places

\* A CR that leaves the API server takes its fields with it.
LEMMA CRGoneTyped ==
  ASSUME NEW a \in Archives, TypedApi, CRGone(a), queue \subseteq Archives
  PROVE  TypedApi' /\ queue' \subseteq Archives
  BY Numbers DEF TypedApi, CRGone, Event, Present

\* What users and the API server do.
LEMMA UserTyped ==
  ASSUME Typed, NEW a \in Archives, UserStep(a) \/ DeletionCompletes(a)
  PROVE  Typed'
<1> USE Numbers DEF Typed
<1>1. CASE UserCreates(a)
  <2>1. TypedCount' /\ second' \in 1 .. MaxCreated
    BY <1>1 DEF TypedCount, UserCreates
  <2>2. TypedApi'
    BY <1>1, <2>1 DEF TypedApi, UserCreates, Present
  <2>3. TypedMem' /\ TypedDisk'
    BY <1>1 DEF TypedMem, TypedDisk, UserCreates, mem, disk, Event
  <2> QED
    BY <2>1, <2>2, <2>3
<1>2. CASE UserChangesSpec(a)
  <2>1. TypedCount'
    BY <1>2 DEF TypedCount, UserChangesSpec
  <2>2. TypedApi'
    BY <1>2 DEF TypedApi, UserChangesSpec, Present
  <2>3. TypedMem' /\ TypedDisk'
    BY <1>2 DEF TypedMem, TypedDisk, UserChangesSpec, mem, disk, Event
  <2> QED
    BY <2>1, <2>2, <2>3
<1>3. CASE UserDeletes(a) \/ DeletionCompletes(a)
  <2>1. CRGone(a) /\ UNCHANGED <<disk, up, mem, count>>
    BY <1>3 DEF UserDeletes, DeletionCompletes
  <2>2. TypedApi' /\ queue' \subseteq Archives
    BY <2>1, CRGoneTyped DEF TypedMem
  <2>3. TypedMem' /\ TypedDisk' /\ TypedCount'
    BY <2>1, <2>2 DEF TypedMem, TypedDisk, TypedCount, mem, disk, count
  <2> QED
    BY <2>2, <2>3
<1>4. CASE UserDeletesInForeground(a)
  <2>1. TypedApi'
    BY <1>4 DEF TypedApi, UserDeletesInForeground, Present
  <2>2. TypedMem' /\ TypedDisk' /\ TypedCount'
    BY <1>4 DEF TypedMem, TypedDisk, TypedCount, UserDeletesInForeground, mem, disk, count, Event
  <2> QED
    BY <2>1, <2>2
<1> QED
  BY <1>1, <1>2, <1>3, <1>4 DEF UserStep

\* The worker has an archive wherever it is but idle.
LEMMA AtWorker ==
  ASSUME TypedMem, NEW place, At("worker", place), place # "idle"
  PROVE  id["worker"] \in Archives /\ left["worker"] \subseteq Collectors
  BY DEF TypedMem, At, Procs

\* What the worker asks before it acts.
LEMMA WorkerReadsTyped ==
  ASSUME Typed,
         \/ GetFails \/ GetsNothing \/ GetsCR \/ ChecksCollectors
         \/ CheckFails \/ TakesNextCollector \/ FindsAllCollected \/ FindsArchive
  PROVE  Typed'
<1> USE Numbers DEF Typed
<1>1. CASE GetFails
  <2>1. TypedMem'
    BY <1>1, AtWorker, ReturnTyped DEF GetFails
  <2> QED
    BY <2>1, <1>1, Untouched DEF GetFails
<1>2. CASE GetsNothing
  <2>1. TypedMem'
    BY <1>2 DEF TypedMem, TypedApi, GetsNothing, Goto, At, Procs, Places
  <2> QED
    BY <2>1, <1>2, Untouched DEF GetsNothing
<1>3. CASE GetsCR
  <2>1. TypedMem'
    BY <1>3 DEF TypedMem, TypedApi, GetsCR, Goto, At, Procs, Places
  <2> QED
    BY <2>1, <1>3, Untouched DEF GetsCR
<1>4. CASE ChecksCollectors
  <2>1. TypedMem'
    BY <1>4 DEF TypedMem, TypedApi, ChecksCollectors, Goto, At, Procs, Places
  <2> QED
    BY <2>1, <1>4, Untouched DEF ChecksCollectors
<1>5. CASE CheckFails
  <2>1. TypedMem'
    BY <1>5, AtWorker, ReturnTyped DEF CheckFails
  <2> QED
    BY <2>1, <1>5, Untouched DEF CheckFails
<1>6. CASE TakesNextCollector
  <2>1. TypedMem'
    BY <1>6 DEF TypedMem, TypedApi, TakesNextCollector, Goto, At, Procs, Places
  <2> QED
    BY <2>1, <1>6, Untouched DEF TakesNextCollector
<1>7. CASE FindsAllCollected
  <2>1. TypedMem'
    BY <1>7 DEF TypedMem, TypedApi, FindsAllCollected, Goto, At, Procs, Places
  <2> QED
    BY <2>1, <1>7, Untouched DEF FindsAllCollected
<1>8. CASE FindsArchive
  <2>1. TypedMem'
    BY <1>8, AtWorker, ReturnTyped DEF FindsArchive
  <2> QED
    BY <2>1, <1>8, Untouched DEF FindsArchive
<1> QED
  BY <1>1, <1>2, <1>3, <1>4, <1>5, <1>6, <1>7, <1>8

\* What the worker does.
LEMMA WorkerActsTyped ==
  ASSUME Typed,
         \/ CollectorStarts \/ CollectorSucceeds \/ CollectorFails \/ SetsCondition
         \/ OpensZip \/ ClosesZip \/ ZipFails \/ SetsCreated
         \/ SetCreatedFails
  PROVE  Typed'
<1> USE Numbers DEF Typed
<1>1. CASE CollectorStarts
  <2>1. TypedMem'
    BY <1>1 DEF TypedMem, CollectorStarts, Goto, At, Procs, Places
  <2>2. id["worker"] \in Archives /\ left["worker"] \subseteq Collectors
    BY <1>1, AtWorker DEF CollectorStarts
  <2>3. TypedDisk'
    BY <1>1, <2>2, SetWorkTyped DEF CollectorStarts, WorkStates
  <2> QED
    BY <2>1, <2>3, <1>1, Untouched DEF CollectorStarts
<1>2. CASE CollectorSucceeds
  <2>1. TypedMem'
    BY <1>2 DEF TypedMem, CollectorSucceeds, Goto, At, Procs, Places
  <2>2. id["worker"] \in Archives /\ left["worker"] \subseteq Collectors
    BY <1>2, AtWorker DEF CollectorSucceeds
  <2>3. TypedDisk'
    BY <1>2, <2>2, SetWorkTyped DEF CollectorSucceeds, WorkStates
  <2> QED
    BY <2>1, <2>3, <1>2, Untouched DEF CollectorSucceeds
<1>3. CASE CollectorFails
  <2>1. TypedMem'
    BY <1>3 DEF TypedMem, CollectorFails, Goto, At, Procs, Places
  <2>2. id["worker"] \in Archives /\ left["worker"] \subseteq Collectors
    BY <1>3, AtWorker DEF CollectorFails
  <2>3. TypedDisk'
    BY <1>3, <2>2, SetWorkTyped DEF CollectorFails, WorkStates
  <2> QED
    BY <2>1, <2>3, <1>3, Untouched DEF CollectorFails
<1>4. CASE SetsCondition
  <2>1. TypedMem'
    BY <1>4, AtWorker, ReturnTyped DEF SetsCondition
  <2>2. id["worker"] \in Archives /\ left["worker"] \subseteq Collectors
    BY <1>4, AtWorker DEF SetsCondition
  <2>3. TypedApi'
    <3>1. CASE UNCHANGED cond
      BY <3>1, <1>4, Untouched DEF SetsCondition, api
    <3>2. CASE ~UNCHANGED cond
      BY <3>2, <1>4, <2>2, SetCondTyped DEF SetsCondition
    <3> QED
      BY <3>1, <3>2
  <2> QED
    BY <2>1, <2>3, <1>4, Untouched DEF SetsCondition, disk
<1>5. CASE OpensZip
  <2>1. TypedMem'
    BY <1>5 DEF TypedMem, OpensZip, Goto, At, Procs, Places
  <2>2. TypedDisk'
    BY <1>5 DEF TypedDisk, OpensZip, ZipStates
  <2> QED
    BY <2>1, <2>2, <1>5, Untouched DEF OpensZip
<1>6. CASE ClosesZip
  <2>1. TypedMem'
    BY <1>6 DEF TypedMem, ClosesZip, Goto, At, Procs, Places
  <2>2. TypedDisk'
    BY <1>6 DEF TypedDisk, ClosesZip, ZipStates
  <2> QED
    BY <2>1, <2>2, <1>6, Untouched DEF ClosesZip
<1>7. CASE ZipFails
  <2>1. TypedMem'
    BY <1>7, AtWorker, ReturnTyped DEF ZipFails
  <2>2. TypedDisk'
    BY <1>7 DEF TypedDisk, ZipFails, ZipStates
  <2> QED
    BY <2>1, <2>2, <1>7, Untouched DEF ZipFails
<1>8. CASE SetsCreated
  <2>1. TypedMem'
    BY <1>8, AtWorker, ReturnTyped DEF SetsCreated
  <2>2. TypedApi'
    BY <1>8 DEF TypedApi, SetsCreated, Present
  <2> QED
    BY <2>1, <2>2, <1>8, Untouched DEF SetsCreated, disk
<1>9. CASE SetCreatedFails
  <2>1. TypedMem'
    BY <1>9, AtWorker, ReturnTyped DEF SetCreatedFails
  <2> QED
    BY <2>1, <1>9, Untouched DEF SetCreatedFails
<1> QED
  BY <1>1, <1>2, <1>3, <1>4, <1>5, <1>6, <1>7, <1>8, <1>9

\* The loops list and choose.
LEMMA LoopsListTyped ==
  ASSUME Typed,
         \/ SyncListsZips \/ SyncListFails \/ SyncListsCRs \/ SyncTriggers
         \/ GcListsCRs \/ GcChoosesOldest \/ GcEnds
  PROVE  Typed'
<1> USE Numbers DEF Typed
<1>1. CASE SyncListsZips
  <2>1. TypedMem'
    BY <1>1 DEF TypedMem, TypedApi, SyncListsZips, Goto, At, Procs, Places
  <2> QED
    BY <2>1, <1>1, Untouched DEF SyncListsZips
<1>2. CASE SyncListFails
  <2>1. TypedMem'
    BY <1>2 DEF TypedMem, TypedApi, SyncListFails, Goto, At, Procs, Places
  <2> QED
    BY <2>1, <1>2, Untouched DEF SyncListFails
<1>3. CASE SyncListsCRs
  <2>1. TypedMem'
    BY <1>3 DEF TypedMem, TypedApi, SyncListsCRs, Goto, At, Procs, Places
  <2> QED
    BY <2>1, <1>3, Untouched DEF SyncListsCRs
<1>4. CASE SyncTriggers
  <2>1. TypedMem'
    BY <1>4, NoCRsTyped DEF TypedMem, TypedApi, SyncTriggers, Goto, At, Procs, Places
  <2> QED
    BY <2>1, <1>4, Untouched DEF SyncTriggers
<1>5. CASE GcListsCRs
  <2>1. TypedMem'
    BY <1>5 DEF TypedMem, TypedApi, GcListsCRs, Goto, At, Procs, Places
  <2> QED
    BY <2>1, <1>5, Untouched DEF GcListsCRs
<1>6. CASE GcChoosesOldest
  <2>1. TypedMem'
    BY <1>6 DEF TypedMem, TypedApi, GcChoosesOldest, Oldest, Goto, At, Procs, Places
  <2> QED
    BY <2>1, <1>6, Untouched DEF GcChoosesOldest
<1>7. CASE GcEnds
  <2>1. TypedMem'
    BY <1>7, NoCRsTyped DEF TypedMem, TypedApi, GcEnds, Goto, At, Procs, Places
  <2> QED
    BY <2>1, <1>7, Untouched DEF GcEnds
<1> QED
  BY <1>1, <1>2, <1>3, <1>4, <1>5, <1>6, <1>7

\* The loops take up an archive.
LEMMA LoopsActTyped ==
  ASSUME Typed, NEW a \in Archives,
         \/ SyncDeletes(a) \/ GcDeletesCR(a) \/ GcDeleteFails(a)
  PROVE  Typed'
<1> USE Numbers DEF Typed
<1>1. CASE SyncDeletes(a)
  <2>1. TypedMem'
    BY <1>1 DEF TypedMem, TypedApi, SyncDeletes, Goto, At, Procs, Places
  <2> QED
    BY <2>1, <1>1, Untouched DEF SyncDeletes
<1>2. CASE GcDeletesCR(a)
  <2>1. a \in doomed /\ doomed' \subseteq Archives
    BY <1>2 DEF TypedMem, GcDeletesCR, GcNext
  <2>2. TypedApi' /\ queue' \subseteq Archives
    <3>1. CASE a \in terminating
      BY <1>2, <3>1, Untouched DEF GcDeletesCR, TypedMem
    <3>2. CASE a \notin terminating
      BY <1>2, <3>2, CRGoneTyped DEF GcDeletesCR, TypedMem
    <3> QED
      BY <3>1, <3>2
  <2>3. TypedMem'
    BY <1>2, <2>1, <2>2 DEF TypedMem, GcDeletesCR, GcNext, Goto, At, Procs, Places
  <2> QED
    BY <2>2, <2>3, <1>2, Untouched DEF GcDeletesCR
<1>3. CASE GcDeleteFails(a)
  <2>1. TypedMem'
    BY <1>3 DEF TypedMem, TypedApi, GcDeleteFails, GcNext, Goto, At, Procs, Places
  <2> QED
    BY <2>1, <1>3, Untouched DEF GcDeleteFails
<1> QED
  BY <1>1, <1>2, <1>3

\* DeleteArchiveUseCase.Delete in any process.
LEMMA DeleteTyped ==
  ASSUME Typed, NEW p \in Procs, Delete(p)
  PROVE  Typed'
<1> USE Numbers DEF Typed
<1>0. pc[p] = "delete" /\ id[p] \in Archives /\ up
  BY DEF TypedMem, Delete, DeletesZip, DeletesCollector, At
<1>1. ASSUME NEW c \in Collectors, DeletesCollector(p, c)
      PROVE  Typed'
  <2>1. TypedMem'
    BY <1>1 DEF TypedMem, DeletesCollector, Procs
  <2>2. PICK state \in WorkStates : SetWork(id[p], c, state)
    <3>1. work[id[p]][c] \in WorkStates
      BY <1>0 DEF TypedDisk
    <3> QED
      BY <1>1, <3>1 DEF DeletesCollector, WorkStates
  <2>3. TypedDisk'
    BY <1>0, <1>1, <2>2, SetWorkTyped DEF DeletesCollector
  <2> QED
    BY <2>1, <2>3, <1>1, Untouched DEF DeletesCollector
<1>2. CASE DeletesZip(p)
  <2>1. TypedMem'
    <3>1. CASE p = "worker"
      BY <1>0, <1>2, <3>1, ReturnTyped DEF DeletesZip
    <3>2. CASE p # "worker"
      BY <1>2, <3>2 DEF DeletesZip, TypedMem, Goto, At, Procs, Places
    <3> QED
      BY <3>1, <3>2
  <2>2. TypedDisk'
    BY <1>0, <1>2 DEF TypedDisk, DeletesZip, ZipStates
  <2> QED
    BY <2>1, <2>2, <1>2, Untouched DEF DeletesZip
<1> QED
  BY <1>1, <1>2 DEF Delete

\* The operator dies and starts again; a name is taken from the queue.
LEMMA OperatorTyped ==
  ASSUME Typed, Crash \/ Start \/ \E a \in Archives : PicksUp(a)
  PROVE  Typed'
<1> USE Numbers DEF Typed
<1>1. CASE Crash
  <2>1. TypedMem'
    <3>1. pc' \in [Procs -> Places] /\ id' \in [Procs -> Archives \cup {None}]
          /\ left' \in [Procs -> SUBSET Collectors]
      BY <1>1 DEF Crash, Places
    <3>2. listed' \in [{"sync", "gc"} -> [Archives -> 0 .. MaxCreated]]
      BY <1>1 DEF Crash, NoCRs
    <3> QED
      BY <3>1, <3>2, <1>1 DEF TypedMem, Crash, Procs
  <2>2. TypedCount'
    BY <1>1 DEF TypedCount, Crash
  <2> QED
    BY <2>1, <2>2, <1>1, Untouched DEF Crash
<1>2. CASE Start
  <2>1. TypedMem'
    BY <1>2 DEF TypedMem, Start, mem
  <2> QED
    BY <2>1, <1>2, Untouched DEF Start
<1>3. ASSUME NEW a \in Archives, PicksUp(a)
      PROVE  Typed'
  <2>1. TypedMem'
    BY <1>3 DEF TypedMem, PicksUp, Goto, At, Procs, Places
  <2> QED
    BY <2>1, <1>3, Untouched DEF PicksUp
<1> QED
  BY <1>1, <1>2, <1>3

\* Every step keeps the types.
LEMMA NextTyped == Typed /\ [Next]_vars => Typed'
<1> SUFFICES ASSUME Typed, [Next]_vars PROVE Typed'
  OBVIOUS
<1>1. CASE UNCHANGED vars
  BY <1>1, Untouched DEF vars, Typed
<1>2. ASSUME NEW a \in Archives, UserStep(a) \/ DeletionCompletes(a)
      PROVE  Typed'
  BY <1>2, UserTyped
<1>3. CASE WorkerStep
  BY <1>3, WorkerReadsTyped, WorkerActsTyped, DeleteTyped DEF WorkerStep, Procs
<1>4. CASE SyncStep \/ GcStep
  BY <1>4, LoopsListTyped, LoopsActTyped, DeleteTyped DEF SyncStep, GcStep, Procs
<1>5. CASE Crash \/ Start \/ \E a \in Archives : PicksUp(a)
  BY <1>5, OperatorTyped
<1> QED
  BY <1>1, <1>2, <1>3, <1>4, <1>5 DEF Next

\* The state has its type: every directory, zip and condition is in one of its
\* states, a process that deletes has an archive to delete, and the queue, the
\* lists and the worker hold names of archives only.
THEOREM TypeCorrect == Spec => []TypeOK
<1>1. Spec => []Typed
  BY InitTyped, NextTyped, PTL DEF Spec
<1> QED
  BY <1>1, TypedIsTypeOK, PTL

-----------------------------------------------------------------------------
(* Nobody disturbs the worker *)

\* No loop deletes by name, or no name is used twice: a loop that works on an
\* old list cannot hit a CR that came after it.
Undisturbed == Loops = {} \/ "recreate" \notin Users

\* No CR will have this name any more.
GoneForGood(a) == "recreate" \notin Users /\ a \in used /\ Gone(a)

\* Whatever has a name was a CR once.
NamesInv ==
  /\ \A a \in Archives :
       \/ Present(a) \/ Exists(a) \/ a \in queue \/ a \in stored \/ listed["sync"][a] # 0
       => a \in used
  /\ pc["worker"] # "idle" => id["worker"] \in used

\* The loops delete only what is gone for good.
LoopsInv ==
  /\ Loops = {} => pc["sync"] = "idle" /\ pc["gc"] = "idle"
  /\ \A p \in {"sync", "gc"} : pc[p] = "delete" => GoneForGood(id[p])
  /\ pc["sync"] \in {"next", "delete"} => \A a \in stored : GoneForGood(a)

\* The status of a CR says nothing good yet.
Blank(a) == ~created[a] /\ \A c \in Collectors : cond[a][c] # "true"

\* What the worker has found or made is still so, wherever it is, unless the
\* archive is gone for good.
WorkerInv ==
  LET a == id["worker"] IN
  /\ pc["worker"] = "idle" => a = None
  /\ pc["worker"] # "idle" => up
  /\ pc["worker"] = "delete" => Gone(a) \/ (a \in queue /\ Blank(a))
  /\ pc["worker"] \in {"exists", "collect", "collecting"} =>
       \A c \in left["worker"] : ~IsCollected(a, c)
  /\ pc["worker"] \in {"collect", "collecting", "condition"} =>
       \E c \in Collectors : left["worker"] = {c}
  /\ pc["worker"] = "condition" /\ ~failed =>
       GoneForGood(a) \/ \A c \in left["worker"] : IsCollected(a, c)
  /\ pc["worker"] = "zip" => zip[a] = "none"
  /\ pc["worker"] = "zipping" =>
       zip[a] = "partial" \/ (zip[a] = "none" /\ GoneForGood(a))
  /\ pc["worker"] = "status" => zip[a] \in {"full", "broken"} \/ GoneForGood(a)

\* The inductive invariant: a CR that is not there has no status left over.
LifeInv ==
  /\ NamesInv /\ LoopsInv /\ WorkerInv
  /\ \A a \in Archives : ~Present(a) => Blank(a)
  /\ UnfinishedIsScheduled
  /\ StatusIsTrue

\* The functions of the state, with their domains.
LEMMA Domains ==
  ASSUME Typed
  PROVE  /\ born \in [Archives -> Nat] /\ created \in [Archives -> BOOLEAN]
         /\ cond \in [Archives -> [Collectors -> {"unknown", "true", "false"}]]
         /\ work \in [Archives -> [Collectors -> WorkStates]]
         /\ zip \in [Archives -> ZipStates]
         /\ pc \in [Procs -> Places] /\ id \in [Procs -> Archives \cup {None}]
         /\ left \in [Procs -> SUBSET Collectors]
         /\ listed \in [{"sync", "gc"} -> [Archives -> Nat]]
<1>1. 0 .. MaxCreated \subseteq Nat
  BY Numbers
<1> QED
  BY <1>1 DEF Typed, TypedApi, TypedDisk, TypedMem

\* The operator starts with nothing, and nobody deletes.
LEMMA InitLife == Init => LifeInv
<1> SUFFICES ASSUME Init PROVE LifeInv
  OBVIOUS
<1>1. /\ \A p \in Procs : pc[p] = "idle" /\ id[p] = None
      /\ \A a \in Archives : /\ ~Present(a) /\ ~Exists(a) /\ listed["sync"][a] = 0
                             /\ ~created[a] /\ \A c \in Collectors : cond[a][c] = "unknown"
  BY DEF Init, FreshMemory, NoCRs, Present, Exists
<1>2. NamesInv /\ LoopsInv /\ WorkerInv
  BY <1>1 DEF Init, FreshMemory, NamesInv, LoopsInv, WorkerInv, Procs
<1>3. UnfinishedIsScheduled /\ StatusIsTrue /\ \A a \in Archives : ~Present(a) => Blank(a)
  BY <1>1 DEF UnfinishedIsScheduled, StatusIsTrue, Blank, Gone
<1> QED
  BY <1>2, <1>3 DEF LifeInv

\* A step of the worker concerns its archive, and neither loop.
WorkerLocal ==
  /\ UNCHANGED <<born, terminating, up, used, stored, listed>>
  /\ \A p \in {"sync", "gc"} : pc'[p] = pc[p] /\ id'[p] = id[p]
  /\ pc["worker"] # "idle"
  /\ pc'["worker"] # "idle" => id'["worker"] = id["worker"]
  /\ queue \subseteq queue' /\ queue' \subseteq queue \cup {id["worker"]}
  /\ \A b \in Archives \ {id["worker"]} : zip'[b] = zip[b]

\* Every step of the worker is such a step.
LEMMA WorkerStepIsLocal ==
  ASSUME Typed, WorkerStep
  PROVE  WorkerLocal
<1> USE Domains DEF WorkerLocal, api, disk, count, At, Goto, Return, Procs
<1>1. CASE GetFails \/ CheckFails \/ FindsArchive \/ SetCreatedFails \/ SetsCreated
  BY <1>1 DEF GetFails, CheckFails, FindsArchive, SetCreatedFails, SetsCreated
<1>2. CASE GetsNothing \/ GetsCR \/ ChecksCollectors
  BY <1>2 DEF GetsNothing, GetsCR, ChecksCollectors
<1>3. CASE TakesNextCollector \/ FindsAllCollected
  BY <1>3 DEF TakesNextCollector, FindsAllCollected
<1>4. CASE CollectorStarts \/ CollectorSucceeds \/ CollectorFails
  BY <1>4 DEF CollectorStarts, CollectorSucceeds, CollectorFails
<1>5. CASE SetsCondition
  BY <1>5 DEF SetsCondition
<1>6. CASE OpensZip \/ ClosesZip
  BY <1>6 DEF OpensZip, ClosesZip
<1>7. CASE ZipFails
  BY <1>7 DEF ZipFails
<1>8. CASE DeletesZip("worker")
  BY <1>8 DEF DeletesZip
<1>9. CASE \E c \in Collectors : DeletesCollector("worker", c)
  BY <1>9 DEF DeletesCollector
<1> QED
  BY <1>1, <1>2, <1>3, <1>4, <1>5, <1>6, <1>7, <1>8, <1>9 DEF WorkerStep, Delete

\* It disturbs neither the names nor the loops.
LEMMA WorkerLocalKeeps ==
  ASSUME Typed, LifeInv, WorkerLocal
  PROVE  NamesInv' /\ LoopsInv'
<1>1. NamesInv'
  BY DEF LifeInv, NamesInv, WorkerLocal, Present, Exists
<1>2. LoopsInv'
  BY DEF LifeInv, LoopsInv, WorkerLocal, GoneForGood, Gone, Present
<1> QED
  BY <1>1, <1>2

\* The worker returns: it holds no archive.
LEMMA IdleWorker ==
  ASSUME Typed, NEW again \in BOOLEAN, Return(again)
  PROVE  WorkerInv' /\ id'["worker"] = None /\ (again => id["worker"] \in queue')
  BY Domains DEF Return, Goto, WorkerInv, Procs

\* What the worker finds before it acts is so.
LEMMA WorkerReadsKeep ==
  ASSUME Typed, LifeInv,
         \/ GetFails \/ GetsNothing \/ GetsCR \/ ChecksCollectors
         \/ CheckFails \/ TakesNextCollector \/ FindsAllCollected \/ FindsArchive
  PROVE  WorkerInv' /\ UnfinishedIsScheduled'
<1> USE Domains, Numbers DEF At, Procs
<1>0. UNCHANGED <<api, disk, up>>
  BY DEF GetFails, GetsNothing, GetsCR, ChecksCollectors, CheckFails,
         TakesNextCollector, FindsAllCollected, FindsArchive
<1>1. CASE GetFails \/ CheckFails
  <2>1. Return(TRUE)
    BY <1>1 DEF GetFails, CheckFails
  <2>2. UnfinishedIsScheduled'
    BY <1>0, <2>1, IdleWorker DEF LifeInv, UnfinishedIsScheduled, Return, api, disk, Gone, Present, Exists
  <2> QED
    BY <2>1, <2>2, IdleWorker
<1>2. CASE FindsArchive
  <2>1. Return(FALSE) /\ Exists(id["worker"])
    BY <1>2 DEF FindsArchive
  <2>2. UnfinishedIsScheduled'
    BY <1>0, <2>1 DEF LifeInv, UnfinishedIsScheduled, Return, api, disk, Gone, Present, Exists
  <2> QED
    BY <2>1, <2>2, IdleWorker
<1>3. CASE GetsNothing
  BY <1>3 DEF GetsNothing, Goto, LifeInv, WorkerInv, UnfinishedIsScheduled, api, disk,
              Gone, Present, Exists
<1>4. CASE GetsCR
  BY <1>4 DEF GetsCR, Goto, LifeInv, WorkerInv, UnfinishedIsScheduled, api, disk,
              Gone, Present, Exists
<1>5. CASE ChecksCollectors
  BY <1>5 DEF ChecksCollectors, Goto, LifeInv, WorkerInv, UnfinishedIsScheduled, api, disk,
              Gone, Present, Exists, IsCollected
<1>6. CASE TakesNextCollector
  BY <1>6 DEF TakesNextCollector, Goto, LifeInv, WorkerInv, UnfinishedIsScheduled, api, disk,
              Gone, Present, Exists, IsCollected
<1>7. CASE FindsAllCollected
  BY <1>7 DEF FindsAllCollected, Goto, LifeInv, WorkerInv, UnfinishedIsScheduled, api, disk,
              Gone, Present, Exists, IsCollected
<1> QED
  BY <1>1, <1>2, <1>3, <1>4, <1>5, <1>6, <1>7

\* What a CR without a status says stays nothing, and what the status says
\* stays true, when neither status nor volume changes.
LEMMA StatusFrame ==
  ASSUME LifeInv, UNCHANGED <<api, disk>>
  PROVE  StatusIsTrue' /\ \A a \in Archives : ~Present(a)' => Blank(a)'
  BY DEF LifeInv, StatusIsTrue, Blank, api, disk, Gone, Present, IsCollected

\* A collector's run: it starts only where nothing is collected, so no
\* condition is made a lie by what it leaves behind.
LEMMA CollectorKeeps ==
  ASSUME Typed, LifeInv, CollectorStarts \/ CollectorSucceeds \/ CollectorFails
  PROVE  /\ WorkerInv' /\ UnfinishedIsScheduled' /\ StatusIsTrue'
         /\ \A a \in Archives : ~Present(a)' => Blank(a)'
<1> DEFINE a == id["worker"]
<1> USE Domains DEF At, Procs, api
<1>1. /\ UNCHANGED <<api, zip, queue, up, id, left, used>>
      /\ pc["worker"] \in {"collect", "collecting"}
  BY DEF CollectorStarts, CollectorSucceeds, CollectorFails, count
<1>2. PICK c \in Collectors : left["worker"] = {c} /\ ~IsCollected(a, c)
  BY <1>1 DEF LifeInv, WorkerInv
<1>3. a \in Archives
  BY <1>1 DEF Typed, TypedMem
<1>4. PICK state \in WorkStates : work' = [work EXCEPT ![a][c] = state]
  BY <1>2 DEF CollectorStarts, CollectorSucceeds, CollectorFails, SetWork, WorkStates
<1>5. \A b \in Archives, d \in Collectors : b # a \/ d # c => work'[b][d] = work[b][d]
  BY <1>3, <1>4
<1>6. UnfinishedIsScheduled' /\ \A b \in Archives : ~Present(b)' => Blank(b)'
  BY <1>1 DEF LifeInv, UnfinishedIsScheduled, Blank, Gone, Present, Exists
<1>7. StatusIsTrue'
  <2>1. /\ UNCHANGED <<born, terminating, created, cond, zip>> /\ (~Gone(a) => cond[a][c] # "true")
    BY <1>1, <1>2, <1>3 DEF LifeInv, StatusIsTrue
  <2>2. \A b \in Archives, d \in Collectors : ~Gone(b) /\ cond[b][d] = "true" => IsCollected(b, d)'
    <3> TAKE b \in Archives, d \in Collectors
    <3>1. CASE b = a /\ d = c
      BY <2>1, <3>1
    <3>2. CASE b # a \/ d # c
      BY <1>5, <3>2 DEF LifeInv, StatusIsTrue, IsCollected
    <3> QED
      BY <3>1, <3>2
  <2> QED
    BY <2>1, <2>2 DEF LifeInv, StatusIsTrue, Gone, Present
<1>8. WorkerInv'
  <2>1. CASE CollectorStarts
    <3>1. work'[a][c] = "partial" /\ pc' = [pc EXCEPT !["worker"] = "collecting"]
      BY <2>1, <1>2, <1>3 DEF CollectorStarts, SetWork, Goto
    <3> QED
      BY <3>1, <2>1, <1>1, <1>2 DEF CollectorStarts, LifeInv, WorkerInv, IsCollected
  <2>2. CASE CollectorSucceeds
    <3>1. work'[a][c] \in {"done", "broken"} /\ pc' = [pc EXCEPT !["worker"] = "condition"]
      BY <2>2, <1>2, <1>3 DEF CollectorSucceeds, SetWork, Goto
    <3> QED
      BY <3>1, <2>2, <1>1, <1>2 DEF CollectorSucceeds, LifeInv, WorkerInv, IsCollected
  <2>3. CASE CollectorFails
    BY <2>3, <1>1, <1>2 DEF CollectorFails, Goto, LifeInv, WorkerInv
  <2> QED
    BY <2>1, <2>2, <2>3
<1> QED
  BY <1>6, <1>7, <1>8

\* setConditionForCollector says "true" of what is collected only, unless the
\* CR it would say it of is gone for good.
LEMMA ConditionKeeps ==
  ASSUME Typed, LifeInv, SetsCondition
  PROVE  /\ WorkerInv' /\ UnfinishedIsScheduled' /\ StatusIsTrue'
         /\ \A a \in Archives : ~Present(a)' => Blank(a)'
<1> DEFINE a == id["worker"]
<1> USE Domains DEF At, Procs, disk
<1>1. /\ UNCHANGED <<born, required, terminating, created, disk, up>>
      /\ pc["worker"] = "condition" /\ Return(TRUE)
  BY DEF SetsCondition
<1>2. PICK c \in Collectors : left["worker"] = {c}
  BY <1>1 DEF LifeInv, WorkerInv
<1>3. a \in Archives
  BY <1>1 DEF Typed, TypedMem
<1>4. WorkerInv' /\ UnfinishedIsScheduled'
  <2>1. queue' = queue \cup {a} /\ id'["worker"] = None
    BY <1>1 DEF Return
  <2>2. UnfinishedIsScheduled'
    BY <1>1, <2>1 DEF LifeInv, UnfinishedIsScheduled, Gone, Present, Exists
  <2> QED
    BY <1>1, <2>2, IdleWorker
<1>5. CASE UNCHANGED cond
  BY <1>1, <1>4, <1>5, StatusFrame DEF api
<1>6. CASE Present(a) /\ cond' = [cond EXCEPT ![a][c] = IF failed THEN "false" ELSE "true"]
  <2>1. /\ \A b \in Archives, d \in Collectors : b # a \/ d # c => cond'[b][d] = cond[b][d]
        /\ cond'[a][c] = "true" => ~failed
    BY <1>3, <1>6
  <2>2. ~failed => Gone(a) \/ IsCollected(a, c)
    BY <1>1, <1>2 DEF LifeInv, WorkerInv, GoneForGood
  <2>3. StatusIsTrue'
    <3>1. \A b \in Archives, d \in Collectors : ~Gone(b) /\ cond'[b][d] = "true" => IsCollected(b, d)
      <4> TAKE b \in Archives, d \in Collectors
      <4>1. CASE b = a /\ d = c
        BY <2>1, <2>2, <4>1
      <4>2. CASE b # a \/ d # c
        BY <2>1, <4>2 DEF LifeInv, StatusIsTrue
      <4> QED
        BY <4>1, <4>2
    <3> QED
      BY <1>1, <3>1 DEF LifeInv, StatusIsTrue, Gone, Present, IsCollected
  <2>4. \A b \in Archives : ~Present(b)' => Blank(b)'
    BY <1>1, <1>6, <2>1 DEF LifeInv, Blank, Present
  <2> QED
    BY <1>4, <2>3, <2>4
<1> QED
  BY <1>2, <1>5, <1>6 DEF SetsCondition

\* The zip and what is reported of it.
LEMMA ZipKeeps ==
  ASSUME Typed, LifeInv, OpensZip \/ ClosesZip \/ ZipFails \/ SetsCreated \/ SetCreatedFails
  PROVE  /\ WorkerInv' /\ UnfinishedIsScheduled' /\ StatusIsTrue'
         /\ \A a \in Archives : ~Present(a)' => Blank(a)'
<1> DEFINE a == id["worker"]
<1> USE Domains DEF At, Procs, api, disk, count
<1>1. pc["worker"] \in {"zip", "zipping", "status"} /\ a \in Archives
  <2>1. pc["worker"] \in {"zip", "zipping", "status"}
    BY DEF OpensZip, ClosesZip, ZipFails, SetsCreated, SetCreatedFails
  <2> QED
    BY <2>1 DEF Typed, TypedMem
<1>2. CASE OpensZip \/ ClosesZip
  <2>1. /\ UNCHANGED <<api, work, queue, up, id, used>>
        /\ \A b \in Archives \ {a} : zip'[b] = zip[b]
    BY <1>2 DEF OpensZip, ClosesZip
  <2>2. \/ /\ OpensZip /\ zip[a] = "none" /\ zip'[a] = "partial"
           /\ pc' = [pc EXCEPT !["worker"] = "zipping"]
        \/ /\ ClosesZip /\ zip[a] = "partial" /\ zip'[a] \in {"full", "broken"}
           /\ pc' = [pc EXCEPT !["worker"] = "status"]
        \/ /\ ClosesZip /\ zip[a] = "none" /\ zip'[a] = "none" /\ GoneForGood(a)
           /\ pc' = [pc EXCEPT !["worker"] = "status"]
    BY <1>1, <1>2 DEF OpensZip, ClosesZip, Goto, LifeInv, WorkerInv
  <2>3. UnfinishedIsScheduled' /\ \A b \in Archives : ~Present(b)' => Blank(b)'
    BY <2>1, <2>2 DEF LifeInv, UnfinishedIsScheduled, Blank, Gone, Present, Exists
  <2>4. StatusIsTrue'
    BY <2>1, <2>2 DEF LifeInv, StatusIsTrue, GoneForGood, Gone, Present, IsCollected
  <2>5. WorkerInv'
    BY <1>1, <2>1, <2>2 DEF LifeInv, WorkerInv, GoneForGood, Gone, Present
  <2> QED
    BY <2>3, <2>4, <2>5
<1>3. CASE ZipFails
  <2>1. /\ UNCHANGED <<api, work, up>> /\ Return(TRUE)
        /\ \A b \in Archives \ {a} : zip'[b] = zip[b]
    BY <1>3 DEF ZipFails
  <2>2. ~Gone(a) => ~created[a]
    BY <1>1, <1>3 DEF ZipFails, LifeInv, WorkerInv, StatusIsTrue, GoneForGood
  <2>3. UnfinishedIsScheduled' /\ \A b \in Archives : ~Present(b)' => Blank(b)'
    BY <1>1, <2>1 DEF Return, LifeInv, UnfinishedIsScheduled, Blank, Gone, Present, Exists
  <2>4. StatusIsTrue'
    BY <2>1, <2>2 DEF LifeInv, StatusIsTrue, Gone, Present, IsCollected
  <2> QED
    BY <2>1, <2>3, <2>4, IdleWorker
<1>4. CASE SetsCreated
  <2>1. /\ UNCHANGED <<born, required, terminating, cond, disk, up>> /\ Return(FALSE)
        /\ Present(a) /\ created' = [created EXCEPT ![a] = TRUE]
        /\ zip[a] \in {"full", "broken"} \/ Gone(a)
    BY <1>4 DEF SetsCreated, LifeInv, WorkerInv, GoneForGood
  <2>2. UnfinishedIsScheduled'
    BY <1>1, <2>1 DEF Return, LifeInv, UnfinishedIsScheduled, Gone, Present, Exists
  <2>3. StatusIsTrue' /\ \A b \in Archives : ~Present(b)' => Blank(b)'
    BY <1>1, <2>1 DEF LifeInv, StatusIsTrue, Blank, Gone, Present, IsCollected
  <2> QED
    BY <2>1, <2>2, <2>3, IdleWorker
<1>5. CASE SetCreatedFails
  <2>1. UNCHANGED <<api, disk, up>> /\ Return(TRUE)
    BY <1>5 DEF SetCreatedFails
  <2>2. UnfinishedIsScheduled'
    BY <2>1 DEF Return, LifeInv, UnfinishedIsScheduled, Gone, Present, Exists
  <2> QED
    BY <2>1, <2>2, IdleWorker, StatusFrame
<1> QED
  BY <1>2, <1>3, <1>4, <1>5

\* The worker is where it was, and works on the same archive.
WorkerStays ==
  /\ pc'["worker"] = pc["worker"] /\ id'["worker"] = id["worker"]
  /\ left'["worker"] = left["worker"] /\ failed' = failed

\* Lists and choices of the loops change nothing for the worker and the CRs.
LEMMA LoopFrame ==
  ASSUME LifeInv, WorkerStays, UNCHANGED <<api, disk, up, used>>, queue \subseteq queue'
  PROVE  /\ WorkerInv' /\ UnfinishedIsScheduled' /\ StatusIsTrue'
         /\ \A a \in Archives : ~Present(a)' => Blank(a)'
<1>1. WorkerInv'
  BY DEF LifeInv, WorkerInv, WorkerStays, api, disk, Gone, GoneForGood, Present, Blank, IsCollected
<1>2. UnfinishedIsScheduled'
  BY DEF LifeInv, UnfinishedIsScheduled, WorkerStays, api, disk, Gone, Present, Exists
<1> QED
  BY <1>1, <1>2, StatusFrame

\* What is deleted had no CR, or one whose status says nothing yet and which
\* waits for the worker anyway.
LEMMA DeleteKeeps ==
  ASSUME Typed, LifeInv, NEW p \in Procs, Delete(p)
  PROVE  /\ WorkerInv' /\ UnfinishedIsScheduled' /\ StatusIsTrue'
         /\ \A a \in Archives : ~Present(a)' => Blank(a)'
<1> DEFINE a == id[p]
<1> USE Domains DEF At, Procs, api, count
<1>1. pc[p] = "delete" /\ a \in Archives
  BY DEF Delete, DeletesZip, DeletesCollector, Typed, TypedMem
<1>2. p # "worker" => GoneForGood(a)
  BY <1>1 DEF LifeInv, LoopsInv
<1>3. Gone(a) \/ (a \in queue /\ Blank(a))
  BY <1>1, <1>2 DEF LifeInv, WorkerInv, GoneForGood
<1>4. UNCHANGED <<born, terminating, created, cond, used, up>>
  BY DEF Delete, DeletesZip, DeletesCollector
<1>5. \A b \in Archives : ~Present(b)' => Blank(b)'
  BY <1>4 DEF LifeInv, Blank, Present
<1>6. ASSUME NEW c \in Collectors, DeletesCollector(p, c)
      PROVE  WorkerInv' /\ UnfinishedIsScheduled' /\ StatusIsTrue'
  <2>1. UNCHANGED <<zip, queue, pc, id, failed>> /\ left' = [left EXCEPT ![p] = @ \ {c}]
    BY <1>6 DEF DeletesCollector
  <2>2. PICK state \in WorkStates : /\ work' = [work EXCEPT ![a][c] = state]
                                    /\ state \in {"done", "broken"} => IsCollected(a, c)
    <3>1. work[a][c] \in WorkStates
      BY <1>1
    <3> QED
      BY <1>6, <3>1 DEF DeletesCollector, SetWork, IsCollected, WorkStates
  <2>3. /\ \A b \in Archives, d \in Collectors : IsCollected(b, d)' => IsCollected(b, d)
        /\ \A b \in Archives \ {a}, d \in Collectors : work'[b][d] = work[b][d]
    BY <1>1, <2>2 DEF IsCollected
  <2>4. UnfinishedIsScheduled'
    BY <1>4, <2>1 DEF LifeInv, UnfinishedIsScheduled, Gone, Present, Exists
  <2>5. StatusIsTrue'
    <3>1. \A b \in Archives, d \in Collectors : ~Gone(b) /\ cond[b][d] = "true" => IsCollected(b, d)'
      <4> TAKE b \in Archives, d \in Collectors
      <4>1. CASE b = a
        BY <1>3, <4>1 DEF Blank
      <4>2. CASE b # a
        BY <2>3, <4>2 DEF LifeInv, StatusIsTrue, IsCollected
      <4> QED
        BY <4>1, <4>2
    <3> QED
      BY <1>4, <2>1, <3>1 DEF LifeInv, StatusIsTrue, Gone, Present
  <2>6. WorkerInv'
    <3>1. CASE p = "worker"
      BY <1>1, <1>4, <2>1, <3>1 DEF LifeInv, WorkerInv, Gone, Present, Blank
    <3>2. CASE p # "worker"
      <4>1. WorkerStays
        BY <2>1, <3>2 DEF WorkerStays
      <4>2. id["worker"] = a \/ id["worker"] \in Archives \ {a} \/ pc["worker"] = "idle"
        BY DEF Typed, TypedMem
      <4>3. pc["worker"] # "idle" => left["worker"] \subseteq Collectors /\ id["worker"] \in Archives
        BY DEF Typed, TypedMem
      <4> QED
        BY <1>2, <1>4, <2>1, <2>3, <3>2, <4>1, <4>2, <4>3
        DEF LifeInv, WorkerInv, WorkerStays, Gone, GoneForGood, Present, Blank, IsCollected
    <3> QED
      BY <3>1, <3>2
  <2> QED
    BY <2>4, <2>5, <2>6
<1>7. CASE DeletesZip(p)
  <2>1. /\ UNCHANGED work /\ zip' \in [Archives -> ZipStates]
        /\ zip'[a] \in {"none", zip[a]}
        /\ \A b \in Archives \ {a} : zip'[b] = zip[b]
        /\ queue' = queue
    BY <1>1, <1>7 DEF DeletesZip, Return, ZipStates
  <2>2. id'["worker"] = id["worker"] \/ (p = "worker" /\ id["worker"] = a)
    BY <1>7 DEF DeletesZip
  <2>3. UnfinishedIsScheduled'
    BY <1>3, <1>4, <2>1, <2>2 DEF LifeInv, UnfinishedIsScheduled, Gone, Present, Exists
  <2>4. StatusIsTrue'
    BY <1>3, <1>4, <2>1 DEF LifeInv, StatusIsTrue, Gone, Present, Blank, IsCollected
  <2>5. WorkerInv'
    <3>1. CASE p = "worker"
      BY <1>7, <3>1, IdleWorker DEF DeletesZip
    <3>2. CASE p # "worker"
      <4>1. WorkerStays
        BY <1>7, <3>2 DEF DeletesZip, WorkerStays, Goto
      <4>2. CASE id["worker"] = a
        BY <1>2, <1>4, <2>1, <3>2, <4>1, <4>2
        DEF LifeInv, WorkerInv, WorkerStays, Gone, GoneForGood, Present, Blank, IsCollected
      <4>3. CASE id["worker"] # a
        <5>1. pc["worker"] # "idle" => zip'[id["worker"]] = zip[id["worker"]]
          BY <2>1, <4>3 DEF Typed, TypedMem
        <5> QED
          BY <1>4, <2>1, <4>1, <5>1
          DEF LifeInv, WorkerInv, WorkerStays, Gone, GoneForGood, Present, Blank, IsCollected
      <4> QED
        BY <4>2, <4>3
    <3> QED
      BY <3>1, <3>2
  <2> QED
    BY <1>5, <2>3, <2>4, <2>5
<1> QED
  BY <1>5, <1>6, <1>7 DEF Delete

\* A loop that is somewhere is not disabled, so no name is used twice.
LEMMA NamesAreNotReused ==
  ASSUME Undisturbed, LifeInv, pc["sync"] # "idle" \/ pc["gc"] # "idle"
  PROVE  Loops # {} /\ "recreate" \notin Users
  BY DEF Undisturbed, LifeInv, LoopsInv

\* The loops delete only archives that are gone for good, and names stay known.
LEMMA LoopDeleteKeeps ==
  ASSUME Undisturbed, Typed, LifeInv, NEW p \in {"sync", "gc"}, Delete(p)
  PROVE  NamesInv' /\ LoopsInv'
<1> USE Domains DEF At, Procs, api, disk, count
<1> DEFINE Local ==
             /\ UNCHANGED <<born, terminating, used, stored, listed, queue>>
             /\ pc'["worker"] = pc["worker"] /\ id'["worker"] = id["worker"]
             /\ \A b \in Archives : Exists(b)' => Exists(b)
             /\ pc[p] = "delete" /\ pc'[p] \in {"delete", "next"}
             /\ pc'[p] = "delete" => id'[p] = id[p]
             /\ \A q \in {"sync", "gc"} \ {p} : pc'[q] = pc[q] /\ id'[q] = id[q]
<1>1. Local
  <2>1. CASE DeletesZip(p)
    BY <2>1 DEF DeletesZip, Goto, Exists
  <2>2. ASSUME NEW c \in Collectors, DeletesCollector(p, c) PROVE Local
    BY <2>2 DEF DeletesCollector, Exists
  <2> QED
    BY <2>1, <2>2 DEF Delete
<1>2. NamesInv'
  BY <1>1 DEF LifeInv, NamesInv, Present
<1>3. LoopsInv'
  BY <1>1 DEF LifeInv, LoopsInv, GoneForGood, Gone, Present
<1> QED
  BY <1>2, <1>3

\* The loops list, choose and take up.
LEMMA LoopsKeep ==
  ASSUME Undisturbed, Typed, LifeInv,
         \/ SyncListsZips \/ SyncListFails \/ SyncListsCRs \/ SyncTriggers
         \/ GcListsCRs \/ GcChoosesOldest \/ GcEnds
         \/ \E a \in Archives : SyncDeletes(a) \/ GcDeleteFails(a)
  PROVE  LifeInv'
<1> USE Domains DEF At, Procs, count
<1>1. /\ UNCHANGED <<api, disk, up, used>> /\ queue \subseteq queue' /\ WorkerStays
  BY DEF SyncListsZips, SyncListFails, SyncListsCRs, SyncTriggers, GcListsCRs,
         GcChoosesOldest, GcEnds, SyncDeletes, GcDeleteFails, WorkerStays, Goto
<1>2. NamesInv'
  <2>1. UNCHANGED <<born, zip, used>> /\ WorkerStays
    BY <1>1 DEF api, disk
  <2>2. stored' \subseteq stored \cup {a \in Archives : Exists(a)}
    BY DEF SyncListsZips, SyncListFails, SyncListsCRs, SyncTriggers, GcListsCRs,
           GcChoosesOldest, GcEnds, SyncDeletes, GcDeleteFails
  <2>3. \A a \in Archives : listed'["sync"][a] \in {listed["sync"][a], born[a], 0}
    BY DEF SyncListsZips, SyncListFails, SyncListsCRs, SyncTriggers, GcListsCRs,
           GcChoosesOldest, GcEnds, SyncDeletes, GcDeleteFails, NoCRs
  <2>4. queue' \subseteq queue \cup {a \in Archives : listed["sync"][a] # 0}
    BY DEF SyncListsZips, SyncListFails, SyncListsCRs, SyncTriggers, GcListsCRs,
           GcChoosesOldest, GcEnds, SyncDeletes, GcDeleteFails
  <2> QED
    BY <2>1, <2>2, <2>3, <2>4 DEF LifeInv, NamesInv, WorkerStays, Present, Exists
<1>3. LoopsInv'
  <2>1. UNCHANGED <<born, terminating, used>>
    BY <1>1 DEF api
  <2>2. CASE SyncListsZips
    BY <2>1, <2>2 DEF SyncListsZips, Goto, LifeInv, LoopsInv, GoneForGood, Gone, Present
  <2>3. CASE SyncListFails \/ SyncTriggers
    BY <2>1, <2>3 DEF SyncListFails, SyncTriggers, Goto, LifeInv, LoopsInv, GoneForGood, Gone, Present
  <2>4. CASE SyncListsCRs
    <3>1. \A a \in stored' : GoneForGood(a)
      <4>1. "recreate" \notin Users /\ stored' = {a \in stored : ~Present(a)}
        BY <2>4, NamesAreNotReused DEF SyncListsCRs
      <4>2. \A a \in stored : a \in used
        BY DEF LifeInv, NamesInv, Typed, TypedMem
      <4> QED
        BY <2>1, <4>1, <4>2 DEF GoneForGood, Gone
    <3> QED
      BY <2>1, <2>4, <3>1 DEF SyncListsCRs, Goto, LifeInv, LoopsInv, GoneForGood, Gone, Present
  <2>5. ASSUME NEW a \in Archives, SyncDeletes(a) PROVE LoopsInv'
    BY <2>1, <2>5 DEF SyncDeletes, Goto, LifeInv, LoopsInv, GoneForGood, Gone, Present
  <2>6. CASE GcListsCRs \/ GcChoosesOldest \/ GcEnds
    BY <2>1, <2>6 DEF GcListsCRs, GcChoosesOldest, GcEnds, Goto,
                      LifeInv, LoopsInv, GoneForGood, Gone, Present
  <2>7. ASSUME NEW a \in Archives, GcDeleteFails(a) PROVE LoopsInv'
    BY <2>1, <2>7 DEF GcDeleteFails, LifeInv, LoopsInv, GoneForGood, Gone, Present
  <2> QED
    BY <2>2, <2>3, <2>4, <2>5, <2>6, <2>7
<1> QED
  BY <1>1, <1>2, <1>3, LoopFrame DEF LifeInv

\* A CR that leaves the API server leaves nothing a loop or the worker relies on.
LEMMA CRGoneKeeps ==
  ASSUME Typed, LifeInv, NEW a \in Archives, Present(a), CRGone(a), WorkerStays,
         UNCHANGED <<disk, up, stored, listed, used>>
  PROVE  /\ NamesInv' /\ WorkerInv' /\ UnfinishedIsScheduled' /\ StatusIsTrue'
         /\ \A b \in Archives : ~Present(b)' => Blank(b)'
         /\ \A b \in Archives : GoneForGood(b) => GoneForGood(b)'
         /\ "recreate" \notin Users => GoneForGood(a)'
<1> USE Domains DEF disk
<1>1. /\ born'[a] = 0 /\ Blank(a)'
      /\ \A b \in Archives \ {a} : /\ born'[b] = born[b] /\ created'[b] = created[b]
                                   /\ cond'[b] = cond[b]
      /\ terminating' = terminating \ {a}
      /\ queue \subseteq queue' /\ queue' \subseteq queue \cup {a}
  BY DEF CRGone, Event, Blank
<1>2. Gone(a)' /\ \A b \in Archives \ {a} : Gone(b)' <=> Gone(b)
  BY <1>1 DEF Gone, Present
<1>3. NamesInv'
  BY <1>1 DEF LifeInv, NamesInv, WorkerStays, Present, Exists
<1>4. \A b \in Archives : /\ GoneForGood(b) => GoneForGood(b)'
                          /\ ~Present(b)' => Blank(b)'
                          /\ Blank(b) => Blank(b)'
  BY <1>1, <1>2 DEF LifeInv, GoneForGood, Blank, Present
<1>5. "recreate" \notin Users => GoneForGood(a)'
  BY <1>2 DEF LifeInv, NamesInv, GoneForGood
<1>6. UnfinishedIsScheduled'
  BY <1>1, <1>2 DEF LifeInv, UnfinishedIsScheduled, WorkerStays, Exists
<1>7. StatusIsTrue'
  <2> SUFFICES ASSUME NEW b \in Archives, ~Gone(b)'
               PROVE  /\ created'[b] => zip'[b] \in {"full", "broken"}
                      /\ \A c \in Collectors : cond'[b][c] = "true" => IsCollected(b, c)'
    BY DEF StatusIsTrue
  <2>1. b # a /\ ~Gone(b) /\ created'[b] = created[b] /\ cond'[b] = cond[b]
    BY <1>1, <1>2
  <2> QED
    BY <2>1 DEF LifeInv, StatusIsTrue, IsCollected
<1>8. WorkerInv'
  <2>1. pc["worker"] # "idle" => id["worker"] \in Archives
    BY DEF Typed, TypedMem
  <2>2. pc["worker"] # "idle" /\ Gone(id["worker"]) => Gone(id["worker"])'
    BY <1>1, <2>1 DEF WorkerStays, Gone, Present
  <2> QED
    BY <1>1, <1>4, <2>1, <2>2 DEF LifeInv, WorkerInv, WorkerStays, IsCollected
<1> QED
  BY <1>3, <1>4, <1>5, <1>6, <1>7, <1>8

\* Users and the API server: a new CR has no status, and an event.
LEMMA UserKeeps ==
  ASSUME Undisturbed, Typed, LifeInv, NEW a \in Archives, UserStep(a) \/ DeletionCompletes(a)
  PROVE  LifeInv'
<1> USE Domains DEF disk, mem, count
<1>0. /\ UNCHANGED <<disk, up, mem>> /\ WorkerStays
      /\ queue \subseteq queue' /\ queue' \subseteq queue \cup {a} /\ (up => a \in queue')
  BY DEF UserStep, DeletionCompletes, UserCreates, UserChangesSpec, UserDeletes, CRGone,
         UserDeletesInForeground, WorkerStays, Event
<1>1. CASE UserDeletes(a) \/ DeletionCompletes(a)
  <2>1. Present(a) /\ CRGone(a) /\ UNCHANGED <<stored, listed, used, pc, id>>
    BY <1>1 DEF UserDeletes, DeletionCompletes, Typed, TypedApi
  <2>2. LoopsInv'
    <3>1. \A b \in Archives : GoneForGood(b) => GoneForGood(b)'
      BY <1>0, <2>1, CRGoneKeeps
    <3>2. stored \subseteq Archives /\ \A p \in {"sync", "gc"} : pc[p] = "delete" => id[p] \in Archives
      BY DEF Typed, TypedMem, Procs
    <3> QED
      BY <2>1, <3>1, <3>2 DEF LifeInv, LoopsInv
  <2> QED
    BY <1>0, <2>1, <2>2, CRGoneKeeps DEF LifeInv
<1>2. CASE UserCreates(a)
  <2>1. /\ UNCHANGED <<terminating, cond, created>> /\ used' = used \cup {a}
        /\ ~Present(a) /\ Blank(a) /\ born'[a] # 0
        /\ \A b \in Archives \ {a} : born'[b] = born[b]
        /\ ~GoneForGood(a)
    BY <1>2 DEF UserCreates, LifeInv, GoneForGood, Present
  <2>2. \A b \in Archives : GoneForGood(b) => GoneForGood(b)'
    BY <2>1 DEF GoneForGood, Gone, Present
  <2>3. NamesInv'
    BY <1>0, <2>1 DEF LifeInv, NamesInv, Present, Exists
  <2>4. LoopsInv'
    <3>1. stored \subseteq Archives /\ \A p \in {"sync", "gc"} : pc[p] = "delete" => id[p] \in Archives
      BY DEF Typed, TypedMem, Procs
    <3> QED
      BY <1>0, <2>2, <3>1 DEF LifeInv, LoopsInv
  <2>5. UnfinishedIsScheduled'
    BY <1>0, <2>1 DEF LifeInv, UnfinishedIsScheduled, Gone, Present, Exists
  <2>6. StatusIsTrue' /\ \A b \in Archives : ~Present(b)' => Blank(b)'
    BY <1>0, <2>1 DEF LifeInv, StatusIsTrue, Blank, Gone, Present, IsCollected
  <2>7. WorkerInv'
    <3>1. pc["worker"] # "idle" => id["worker"] \in Archives /\ up
      BY DEF Typed, TypedMem, LifeInv, WorkerInv
    <3>2. pc["worker"] = "delete" =>
            Gone(id["worker"])' \/ (id["worker"] \in queue' /\ Blank(id["worker"])')
      BY <1>0, <2>1, <3>1 DEF LifeInv, WorkerInv, Gone, Present, Blank
    <3> QED
      BY <1>0, <2>2, <3>1, <3>2 DEF LifeInv, WorkerInv, IsCollected
  <2> QED
    BY <2>3, <2>4, <2>5, <2>6, <2>7 DEF LifeInv
<1>3. CASE UserChangesSpec(a) \/ UserDeletesInForeground(a)
  <2>1. /\ UNCHANGED <<born, cond, created, used>> /\ Present(a)
        /\ terminating \subseteq terminating'
    BY <1>3 DEF UserChangesSpec, UserDeletesInForeground
  <2>2. NamesInv'
    BY <1>0, <2>1 DEF LifeInv, NamesInv, Present, Exists
  <2>3. LoopsInv'
    BY <1>0, <2>1 DEF LifeInv, LoopsInv, GoneForGood, Gone, Present
  <2>4. UnfinishedIsScheduled' /\ StatusIsTrue' /\ \A b \in Archives : ~Present(b)' => Blank(b)'
    BY <1>0, <2>1 DEF LifeInv, UnfinishedIsScheduled, StatusIsTrue, Blank, Gone, Present, Exists, IsCollected
  <2>5. WorkerInv'
    BY <1>0, <2>1 DEF LifeInv, WorkerInv, GoneForGood, Blank, Gone, Present, IsCollected
  <2> QED
    BY <2>2, <2>3, <2>4, <2>5 DEF LifeInv
<1> QED
  BY <1>1, <1>2, <1>3 DEF UserStep

\* Garbage collection deletes a CR whose name is not used again.
LEMMA GcDeletesCRKeeps ==
  ASSUME Undisturbed, Typed, LifeInv, NEW a \in Archives, GcDeletesCR(a)
  PROVE  LifeInv'
<1> USE Domains DEF At, Procs, disk, count
<1>1. /\ pc["gc"] = "next" /\ Present(a) /\ WorkerStays /\ id'["gc"] = a
      /\ UNCHANGED <<disk, up, stored, listed, used>>
      /\ pc' = [pc EXCEPT !["gc"] = "delete"] /\ id'["sync"] = id["sync"]
  BY DEF GcDeletesCR, GcNext, WorkerStays, Goto
<1>2. "recreate" \notin Users /\ Loops # {}
  BY <1>1, NamesAreNotReused
<1>3. /\ NamesInv' /\ WorkerInv' /\ UnfinishedIsScheduled' /\ StatusIsTrue'
      /\ \A b \in Archives : ~Present(b)' => Blank(b)'
      /\ \A b \in Archives : GoneForGood(b) => GoneForGood(b)'
      /\ GoneForGood(a)'
  <2>1. CASE a \in terminating
    <3>1. UNCHANGED <<api, queue>>
      BY <2>1 DEF GcDeletesCR
    <3>2. NamesInv' /\ \A b \in Archives : GoneForGood(b) <=> GoneForGood(b)'
      BY <1>1, <3>1 DEF api, LifeInv, NamesInv, WorkerStays, GoneForGood, Gone, Present, Exists
    <3>3. GoneForGood(a)
      BY <1>1, <1>2, <2>1 DEF LifeInv, NamesInv, GoneForGood, Gone
    <3> QED
      BY <1>1, <3>1, <3>2, <3>3, LoopFrame
  <2>2. CASE a \notin terminating
    BY <1>1, <1>2, <2>2, CRGoneKeeps DEF GcDeletesCR
  <2> QED
    BY <2>1, <2>2
<1>4. LoopsInv'
  <2>1. stored \subseteq Archives /\ (pc["sync"] = "delete" => id["sync"] \in Archives)
    BY DEF Typed, TypedMem
  <2> QED
    BY <1>1, <1>2, <1>3, <2>1 DEF LifeInv, LoopsInv
<1> QED
  BY <1>3, <1>4 DEF LifeInv

\* The operator dies and starts again; a name is taken from the queue.
LEMMA OperatorKeeps ==
  ASSUME Typed, LifeInv, Crash \/ Start \/ \E a \in Archives : PicksUp(a)
  PROVE  LifeInv'
<1> USE Domains DEF api, disk, mem, count
<1>0. UNCHANGED <<born, terminating, cond, created, work, zip, used>>
  BY DEF Crash, Start, PicksUp
<1>1. StatusIsTrue' /\ \A a \in Archives : ~Present(a)' => Blank(a)'
  BY <1>0 DEF LifeInv, StatusIsTrue, Blank, Gone, Present, IsCollected
<1>2. CASE Crash
  <2>1. /\ \A p \in Procs : pc'[p] = "idle" /\ id'[p] = None
        /\ \A a \in Archives : listed'["sync"][a] = 0
        /\ queue' = {} /\ stored' = {} /\ up' = FALSE
    BY <1>2 DEF Crash, NoCRs
  <2>2. NamesInv' /\ LoopsInv' /\ WorkerInv' /\ UnfinishedIsScheduled'
    BY <1>0, <2>1 DEF LifeInv, NamesInv, LoopsInv, WorkerInv, UnfinishedIsScheduled,
                      Procs, Present, Exists
  <2> QED
    BY <1>1, <2>2 DEF LifeInv
<1>3. CASE Start
  <2>1. pc["worker"] = "idle"
    BY <1>3 DEF Start, LifeInv, WorkerInv
  <2>2. NamesInv' /\ LoopsInv' /\ WorkerInv' /\ UnfinishedIsScheduled'
    BY <1>0, <1>3, <2>1 DEF Start, LifeInv, NamesInv, LoopsInv, WorkerInv,
       UnfinishedIsScheduled, GoneForGood, Gone, Present, Exists
  <2> QED
    BY <1>1, <2>2 DEF LifeInv
<1>4. ASSUME NEW a \in Archives, PicksUp(a) PROVE LifeInv'
  <2>1. /\ pc["worker"] = "idle" /\ up /\ up' = up /\ a \in queue /\ queue' = queue \ {a}
        /\ pc' = [pc EXCEPT !["worker"] = "get"] /\ id' = [id EXCEPT !["worker"] = a]
        /\ UNCHANGED <<stored, listed>>
    BY <1>4 DEF PicksUp, At, Goto
  <2>2. id["worker"] = None
    BY <2>1 DEF LifeInv, WorkerInv
  <2>3. NamesInv' /\ LoopsInv'
    BY <1>0, <2>1 DEF LifeInv, NamesInv, LoopsInv, Procs, GoneForGood, Gone, Present, Exists
  <2>4. WorkerInv'
    BY <2>1, Numbers DEF WorkerInv, Procs
  <2>5. UnfinishedIsScheduled'
    BY <1>0, <2>1, <2>2, Numbers DEF LifeInv, UnfinishedIsScheduled, Procs, Gone, Present, Exists
  <2> QED
    BY <1>1, <2>3, <2>4, <2>5 DEF LifeInv
<1> QED
  BY <1>2, <1>3, <1>4

\* Every step keeps the invariant.
LEMMA NextLife ==
  Undisturbed /\ Typed /\ LifeInv /\ [Next]_vars => LifeInv'
<1> SUFFICES ASSUME Undisturbed, Typed, LifeInv, [Next]_vars PROVE LifeInv'
  OBVIOUS
<1>1. CASE UNCHANGED vars
  <2>1. NamesInv' /\ LoopsInv'
    BY <1>1 DEF vars, api, disk, mem, count, LifeInv, NamesInv, LoopsInv,
                GoneForGood, Gone, Present, Exists
  <2>2. WorkerStays /\ UNCHANGED <<api, disk, up, used, queue>>
    BY <1>1 DEF vars, mem, count, WorkerStays
  <2> QED
    BY <2>1, <2>2, LoopFrame DEF LifeInv
<1>2. ASSUME NEW a \in Archives, UserStep(a) \/ DeletionCompletes(a) PROVE LifeInv'
  BY <1>2, UserKeeps
<1>3. CASE WorkerStep
  <2>1. NamesInv' /\ LoopsInv'
    BY <1>3, WorkerStepIsLocal, WorkerLocalKeeps
  <2>2. /\ WorkerInv' /\ UnfinishedIsScheduled' /\ StatusIsTrue'
        /\ \A a \in Archives : ~Present(a)' => Blank(a)'
    <3>1. CASE \/ GetFails \/ GetsNothing \/ GetsCR \/ ChecksCollectors
               \/ CheckFails \/ TakesNextCollector \/ FindsAllCollected \/ FindsArchive
      <4>1. UNCHANGED <<api, disk>>
        BY <3>1 DEF GetFails, GetsNothing, GetsCR, ChecksCollectors, CheckFails,
                    TakesNextCollector, FindsAllCollected, FindsArchive
      <4> QED
        BY <3>1, <4>1, WorkerReadsKeep, StatusFrame
    <3>2. CASE CollectorStarts \/ CollectorSucceeds \/ CollectorFails
      BY <3>2, CollectorKeeps
    <3>3. CASE SetsCondition
      BY <3>3, ConditionKeeps
    <3>4. CASE OpensZip \/ ClosesZip \/ ZipFails \/ SetsCreated \/ SetCreatedFails
      BY <3>4, ZipKeeps
    <3>5. CASE Delete("worker")
      BY <3>5, DeleteKeeps DEF Procs
    <3> QED
      BY <1>3, <3>1, <3>2, <3>3, <3>4, <3>5 DEF WorkerStep
  <2> QED
    BY <2>1, <2>2 DEF LifeInv
<1>4. ASSUME NEW p \in {"sync", "gc"}, Delete(p) PROVE LifeInv'
  BY <1>4, LoopDeleteKeeps, DeleteKeeps DEF LifeInv, Procs
<1>5. CASE SyncStep \/ GcStep
  BY <1>4, <1>5, LoopsKeep, GcDeletesCRKeeps DEF SyncStep, GcStep
<1>6. CASE Crash \/ Start \/ \E a \in Archives : PicksUp(a)
  BY <1>6, OperatorKeeps
<1> QED
  BY <1>1, <1>2, <1>3, <1>5, <1>6 DEF Next

\* The invariant holds of the operator as long as no loop can hit a CR that
\* came after its list.
LEMMA LifeCorrect == ASSUME Undisturbed PROVE Spec => []LifeInv
<1>1. Spec => []Typed
  BY InitTyped, NextTyped, PTL DEF Spec
<1>2. Typed /\ LifeInv /\ [Next]_vars => LifeInv'
  BY NextLife
<1> QED
  BY InitLife, <1>1, <1>2, PTL DEF Spec

\* No CR is forgotten: whatever fails and whenever the operator dies, a CR that
\* is to stay and has no zip waits in the queue or is worked on.
THEOREM UnfinishedStaysScheduled ==
  ASSUME Undisturbed PROVE Spec => []UnfinishedIsScheduled
<1>1. LifeInv => UnfinishedIsScheduled
  BY DEF LifeInv
<1> QED
  BY <1>1, LifeCorrect, PTL

\* What the status of a CR says of the volume stays true, although the status
\* is written after the volume, by name, and three processes delete.
THEOREM StatusStaysTrue ==
  ASSUME Undisturbed PROVE Spec => []StatusIsTrue
<1>1. LifeInv => StatusIsTrue
  BY DEF LifeInv
<1> QED
  BY <1>1, LifeCorrect, PTL

=============================================================================
