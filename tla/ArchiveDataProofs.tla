-------------------------- MODULE ArchiveDataProofs --------------------------
(***************************************************************************)
(* What holds of the data on the volume, for every set of archives and     *)
(* collectors and every bound: no data without a CR lie around unnoticed,  *)
(* and the data of a CR are what its collectors wrote.                     *)
(***************************************************************************)
EXTENDS ArchiveLifecycleProofs, FiniteSetTheorems

-----------------------------------------------------------------------------
(* Data without a CR *)

\* The volume works, and the operator does not die.
Calm == "io" \notin Faults /\ "crash" \notin Faults

\* The inductive invariant: wherever the worker may still write, a CR that
\* goes is noticed by an event; where it deletes, what it has dealt with is gone.
CleanInv ==
  /\ up
  /\ OrphanIsBeingCleaned
  /\ pc["worker"] = "idle" => id["worker"] = None
  /\ pc["worker"] \notin {"idle", "get", "delete"} /\ Gone(id["worker"]) => id["worker"] \in queue
  /\ pc["worker"] = "delete" =>
       \A c \in Collectors \ left["worker"] : work[id["worker"]][c] = "none"

\* The operator starts without data.
LEMMA InitClean == Init => CleanInv
<1> SUFFICES ASSUME Init PROVE CleanInv
  OBVIOUS
<1>1. /\ pc["worker"] = "idle" /\ id["worker"] = None
      /\ \A a \in Archives : ~HasData(a)
  BY DEF Init, FreshMemory, Procs, HasData, Exists
<1> QED
  BY <1>1 DEF Init, CleanInv, OrphanIsBeingCleaned

\* A step that gives no archive data, keeps the worker where it is, and queues
\* every archive that loses its CR.
LEMMA NoNewData ==
  ASSUME Typed, CleanInv, WorkerStays, up' = up, queue \subseteq queue',
         \A a \in Archives : Gone(a)' => Gone(a) \/ a \in queue',
         \A a \in Archives : zip'[a] \in {"none", zip[a]},
         \A a \in Archives, c \in Collectors : work'[a][c] \in {"none", work[a][c]}
  PROVE  CleanInv'
<1>1. \A a \in Archives : HasData(a)' => HasData(a)
  BY DEF HasData, Exists
<1>2. OrphanIsBeingCleaned'
  BY <1>1 DEF CleanInv, OrphanIsBeingCleaned, WorkerStays
<1>3. pc["worker"] # "idle" => id["worker"] \in Archives
  BY DEF Typed, TypedMem
<1>4. pc["worker"] # "idle" /\ Gone(id["worker"])' => Gone(id["worker"]) \/ id["worker"] \in queue'
  BY <1>3 DEF WorkerStays, Gone, Present
<1>5. pc["worker"] = "delete" =>
        \A c \in Collectors \ left["worker"] : work'[id["worker"]][c] = "none"
  BY <1>3 DEF CleanInv
<1> QED
  BY <1>2, <1>4, <1>5 DEF CleanInv, WorkerStays

\* The worker past "get" of an archive whose CR is gone: its name is queued.
LEMMA WorkerClean ==
  ASSUME Calm, Typed, CleanInv, WorkerStep
  PROVE  CleanInv'
<1> USE Domains DEF At, Procs, api, disk, count
<1>1. WorkerLocal
  BY WorkerStepIsLocal
<1>2. \A b \in Archives : Gone(b)' <=> Gone(b)
  BY <1>1 DEF WorkerLocal, Gone, Present
<1>3. PICK a \in Archives : a = id["worker"] /\ up'
  BY <1>1 DEF WorkerLocal, CleanInv, Typed, TypedMem
<1>4. ASSUME \A b \in Archives \ {a} : HasData(b)' => HasData(b),
             Gone(a) /\ HasData(a)' => a \in queue' \/ (id'["worker"] = a /\ pc'["worker"] \in {"get", "delete"})
      PROVE  OrphanIsBeingCleaned'
  BY <1>1, <1>2, <1>3, <1>4 DEF WorkerLocal, CleanInv, OrphanIsBeingCleaned
<1>5. CASE pc["worker"] \notin {"get", "delete"}
  <2>1. /\ pc'["worker"] \notin {"get", "delete"}
        /\ pc'["worker"] = "idle" => id'["worker"] = None
        /\ \A b \in Archives \ {a} : work'[b] = work[b]
    <3>1. CASE CheckFails \/ FindsArchive \/ SetCreatedFails \/ SetsCreated \/ SetsCondition \/ ZipFails
      BY <3>1 DEF CheckFails, FindsArchive, SetCreatedFails, SetsCreated, SetsCondition, ZipFails,
                  Return, Goto
    <3>2. CASE ChecksCollectors \/ TakesNextCollector \/ FindsAllCollected \/ OpensZip \/ ClosesZip
      BY <3>2 DEF ChecksCollectors, TakesNextCollector, FindsAllCollected, OpensZip, ClosesZip, Goto
    <3>3. CASE CollectorStarts \/ CollectorSucceeds \/ CollectorFails
      BY <1>3, <3>3 DEF CollectorStarts, CollectorSucceeds, CollectorFails, SetWork, Goto
    <3> QED
      BY <1>5, <3>1, <3>2, <3>3 DEF WorkerStep, GetFails, GetsNothing, GetsCR,
                                    Delete, DeletesZip, DeletesCollector
  <2>2. Gone(a) => a \in queue'
    BY <1>1, <1>3, <1>5 DEF WorkerLocal, CleanInv
  <2>3. \A b \in Archives \ {a} : HasData(b)' => HasData(b)
    BY <1>1, <1>3, <2>1 DEF WorkerLocal, HasData, Exists
  <2>4. OrphanIsBeingCleaned'
    BY <1>4, <2>2, <2>3
  <2>5. pc'["worker"] # "idle" /\ Gone(id["worker"])' => id'["worker"] \in queue'
    BY <1>1, <1>3, <2>2 DEF WorkerLocal, Gone, Present
  <2> QED
    BY <1>3, <2>1, <2>4, <2>5 DEF CleanInv
<1>6. CASE GetFails
  <2>1. Return(TRUE) /\ UNCHANGED <<work, zip>>
    BY <1>6 DEF GetFails
  <2>2. OrphanIsBeingCleaned'
    BY <1>3, <1>4, <2>1 DEF Return, HasData, Exists
  <2> QED
    BY <1>3, <2>1, <2>2 DEF CleanInv, Return, Goto
<1>7. CASE GetsNothing \/ GetsCR
  <2>1. UNCHANGED <<work, zip, id, queue>>
    BY <1>7 DEF GetsNothing, GetsCR
  <2>2. \/ pc'["worker"] = "delete" /\ left'["worker"] = Collectors
        \/ pc'["worker"] = "check" /\ ~Gone(a)
    BY <1>3, <1>7 DEF GetsNothing, GetsCR, Goto, Gone
  <2>3. OrphanIsBeingCleaned'
    BY <1>2, <1>3, <1>4, <2>1, <2>2 DEF HasData, Exists
  <2>4. ~Gone(a) => ~Gone(id["worker"])'
    BY <1>1, <1>3, <2>1 DEF WorkerLocal, Gone, Present
  <2> QED
    BY <1>3, <2>1, <2>2, <2>3, <2>4 DEF CleanInv
<1>8. ASSUME NEW c \in Collectors, DeletesCollector("worker", c)
      PROVE  CleanInv'
  <2>1. /\ UNCHANGED <<zip, id, pc, queue>> /\ work' = [work EXCEPT ![a][c] = "none"]
        /\ left' = [left EXCEPT !["worker"] = @ \ {c}] /\ pc["worker"] = "delete"
    BY <1>3, <1>8 DEF DeletesCollector, SetWork, Calm
  <2>2. OrphanIsBeingCleaned'
    BY <1>3, <1>4, <2>1 DEF HasData, Exists
  <2>3. \A d \in Collectors \ left'["worker"] : work'[a][d] = "none"
    BY <1>3, <2>1 DEF CleanInv
  <2> QED
    BY <1>3, <2>1, <2>2, <2>3 DEF CleanInv
<1>9. CASE DeletesZip("worker")
  <2>1. /\ UNCHANGED work /\ zip' = [zip EXCEPT ![a] = "none"] /\ Return(FALSE)
        /\ left["worker"] = {} /\ pc["worker"] = "delete"
    BY <1>3, <1>9 DEF DeletesZip, Calm
  <2>2. ~HasData(a)' /\ \A b \in Archives \ {a} : HasData(b)' => HasData(b)
    <3>1. \A d \in Collectors : work[a][d] = "none"
      BY <1>3, <2>1 DEF CleanInv
    <3>2. UNCHANGED work /\ zip'[a] = "none" /\ \A b \in Archives \ {a} : zip'[b] = zip[b]
      BY <1>3, <2>1
    <3>3. \A b \in Archives \ {a} : HasData(b)' => HasData(b)
      BY <3>2 DEF HasData, Exists
    <3>4. ~(zip'[a] # "none" \/ \E d \in Collectors : work'[a][d] # "none")
      BY <3>1, <3>2
    <3> QED
      BY <3>3, <3>4 DEF HasData, Exists
  <2>3. OrphanIsBeingCleaned'
    BY <1>4, <2>2
  <2> QED
    BY <1>3, <2>1, <2>3 DEF CleanInv, Return, Goto
<1> QED
  BY <1>5, <1>6, <1>7, <1>8, <1>9 DEF WorkerStep, Delete, ChecksCollectors, CheckFails,
     TakesNextCollector, FindsAllCollected, FindsArchive, CollectorStarts, CollectorSucceeds,
     CollectorFails, SetsCondition, OpensZip, ClosesZip, ZipFails, SetsCreated, SetCreatedFails

\* What DeleteArchiveUseCase.Delete of a loop does to the rest.
LEMMA LoopDeleteIsLocal ==
  ASSUME Typed, NEW p \in {"sync", "gc"}, Delete(p)
  PROVE  /\ WorkerStays /\ UNCHANGED <<api, queue, up>>
         /\ \A a \in Archives : zip'[a] \in {"none", zip[a]}
         /\ "io" \notin Faults =>
              \A a \in Archives, c \in Collectors : work'[a][c] \in {"none", work[a][c]}
<1> USE Domains DEF Procs
<1>1. ASSUME NEW c \in Collectors, DeletesCollector(p, c)
      PROVE  /\ UNCHANGED zip
             /\ "io" \notin Faults =>
                  \A a \in Archives, d \in Collectors : work'[a][d] \in {"none", work[a][d]}
  <2>1. UNCHANGED zip /\ ("io" \notin Faults => work' = [work EXCEPT ![id[p]][c] = "none"])
    BY <1>1 DEF DeletesCollector, SetWork
  <2>2. ASSUME NEW a \in Archives, NEW d \in Collectors, work' = [work EXCEPT ![id[p]][c] = "none"]
        PROVE  work'[a][d] \in {"none", work[a][d]}
    BY <2>2
  <2> QED
    BY <2>1, <2>2
<1>2. CASE DeletesZip(p)
  BY <1>2 DEF DeletesZip, WorkerStays, Goto
<1>3. ASSUME NEW c \in Collectors, DeletesCollector(p, c)
      PROVE  WorkerStays /\ UNCHANGED <<api, queue, up>>
  BY <1>3 DEF DeletesCollector, WorkerStays
<1> QED
  BY <1>1, <1>2, <1>3 DEF Delete

\* Every step keeps the invariant: nobody but the worker makes data, and no CR
\* goes without an event.
LEMMA NextClean == Calm /\ Typed /\ CleanInv /\ [Next]_vars => CleanInv'
<1> SUFFICES ASSUME Calm, Typed, CleanInv, [Next]_vars PROVE CleanInv'
  OBVIOUS
<1> USE Domains DEF Procs
<1>1. ASSUME UNCHANGED <<born, terminating, disk, up>>, WorkerStays, queue \subseteq queue'
      PROVE  CleanInv'
  <2>1. \A a \in Archives : Gone(a)' => Gone(a)
    BY <1>1 DEF Gone, Present
  <2> QED
    BY <1>1, <2>1, NoNewData DEF disk
<1>2. CASE UNCHANGED vars
  BY <1>1, <1>2 DEF vars, api, mem, WorkerStays
<1>3. ASSUME NEW a \in Archives, UserStep(a) \/ DeletionCompletes(a)
      PROVE  CleanInv'
  <2>1. /\ UNCHANGED <<disk, up, mem>> /\ queue' = queue \cup {a}
        /\ \A b \in Archives \ {a} : Gone(b)' <=> Gone(b)
    BY <1>3 DEF UserStep, DeletionCompletes, UserCreates, UserChangesSpec, UserDeletes, CRGone,
                UserDeletesInForeground, Event, CleanInv, Gone, Present
  <2> QED
    BY <2>1, NoNewData DEF disk, mem, WorkerStays
<1>4. CASE WorkerStep
  BY <1>4, WorkerClean
<1>5. CASE \/ SyncListsZips \/ SyncListFails \/ SyncListsCRs \/ SyncTriggers
           \/ GcListsCRs \/ GcChoosesOldest \/ GcEnds
           \/ \E a \in Archives : SyncDeletes(a) \/ GcDeleteFails(a)
  <2>1. UNCHANGED <<api, disk, up>> /\ queue \subseteq queue' /\ WorkerStays
    BY <1>5 DEF SyncListsZips, SyncListFails, SyncListsCRs, SyncTriggers, GcListsCRs,
                GcChoosesOldest, GcEnds, SyncDeletes, GcDeleteFails, WorkerStays, Goto
  <2> QED
    BY <1>1, <2>1 DEF api
<1>6. ASSUME NEW a \in Archives, GcDeletesCR(a)
      PROVE  CleanInv'
  <2>1. UNCHANGED <<disk, up>> /\ WorkerStays
    BY <1>6 DEF GcDeletesCR, WorkerStays, Goto
  <2>2. CASE a \in terminating
    BY <1>1, <1>6, <2>1, <2>2 DEF GcDeletesCR, api
  <2>3. CASE a \notin terminating
    <3>1. queue' = queue \cup {a} /\ \A b \in Archives \ {a} : Gone(b)' <=> Gone(b)
      BY <1>6, <2>3 DEF GcDeletesCR, CRGone, Event, CleanInv, Gone, Present
    <3> QED
      BY <2>1, <3>1, NoNewData DEF disk
  <2> QED
    BY <2>2, <2>3
<1>7. ASSUME NEW p \in {"sync", "gc"}, Delete(p)
      PROVE  CleanInv'
  <2>1. \A a \in Archives : Gone(a)' => Gone(a)
    BY <1>7, LoopDeleteIsLocal DEF api, Gone, Present
  <2> QED
    BY <1>7, <2>1, LoopDeleteIsLocal, NoNewData DEF Calm
<1>8. ASSUME NEW a \in Archives, PicksUp(a)
      PROVE  CleanInv'
  <2>1. /\ pc["worker"] = "idle" /\ pc'["worker"] = "get" /\ id'["worker"] = a
        /\ queue' = queue \ {a} /\ UNCHANGED <<api, disk, up>>
    BY <1>8 DEF PicksUp, At, Goto
  <2>2. \A b \in Archives : /\ Gone(b)' <=> Gone(b)
                            /\ HasData(b)' <=> HasData(b)
    BY <2>1 DEF api, disk, Gone, Present, HasData, Exists
  <2>3. OrphanIsBeingCleaned'
    BY <2>1, <2>2, Numbers DEF CleanInv, OrphanIsBeingCleaned
  <2> QED
    BY <2>1, <2>3 DEF CleanInv
<1>9. CASE Crash \/ Start
  BY <1>9 DEF Crash, Start, Calm, CleanInv
<1> QED
  BY <1>2, <1>3, <1>4, <1>5, <1>6, <1>7, <1>8, <1>9 DEF Next, SyncStep, GcStep

\* Data of an archive without a CR never lie around unnoticed, whatever users
\* do and however often a name is used again, as long as the volume works and
\* the operator does not die: it is queued, or about to be deleted by the worker.
THEOREM OrphanStaysBeingCleaned ==
  ASSUME Calm PROVE Spec => []OrphanIsBeingCleaned
<1>1. Spec => []Typed
  BY InitTyped, NextTyped, PTL DEF Spec
<1>2. Typed /\ CleanInv /\ [Next]_vars => CleanInv'
  BY NextClean
<1>3. CleanInv => OrphanIsBeingCleaned
  BY DEF CleanInv
<1> QED
  BY InitClean, <1>1, <1>2, <1>3, PTL DEF Spec

-----------------------------------------------------------------------------
(* The data of a CR *)

\* No collector's attempt fails, and the volume works or no name is used twice.
Honest == "collect" \notin Faults /\ ("io" \notin Faults \/ "recreate" \notin Users)

Intact(a) == zip[a] # "broken" /\ \A c \in Collectors : work[a][c] # "broken"

\* The inductive invariant: what a collector has written so far is there when
\* it finishes.
LiveInv ==
  /\ \A a \in Archives : GoneForGood(a) \/ Intact(a)
  /\ pc["worker"] = "collecting" =>
       \/ GoneForGood(id["worker"])
       \/ \A c \in left["worker"] : work[id["worker"]][c] = "partial"

\* An archive that is gone for good stays so.
LEMMA GoneStaysGone ==
  ASSUME Undisturbed, Typed, LifeInv, [Next]_vars, NEW b \in Archives, GoneForGood(b)
  PROVE  GoneForGood(b)'
<1> USE Domains DEF Procs, GoneForGood, Gone, Present
<1>1. CASE UNCHANGED <<born, terminating, used>>
  BY <1>1
<1>2. ASSUME NEW a \in Archives, CRGone(a), UNCHANGED used
      PROVE  GoneForGood(b)'
  BY <1>2 DEF CRGone
<1>3. ASSUME NEW a \in Archives, UserStep(a) \/ DeletionCompletes(a)
      PROVE  GoneForGood(b)'
  <2>1. CASE UserCreates(a)
    BY <2>1 DEF UserCreates
  <2>2. CASE UserChangesSpec(a) \/ UserDeletesInForeground(a)
    BY <2>2 DEF UserChangesSpec, UserDeletesInForeground, count
  <2>3. CASE UserDeletes(a) \/ DeletionCompletes(a)
    BY <1>2, <2>3 DEF UserDeletes, DeletionCompletes, count
  <2> QED
    BY <1>3, <2>1, <2>2, <2>3 DEF UserStep
<1>4. ASSUME NEW a \in Archives, GcDeletesCR(a)
      PROVE  GoneForGood(b)'
  <2>1. UNCHANGED used /\ (UNCHANGED api \/ CRGone(a))
    BY <1>4 DEF GcDeletesCR, count
  <2> QED
    BY <1>1, <1>2, <2>1 DEF api
<1>5. CASE WorkerStep
  BY <1>1, <1>5, WorkerStepIsLocal DEF WorkerLocal
<1>6. ASSUME NEW p \in {"sync", "gc"}, Delete(p)
      PROVE  GoneForGood(b)'
  BY <1>1, <1>6 DEF Delete, DeletesZip, DeletesCollector, api, count
<1>7. CASE \/ SyncListsZips \/ SyncListFails \/ SyncListsCRs \/ SyncTriggers
           \/ GcListsCRs \/ GcChoosesOldest \/ GcEnds
           \/ \E a \in Archives : SyncDeletes(a) \/ GcDeleteFails(a)
  BY <1>1, <1>7 DEF SyncListsZips, SyncListFails, SyncListsCRs, SyncTriggers, GcListsCRs,
                    GcChoosesOldest, GcEnds, SyncDeletes, GcDeleteFails, api, count
<1>8. CASE Crash \/ Start \/ (\E a \in Archives : PicksUp(a)) \/ UNCHANGED vars
  BY <1>1, <1>8 DEF Crash, Start, PicksUp, vars, api, count
<1> QED
  BY <1>3, <1>4, <1>5, <1>6, <1>7, <1>8 DEF Next, SyncStep, GcStep

\* The worker deletes only archives that are gone for good: with names that are
\* used once, no CR comes back between Get and the last removal.
WorkerDeletesGone == pc["worker"] = "delete" => GoneForGood(id["worker"])

\* It is found out at the Get, and stays so.
LEMMA NextDeletesGone ==
  ASSUME "recreate" \notin Users, Typed, LifeInv, WorkerDeletesGone, [Next]_vars
  PROVE  WorkerDeletesGone'
<1> USE Domains DEF Procs
<1>0. Undisturbed
  BY DEF Undisturbed
<1>1. ASSUME pc'["worker"] = "delete" => pc["worker"] = "delete" /\ id'["worker"] = id["worker"]
      PROVE  WorkerDeletesGone'
  BY <1>0, <1>1, GoneStaysGone DEF WorkerDeletesGone, Typed, TypedMem, GoneForGood, Gone, Present
<1>2. CASE GetsNothing
  <2>1. GoneForGood(id["worker"])
    BY <1>2 DEF GetsNothing, At, GoneForGood, Gone, LifeInv, NamesInv
  <2>2. id["worker"] \in Archives /\ id' = id
    BY <1>2 DEF GetsNothing, At, Typed, TypedMem
  <2> QED
    BY <1>0, <2>1, <2>2, GoneStaysGone DEF WorkerDeletesGone, GoneForGood, Gone, Present
<1>3. CASE WorkerStep /\ ~GetsNothing
  <2>1. pc'["worker"] = "delete" => pc["worker"] = "delete"
    <3>1. CASE GetFails \/ CheckFails \/ FindsArchive \/ SetsCondition \/ ZipFails \/ SetsCreated
               \/ SetCreatedFails \/ DeletesZip("worker")
      BY <3>1 DEF GetFails, CheckFails, FindsArchive, SetsCondition, ZipFails, SetsCreated,
                  SetCreatedFails, DeletesZip, Return, Goto
    <3>2. CASE GetsCR \/ ChecksCollectors \/ TakesNextCollector \/ FindsAllCollected
               \/ CollectorStarts \/ CollectorSucceeds \/ CollectorFails \/ OpensZip \/ ClosesZip
      BY <3>2 DEF GetsCR, ChecksCollectors, TakesNextCollector, FindsAllCollected, CollectorStarts,
                  CollectorSucceeds, CollectorFails, OpensZip, ClosesZip, Goto
    <3>3. CASE \E c \in Collectors : DeletesCollector("worker", c)
      BY <3>3 DEF DeletesCollector
    <3> QED
      BY <1>3, <3>1, <3>2, <3>3 DEF WorkerStep, Delete
  <2>2. pc'["worker"] # "idle" => id'["worker"] = id["worker"]
    BY <1>3, WorkerStepIsLocal DEF WorkerLocal
  <2> QED
    BY <1>1, <2>1, <2>2
<1>4. ASSUME NEW p \in {"sync", "gc"}, Delete(p)
      PROVE  WorkerDeletesGone'
  BY <1>1, <1>4, LoopDeleteIsLocal DEF WorkerStays
<1>5. ASSUME NEW a \in Archives, \/ UserStep(a) \/ DeletionCompletes(a) \/ GcDeletesCR(a)
                                \/ PicksUp(a) \/ SyncDeletes(a) \/ GcDeleteFails(a)
      PROVE  WorkerDeletesGone'
  <2>1. pc'["worker"] = "delete" => pc["worker"] = "delete" /\ id'["worker"] = id["worker"]
    BY <1>5 DEF UserStep, UserCreates, UserChangesSpec, UserDeletes, UserDeletesInForeground,
                DeletionCompletes, GcDeletesCR, PicksUp, SyncDeletes, GcDeleteFails, Goto, mem
  <2> QED
    BY <1>1, <2>1
<1>6. CASE \/ SyncListsZips \/ SyncListFails \/ SyncListsCRs \/ SyncTriggers
           \/ GcListsCRs \/ GcChoosesOldest \/ GcEnds \/ Crash \/ Start \/ UNCHANGED vars
  <2>1. pc'["worker"] = "delete" => pc["worker"] = "delete" /\ id'["worker"] = id["worker"]
    BY <1>6 DEF SyncListsZips, SyncListFails, SyncListsCRs, SyncTriggers, GcListsCRs,
                GcChoosesOldest, GcEnds, Crash, Start, vars, mem, Goto
  <2> QED
    BY <1>1, <2>1
<1> QED
  BY <1>2, <1>3, <1>4, <1>5, <1>6 DEF Next, SyncStep, GcStep

\* A step that leaves the volume alone, and the worker if it collects.
LEMMA DiskFrame ==
  ASSUME Undisturbed, Typed, LifeInv, LiveInv, [Next]_vars, UNCHANGED disk,
         pc'["worker"] = "collecting" => WorkerStays
  PROVE  LiveInv'
<1>1. \A b \in Archives : GoneForGood(b)' \/ Intact(b)'
  BY GoneStaysGone DEF LiveInv, Intact, disk
<1>2. ASSUME pc'["worker"] = "collecting", ~GoneForGood(id["worker"])'
      PROVE  \A c \in left["worker"] : work[id["worker"]][c] = "partial"
  <2>1. PICK a \in Archives : a = id["worker"] /\ a = id'["worker"] /\ pc["worker"] = "collecting"
    BY <1>2 DEF WorkerStays, Typed, TypedMem
  <2>2. ~GoneForGood(a)
    BY <1>2, <2>1, GoneStaysGone DEF GoneForGood, Gone, Present
  <2> QED
    BY <2>1, <2>2 DEF LiveInv
<1> QED
  BY <1>1, <1>2 DEF LiveInv, WorkerStays, disk

\* The worker writes whole data, unless the archive is gone for good.
LEMMA WorkerLive ==
  ASSUME Undisturbed, Honest, Typed, LifeInv, LiveInv, [Next]_vars, WorkerStep,
         "recreate" \notin Users => WorkerDeletesGone
  PROVE  LiveInv'
<1> USE Domains DEF At, Procs, disk
<1>1. CASE pc["worker"] \notin {"collect", "collecting", "zip", "zipping", "delete"}
  <2>1. UNCHANGED disk /\ pc'["worker"] # "collecting"
    BY <1>1 DEF WorkerStep, GetFails, GetsNothing, GetsCR, ChecksCollectors, CheckFails,
       TakesNextCollector, FindsAllCollected, FindsArchive, CollectorStarts, CollectorSucceeds,
       CollectorFails, SetsCondition, OpensZip, ClosesZip, ZipFails, SetsCreated, SetCreatedFails,
       Delete, DeletesZip, DeletesCollector, Goto, Return
  <2> QED
    BY <2>1, DiskFrame
<1>2. CASE pc["worker"] \in {"collect", "collecting", "zip", "zipping", "delete"}
  <2>1. PICK a \in Archives : a = id["worker"]
    BY <1>2 DEF Typed, TypedMem
  <2>2. \A b \in Archives : GoneForGood(b) => GoneForGood(b)'
    BY GoneStaysGone
  <2>3. CASE CollectorStarts
    <3>1. PICK c \in Collectors : left["worker"] = {c}
      BY <2>3 DEF CollectorStarts, LifeInv, WorkerInv
    <3>2. /\ work' = [work EXCEPT ![a][c] = "partial"] /\ UNCHANGED <<zip, id, left>>
      BY <2>1, <2>3, <3>1 DEF CollectorStarts, SetWork
    <3>3. \A b \in Archives : Intact(b) => Intact(b)'
      BY <3>2 DEF Intact
    <3>4. work'[id'["worker"]][c] = "partial" /\ left'["worker"] = {c}
      BY <2>1, <3>1, <3>2
    <3> QED
      BY <2>2, <3>3, <3>4 DEF LiveInv
  <2>4. CASE CollectorSucceeds
    <3>1. PICK c \in Collectors : left["worker"] = {c}
      BY <2>4 DEF CollectorSucceeds, LifeInv, WorkerInv
    <3>2. /\ UNCHANGED zip /\ pc'["worker"] # "collecting"
          /\ work' = [work EXCEPT ![a][c] = IF work[a][c] = "partial" THEN "done" ELSE "broken"]
      BY <2>1, <2>4, <3>1 DEF CollectorSucceeds, SetWork, Goto
    <3>3. GoneForGood(a) \/ work[a][c] = "partial"
      BY <2>1, <2>4, <3>1 DEF CollectorSucceeds, LiveInv
    <3>4. \A b \in Archives : GoneForGood(b)' \/ Intact(b)'
      <4> TAKE b \in Archives
      <4>1. CASE b = a
        BY <2>2, <3>2, <3>3, <4>1 DEF LiveInv, Intact
      <4>2. CASE b # a
        BY <2>2, <3>2, <4>2 DEF LiveInv, Intact
      <4> QED
        BY <4>1, <4>2
    <3> QED
      BY <3>2, <3>4 DEF LiveInv
  <2>5. CASE OpensZip \/ ClosesZip \/ ZipFails
    <3>1. /\ UNCHANGED work /\ pc'["worker"] # "collecting"
          /\ \A b \in Archives \ {a} : zip'[b] = zip[b]
          /\ zip'[a] = "broken" => \/ zip[a] = "broken"
                                   \/ \E c \in Collectors : work[a][c] = "broken"
      <4>1. CASE OpensZip
        BY <2>1, <4>1 DEF OpensZip, Goto
      <4>2. CASE ClosesZip
        BY <2>1, <4>2 DEF ClosesZip, Goto, IsCollected, Typed, TypedMem
      <4>3. CASE ZipFails
        BY <2>1, <4>3 DEF ZipFails, Return, Goto
      <4> QED
        BY <2>5, <4>1, <4>2, <4>3
    <3>2. \A b \in Archives : GoneForGood(b)' \/ Intact(b)'
      BY <2>2, <3>1 DEF LiveInv, Intact
    <3> QED
      BY <3>1, <3>2 DEF LiveInv
  <2>6. CASE \E c \in Collectors : DeletesCollector("worker", c)
    <3>1. PICK c \in Collectors : DeletesCollector("worker", c)
      BY <2>6
    <3>2. pc["worker"] = "delete" /\ UNCHANGED <<zip, pc>>
      BY <3>1 DEF DeletesCollector
    <3>3. CASE work' = [work EXCEPT ![a][c] = "none"]
      <4>1. \A b \in Archives : Intact(b) => Intact(b)'
        BY <3>2, <3>3 DEF Intact
      <4> QED
        BY <2>2, <3>2, <4>1 DEF LiveInv
    <3>4. CASE "io" \in Faults
      <4>1. GoneForGood(a)
        BY <2>1, <3>2, <3>4 DEF Honest, WorkerDeletesGone
      <4>2. \A b \in Archives \ {a} : work'[b] = work[b]
        BY <2>1, <3>1 DEF DeletesCollector, SetWork
      <4>3. ASSUME NEW b \in Archives, b # a
            PROVE  GoneForGood(b)' \/ Intact(b)'
        <5>1. work'[b] = work[b] /\ zip'[b] = zip[b]
          BY <3>2, <4>2, <4>3
        <5>2. GoneForGood(b) \/ Intact(b)
          BY DEF LiveInv
        <5> QED
          BY <2>2, <5>1, <5>2 DEF Intact
      <4>4. \A b \in Archives : GoneForGood(b)' \/ Intact(b)'
        BY <2>2, <4>1, <4>3
      <4> QED
        BY <3>2, <4>4 DEF LiveInv
    <3> QED
      BY <2>1, <3>1, <3>3, <3>4 DEF DeletesCollector, SetWork
  <2>7. CASE DeletesZip("worker")
    <3>1. /\ UNCHANGED work /\ pc'["worker"] = "idle"
          /\ UNCHANGED zip \/ zip' = [zip EXCEPT ![a] = "none"]
      BY <2>1, <2>7 DEF DeletesZip, Return, Goto
    <3>2. \A b \in Archives : Intact(b) => Intact(b)'
      BY <3>1 DEF Intact
    <3> QED
      BY <2>2, <3>1, <3>2 DEF LiveInv
  <2> QED
    BY <1>2, <2>3, <2>4, <2>5, <2>6, <2>7
    DEF WorkerStep, GetFails, GetsNothing, GetsCR, ChecksCollectors, CheckFails,
        TakesNextCollector, FindsAllCollected, FindsArchive, CollectorFails, SetsCondition,
        SetsCreated, SetCreatedFails, Delete, Honest
<1> QED
  BY <1>1, <1>2

\* Every step keeps the invariant: the loops delete only what is gone for good.
LEMMA NextLive ==
  ASSUME Undisturbed, Honest, Typed, LifeInv, LiveInv, [Next]_vars,
         "recreate" \notin Users => WorkerDeletesGone
  PROVE  LiveInv'
<1> USE Domains DEF Procs
<1>1. CASE WorkerStep
  BY <1>1, WorkerLive
<1>2. ASSUME NEW p \in {"sync", "gc"}, Delete(p)
      PROVE  LiveInv'
  <2>1. PICK a \in Archives : a = id[p] /\ GoneForGood(a) /\ GoneForGood(a)'
    <3>1. pc[p] = "delete" /\ id[p] \in Archives
      BY <1>2 DEF Delete, DeletesZip, DeletesCollector, At, Typed, TypedMem
    <3> QED
      BY <3>1, GoneStaysGone DEF LifeInv, LoopsInv
  <2>2. /\ WorkerStays
        /\ \A b \in Archives \ {a} : work'[b] = work[b] /\ zip'[b] = zip[b]
    <3>1. WorkerStays
      BY <1>2, LoopDeleteIsLocal
    <3>2. CASE DeletesZip(p)
      BY <2>1, <3>1, <3>2 DEF DeletesZip
    <3>3. ASSUME NEW c \in Collectors, DeletesCollector(p, c)
          PROVE  \A b \in Archives \ {a} : work'[b] = work[b] /\ zip'[b] = zip[b]
      <4>1. UNCHANGED zip /\ \E state : SetWork(a, c, state)
        BY <2>1, <3>3 DEF DeletesCollector
      <4> QED
        BY <4>1 DEF SetWork
    <3> QED
      BY <1>2, <3>1, <3>2, <3>3 DEF Delete
  <2>3. \A b \in Archives : GoneForGood(b)' \/ Intact(b)'
    <3> TAKE b \in Archives
    <3>1. CASE b = a
      BY <2>1, <3>1
    <3>2. CASE b # a
      BY <2>2, <3>2, GoneStaysGone DEF LiveInv, Intact
    <3> QED
      BY <3>1, <3>2
  <2>4. ASSUME pc'["worker"] = "collecting", ~GoneForGood(id["worker"])'
        PROVE  \A c \in left'["worker"] : work'[id'["worker"]][c] = "partial"
    <3>1. PICK b \in Archives : b = id["worker"] /\ b = id'["worker"] /\ pc["worker"] = "collecting"
      BY <2>2, <2>4 DEF WorkerStays, Typed, TypedMem
    <3>2. b # a /\ ~GoneForGood(b)
      BY <2>1, <2>4, <3>1, GoneStaysGone DEF GoneForGood, Gone, Present
    <3> QED
      BY <2>2, <3>1, <3>2 DEF WorkerStays, LiveInv
  <2> QED
    BY <2>3, <2>4 DEF LiveInv
<1>3. ASSUME NEW a \in Archives, \/ UserStep(a) \/ DeletionCompletes(a) \/ GcDeletesCR(a)
                                \/ PicksUp(a) \/ SyncDeletes(a) \/ GcDeleteFails(a)
      PROVE  LiveInv'
  <2>1. UNCHANGED disk /\ (pc'["worker"] = "collecting" => WorkerStays)
    BY <1>3 DEF UserStep, UserCreates, UserChangesSpec, UserDeletes, UserDeletesInForeground,
                DeletionCompletes, GcDeletesCR, PicksUp, SyncDeletes, GcDeleteFails,
                Goto, WorkerStays, mem
  <2> QED
    BY <2>1, DiskFrame
<1>4. CASE \/ SyncListsZips \/ SyncListFails \/ SyncListsCRs \/ SyncTriggers
           \/ GcListsCRs \/ GcChoosesOldest \/ GcEnds
  <2>1. UNCHANGED disk /\ WorkerStays
    BY <1>4 DEF SyncListsZips, SyncListFails, SyncListsCRs, SyncTriggers, GcListsCRs,
                GcChoosesOldest, GcEnds, WorkerStays, Goto
  <2> QED
    BY <2>1, DiskFrame
<1>5. CASE Crash \/ Start \/ UNCHANGED vars
  <2>1. UNCHANGED disk /\ (pc'["worker"] = "collecting" => WorkerStays)
    BY <1>5 DEF Crash, Start, vars, mem, WorkerStays
  <2> QED
    BY <2>1, DiskFrame
<1> QED
  BY <1>1, <1>2, <1>3, <1>4, <1>5 DEF Next, SyncStep, GcStep

\* The data of a CR are what its collectors wrote: nobody deletes under the
\* hands of the worker while it works for a CR that is to stay, although three
\* processes delete by name and the operator may die at any moment.  As long as
\* the collectors do not fail, and no name is used twice while a loop works on a
\* list or a failing volume keeps some of the data that were to be deleted.
THEOREM LiveDataStaysIntact ==
  ASSUME Undisturbed, Honest PROVE Spec => []LiveDataIsIntact
<1> DEFINE Deleting == "recreate" \notin Users => WorkerDeletesGone
<1>1. Init => LiveInv /\ Deleting
  BY DEF Init, FreshMemory, Procs, LiveInv, Intact, WorkerDeletesGone
<1>2. Spec => []Typed
  BY InitTyped, NextTyped, PTL DEF Spec
<1>3. Spec => []LifeInv
  BY LifeCorrect
<1>4. Typed /\ LifeInv /\ Deleting /\ [Next]_vars => Deleting'
  BY NextDeletesGone
<1>5. Typed /\ LifeInv /\ LiveInv /\ Deleting /\ [Next]_vars => LiveInv'
  BY NextLive
<1>6. LiveInv => LiveDataIsIntact
  BY DEF LiveInv, LiveDataIsIntact, GoneForGood, Intact
<1> HIDE DEF Deleting
<1> QED
  BY <1>1, <1>2, <1>3, <1>4, <1>5, <1>6, PTL DEF Spec

-----------------------------------------------------------------------------
(* What users see of their archives *)

\* The steps the contract allows one archive.
StageMoves(a) ==
  \/ Stage(a)' = Stage(a)
  \/ Stage(a)' = "none"
  \/ Stage(a) = "none" /\ Stage(a)' = "requested"
  \/ Stage(a) = "requested" /\ Stage(a)' = "zipped"
  \/ Stage(a) = "zipped" /\ Stage(a)' = "reported"

\* If one archive makes such a step and no other does, the contract is kept.
LEMMA MoveKeepsContract ==
  ASSUME NEW a \in Archives, StageMoves(a), \A b \in Archives \ {a} : Stage(b)' = Stage(b)
  PROVE  Contract!Next \/ UNCHANGED [b \in Archives |-> Stage(b)]
<1> DEFINE stage == [b \in Archives |-> Stage(b)]
<1>1. stage' = [stage EXCEPT ![a] = Stage(a)']
  OBVIOUS
<1>2. stage[a] = Stage(a) /\ (Stage(a)' = Stage(a) => stage' = stage)
  OBVIOUS
<1> QED
  BY <1>1, <1>2 DEF StageMoves, Contract!Next, Contract!Request, Contract!MakeZip, Contract!Report,
                    Contract!Withdraw, Contract!Becomes

\* How far a request has come depends on its CR and its zip only.
LEMMA SameStage ==
  ASSUME NEW a, born'[a] = born[a], a \in terminating <=> a \in terminating',
         created'[a] = created[a], zip'[a] = zip[a]
  PROVE  Stage(a)' = Stage(a)
BY DEF Stage, Gone, Present

\* What is gone has no stage.
LEMMA GoneHasNoStage ==
  ASSUME NEW a PROVE (Gone(a) => Stage(a) = "none") /\ (Gone(a)' => Stage(a)' = "none")
BY DEF Stage

\* The worker makes a zip, then reports it; it deletes what is gone.
LEMMA WorkerMoves ==
  ASSUME "recreate" \notin Users, Typed, LifeInv, WorkerDeletesGone, WorkerStep
  PROVE  Contract!Next \/ UNCHANGED [b \in Archives |-> Stage(b)]
<1> USE Domains DEF At, Procs, api, disk, count
<1>1. PICK a \in Archives : a = id["worker"]
  BY WorkerStepIsLocal DEF WorkerLocal, Typed, TypedMem
<1>2. UNCHANGED <<born, terminating>> /\ \A b \in Archives \ {a} : zip'[b] = zip[b]
  BY <1>1, WorkerStepIsLocal DEF WorkerLocal
<1>3. Gone(a)' <=> Gone(a)
  BY <1>2 DEF Gone, Present
<1>4. \A b \in Archives \ {a} : Stage(b)' = Stage(b)
  <2>1. \A b \in Archives \ {a} : created'[b] = created[b]
    <3>1. CASE SetsCreated
      BY <1>1, <3>1 DEF SetsCreated
    <3>2. CASE ~SetsCreated
      BY <3>2 DEF WorkerStep, GetFails, GetsNothing, GetsCR, ChecksCollectors, CheckFails,
                  TakesNextCollector, FindsAllCollected, FindsArchive, CollectorStarts,
                  CollectorSucceeds, CollectorFails, SetsCondition, OpensZip, ClosesZip, ZipFails,
                  SetCreatedFails, Delete, DeletesZip, DeletesCollector
    <3> QED
      BY <3>1, <3>2
  <2> QED
    BY <1>2, <2>1, SameStage
<1>5. CASE Gone(a)
  BY <1>3, <1>4, <1>5, GoneHasNoStage, MoveKeepsContract DEF StageMoves
<1>6. ASSUME ~Gone(a) PROVE StageMoves(a)
  <2>1. created[a] => zip[a] \in {"full", "broken"}
    BY <1>6 DEF LifeInv, StatusIsTrue
  <2>2. CASE OpensZip
    <3>1. zip[a] = "none" /\ zip'[a] = "partial" /\ ~created[a] /\ ~created'[a]
      BY <1>1, <2>1, <2>2 DEF OpensZip, LifeInv, WorkerInv
    <3> QED
      BY <1>3, <1>6, <3>1 DEF Stage, StageMoves
  <2>3. CASE ClosesZip \/ ZipFails
    <3>1. zip[a] \in {"none", "partial"}
      BY <1>1, <1>6, <2>3 DEF ClosesZip, ZipFails, LifeInv, WorkerInv, GoneForGood
    <3>2. ~created[a] /\ ~created'[a]
      BY <2>1, <2>3, <3>1 DEF ClosesZip, ZipFails
    <3>3. Stage(a) = "requested" /\ Stage(a)' \in {"requested", "zipped"}
      BY <1>3, <1>6, <3>1, <3>2 DEF Stage
    <3> QED
      BY <3>3 DEF StageMoves
  <2>4. CASE SetsCreated
    <3>1. zip[a] \in {"full", "broken"} /\ zip' = zip /\ created'[a]
      BY <1>1, <1>6, <2>4 DEF SetsCreated, LifeInv, WorkerInv, GoneForGood
    <3>2. Stage(a) \in {"zipped", "reported"} /\ Stage(a)' = "reported"
      BY <1>3, <1>6, <3>1 DEF Stage
    <3> QED
      BY <3>2 DEF StageMoves
  <2>5. CASE DeletesZip("worker")
    BY <1>1, <1>6, <2>5 DEF DeletesZip, WorkerDeletesGone, GoneForGood
  <2>6. CASE \/ GetFails \/ GetsNothing \/ GetsCR \/ ChecksCollectors \/ CheckFails
             \/ TakesNextCollector \/ FindsAllCollected \/ FindsArchive
             \/ CollectorStarts \/ CollectorSucceeds \/ CollectorFails \/ SetsCondition
             \/ SetCreatedFails \/ \E c \in Collectors : DeletesCollector("worker", c)
    <3>1. UNCHANGED <<created, zip>>
      BY <2>6 DEF GetFails, GetsNothing, GetsCR, ChecksCollectors, CheckFails, TakesNextCollector,
                  FindsAllCollected, FindsArchive, CollectorStarts, CollectorSucceeds,
                  CollectorFails, SetsCondition, SetCreatedFails, DeletesCollector
    <3> QED
      BY <1>2, <3>1, SameStage DEF StageMoves
  <2> QED
    BY <2>2, <2>3, <2>4, <2>5, <2>6 DEF WorkerStep, Delete
<1> QED
  BY <1>4, <1>5, <1>6, MoveKeepsContract

\* Every step, of whomever, is a step of the contract or none.
LEMMA StepKeepsContract ==
  ASSUME "recreate" \notin Users, Typed, LifeInv, WorkerDeletesGone, [Next]_vars
  PROVE  Contract!Next \/ UNCHANGED [b \in Archives |-> Stage(b)]
<1> USE Domains DEF Procs
<1>1. ASSUME UNCHANGED <<born, terminating, created, zip>>
      PROVE  UNCHANGED [b \in Archives |-> Stage(b)]
  BY <1>1, SameStage
<1>2. ASSUME NEW a \in Archives, CRGone(a), UNCHANGED zip
      PROVE  Contract!Next \/ UNCHANGED [b \in Archives |-> Stage(b)]
  <2>1. Stage(a)' = "none"
    BY <1>2, GoneHasNoStage DEF CRGone, Gone, Present
  <2>2. \A b \in Archives \ {a} : Stage(b)' = Stage(b)
    BY <1>2, SameStage DEF CRGone
  <2> QED
    BY <2>1, <2>2, MoveKeepsContract DEF StageMoves
<1>3. ASSUME NEW a \in Archives, UserCreates(a)
      PROVE  Contract!Next \/ UNCHANGED [b \in Archives |-> Stage(b)]
  <2>1. ~Present(a) /\ a \notin used /\ UNCHANGED <<terminating, created, zip>>
    BY <1>3 DEF UserCreates, disk
  <2>2. zip[a] = "none" /\ ~created[a]
    BY <2>1 DEF LifeInv, NamesInv, Blank, Exists
  <2>3. Stage(a)' \in {"none", "requested"}
    BY <2>1, <2>2 DEF Stage
  <2>4. Stage(a) = "none"
    BY <2>1, GoneHasNoStage DEF Gone
  <2>5. \A b \in Archives \ {a} : Stage(b)' = Stage(b)
    <3>1. \A b \in Archives \ {a} : born'[b] = born[b]
      BY <1>3 DEF UserCreates
    <3> QED
      BY <2>1, <3>1, SameStage
  <2> QED
    BY <2>3, <2>4, <2>5, MoveKeepsContract DEF StageMoves
<1>4. ASSUME NEW a \in Archives, UserDeletesInForeground(a)
      PROVE  Contract!Next \/ UNCHANGED [b \in Archives |-> Stage(b)]
  <2>1. UNCHANGED <<born, created, zip>> /\ terminating' = terminating \cup {a}
    BY <1>4 DEF UserDeletesInForeground, disk
  <2>2. Stage(a)' = "none"
    BY <2>1, GoneHasNoStage DEF Gone
  <2>3. \A b \in Archives \ {a} : Stage(b)' = Stage(b)
    BY <2>1, SameStage
  <2> QED
    BY <2>2, <2>3, MoveKeepsContract DEF StageMoves
<1>5. ASSUME NEW a \in Archives, UserStep(a) \/ DeletionCompletes(a) \/ GcDeletesCR(a)
      PROVE  Contract!Next \/ UNCHANGED [b \in Archives |-> Stage(b)]
  <2>1. CASE UserChangesSpec(a)
    BY <1>1, <2>1 DEF UserChangesSpec, disk
  <2>2. CASE UserDeletes(a) \/ DeletionCompletes(a)
    BY <1>2, <2>2 DEF UserDeletes, DeletionCompletes, disk
  <2>3. CASE GcDeletesCR(a)
    <3>1. UNCHANGED zip /\ (UNCHANGED api \/ CRGone(a))
      BY <2>3 DEF GcDeletesCR, disk
    <3> QED
      BY <1>1, <1>2, <3>1 DEF api
  <2> QED
    BY <1>3, <1>4, <1>5, <2>1, <2>2, <2>3 DEF UserStep
<1>6. ASSUME NEW p \in {"sync", "gc"}, Delete(p)
      PROVE  Contract!Next \/ UNCHANGED [b \in Archives |-> Stage(b)]
  <2>1. PICK a \in Archives : a = id[p] /\ Gone(a)
    <3>1. pc[p] = "delete" /\ id[p] \in Archives
      BY <1>6 DEF Delete, DeletesZip, DeletesCollector, At, Typed, TypedMem
    <3> QED
      BY <3>1 DEF LifeInv, LoopsInv, GoneForGood
  <2>2. UNCHANGED <<born, terminating, created>>
    BY <1>6, LoopDeleteIsLocal DEF api
  <2>3. Stage(a)' = Stage(a)
    BY <2>1, <2>2, GoneHasNoStage DEF Gone, Present
  <2>4. \A b \in Archives \ {a} : zip'[b] = zip[b]
    BY <1>6, <2>1 DEF Delete, DeletesZip, DeletesCollector
  <2> QED
    BY <2>2, <2>3, <2>4, SameStage
<1>7. CASE WorkerStep
  BY <1>7, WorkerMoves
<1>8. CASE \/ SyncListsZips \/ SyncListFails \/ SyncListsCRs \/ SyncTriggers
           \/ GcListsCRs \/ GcChoosesOldest \/ GcEnds \/ Crash \/ Start \/ UNCHANGED vars
           \/ \E a \in Archives : PicksUp(a) \/ SyncDeletes(a) \/ GcDeleteFails(a)
  BY <1>1, <1>8 DEF SyncListsZips, SyncListFails, SyncListsCRs, SyncTriggers, GcListsCRs,
                    GcChoosesOldest, GcEnds, Crash, Start, PicksUp, SyncDeletes, GcDeleteFails,
                    vars, api, disk
<1> QED
  BY <1>5, <1>6, <1>7, <1>8 DEF Next, SyncStep, GcStep

\* What users see of their archives is what ArchiveContract says, whatever
\* fails and however often the operator dies, for every set of archives and
\* with all three processes at work.  Names must be used once: a new CR under an
\* old name may find the old zip (FindsArchive).
THEOREM LifecycleImplementsContract ==
  ASSUME "recreate" \notin Users PROVE Spec => KeepsArchiveContract
<1>1. Spec => []Typed
  BY InitTyped, NextTyped, PTL DEF Spec
<1>2. Spec => []LifeInv
  BY LifeCorrect DEF Undisturbed
<1>3. Init => WorkerDeletesGone
  BY DEF Init, FreshMemory, Procs, WorkerDeletesGone
<1>4. Typed /\ LifeInv /\ WorkerDeletesGone /\ [Next]_vars => WorkerDeletesGone'
  BY NextDeletesGone
<1>5. Init => Contract!Init
  BY DEF Init, Contract!Init, Stage, Gone, Present, NoCRs
<1>6. Typed /\ LifeInv /\ WorkerDeletesGone /\ [Next]_vars =>
        [Contract!Next]_[a \in Archives |-> Stage(a)]
  BY StepKeepsContract
<1> QED
  BY <1>1, <1>2, <1>3, <1>4, <1>5, <1>6, PTL DEF Spec, KeepsArchiveContract, Contract!Spec

-----------------------------------------------------------------------------
(* What is collected stays *)

\* No step takes back what was collected for a CR that stays: the worker collects
\* what is missing, and all three processes delete what is gone.
LEMMA StepKeepsCollected ==
  ASSUME "recreate" \notin Users, Typed, LifeInv, WorkerDeletesGone, Next,
         NEW a \in Archives, NEW c \in Collectors, ~Gone(a), IsCollected(a, c)
  PROVE  IsCollected(a, c)'
<1> USE Domains DEF At, Procs
<1>1. ASSUME work'[a][c] = work[a][c] PROVE IsCollected(a, c)'
  BY <1>1 DEF IsCollected
<1>2. CASE CollectorStarts \/ CollectorSucceeds \/ CollectorFails
  <2>1. PICK b \in Archives, d \in Collectors : b = id["worker"] /\ left["worker"] = {d}
    BY <1>2 DEF CollectorStarts, CollectorSucceeds, CollectorFails, LifeInv, WorkerInv, Typed, TypedMem
  <2>2. ~IsCollected(b, d)
    BY <1>2, <2>1 DEF CollectorStarts, CollectorSucceeds, CollectorFails, LifeInv, WorkerInv
  <2>3. \E state : work' = [work EXCEPT ![b][d] = state]
    BY <1>2, <2>1 DEF CollectorStarts, CollectorSucceeds, CollectorFails, SetWork
  <2>4. work'[a][c] = work[a][c]
    BY <2>2, <2>3
  <2> QED
    BY <1>1, <2>4
<1>3. ASSUME NEW p \in Procs, Delete(p) PROVE IsCollected(a, c)'
  <2>1. PICK b \in Archives : b = id[p] /\ pc[p] = "delete"
    BY <1>3 DEF Delete, DeletesZip, DeletesCollector, Typed, TypedMem
  <2>2. b # a
    <3>1. CASE p = "worker"
      BY <2>1, <3>1 DEF WorkerDeletesGone, GoneForGood
    <3>2. CASE p \in {"sync", "gc"}
      BY <2>1, <3>2 DEF LifeInv, LoopsInv, GoneForGood
    <3> QED
      BY <3>1, <3>2
  <2>3. CASE DeletesZip(p)
    BY <1>1, <2>3 DEF DeletesZip
  <2>4. ASSUME NEW d \in Collectors, DeletesCollector(p, d) PROVE IsCollected(a, c)'
    <3>1. \E state : work' = [work EXCEPT ![b][d] = state]
      BY <2>1, <2>4 DEF DeletesCollector, SetWork
    <3> QED
      BY <1>1, <2>2, <3>1
  <2> QED
    BY <1>3, <2>3, <2>4 DEF Delete
<1>4. CASE WorkerStep /\ ~Delete("worker") /\ ~(CollectorStarts \/ CollectorSucceeds \/ CollectorFails)
  <2>1. UNCHANGED work
    BY <1>4 DEF WorkerStep, GetFails, GetsNothing, GetsCR, ChecksCollectors, CheckFails,
       TakesNextCollector, FindsAllCollected, FindsArchive, SetsCondition, OpensZip, ClosesZip,
       ZipFails, SetsCreated, SetCreatedFails, disk
  <2> QED
    BY <1>1, <2>1
<1>5. ASSUME NEW b \in Archives, \/ UserStep(b) \/ DeletionCompletes(b) \/ GcDeletesCR(b)
                                \/ PicksUp(b) \/ SyncDeletes(b) \/ GcDeleteFails(b)
      PROVE  IsCollected(a, c)'
  <2>1. UNCHANGED work
    BY <1>5 DEF UserStep, UserCreates, UserChangesSpec, UserDeletes, UserDeletesInForeground,
                DeletionCompletes, GcDeletesCR, PicksUp, SyncDeletes, GcDeleteFails, disk
  <2> QED
    BY <1>1, <2>1
<1>6. CASE \/ SyncListsZips \/ SyncListFails \/ SyncListsCRs \/ SyncTriggers
           \/ GcListsCRs \/ GcChoosesOldest \/ GcEnds \/ Crash \/ Start
  <2>1. UNCHANGED work
    BY <1>6 DEF SyncListsZips, SyncListFails, SyncListsCRs, SyncTriggers, GcListsCRs,
                GcChoosesOldest, GcEnds, Crash, Start, disk
  <2> QED
    BY <1>1, <2>1
<1> QED
  BY <1>2, <1>3, <1>4, <1>5, <1>6 DEF Next, SyncStep, GcStep

\* What was collected for a CR stays collected until the CR goes, whatever fails
\* and however often the operator dies, with all three processes at work
\* (CollectedStays).  With UnfinishedStaysScheduled: each reconcile of an archive
\* that succeeds leaves one collector less to run.
THEOREM CollectedDataStay ==
  ASSUME "recreate" \notin Users PROVE Spec => CollectedStays
<1>1. Spec => []Typed
  BY InitTyped, NextTyped, PTL DEF Spec
<1>2. Spec => []LifeInv
  BY LifeCorrect DEF Undisturbed
<1>3. Init => WorkerDeletesGone
  BY DEF Init, FreshMemory, Procs, WorkerDeletesGone
<1>4. Typed /\ LifeInv /\ WorkerDeletesGone /\ [Next]_vars => WorkerDeletesGone'
  BY NextDeletesGone
<1>5. Typed /\ LifeInv /\ WorkerDeletesGone /\ [Next]_vars =>
        [\A a \in Archives, c \in Collectors :
           ~Gone(a) /\ ~Gone(a)' /\ IsCollected(a, c) => IsCollected(a, c)']_vars
  BY StepKeepsCollected
<1> QED
  BY <1>1, <1>2, <1>3, <1>4, <1>5, PTL DEF Spec, CollectedStays

-----------------------------------------------------------------------------
(* What garbage collection keeps *)

\* Nobody but garbage collection deletes CRs, the operator does not die, the
\* volume works, and no collector's attempt fails.
Quiet == Users \subseteq {"change"} /\ Faults \cap {"crash", "io", "collect"} = {}

\* The worker never gives up the zip of a CR: it has all it needs.
ZipReady ==
  /\ pc["worker"] \in {"zip", "zipping"} => left["worker"] = {}
  /\ pc["worker"] \in {"exists", "zip", "zipping"} /\ Present(id["worker"]) =>
       \A c \in spec \ left["worker"] : IsCollected(id["worker"], c)

\* A zip of a CR is whole, or the worker is at it.
Whole == \A a \in Archives : Present(a) /\ Exists(a) => HasWholeZip(a)

\* The list of garbage collection is true of every CR that is still there.
ListInv ==
  /\ terminating = {}
  /\ pc["gc"] # "idle" => \A a \in Archives : listed["gc"][a] # 0 =>
       a \in used /\ (Present(a) => born[a] = listed["gc"][a])
  /\ pc["gc"] = "check" => \A a \in Archives : listed["gc"][a] # 0 => Present(a)
  /\ pc["gc"] \in {"next", "delete"} => \A a \in doomed : listed["gc"][a] # 0

\* As long as something is left to be deleted, Keep archives that are not older
\* have their CRs and zips.
Spared ==
  pc["gc"] \in {"next", "delete"} =>
    \/ doomed = {}
    \/ \E K \in SUBSET Archives :
         /\ Cardinality(K) >= Keep
         /\ \A b \in K : b \notin doomed /\ Present(b) /\ Exists(b)
         /\ \A b \in K, a \in doomed : born[b] >= listed["gc"][a]

KeepInv == ZipReady /\ Whole /\ ListInv /\ Spared

\* Those that are spared stay so while they keep their CRs and zips.
LEMMA SparedKept ==
  ASSUME Typed, Spared, doomed' \subseteq doomed, listed'["gc"] = listed["gc"],
         pc'["gc"] \in {"next", "delete"} => pc["gc"] \in {"next", "delete"},
         \A b \in Archives \ doomed : Present(b) /\ Exists(b) => born'[b] = born[b] /\ Exists(b)'
  PROVE  Spared'
<1> SUFFICES ASSUME pc'["gc"] \in {"next", "delete"}, doomed' # {}
             PROVE  \E K \in SUBSET Archives :
                      /\ Cardinality(K) >= Keep
                      /\ \A b \in K : b \notin doomed' /\ Present(b)' /\ Exists(b)'
                      /\ \A b \in K, a \in doomed' : born'[b] >= listed'["gc"][a]
  BY DEF Spared
<1>1. PICK K \in SUBSET Archives :
         /\ Cardinality(K) >= Keep
         /\ \A b \in K : b \notin doomed /\ Present(b) /\ Exists(b)
         /\ \A b \in K, a \in doomed : born[b] >= listed["gc"][a]
  BY DEF Spared
<1>2. \A b \in K : b \notin doomed' /\ Present(b)' /\ Exists(b)' /\ born'[b] = born[b]
  BY <1>1 DEF Present
<1> QED
  BY <1>1, <1>2

\* The list stays true if CRs only go, and come under new names.
LEMMA ListKept ==
  ASSUME Typed, ListInv, terminating' = {}, doomed' \subseteq doomed,
         listed'["gc"] = listed["gc"], used \subseteq used',
         \A a \in used : born'[a] \in {born[a], 0},
         pc'["gc"] # "idle" => pc["gc"] # "idle",
         pc'["gc"] = "check" => pc["gc"] = "check" /\ \A a \in used : born'[a] = born[a],
         pc'["gc"] \in {"next", "delete"} => pc["gc"] \in {"next", "delete"}
  PROVE  ListInv'
BY DEF ListInv, Present

\* Whoever is not the worker touches only what is gone.
LEMMA ZipsKept ==
  ASSUME Typed, LifeInv, ZipReady, Whole, WorkerStays, spec' = spec,
         \A b \in Archives : Present(b)' =>
           /\ Present(b) \/ (b \notin used /\ ~Exists(b))
           /\ zip'[b] = zip[b] /\ work'[b] = work[b]
  PROVE  ZipReady' /\ Whole'
<1>1. pc["worker"] # "idle" => id["worker"] \in Archives /\ id["worker"] \in used
  BY DEF Typed, TypedMem, LifeInv, NamesInv
<1>2. ZipReady'
  BY <1>1 DEF ZipReady, WorkerStays, IsCollected
<1>3. Whole'
  BY DEF Whole, WorkerStays, HasWholeZip, Exists
<1> QED
  BY <1>2, <1>3

\* The worker takes no zip from a CR, and leaves none half done.
LEMMA WorkerKeeps ==
  ASSUME Quiet, Typed, LifeInv, WorkerDeletesGone, LiveInv', KeepInv, WorkerStep
  PROVE  KeepInv'
<1> USE Domains DEF At, Procs, api, disk, count
<1>1. PICK a \in Archives : a = id["worker"]
  BY WorkerStepIsLocal DEF WorkerLocal, Typed, TypedMem
<1>2. /\ UNCHANGED <<born, terminating, used, listed, doomed>> /\ pc'["gc"] = pc["gc"]
      /\ \A b \in Archives \ {a} : zip'[b] = zip[b]
      /\ pc'["worker"] # "idle" => id'["worker"] = a
  <2>1. UNCHANGED doomed
    BY DEF WorkerStep, GetFails, GetsNothing, GetsCR, ChecksCollectors, CheckFails,
           TakesNextCollector, FindsAllCollected, FindsArchive, CollectorStarts, CollectorSucceeds,
           CollectorFails, SetsCondition, OpensZip, ClosesZip, ZipFails, SetsCreated,
           SetCreatedFails, Delete, DeletesZip, DeletesCollector
  <2> QED
    BY <1>1, <2>1, WorkerStepIsLocal DEF WorkerLocal
<1>3. Present(a)' <=> Present(a)
  BY <1>2 DEF Present
<1>4. ASSUME Present(a) PROVE ~GoneForGood(a) /\ ~Gone(a)
  BY <1>4 DEF KeepInv, ListInv, GoneForGood, Gone
<1>5. ZipReady'
  <2>1. CASE GetFails \/ CheckFails \/ FindsArchive \/ SetsCondition \/ ZipFails \/ SetsCreated
             \/ SetCreatedFails \/ DeletesZip("worker")
    BY <2>1 DEF GetFails, CheckFails, FindsArchive, SetsCondition, ZipFails, SetsCreated,
                SetCreatedFails, DeletesZip, Return, Goto, ZipReady
  <2>2. CASE GetsNothing \/ GetsCR \/ TakesNextCollector \/ CollectorStarts \/ CollectorSucceeds
             \/ CollectorFails \/ ClosesZip
    BY <2>2 DEF GetsNothing, GetsCR, TakesNextCollector, CollectorStarts, CollectorSucceeds,
                CollectorFails, ClosesZip, Goto, ZipReady
  <2>3. CASE ChecksCollectors
    BY <1>1, <2>3 DEF ChecksCollectors, Goto, ZipReady, IsCollected
  <2>4. CASE FindsAllCollected \/ OpensZip
    <3>1. UNCHANGED <<id, left, spec, work>> /\ pc["worker"] \in {"exists", "zip"}
      BY <2>4 DEF FindsAllCollected, OpensZip
    <3>2. left["worker"] = {}
      BY <2>4 DEF FindsAllCollected, OpensZip, KeepInv, ZipReady
    <3> QED
      BY <1>1, <1>3, <3>1, <3>2 DEF KeepInv, ZipReady, IsCollected
  <2>5. CASE \E c \in Collectors : DeletesCollector("worker", c)
    BY <2>5 DEF DeletesCollector, ZipReady
  <2> QED
    BY <2>1, <2>2, <2>3, <2>4, <2>5 DEF WorkerStep, Delete
<1>6. ASSUME Present(a), Exists(a) PROVE Exists(a)'
  <2>1. CASE OpensZip
    BY <1>1, <2>1 DEF OpensZip, Exists
  <2>2. CASE ClosesZip
    BY <1>1, <1>6, <2>2 DEF ClosesZip, Exists
  <2>3. CASE ZipFails
    <3>1. \A c \in spec : pc["worker"] = "zipping" => IsCollected(a, c)
      BY <1>1, <1>6 DEF KeepInv, ZipReady
    <3> QED
      BY <1>1, <2>3, <3>1 DEF ZipFails, Quiet
  <2>4. CASE DeletesZip("worker")
    BY <1>1, <1>4, <1>6, <2>4 DEF DeletesZip, WorkerDeletesGone
  <2>5. CASE \/ GetFails \/ GetsNothing \/ GetsCR \/ ChecksCollectors \/ CheckFails
             \/ TakesNextCollector \/ FindsAllCollected \/ FindsArchive
             \/ CollectorStarts \/ CollectorSucceeds \/ CollectorFails \/ SetsCondition
             \/ SetsCreated \/ SetCreatedFails \/ \E c \in Collectors : DeletesCollector("worker", c)
    <3>1. UNCHANGED zip
      BY <2>5 DEF GetFails, GetsNothing, GetsCR, ChecksCollectors, CheckFails, TakesNextCollector,
                  FindsAllCollected, FindsArchive, CollectorStarts, CollectorSucceeds,
                  CollectorFails, SetsCondition, SetsCreated, SetCreatedFails, DeletesCollector
    <3> QED
      BY <1>6, <3>1 DEF Exists
  <2> QED
    BY <2>1, <2>2, <2>3, <2>4, <2>5 DEF WorkerStep, Delete
<1>7. ASSUME Present(a), Exists(a)' PROVE HasWholeZip(a)'
  <2>1. zip'[a] # "broken"
    BY <1>2, <1>4, <1>7 DEF LiveInv, Intact, GoneForGood, Gone, Present
  <2>2. CASE OpensZip
    BY <1>1, <2>2 DEF OpensZip, HasWholeZip, Goto
  <2>3. CASE ClosesZip
    BY <1>1, <1>7, <2>1, <2>3 DEF ClosesZip, HasWholeZip, Exists
  <2>4. CASE ZipFails \/ DeletesZip("worker")
    BY <1>1, <1>7, <2>4 DEF ZipFails, DeletesZip, Exists, Quiet
  <2>5. CASE \/ GetFails \/ GetsNothing \/ GetsCR \/ ChecksCollectors \/ CheckFails
             \/ TakesNextCollector \/ FindsAllCollected \/ FindsArchive
             \/ CollectorStarts \/ CollectorSucceeds \/ CollectorFails \/ SetsCondition
             \/ SetsCreated \/ SetCreatedFails \/ \E c \in Collectors : DeletesCollector("worker", c)
    <3>1. UNCHANGED zip /\ pc["worker"] # "zipping"
      BY <2>5 DEF GetFails, GetsNothing, GetsCR, ChecksCollectors, CheckFails, TakesNextCollector,
                  FindsAllCollected, FindsArchive, CollectorStarts, CollectorSucceeds,
                  CollectorFails, SetsCondition, SetsCreated, SetCreatedFails, DeletesCollector
    <3>2. zip[a] = "full"
      BY <1>7, <3>1 DEF KeepInv, Whole, HasWholeZip, Exists
    <3> QED
      BY <3>1, <3>2 DEF HasWholeZip
  <2> QED
    BY <2>2, <2>3, <2>4, <2>5 DEF WorkerStep, Delete
<1>8. Whole'
  <2>1. ASSUME NEW b \in Archives \ {a}, Present(b), Exists(b)' PROVE HasWholeZip(b)'
    BY <1>1, <1>2, <2>1 DEF KeepInv, Whole, HasWholeZip, Exists
  <2> QED
    BY <1>2, <1>3, <1>7, <2>1 DEF Whole, Present
<1>9. ListInv'
  BY <1>2 DEF KeepInv, ListInv, Present
<1>10. Spared'
  <2>1. \A b \in Archives : Present(b) /\ Exists(b) => born'[b] = born[b] /\ Exists(b)'
    BY <1>2, <1>6 DEF Exists
  <2> QED
    BY <1>2, <2>1, SparedKept DEF KeepInv
<1> QED
  BY <1>5, <1>8, <1>9, <1>10 DEF KeepInv

\* Garbage collection chooses so that Keep others remain that are not older.
LEMMA ChoiceSpares ==
  ASSUME NEW completed \in SUBSET Archives, NEW age \in [Archives -> Nat],
         NEW D \in Oldest(completed, age), D # {}
  PROVE  /\ Cardinality(completed \ D) = Keep
         /\ \A b \in completed \ D, a \in D : age[b] >= age[a]
<1>1. D \in SUBSET completed /\ IsFiniteSet(completed) /\ Keep \in Nat
  BY FS_Subset, ArchiveLifecycleAssumption DEF ArchiveLifecycleAssumption, Oldest
<1>2. /\ Cardinality(completed) \in Nat /\ Cardinality(D) \in Nat /\ Cardinality(D) # 0
      /\ Cardinality(completed \ D) = Cardinality(completed) - Cardinality(D)
  <2>1. completed \cap D = D /\ IsFiniteSet(D)
    BY <1>1, FS_Subset
  <2>2. Cardinality(completed \ D) = Cardinality(completed) - Cardinality(completed \cap D)
    BY <1>1, FS_Difference
  <2>3. Cardinality(completed) \in Nat /\ Cardinality(D) \in Nat
    BY <1>1, <2>1, FS_CardinalityType
  <2>4. Cardinality(D) # 0
    BY <2>1, FS_EmptySet
  <2> QED
    BY <2>1, <2>2, <2>3, <2>4
<1>3. Cardinality(D) = IF Cardinality(completed) > Keep THEN Cardinality(completed) - Keep ELSE 0
  BY DEF Oldest
<1>4. \A b \in completed \ D, a \in D : age[b] >= age[a]
  BY <1>1 DEF Oldest
<1> QED
  BY <1>1, <1>2, <1>3, <1>4

\* What garbage collection does itself: it takes a list, chooses from it, and
\* deletes what it has chosen.
LEMMA GcKeeps ==
  ASSUME Quiet, Typed, LifeInv, KeepInv, GcStep
  PROVE  ListInv' /\ Spared'
<1> USE Domains DEF At, Procs, api, disk, count
<1>1. CASE GcListsCRs
  <2>1. /\ listed'["gc"] = born /\ pc'["gc"] = "check"
        /\ UNCHANGED <<born, terminating, used, doomed>>
    BY <1>1 DEF GcListsCRs, Goto, Typed, TypedMem
  <2>2. ListInv'
    BY <2>1 DEF KeepInv, ListInv, LifeInv, NamesInv, Present
  <2> QED
    BY <2>1, <2>2 DEF Spared
<1>2. CASE GcChoosesOldest
  <2> DEFINE age == listed["gc"]
             completed == {a \in Archives : age[a] # 0 /\ Exists(a)}
  <2>1. /\ pc["gc"] = "check" /\ pc'["gc"] = "next" /\ doomed' \in Oldest(completed, age)
        /\ UNCHANGED <<born, terminating, used, listed, zip>>
    BY <1>2 DEF GcChoosesOldest, Goto, Quiet
  <2>2. doomed' \in SUBSET completed
    BY <2>1 DEF Oldest
  <2>3. \A a \in completed : Present(a) /\ born[a] = age[a] /\ Exists(a)
    BY <2>1 DEF KeepInv, ListInv
  <2>4. ListInv'
    BY <2>1, <2>2 DEF KeepInv, ListInv, Present
  <2>5. ASSUME doomed' # {}
        PROVE  /\ Cardinality(completed \ doomed') >= Keep
               /\ \A b \in completed \ doomed', a \in doomed' : age[b] >= age[a]
    <3>1. completed \in SUBSET Archives /\ age \in [Archives -> Nat] /\ Keep \in Nat
      BY Numbers, ArchiveLifecycleAssumption DEF ArchiveLifecycleAssumption, Typed, TypedMem
    <3>2. /\ Cardinality(completed \ doomed') = Keep
          /\ \A b \in completed \ doomed', a \in doomed' : age[b] >= age[a]
      BY <2>1, <2>5, <3>1, ChoiceSpares
    <3> QED
      BY <3>1, <3>2
  <2>6. Spared'
    <3>1. \A b \in completed \ doomed' :
            b \notin doomed' /\ Present(b)' /\ Exists(b)' /\ born'[b] = age[b]
      BY <2>1, <2>3 DEF Present, Exists
    <3>2. completed \ doomed' \in SUBSET Archives
      OBVIOUS
    <3> QED
      BY <2>1, <2>5, <3>1, <3>2 DEF Spared
  <2> QED
    BY <2>4, <2>6
<1>3. ASSUME NEW a \in Archives, GcDeletesCR(a)
      PROVE  ListInv' /\ Spared'
  <2>1. /\ pc["gc"] = "next" /\ pc'["gc"] = "delete" /\ a \in doomed /\ doomed' = doomed \ {a}
        /\ UNCHANGED <<zip, used, listed>>
    BY <1>3 DEF GcDeletesCR, GcNext, Goto
  <2>2. terminating' = {} /\ \A b \in Archives : born'[b] = IF b = a THEN 0 ELSE born[b]
    BY <1>3 DEF GcDeletesCR, CRGone, KeepInv, ListInv
  <2>3. ListInv'
    BY <2>1, <2>2, ListKept DEF KeepInv, Typed, TypedCount
  <2>4. Spared'
    BY <2>1, <2>2, SparedKept DEF KeepInv, Exists
  <2> QED
    BY <2>3, <2>4
<1>4. ASSUME NEW a \in Archives, GcDeleteFails(a)
      PROVE  ListInv' /\ Spared'
  <2>1. pc' = pc /\ doomed' \subseteq doomed /\ UNCHANGED <<born, terminating, zip, used, listed>>
    BY <1>4 DEF GcDeleteFails, GcNext
  <2>2. ListInv'
    BY <2>1, ListKept DEF KeepInv, ListInv
  <2>3. Spared'
    BY <2>1, SparedKept DEF KeepInv, Exists
  <2> QED
    BY <2>2, <2>3
<1>5. CASE GcEnds
  <2>1. pc'["gc"] = "idle" /\ UNCHANGED terminating
    BY <1>5 DEF GcEnds, Goto
  <2>2. doomed' = {} /\ pc'["gc"] \notin {"check", "next", "delete"}
    BY <1>5, <2>1 DEF GcEnds
  <2> QED
    BY <2>1, <2>2 DEF KeepInv, ListInv, Spared
<1>6. CASE Delete("gc")
  <2>1. /\ pc["gc"] = "delete" /\ pc'["gc"] \in {"next", "delete"} /\ id["gc"] \in Archives
        /\ UNCHANGED <<born, terminating, used, listed, doomed>>
        /\ \A b \in Archives \ {id["gc"]} : zip'[b] = zip[b]
    <3>1. CASE DeletesZip("gc")
      BY <3>1 DEF DeletesZip, Goto, Typed, TypedMem
    <3>2. CASE \E c \in Collectors : DeletesCollector("gc", c)
      BY <3>2 DEF DeletesCollector, Typed, TypedMem
    <3> QED
      BY <1>6, <3>1, <3>2 DEF Delete
  <2>2. ~Present(id["gc"])
    BY <2>1 DEF LifeInv, LoopsInv, GoneForGood, Gone, KeepInv, ListInv
  <2>3. ListInv'
    BY <2>1, ListKept DEF KeepInv, ListInv
  <2>4. Spared'
    BY <2>1, <2>2, SparedKept DEF KeepInv, Exists
  <2> QED
    BY <2>3, <2>4
<1> QED
  BY <1>1, <1>2, <1>3, <1>4, <1>5, <1>6 DEF GcStep

\* What garbage collection does touches nothing of the worker's.
LEMMA GcKeepsZips ==
  ASSUME Quiet, Typed, LifeInv, KeepInv, GcStep
  PROVE  ZipReady' /\ Whole'
<1> USE Domains DEF At, Procs, api, disk, count
<1>1. CASE Delete("gc")
  <2>1. WorkerStays /\ UNCHANGED <<born, spec>> /\ id["gc"] \in Archives /\ ~Present(id["gc"])
    <3>1. pc["gc"] = "delete" /\ UNCHANGED spec /\ id["gc"] \in Archives
      BY <1>1 DEF Delete, DeletesZip, DeletesCollector, Typed, TypedMem
    <3>2. ~Present(id["gc"])
      BY <3>1 DEF LifeInv, LoopsInv, GoneForGood, Gone, KeepInv, ListInv
    <3> QED
      BY <1>1, <3>1, <3>2, LoopDeleteIsLocal
  <2>2. \A b \in Archives \ {id["gc"]} : zip'[b] = zip[b] /\ work'[b] = work[b]
    BY <1>1, <2>1 DEF Delete, DeletesZip, DeletesCollector, SetWork
  <2> QED
    BY <2>1, <2>2, ZipsKept DEF KeepInv, Present
<1>2. CASE ~Delete("gc")
  <2>1. /\ WorkerStays /\ UNCHANGED <<work, zip, spec>>
        /\ \A b \in Archives : Present(b)' => Present(b)
    <3>1. CASE GcListsCRs \/ GcChoosesOldest \/ GcEnds \/ \E a \in Archives : GcDeleteFails(a)
      BY <3>1 DEF GcListsCRs, GcChoosesOldest, GcEnds, GcDeleteFails, WorkerStays, Goto, Present
    <3>2. CASE \E a \in Archives : GcDeletesCR(a)
      BY <3>2 DEF GcDeletesCR, CRGone, WorkerStays, Goto, Present
    <3> QED
      BY <1>2, <3>1, <3>2 DEF GcStep
  <2> QED
    BY <2>1, ZipsKept DEF KeepInv
<1> QED
  BY <1>1, <1>2

\* Neither does what users and the sync loop do, nor a choice or a choice's end.
LEMMA OthersKeep ==
  ASSUME Quiet, Typed, LifeInv, KeepInv, [Next]_vars, ~WorkerStep, ~GcStep
  PROVE  KeepInv'
<1> USE Domains DEF Procs, api, disk, mem, count
<1>1. ASSUME WorkerStays \/ pc'["worker"] \notin {"exists", "zip", "zipping"},
             pc["worker"] = "zipping" => WorkerStays,
             UNCHANGED <<born, terminating, used, doomed, spec>>,
             pc'["gc"] = pc["gc"], listed'["gc"] = listed["gc"],
             \A b \in Archives : Present(b) => zip'[b] = zip[b] /\ work'[b] = work[b]
      PROVE  KeepInv'
  <2>1. ListInv'
    BY <1>1 DEF KeepInv, ListInv, Present
  <2>2. Spared'
    BY <1>1, SparedKept DEF KeepInv, Exists
  <2>3. ZipReady'
    <3>1. CASE WorkerStays
      BY <1>1, <3>1, ZipsKept DEF KeepInv, Present
    <3>2. CASE pc'["worker"] \notin {"exists", "zip", "zipping"}
      BY <3>2 DEF ZipReady
    <3> QED
      BY <1>1, <3>1, <3>2
  <2>4. Whole'
    <3>1. \A b \in Archives : Present(b)' => Present(b)
      BY <1>1 DEF Present
    <3> QED
      BY <1>1, <3>1 DEF KeepInv, Whole, HasWholeZip, Exists, WorkerStays
  <2> QED
    BY <2>1, <2>2, <2>3, <2>4 DEF KeepInv
<1>2. CASE Start \/ UNCHANGED vars
  BY <1>1, <1>2 DEF Start, vars, WorkerStays
<1>3. ASSUME NEW a \in Archives, UserCreates(a)
      PROVE  KeepInv'
  <2>1. /\ ~Present(a) /\ a \notin used /\ UNCHANGED <<terminating, work, zip, mem>>
        /\ used' = used \cup {a} /\ \A b \in Archives \ {a} : born'[b] = born[b]
    BY <1>3 DEF UserCreates, Quiet
  <2>2. ListInv'
    BY <2>1, ListKept DEF KeepInv, ListInv, Typed, TypedCount
  <2>3. Spared'
    BY <2>1, SparedKept DEF KeepInv, Exists
  <2>4. ZipReady' /\ Whole'
    <3>1. ~Exists(a)
      BY <2>1 DEF LifeInv, NamesInv
    <3> QED
      BY <2>1, <3>1, ZipsKept DEF KeepInv, WorkerStays, Present
  <2> QED
    BY <2>2, <2>3, <2>4 DEF KeepInv
<1>4. ASSUME NEW a \in Archives, UserStep(a) \/ DeletionCompletes(a)
      PROVE  KeepInv'
  <2>1. CASE UserChangesSpec(a)
    BY <1>1, <2>1 DEF UserChangesSpec, WorkerStays
  <2>2. ~UserDeletes(a) /\ ~UserDeletesInForeground(a) /\ ~DeletionCompletes(a)
    BY DEF UserDeletes, UserDeletesInForeground, DeletionCompletes, Quiet, KeepInv, ListInv
  <2> QED
    BY <1>3, <1>4, <2>1, <2>2 DEF UserStep
<1>5. ASSUME NEW a \in Archives, PicksUp(a)
      PROVE  KeepInv'
  <2>1. /\ pc["worker"] = "idle" /\ pc'["worker"] = "get" /\ pc'["gc"] = pc["gc"]
        /\ UNCHANGED <<born, terminating, used, doomed, spec, listed, work, zip>>
    BY <1>5 DEF PicksUp, At, Goto, Typed, TypedMem
  <2> QED
    BY <1>1, <2>1
<1>6. CASE SyncStep /\ ~Delete("sync")
  <2>1. /\ WorkerStays /\ pc'["gc"] = pc["gc"] /\ listed'["gc"] = listed["gc"]
        /\ UNCHANGED <<born, terminating, used, doomed, spec, work, zip>>
    <3>1. CASE SyncListsZips \/ SyncListFails \/ \E a \in Archives : SyncDeletes(a)
      BY <3>1 DEF SyncListsZips, SyncListFails, SyncDeletes, WorkerStays, Goto
    <3>2. CASE SyncListsCRs \/ SyncTriggers
      BY <3>2 DEF SyncListsCRs, SyncTriggers, WorkerStays, Goto, Typed, TypedMem
    <3> QED
      BY <1>6, <3>1, <3>2 DEF SyncStep
  <2> QED
    BY <1>1, <2>1
<1>7. CASE Delete("sync")
  <2>1. /\ pc["sync"] = "delete" /\ pc'["gc"] = pc["gc"] /\ id["sync"] \in Archives
        /\ UNCHANGED <<doomed, spec, listed, used>>
        /\ \A b \in Archives \ {id["sync"]} : zip'[b] = zip[b] /\ work'[b] = work[b]
    <3>1. CASE DeletesZip("sync")
      BY <3>1 DEF DeletesZip, At, Goto, Typed, TypedMem
    <3>2. CASE \E c \in Collectors : DeletesCollector("sync", c)
      BY <3>2 DEF DeletesCollector, SetWork, At, Typed, TypedMem
    <3> QED
      BY <1>7, <3>1, <3>2 DEF Delete
  <2>2. ~Present(id["sync"])
    BY <2>1 DEF LifeInv, LoopsInv, GoneForGood, Gone, KeepInv, ListInv
  <2>3. WorkerStays /\ UNCHANGED <<born, terminating>>
    BY <1>7, LoopDeleteIsLocal
  <2> QED
    BY <1>1, <2>1, <2>2, <2>3
<1> QED
  BY <1>2, <1>4, <1>5, <1>6, <1>7 DEF Next, Crash, Quiet

\* Garbage collection never deletes the CR of one of the newest Keep archives:
\* whenever it deletes one, Keep others that are not older have their zips, or
\* are about to, although its list is old by then and the worker, the sync loop
\* and users who create and change archives have gone on (Quiet).
THEOREM GarbageCollectionKeepsNewest ==
  ASSUME Quiet PROVE Spec => GcKeepsNewest
<1>0. "recreate" \notin Users /\ Undisturbed /\ Honest
  BY DEF Quiet, Honest, Undisturbed
<1>1. Spec => []Typed
  BY InitTyped, NextTyped, PTL DEF Spec
<1>2. Spec => []LifeInv
  BY <1>0, LifeCorrect
<1>3. Init => WorkerDeletesGone /\ LiveInv /\ KeepInv
  BY DEF Init, FreshMemory, Procs, WorkerDeletesGone, LiveInv, Intact, KeepInv, ZipReady, Whole,
         ListInv, Spared, Present, NoCRs
<1>4. Typed /\ LifeInv /\ WorkerDeletesGone /\ [Next]_vars => WorkerDeletesGone'
  BY <1>0, NextDeletesGone
<1>5. Typed /\ LifeInv /\ WorkerDeletesGone /\ LiveInv /\ [Next]_vars => LiveInv'
  BY <1>0, NextLive
<1>6. Typed /\ LifeInv /\ WorkerDeletesGone /\ LiveInv' /\ KeepInv /\ [Next]_vars => KeepInv'
  <2> SUFFICES ASSUME Typed, LifeInv, WorkerDeletesGone, LiveInv', KeepInv, [Next]_vars
               PROVE  KeepInv'
    OBVIOUS
  <2>1. CASE GcStep
    BY <2>1, GcKeeps, GcKeepsZips DEF KeepInv
  <2> QED
    BY <2>1, WorkerKeeps, OthersKeep
<1>7. Typed /\ KeepInv /\ [Next]_vars =>
        [\A a \in Archives : GcDeletesCR(a) =>
           Cardinality({b \in Archives \ {a} : born[b] >= born[a] /\ HasWholeZip(b)}) >= Keep]_vars
  <2> SUFFICES ASSUME Typed, KeepInv, NEW a \in Archives, GcDeletesCR(a)
               PROVE  Cardinality({b \in Archives \ {a} : born[b] >= born[a] /\ HasWholeZip(b)}) >= Keep
    OBVIOUS
  <2> DEFINE newer == {b \in Archives \ {a} : born[b] >= born[a] /\ HasWholeZip(b)}
  <2>1. pc["gc"] = "next" /\ a \in doomed /\ born[a] = listed["gc"][a]
    BY DEF GcDeletesCR, GcNext, At, KeepInv, ListInv
  <2>2. PICK K \in SUBSET Archives :
          /\ Cardinality(K) >= Keep
          /\ \A b \in K : b \notin doomed /\ Present(b) /\ Exists(b)
          /\ \A b \in K : born[b] >= listed["gc"][a]
    BY <2>1 DEF KeepInv, Spared
  <2>3. K \in SUBSET newer
    BY <2>1, <2>2 DEF KeepInv, Whole
  <2>4. IsFiniteSet(Archives) /\ newer \in SUBSET Archives /\ Keep \in Nat
    BY ArchiveLifecycleAssumption DEF ArchiveLifecycleAssumption
  <2>5. IsFiniteSet(newer)
    BY <2>4, FS_Subset
  <2>6. Cardinality(K) <= Cardinality(newer) /\ IsFiniteSet(K)
    BY <2>3, <2>5, FS_Subset
  <2>7. Cardinality(K) \in Nat /\ Cardinality(newer) \in Nat
    BY <2>5, <2>6, FS_CardinalityType
  <2> QED
    BY <2>2, <2>4, <2>6, <2>7
<1> QED
  BY <1>1, <1>2, <1>3, <1>4, <1>5, <1>6, <1>7, PTL DEF Spec, GcKeepsNewest

=============================================================================
