-------------------------- MODULE ArchiveLifecycle --------------------------
(***************************************************************************)
(* The life of support archives: the custom resources (CRs) users create,  *)
(* change and delete, the data the operator keeps for them on its volume,  *)
(* and the three processes of the operator that work on both:              *)
(*   "worker"  the reconcile worker, fed by a work queue;                  *)
(*   "sync"    the loop that removes archives without a CR and triggers a  *)
(*             reconcile of every CR;                                      *)
(*   "gc"      the loop that deletes all but the newest Keep archives.     *)
(* All of them may remove data through DeleteArchiveUseCase.Delete, which  *)
(* works by name, one directory at a time and without a lock.              *)
(*                                                                         *)
(* A collector's run is one step here that starts and one that ends it;    *)
(* module CollectorRun is about what happens in between.                   *)
(***************************************************************************)
EXTENDS Integers, FiniteSets

CONSTANTS
  Archives,     \* names of support archives
  None,         \* no archive
  Collectors,   \* the collector types
  Keep,         \* garbage collection keeps this many archives
  Loops,        \* the loops that are not disabled by an interval of 0
  Users,        \* what users do besides creating CRs
  Faults,       \* what may fail
  MaxCreated,   \* bound on the number of CRs ever created
  MaxChanges,   \* bound on the number of changes of a CR's spec
  MaxCrashes    \* bound on the number of crashes

ASSUME ArchiveLifecycleAssumption ==
  /\ IsFiniteSet(Archives) /\ IsFiniteSet(Collectors)
  /\ None \notin Archives
  /\ {Keep, MaxCreated, MaxChanges, MaxCrashes} \subseteq Nat
  /\ Loops \subseteq {"sync", "gc"}
  /\ Users \subseteq {"delete", "foreground", "recreate", "change"}
  /\ Faults \subseteq {"collect",  \* a collector's attempt fails
                       "io",       \* the volume fails
                       "api",      \* the Kubernetes API fails
                       "crash"}    \* the operator dies and is started again

Procs == {"worker", "sync", "gc"}

VARIABLES
  born,         \* born[a]: the second in which the CR named a was created; 0: no CR
  required,     \* required[a]: the collectors its spec does not exclude
  terminating,  \* the CRs that have a deletion timestamp
  cond,         \* cond[a][c]: its condition for collector c
  created,      \* created[a]: its ArchiveCreated condition and DownloadPath are set
  work,         \* work[a][c]: the data of collector c in the work directory
  zip,          \* zip[a]: the archive file
  queue,        \* the names waiting for the worker
  up,           \* the operator runs
  pc,           \* pc[p]: where process p is
  id,           \* id[p]: the archive p works on
  left,         \* left[p]: the collectors p has still to deal with
  spec,         \* the worker's copy of the required collectors
  failed,       \* the worker's collector returned an error
  stored,       \* the sync loop's list of zips, then the ones to delete
  listed,       \* listed[p]: the CRs p has listed, by name, with their creation
  doomed,       \* the CRs the garbage collection has still to delete
  second,                  \* the second of the last creation: timestamps are no finer
  used,                    \* the names some CR has had
  made, changes, crashes   \* counters for the bounds

api   == <<born, required, terminating, cond, created>>
disk  == <<work, zip>>
mem   == <<pc, id, left, spec, failed, stored, listed, doomed>>
count == <<second, used, made, changes, crashes>>
vars  == <<api, disk, queue, up, mem, count>>

\* A collector's directory: "none", "partial" (data without `.done`), "done",
\* or "broken" (`.done`, but not all of the data).
WorkStates == {"none", "partial", "done", "broken"}
\* "partial": not written to the end; "broken": made from broken data.
ZipStates  == {"none", "partial", "broken", "full"}

IsCollected(a, c) == work[a][c] \in {"done", "broken"}
Exists(a)         == zip[a] # "none"
Present(a)        == born[a] # 0
HasData(a)        == Exists(a) \/ \E c \in Collectors : work[a][c] # "none"

NoCRs == [a \in Archives |-> 0]

TypeOK ==
  /\ born \in [Archives -> 0 .. MaxCreated]
  /\ required \in [Archives -> SUBSET Collectors]
  /\ terminating \subseteq {a \in Archives : Present(a)}
  /\ cond \in [Archives -> [Collectors -> {"unknown", "true", "false"}]]
  /\ created \in [Archives -> BOOLEAN]
  /\ work \in [Archives -> [Collectors -> WorkStates]]
  /\ zip \in [Archives -> ZipStates]
  /\ queue \subseteq Archives
  /\ up \in BOOLEAN
  /\ pc["worker"] \in {"idle", "get", "check", "exists", "collect",
                       "collecting", "condition", "zip", "zipping", "status", "delete"}
  /\ pc["sync"] \in {"idle", "crs", "next", "delete"}
  /\ pc["gc"] \in {"idle", "check", "next", "delete"}
  /\ \A p \in Procs : /\ id[p] \in Archives \cup {None}
                      /\ pc[p] = "delete" => id[p] \in Archives
                      /\ left[p] \subseteq Collectors
  /\ pc["worker"] # "idle" => id["worker"] \in Archives
  /\ spec \subseteq Collectors
  /\ failed \in BOOLEAN
  /\ stored \subseteq Archives
  /\ listed \in [{"sync", "gc"} -> [Archives -> 0 .. MaxCreated]]
  /\ doomed \subseteq Archives
  /\ used \subseteq Archives /\ second \in 0 .. MaxCreated
  /\ made \in 0 .. MaxCreated /\ changes \in 0 .. MaxChanges /\ crashes \in 0 .. MaxCrashes

\* The memory of a process that has just started.
FreshMemory ==
  /\ pc = [p \in Procs |-> "idle"]
  /\ id = [p \in Procs |-> None]
  /\ left = [p \in Procs |-> {}]
  /\ spec = {} /\ failed = FALSE /\ stored = {} /\ doomed = {}
  /\ listed = [p \in {"sync", "gc"} |-> NoCRs]

Init ==
  /\ born = NoCRs /\ required = [a \in Archives |-> {}] /\ terminating = {}
  /\ cond = [a \in Archives |-> [c \in Collectors |-> "unknown"]]
  /\ created = [a \in Archives |-> FALSE]
  /\ work = [a \in Archives |-> [c \in Collectors |-> "none"]]
  /\ zip = [a \in Archives |-> "none"]
  /\ queue = {} /\ up = TRUE
  /\ FreshMemory
  /\ second = 0 /\ used = {} /\ made = 0 /\ changes = 0 /\ crashes = 0

-----------------------------------------------------------------------------
(* Users and the API server.  The watch delivers create and delete events,  *)
(* and updates that change the generation; status updates are filtered.     *)

Event(a) == queue' = IF up THEN queue \cup {a} ELSE queue

UserCreates(a) ==
  /\ ~Present(a) /\ made < MaxCreated
  /\ a \in used => "recreate" \in Users
  /\ used' = used \cup {a} /\ made' = made + 1
  /\ second' \in {second, second + 1} \ {0}
  /\ born' = [born EXCEPT ![a] = second']
  /\ \E req \in SUBSET Collectors : required' = [required EXCEPT ![a] = req]
  /\ Event(a)
  /\ UNCHANGED <<terminating, cond, created, disk, up, mem, changes, crashes>>

UserChangesSpec(a) ==
  /\ "change" \in Users /\ Present(a) /\ changes < MaxChanges
  /\ changes' = changes + 1
  /\ \E req \in SUBSET Collectors \ {required[a]} :
       required' = [required EXCEPT ![a] = req]
  /\ Event(a)
  /\ UNCHANGED <<born, terminating, cond, created, disk, up, mem, second, used, made, crashes>>

\* Slip: the event filter lets no delete event pass.
CRGoneUnnoticed(a) ==
  /\ born' = [born EXCEPT ![a] = 0]
  /\ required' = [required EXCEPT ![a] = {}]
  /\ terminating' = terminating \ {a}
  /\ cond' = [cond EXCEPT ![a] = [c \in Collectors |-> "unknown"]]
  /\ created' = [created EXCEPT ![a] = FALSE]
  /\ UNCHANGED queue

\* The CR leaves the API server, its status with it.
CRGone(a) ==
  /\ born' = [born EXCEPT ![a] = 0]
  /\ required' = [required EXCEPT ![a] = {}]
  /\ terminating' = terminating \ {a}
  /\ cond' = [cond EXCEPT ![a] = [c \in Collectors |-> "unknown"]]
  /\ created' = [created EXCEPT ![a] = FALSE]
  /\ Event(a)

UserDeletes(a) ==
  /\ "delete" \in Users /\ Present(a) /\ a \notin terminating
  /\ CRGone(a)
  /\ UNCHANGED <<disk, up, mem, count>>

\* Foreground deletion: a deletion timestamp first, the end of the CR later.
UserDeletesInForeground(a) ==
  /\ "foreground" \in Users /\ Present(a) /\ a \notin terminating
  /\ terminating' = terminating \cup {a}
  /\ Event(a)
  /\ UNCHANGED <<born, required, cond, created, disk, up, mem, count>>

DeletionCompletes(a) ==
  /\ a \in terminating
  /\ CRGone(a)
  /\ UNCHANGED <<disk, up, mem, count>>

-----------------------------------------------------------------------------
(* The reconcile worker *)

At(p, place) == up /\ pc[p] = place

Goto(p, place) == pc' = [pc EXCEPT ![p] = place]

\* Slip: the name to queue again is read after it was cleared.
ReturnTooLate(again) ==
  /\ Goto("worker", "idle")
  /\ id' = [id EXCEPT !["worker"] = None]
  /\ left' = [left EXCEPT !["worker"] = {}]
  /\ spec' = {} /\ failed' = FALSE
  /\ queue' = IF again THEN queue \cup {id'["worker"]} ELSE queue

\* Reconcile returns, and the request is queued again or not.
Return(again) ==
  /\ Goto("worker", "idle")
  /\ id' = [id EXCEPT !["worker"] = None]
  /\ left' = [left EXCEPT !["worker"] = {}]
  /\ spec' = {} /\ failed' = FALSE
  /\ queue' = IF again THEN queue \cup {id["worker"]} ELSE queue

\* The work queue hands a name to one worker at a time; a name added while
\* it is worked on is handed out again afterwards.
PicksUp(a) ==
  /\ At("worker", "idle") /\ a \in queue
  /\ queue' = queue \ {a}
  /\ id' = [id EXCEPT !["worker"] = a]
  /\ Goto("worker", "get")
  /\ UNCHANGED <<api, disk, up, left, spec, failed, stored, listed, doomed, count>>

\* Reconcile asks the API server for the CR.
GetFails ==
  /\ At("worker", "get") /\ "api" \in Faults
  /\ Return(TRUE)
  /\ UNCHANGED <<api, disk, up, stored, listed, doomed, count>>

GetsNothing ==
  LET a == id["worker"] IN
  /\ At("worker", "get") /\ (~Present(a) \/ a \in terminating)
  /\ Goto("worker", "delete")
  /\ left' = [left EXCEPT !["worker"] = Collectors]
  /\ UNCHANGED <<api, disk, queue, up, id, spec, failed, stored, listed, doomed, count>>

GetsCR ==
  LET a == id["worker"] IN
  /\ At("worker", "get") /\ Present(a) /\ a \notin terminating
  /\ Goto("worker", "check")
  /\ spec' = required[a]
  /\ UNCHANGED <<api, disk, queue, up, id, left, failed, stored, listed, doomed, count>>

\* Slip: what is collected already is collected again.
ChecksNothing ==
  /\ At("worker", "check")
  /\ left' = [left EXCEPT !["worker"] = spec]
  /\ Goto("worker", "exists")
  /\ UNCHANGED <<api, disk, queue, up, id, spec, failed, stored, listed, doomed, count>>

\* getAlreadyExecutedCollectors looks at the required collectors only, so
\* deleteUnusedRepositoryData finds nothing to delete.
ChecksCollectors ==
  LET a == id["worker"] IN
  /\ At("worker", "check")
  /\ left' = [left EXCEPT !["worker"] = {c \in spec : ~IsCollected(a, c)}]
  /\ Goto("worker", "exists")
  /\ UNCHANGED <<api, disk, queue, up, id, spec, failed, stored, listed, doomed, count>>

\* A Stat fails, for a collector or for the zip.
CheckFails ==
  /\ At("worker", "check") \/ At("worker", "exists")
  /\ "io" \in Faults
  /\ Return(TRUE)
  /\ UNCHANGED <<api, disk, up, stored, listed, doomed, count>>

\* Collectors are missing: the first of a map's keys is executed next.
TakesNextCollector ==
  /\ At("worker", "exists") /\ left["worker"] # {}
  /\ \E c \in left["worker"] : left' = [left EXCEPT !["worker"] = {c}]
  /\ Goto("worker", "collect")
  /\ UNCHANGED <<api, disk, queue, up, id, spec, failed, stored, listed, doomed, count>>

\* Slip: the status is written before the zip.
ReportsBeforeZip ==
  /\ At("worker", "exists") /\ left["worker"] = {} /\ ~Exists(id["worker"])
  /\ Goto("worker", "status")
  /\ UNCHANGED <<api, disk, queue, up, id, left, spec, failed, stored, listed, doomed, count>>

FindsAllCollected ==
  /\ At("worker", "exists") /\ left["worker"] = {} /\ ~Exists(id["worker"])
  /\ Goto("worker", "zip")
  /\ UNCHANGED <<api, disk, queue, up, id, left, spec, failed, stored, listed, doomed, count>>

\* "archive exists": nothing more is done, nothing is queued.
FindsArchive ==
  /\ At("worker", "exists") /\ left["worker"] = {} /\ Exists(id["worker"])
  /\ Return(FALSE)
  /\ UNCHANGED <<api, disk, up, stored, listed, doomed, count>>

SetWork(a, c, state) == work' = [work EXCEPT ![a][c] = state]

\* The collector that left["worker"] holds starts to write.
CollectorStarts ==
  /\ At("worker", "collect")
  /\ \E c \in left["worker"] : SetWork(id["worker"], c, "partial")
  /\ Goto("worker", "collecting")
  /\ UNCHANGED <<api, zip, queue, up, id, left, spec, failed, stored, listed, doomed, count>>

\* It finishes.  If its directory was removed meanwhile, what was written
\* before is missing from what `.done` declares complete.
CollectorSucceeds ==
  LET a == id["worker"] IN
  /\ At("worker", "collecting")
  /\ \E c \in left["worker"] :
       SetWork(a, c, IF work[a][c] = "partial" THEN "done" ELSE "broken")
  /\ Goto("worker", "condition")
  /\ UNCHANGED <<api, zip, queue, up, id, left, spec, failed, stored, listed, doomed, count>>

\* Slip: the collector's error does not reach setConditionForCollector.
CollectorErrorIsLost ==
  /\ At("worker", "collecting") /\ "collect" \in Faults
  /\ \E c \in left["worker"], state \in {"none", "partial", "broken", "done"} :
       SetWork(id["worker"], c, state)
  /\ Goto("worker", "condition")
  /\ UNCHANGED <<api, zip, queue, up, id, left, spec, failed, stored, listed, doomed, count>>

\* It returns an error; what it leaves behind is in CollectorRun.
CollectorFails ==
  /\ At("worker", "collecting") /\ "collect" \in Faults
  /\ \E c \in left["worker"], state \in {"none", "partial", "broken", "done"} :
       SetWork(id["worker"], c, state)
  /\ failed' = TRUE
  /\ Goto("worker", "condition")
  /\ UNCHANGED <<api, zip, queue, up, id, left, spec, stored, listed, doomed, count>>

\* setConditionForCollector writes to whatever CR has the name; if there is
\* none, or the call fails, the error is dropped.  Either way the request is
\* queued again: RequeueAfter, or the collector's error.
SetsCondition ==
  LET a == id["worker"] IN
  /\ At("worker", "condition")
  /\ \/ /\ Present(a)
        /\ \E c \in left["worker"] :
             cond' = [cond EXCEPT ![a][c] = IF failed THEN "false" ELSE "true"]
     \/ /\ ~Present(a) \/ "api" \in Faults
        /\ UNCHANGED cond
  /\ Return(TRUE)
  /\ UNCHANGED <<born, required, terminating, created, disk, up, stored, listed, doomed, count>>

\* ZipFileArchiveRepository.Create opens the file in its final place.
OpensZip ==
  /\ At("worker", "zip")
  /\ zip' = [zip EXCEPT ![id["worker"]] = "partial"]
  /\ Goto("worker", "zipping")
  /\ UNCHANGED <<api, work, queue, up, id, left, spec, failed, stored, listed, doomed, count>>

\* Slip: the URL is returned, but not written to the status.
ClosesZipOnly ==
  LET a == id["worker"] IN
  /\ At("worker", "zipping") /\ \A c \in spec : IsCollected(a, c)
  /\ zip' = [zip EXCEPT ![a] =
               IF @ = "none" THEN "none"
               ELSE IF \A c \in spec : work[a][c] = "done" THEN "full" ELSE "broken"]
  /\ Return(FALSE)
  /\ UNCHANGED <<api, work, up, stored, listed, doomed, count>>

\* Every stream has ended.  A file deleted meanwhile is written, but unlinked.
ClosesZip ==
  LET a == id["worker"] IN
  /\ At("worker", "zipping") /\ \A c \in spec : IsCollected(a, c)
  /\ zip' = [zip EXCEPT ![a] =
               IF @ = "none" THEN "none"
               ELSE IF \A c \in spec : work[a][c] = "done" THEN "full" ELSE "broken"]
  /\ Goto("worker", "status")
  /\ UNCHANGED <<api, work, queue, up, id, left, spec, failed, stored, listed, doomed, count>>

\* Slip: the error of createArchive is logged, not returned.
ZipFailsQuietly ==
  LET a == id["worker"] IN
  /\ \/ At("worker", "zipping") /\ \E c \in spec : ~IsCollected(a, c)
     \/ (At("worker", "zip") \/ At("worker", "zipping")) /\ "io" \in Faults
  /\ \/ zip' = [zip EXCEPT ![a] = "none"]
     \/ "io" \in Faults /\ UNCHANGED zip
  /\ Return(FALSE)
  /\ UNCHANGED <<api, work, up, stored, listed, doomed, count>>

\* A stream or a write fails: the zip is removed, and if that fails it stays.
ZipFails ==
  LET a == id["worker"] IN
  /\ \/ At("worker", "zipping") /\ \E c \in spec : ~IsCollected(a, c)
     \/ (At("worker", "zip") \/ At("worker", "zipping")) /\ "io" \in Faults
  /\ \/ zip' = [zip EXCEPT ![a] = "none"]
     \/ "io" \in Faults /\ UNCHANGED zip
  /\ Return(TRUE)
  /\ UNCHANGED <<api, work, up, stored, listed, doomed, count>>

\* updateFinalStatus
SetsCreated ==
  LET a == id["worker"] IN
  /\ At("worker", "status") /\ Present(a)
  /\ created' = [created EXCEPT ![a] = TRUE]
  /\ Return(FALSE)
  /\ UNCHANGED <<born, required, terminating, cond, disk, up, stored, listed, doomed, count>>

SetCreatedFails ==
  /\ At("worker", "status") /\ (~Present(id["worker"]) \/ "api" \in Faults)
  /\ Return(TRUE)
  /\ UNCHANGED <<api, disk, up, stored, listed, doomed, count>>

-----------------------------------------------------------------------------
(* DeleteArchiveUseCase.Delete, run by any process p on the archive id[p] *)

DeletesCollector(p, c) ==
  LET a == id[p] IN
  /\ At(p, "delete") /\ c \in left[p]
  /\ left' = [left EXCEPT ![p] = @ \ {c}]
  /\ \/ SetWork(a, c, "none")
     \/ /\ "io" \in Faults /\ work[a][c] # "none"
        /\ \E state \in {work[a][c], "partial"} \cup
                        (IF IsCollected(a, c) THEN {"broken"} ELSE {}) :
             SetWork(a, c, state)
  /\ UNCHANGED <<api, zip, queue, up, pc, id, spec, failed, stored, listed, doomed, count>>

\* The zip goes last.  No caller tries again: the worker drops the error.
DeletesZip(p) ==
  /\ At(p, "delete") /\ left[p] = {}
  /\ \/ zip' = [zip EXCEPT ![id[p]] = "none"]
     \/ "io" \in Faults /\ UNCHANGED zip
  /\ IF p = "worker"
     THEN Return(FALSE)
     ELSE /\ Goto(p, "next") /\ id' = [id EXCEPT ![p] = None]
          /\ UNCHANGED <<left, spec, failed, queue>>
  /\ UNCHANGED <<api, work, up, stored, listed, doomed, count>>

-----------------------------------------------------------------------------
(* The sync loop *)

\* The walk over the zips stops at the first error and keeps what it has.
SyncListsZips ==
  /\ At("sync", "idle") /\ "sync" \in Loops
  /\ LET zips == {a \in Archives : Exists(a)} IN
     stored' \in IF "io" \in Faults THEN SUBSET zips ELSE {zips}
  /\ Goto("sync", "crs")
  /\ UNCHANGED <<api, disk, queue, up, id, left, spec, failed, listed, doomed, count>>

SyncListFails ==
  /\ At("sync", "crs")
  /\ "api" \in Faults \/ ("io" \in Faults /\ stored = {})
  /\ stored' = {}
  /\ Goto("sync", "idle")
  /\ UNCHANGED <<api, disk, queue, up, id, left, spec, failed, listed, doomed, count>>

\* The CRs are listed after the zips; diff keeps the zips without a CR.
SyncListsCRs ==
  /\ At("sync", "crs")
  /\ listed' = [listed EXCEPT !["sync"] = born]
  /\ stored' = {a \in stored : ~Present(a)}
  /\ Goto("sync", "next")
  /\ UNCHANGED <<api, disk, queue, up, id, left, spec, failed, doomed, count>>

SyncDeletes(a) ==
  /\ At("sync", "next") /\ a \in stored
  /\ stored' = stored \ {a}
  /\ id' = [id EXCEPT !["sync"] = a]
  /\ left' = [left EXCEPT !["sync"] = Collectors]
  /\ Goto("sync", "delete")
  /\ UNCHANGED <<api, disk, queue, up, spec, failed, listed, doomed, count>>

\* Every listed CR is sent to the controller's event source.
SyncTriggers ==
  /\ At("sync", "next") /\ stored = {}
  /\ queue' = queue \cup {a \in Archives : listed["sync"][a] # 0}
  /\ listed' = [listed EXCEPT !["sync"] = NoCRs]
  /\ Goto("sync", "idle")
  /\ UNCHANGED <<api, disk, up, id, left, spec, failed, stored, doomed, count>>

-----------------------------------------------------------------------------
(* The garbage collection loop *)

GcListsCRs ==
  /\ At("gc", "idle") /\ "gc" \in Loops
  /\ listed' = [listed EXCEPT !["gc"] = born]
  /\ Goto("gc", "check")
  /\ UNCHANGED <<api, disk, queue, up, id, left, spec, failed, stored, doomed, count>>

\* Slip: sorted newest first.
Newest(completed, age) ==
  {D \in SUBSET completed :
     /\ Cardinality(D) = IF Cardinality(completed) > Keep THEN Cardinality(completed) - Keep ELSE 0
     /\ \A a \in D, b \in completed \ D : age[a] >= age[b]}

\* getOldestArchivesExcludingTheOnesToKeep, of the completed archives.  Which
\* of those created in the same second are deleted is up to the sorting.
Oldest(completed, age) ==
  {D \in SUBSET completed :
     /\ Cardinality(D) = IF Cardinality(completed) > Keep THEN Cardinality(completed) - Keep ELSE 0
     /\ \A a \in D, b \in completed \ D : age[a] <= age[b]}

\* The listed CRs that have a zip are complete; all but the newest must go.
GcChoosesOldest ==
  LET age       == listed["gc"]
      completed == {a \in Archives : age[a] # 0 /\ Exists(a)}
  IN
  /\ At("gc", "check")
  /\ \E found \in IF "io" \in Faults THEN SUBSET completed ELSE {completed} :
       doomed' \in Oldest(found, age)
  /\ Goto("gc", "next")
  /\ UNCHANGED <<api, disk, queue, up, id, left, spec, failed, stored, listed, count>>

\* Oldest first.
GcNext(a) ==
  /\ At("gc", "next") /\ a \in doomed
  /\ \A b \in doomed : listed["gc"][b] >= listed["gc"][a]
  /\ doomed' = doomed \ {a}

\* The CR is deleted by its name, whichever CR that is by now; then the data.
GcDeletesCR(a) ==
  /\ GcNext(a) /\ Present(a)
  /\ IF a \in terminating THEN UNCHANGED <<api, queue>> ELSE CRGone(a)
  /\ id' = [id EXCEPT !["gc"] = a]
  /\ left' = [left EXCEPT !["gc"] = Collectors]
  /\ Goto("gc", "delete")
  /\ UNCHANGED <<disk, up, spec, failed, stored, listed, count>>

\* Slip: no continue after the failed call, the data are deleted anyway.
GcGoesOnAfterFailure(a) ==
  /\ GcNext(a) /\ (~Present(a) \/ "api" \in Faults)
  /\ id' = [id EXCEPT !["gc"] = a]
  /\ left' = [left EXCEPT !["gc"] = Collectors]
  /\ Goto("gc", "delete")
  /\ UNCHANGED <<api, disk, queue, up, spec, failed, stored, listed, count>>

\* There is no such CR, or the call fails: on to the next one.
GcDeleteFails(a) ==
  /\ GcNext(a) /\ (~Present(a) \/ "api" \in Faults)
  /\ UNCHANGED <<api, disk, queue, up, pc, id, left, spec, failed, stored, listed, count>>

GcEnds ==
  /\ At("gc", "next") /\ doomed = {}
  /\ listed' = [listed EXCEPT !["gc"] = NoCRs]
  /\ Goto("gc", "idle")
  /\ UNCHANGED <<api, disk, queue, up, id, left, spec, failed, stored, doomed, count>>

-----------------------------------------------------------------------------
(* The operator dies and is started again *)

Crash ==
  /\ "crash" \in Faults /\ up /\ crashes < MaxCrashes
  /\ crashes' = crashes + 1
  /\ up' = FALSE /\ queue' = {}
  /\ pc' = [p \in Procs |-> "idle"]
  /\ id' = [p \in Procs |-> None]
  /\ left' = [p \in Procs |-> {}]
  /\ spec' = {} /\ failed' = FALSE /\ stored' = {} /\ doomed' = {}
  /\ listed' = [p \in {"sync", "gc"} |-> NoCRs]
  /\ UNCHANGED <<api, disk, second, used, made, changes>>

\* The first list of the watch yields a create event for every CR.
Start ==
  /\ ~up
  /\ up' = TRUE
  /\ queue' = {a \in Archives : Present(a)}
  /\ UNCHANGED <<api, disk, mem, count>>

-----------------------------------------------------------------------------
UserStep(a) ==
  \/ UserCreates(a) \/ UserChangesSpec(a)
  \/ UserDeletes(a) \/ UserDeletesInForeground(a)

Delete(p) == DeletesZip(p) \/ \E c \in Collectors : DeletesCollector(p, c)

WorkerStep ==
  \/ GetFails \/ GetsNothing \/ GetsCR
  \/ ChecksCollectors \/ CheckFails
  \/ TakesNextCollector \/ FindsAllCollected \/ FindsArchive
  \/ CollectorStarts \/ CollectorSucceeds \/ CollectorFails \/ SetsCondition
  \/ OpensZip \/ ClosesZip \/ ZipFails \/ SetsCreated \/ SetCreatedFails
  \/ Delete("worker")

SyncStep ==
  \/ SyncListsZips \/ SyncListFails \/ SyncListsCRs \/ SyncTriggers
  \/ \E a \in Archives : SyncDeletes(a)
  \/ Delete("sync")

GcStep ==
  \/ GcListsCRs \/ GcChoosesOldest \/ GcEnds
  \/ \E a \in Archives : GcDeletesCR(a) \/ GcDeleteFails(a)
  \/ Delete("gc")

Next ==
  \/ \E a \in Archives : UserStep(a) \/ DeletionCompletes(a) \/ PicksUp(a)
  \/ WorkerStep \/ SyncStep \/ GcStep
  \/ Crash \/ Start

\* The queue is first in, first out; the tickers go on; Kubernetes restarts
\* the operator.  Nothing is assumed of users.
Fairness ==
  /\ WF_vars(WorkerStep) /\ \A a \in Archives : SF_vars(PicksUp(a))
  /\ WF_vars(SyncStep) /\ WF_vars(GcStep)
  /\ WF_vars(Start)
  /\ \A a \in Archives : WF_vars(DeletionCompletes(a))

Spec     == Init /\ [][Next]_vars
FairSpec == Spec /\ Fairness

-----------------------------------------------------------------------------
(* Properties *)

Gone(a) == ~Present(a) \/ a \in terminating

\* Data of an archive without a CR never lie around unnoticed: its name is
\* queued, or the worker is about to delete them (the delete branch of
\* Reconcile, and the events that lead to it).  For an operator that neither
\* fails nor restarts.
OrphanIsBeingCleaned ==
  \A a \in Archives : up /\ Gone(a) /\ HasData(a) =>
    a \in queue \/ (id["worker"] = a /\ pc["worker"] \in {"get", "delete"})

\* A CR whose archive is not there yet is never forgotten: every return of
\* HandleArchiveRequest short of a zip queues the request again.
UnfinishedIsScheduled ==
  \A a \in Archives : up /\ ~Gone(a) /\ ~Exists(a) =>
    a \in queue \/ id["worker"] = a

\* What the status of a CR says is on the volume: its download path names a
\* finished zip, a true condition a collector with `.done`, although the
\* status is written after the volume and by name only, and three processes
\* delete.
StatusIsTrue ==
  \A a \in Archives : ~Gone(a) =>
    /\ created[a] => zip[a] \in {"full", "broken"}
    /\ \A c \in Collectors : cond[a][c] = "true" => IsCollected(a, c)

\* Every reconcile takes an archive nearer to its zip: what was collected for a
\* CR is not collected again and stays until the CR goes, although the list of
\* missing collectors is made in one step and used in others, and three processes
\* delete by name (HandleArchiveRequest, one collector per reconcile).  For names
\* that are used once.
CollectedStays ==
  [][\A a \in Archives, c \in Collectors :
       ~Gone(a) /\ ~Gone(a)' /\ IsCollected(a, c) => IsCollected(a, c)']_vars

\* The data of a CR that is there are what its collectors wrote: no process
\* deletes under the worker's hands while it collects or archives for a CR
\* that exists (the by-name deletions of sync and garbage collection against
\* the worker). For collectors that tell the truth about errors.
LiveDataIsIntact ==
  \A a \in Archives : ~Gone(a) =>
    zip[a] # "broken" /\ \A c \in Collectors : work[a][c] # "broken"

\* How far the request for a has come, as ArchiveContract tells it.
Stage(a) ==
  IF Gone(a) THEN "none"
  ELSE IF created[a] THEN "reported"
  ELSE IF zip[a] \in {"full", "broken"} THEN "zipped" ELSE "requested"

Contract == INSTANCE ArchiveContract
              WITH Names <- Archives, stage <- [a \in Archives |-> Stage(a)]

\* Users see their archives go through the stages of ArchiveContract and no
\* others: no status before the zip, and no step back, be it a zip that is
\* deleted while its CR lives or a status that is lost (HandleArchiveRequest
\* against the two loops).  For names that are used once.
KeepsArchiveContract == Contract!Spec

\* b has a zip that is whole, or that the worker is writing.
HasWholeZip(b) ==
  zip[b] = "full" \/ (zip[b] = "partial" /\ id["worker"] = b /\ pc["worker"] = "zipping")

\* Garbage collection leaves the newest Keep archives alone, while users and
\* the worker go on: whenever it deletes a CR, Keep others that are not older
\* still have their zips, or are about to
\* (getOldestArchivesExcludingTheOnesToKeep on a list taken earlier).
GcKeepsNewest ==
  [][\A a \in Archives : GcDeletesCR(a) =>
       Cardinality({b \in Archives \ {a} : born[b] >= born[a] /\ HasWholeZip(b)}) >= Keep]_vars

\* Every archive a user asks for is created and reported, unless the CR goes
\* (HandleArchiveRequest over all its requeues).
EveryArchiveIsCreated ==
  \A a \in Archives : Present(a) ~> (created[a] \/ Gone(a))
=============================================================================
