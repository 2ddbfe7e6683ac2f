-------------------------- MODULE ArchiveDirectory --------------------------
(***************************************************************************)
(* The directory of the archives on the volume, call by call.              *)
(*                                                                         *)
(* All zips of a namespace are in one directory.  The reconcile worker     *)
(* makes it (MkdirAll) before it opens a zip in it; whoever deletes a zip  *)
(* (the worker, the sync loop or garbage collection) removes the directory *)
(* when it is empty; and the sync loop walks it.  Nothing is locked, so    *)
(* each of these calls is a step.  What users and the loops do is that of  *)
(* ArchiveLifecycle, without the collectors; no name is used twice.        *)
(*                                                                         *)
(* Names are numbers in the order in which WalkDir visits their zips.  The *)
(* names in Dotted have a dot in them, which Kubernetes allows: no path of *)
(* theirs matches the expression List looks for.                           *)
(***************************************************************************)
EXTENDS Integers

CONSTANTS
  NumArchives,  \* how many names users take
  Dotted,       \* those with a dot
  Loops,        \* the loops that are enabled: "sync", "gc"
  MaxFailures   \* bound on failing calls to the volume, and on crashes

Archives == 1 .. NumArchives

ASSUME ArchiveDirectoryAssumption ==
  /\ NumArchives \in Nat /\ MaxFailures \in Nat
  /\ Dotted \subseteq Archives
  /\ Loops \subseteq {"sync", "gc"}

Procs == {"worker", "sync", "gc"}

VARIABLES
  live,       \* names that have a CR
  used,       \* names that have had one
  queue,      \* the work queue of the controller
  dir,        \* the directory of the namespace exists
  zips,       \* the zips in it
  op,         \* op[p]: what process p does next
  name,       \* name[p]: with which archive, 0 for none
  listed,     \* the zips the walk has found
  gap,        \* the walk ended with an error
  todo,       \* those of them the sync loop is going to delete
  found,      \* the CRs it is going to trigger
  failures,   \* calls that have failed so far, and crashes
  reported,   \* history: the names whose Create has returned a URL
  steady,     \* history: the zips that are there since the walk began
  seen,       \* history: the zips that were there at some time since then
  truncated   \* history: the zips that an attempt has left unfinished

userVars == <<live, used>>
walkVars == <<listed, gap, todo, found>>
histVars == <<steady, seen, truncated>>
vars == <<userVars, queue, dir, zips, op, name, walkVars, failures, reported, histVars>>

TypeOK ==
  /\ live \subseteq used /\ used \subseteq Archives
  /\ queue \subseteq used
  /\ dir \in BOOLEAN
  /\ zips \subseteq used
  /\ op \in [Procs -> {"idle", "mkdir", "open", "write", "abort", "remove", "read", "rmdir",
                       "walk", "crs", "next"}]
  /\ name \in [Procs -> 0 .. NumArchives]
  /\ listed \subseteq used /\ gap \in BOOLEAN
  /\ todo \subseteq used /\ found \subseteq used
  /\ failures \in 0 .. MaxFailures
  /\ reported \subseteq used
  /\ steady \subseteq used /\ seen \subseteq used /\ truncated \subseteq used

Init ==
  /\ live = {} /\ used = {} /\ queue = {}
  /\ dir \in BOOLEAN /\ zips = {}
  /\ op = [p \in Procs |-> "idle"] /\ name = [p \in Procs |-> 0]
  /\ listed = {} /\ gap = FALSE /\ todo = {} /\ found = {}
  /\ failures = 0
  /\ reported = {} /\ steady = {} /\ seen = {} /\ truncated = {}

-----------------------------------------------------------------------------
(* Steps *)

Goes(p, place) == op' = [op EXCEPT ![p] = place]

Turns(p, place, a) == Goes(p, place) /\ name' = [name EXCEPT ![p] = a]

\* The sync loop is between the beginning of its walk and the use of the list.
Walking == op["sync"] \in {"walk", "crs"}

SetZips(there) ==
  /\ zips' = there
  /\ steady' = steady \cap there
  /\ seen' = IF Walking THEN seen \cup there ELSE seen
  /\ truncated' = truncated \cap there

KeepsZips == UNCHANGED <<zips, histVars>>

\* A call to the volume that may fail does, or the operator dies.
Fails == failures < MaxFailures /\ failures' = failures + 1

-----------------------------------------------------------------------------
(* Users *)

UserCreates(a) ==
  /\ a \notin used
  /\ live' = live \cup {a} /\ used' = used \cup {a} /\ queue' = queue \cup {a}
  /\ KeepsZips /\ UNCHANGED <<dir, op, name, walkVars, failures, reported>>

UserDeletes(a) ==
  /\ a \in live
  /\ live' = live \ {a} /\ queue' = queue \cup {a}
  /\ KeepsZips /\ UNCHANGED <<used, dir, op, name, walkVars, failures, reported>>

-----------------------------------------------------------------------------
(* The worker, and ZipFileArchiveRepository.Create *)

\* Get finds no CR: the data are deleted.
WorkerFindsNoCR(a) ==
  /\ op["worker"] = "idle" /\ a \in queue /\ a \notin live
  /\ queue' = queue \ {a}
  /\ Turns("worker", "remove", a)
  /\ KeepsZips /\ UNCHANGED <<userVars, dir, walkVars, failures, reported>>

\* Exists says that there is a zip: nothing is left to do, even if it is
\* one that was left unfinished.
WorkerFindsZip(a) ==
  /\ op["worker"] = "idle" /\ a \in queue \cap live \cap zips
  /\ queue' = queue \ {a}
  /\ KeepsZips /\ UNCHANGED <<userVars, dir, op, name, walkVars, failures, reported>>

WorkerStartsZip(a) ==
  /\ op["worker"] = "idle" /\ a \in (queue \cap live) \ zips
  /\ queue' = queue \ {a}
  /\ Turns("worker", "mkdir", a)
  /\ KeepsZips /\ UNCHANGED <<userVars, dir, walkVars, failures, reported>>

\* Slip: the name is forgotten before it is queued again.
RequeuesNothing ==
  /\ Turns("worker", "idle", 0)
  /\ queue' = queue \cup {name'["worker"]}

\* Back in the queue: the reconcile has returned an error.
Requeues ==
  /\ queue' = queue \cup {name["worker"]}
  /\ Turns("worker", "idle", 0)

\* Slip: the directory is expected to be there.
MakesNoDirectory ==
  /\ op["worker"] = "mkdir"
  /\ Goes("worker", "open")
  /\ KeepsZips /\ UNCHANGED <<userVars, queue, dir, name, walkVars, failures, reported>>

MakesDirectory ==
  /\ op["worker"] = "mkdir"
  /\ dir' = TRUE
  /\ Goes("worker", "open")
  /\ KeepsZips /\ UNCHANGED <<userVars, queue, name, walkVars, failures, reported>>

\* MkdirAll fails: Create returns at once.
MkdirFails ==
  /\ op["worker"] = "mkdir" /\ Fails
  /\ Requeues
  /\ KeepsZips /\ UNCHANGED <<userVars, dir, walkVars, reported>>

OpensZip ==
  /\ op["worker"] = "open" /\ dir
  /\ SetZips(zips \cup {name["worker"]})
  /\ Goes("worker", "write")
  /\ UNCHANGED <<userVars, queue, dir, name, walkVars, failures, reported>>

\* Someone has removed the directory since.
OpenFails ==
  /\ op["worker"] = "open" /\ ~dir
  /\ Requeues
  /\ KeepsZips /\ UNCHANGED <<userVars, dir, walkVars, failures, reported>>

WritesZip ==
  /\ op["worker"] = "write"
  /\ reported' = reported \cup {name["worker"]}
  /\ Turns("worker", "idle", 0)
  /\ KeepsZips /\ UNCHANGED <<userVars, queue, dir, walkVars, failures>>

WriteFails ==
  /\ op["worker"] = "write" /\ Fails
  /\ Goes("worker", "abort")
  /\ KeepsZips /\ UNCHANGED <<userVars, queue, dir, name, walkVars, reported>>

\* Slip: the deferred function looks at an `err` that is shadowed.
KeepsUnfinished ==
  /\ op["worker"] = "abort"
  /\ Requeues
  /\ KeepsZips /\ UNCHANGED <<userVars, dir, walkVars, failures, reported>>

\* Create's deferred function; the directory stays.  If Remove fails, that is
\* logged, and the unfinished zip stays.
RemovesUnfinished ==
  /\ op["worker"] = "abort"
  /\ \/ SetZips(zips \ {name["worker"]}) /\ UNCHANGED failures
     \/ /\ name["worker"] \in zips /\ Fails
        /\ truncated' = truncated \cup {name["worker"]}
        /\ UNCHANGED <<zips, steady, seen>>
  /\ Requeues
  /\ UNCHANGED <<userVars, dir, walkVars, reported>>

-----------------------------------------------------------------------------
(* ZipFileArchiveRepository.Delete, run by any process *)

\* Remove; that there is no such zip is an error, and an error stops nothing.
RemovesZip(p) ==
  /\ op[p] = "remove"
  /\ \/ SetZips(zips \ {name[p]}) /\ UNCHANGED failures
     \/ name[p] \in zips /\ Fails /\ KeepsZips
  /\ Goes(p, "read")
  /\ UNCHANGED <<userVars, queue, dir, name, walkVars, reported>>

\* The worker and garbage collection are done with the archive, the sync loop
\* goes on with the next.
Returns(p) == Turns(p, IF p = "sync" THEN "next" ELSE "idle", 0)

\* removeDirIfEmpty: ReadDir fails, or finds an entry.
FindsEntries(p) ==
  /\ op[p] = "read" /\ (~dir \/ zips # {})
  /\ Returns(p)
  /\ KeepsZips /\ UNCHANGED <<userVars, queue, dir, walkVars, failures, reported>>

FindsNothing(p) ==
  /\ op[p] = "read" /\ dir /\ zips = {}
  /\ Goes(p, "rmdir")
  /\ KeepsZips /\ UNCHANGED <<userVars, queue, dir, name, walkVars, failures, reported>>

\* Slip: RemoveAll instead of Remove.
RemovesWholeDirectory(p) ==
  /\ op[p] = "rmdir"
  /\ dir' = FALSE /\ SetZips({})
  /\ Returns(p)
  /\ UNCHANGED <<userVars, queue, walkVars, failures, reported>>

\* removeDirIfEmpty: Remove of a directory that may have filled again, which
\* the system refuses.
RemovesDirectory(p) ==
  /\ op[p] = "rmdir"
  /\ dir' = (dir /\ zips # {})
  /\ Returns(p)
  /\ KeepsZips /\ UNCHANGED <<userVars, queue, walkVars, failures, reported>>

Delete(p) == RemovesZip(p) \/ FindsEntries(p) \/ FindsNothing(p) \/ RemovesDirectory(p)

-----------------------------------------------------------------------------
(* The sync loop, with ZipFileArchiveRepository.List *)

\* WalkDir reads the directory of all namespaces.
WalkBegins ==
  /\ op["sync"] = "idle" /\ "sync" \in Loops
  /\ steady' = zips /\ seen' = zips
  /\ listed' = {} /\ gap' = FALSE
  /\ Goes("sync", IF dir THEN "walk" ELSE "crs")
  /\ UNCHANGED <<userVars, queue, dir, zips, name, todo, found, failures, reported, truncated>>

\* Slip: the function returns no error for a path that is not an archive.
WalkSkipsOthers ==
  /\ op["sync"] = "walk"
  /\ listed' = zips \ Dotted /\ gap' = ~dir
  /\ Goes("sync", "crs")
  /\ KeepsZips /\ UNCHANGED <<userVars, queue, dir, name, todo, found, failures, reported>>

\* Slip: the last entry is not looked at.
WalkMissesLast ==
  /\ op["sync"] = "walk"
  /\ listed' = {a \in zips : \E b \in zips : a < b} /\ gap' = ~dir
  /\ Goes("sync", "crs")
  /\ KeepsZips /\ UNCHANGED <<userVars, queue, dir, name, todo, found, failures, reported>>

\* It reads the directory of the namespace, unless that is gone, and visits
\* the entries up to the first that does not match.
Walks ==
  /\ op["sync"] = "walk"
  /\ listed' = {a \in zips : \A d \in zips \cap Dotted : a < d}
  /\ gap' = (~dir \/ zips \cap Dotted # {})
  /\ Goes("sync", "crs")
  /\ KeepsZips /\ UNCHANGED <<userVars, queue, dir, name, todo, found, failures, reported>>

ForgetsList ==
  /\ listed' = {} /\ gap' = FALSE
  /\ steady' = {} /\ seen' = {}

\* An error is an end only if nothing was listed.
SyncGivesUp ==
  /\ op["sync"] = "crs" /\ gap /\ listed = {}
  /\ Goes("sync", "idle")
  /\ ForgetsList
  /\ UNCHANGED <<userVars, queue, dir, zips, name, todo, found, failures, reported, truncated>>

\* The CRs are listed; the zips without one are to be deleted.
SyncListsCRs ==
  /\ op["sync"] = "crs" /\ ~(gap /\ listed = {})
  /\ todo' = listed \ live /\ found' = live
  /\ Goes("sync", "next")
  /\ ForgetsList
  /\ UNCHANGED <<userVars, queue, dir, zips, name, failures, reported, truncated>>

SyncDeletes(a) ==
  /\ op["sync"] = "next" /\ a \in todo
  /\ todo' = todo \ {a}
  /\ Turns("sync", "remove", a)
  /\ KeepsZips /\ UNCHANGED <<userVars, queue, dir, listed, gap, found, failures, reported>>

SyncTriggers ==
  /\ op["sync"] = "next" /\ todo = {}
  /\ queue' = queue \cup found /\ found' = {}
  /\ Goes("sync", "idle")
  /\ KeepsZips /\ UNCHANGED <<userVars, dir, name, listed, gap, todo, failures, reported>>

-----------------------------------------------------------------------------
(* Garbage collection *)

\* It deletes a CR that has a zip, then its data.  Which one it chooses is
\* the subject of ArchiveLifecycle.
GcDeletesCR(a) ==
  /\ op["gc"] = "idle" /\ "gc" \in Loops /\ a \in live \cap zips
  /\ live' = live \ {a} /\ queue' = queue \cup {a}
  /\ Turns("gc", "remove", a)
  /\ KeepsZips /\ UNCHANGED <<used, dir, walkVars, failures, reported>>

-----------------------------------------------------------------------------
(* The operator *)

\* The process dies at any point and a new one starts.  What was queued for a
\* CR that is gone is lost; every CR there is gets queued.  The zip that was
\* being written stays as it is.
Restart ==
  /\ Fails
  /\ queue' = live
  /\ op' = [p \in Procs |-> "idle"] /\ name' = [p \in Procs |-> 0]
  /\ ForgetsList /\ todo' = {} /\ found' = {}
  /\ truncated' = truncated \cup
       {a \in zips : op["worker"] \in {"write", "abort"} /\ name["worker"] = a}
  /\ UNCHANGED <<userVars, dir, zips, reported>>

-----------------------------------------------------------------------------
PicksUp(a) == WorkerFindsNoCR(a) \/ WorkerFindsZip(a) \/ WorkerStartsZip(a)

CreateStep ==
  \/ MakesDirectory \/ MkdirFails \/ OpensZip \/ OpenFails
  \/ WritesZip \/ WriteFails \/ RemovesUnfinished

SyncStep ==
  \/ WalkBegins \/ Walks \/ SyncGivesUp \/ SyncListsCRs \/ SyncTriggers
  \/ \E a \in Archives : SyncDeletes(a)
  \/ Delete("sync")

Next ==
  \/ \E a \in Archives : UserCreates(a) \/ UserDeletes(a) \/ PicksUp(a) \/ GcDeletesCR(a)
  \/ CreateStep \/ Delete("worker") \/ SyncStep \/ Delete("gc")
  \/ Restart

\* The queue is first in, first out, the ticker of the sync loop goes on, and
\* calls return.  Nothing is assumed of users and of what gc chooses.
Fairness ==
  /\ \A a \in Archives : SF_vars(PicksUp(a))
  /\ WF_vars(CreateStep \/ Delete("worker"))
  /\ WF_vars(SyncStep) /\ WF_vars(Delete("gc"))

Spec     == Init /\ [][Next]_vars
FairSpec == Spec /\ Fairness

-----------------------------------------------------------------------------
(* Properties *)

\* A zip whose URL was handed out is there as long as its CR is: no Delete of
\* another archive takes it along with the directory it has found empty
\* (removeDirIfEmpty), and none is for a CR that lives.
ReportedZipStays == reported \cap live \subseteq zips

\* A list without an error is complete: it has every zip that was there all
\* the time, and nothing that was not there (List; the sync loop trusts it).
CleanListIsComplete ==
  op["sync"] = "crs" => listed \subseteq seen /\ (gap \/ steady \subseteq listed)

\* How far the request for a has come, as ArchiveContract tells it; a zip that
\* is being written, or was left behind in a crash, is none yet.
Stage(a) ==
  IF a \notin live THEN "none"
  ELSE IF a \in reported \cap zips THEN "zipped" ELSE "requested"

Contract == INSTANCE ArchiveContract
              WITH Names <- Archives, stage <- [a \in Archives |-> Stage(a)]

\* Call by call, with three processes in one directory, the volume keeps what
\* ArchiveContract promises: zips are finished one at a time, each for a CR that
\* asked for it, and no call for one archive takes the zip of another back
\* (Create, Delete and removeDirIfEmpty).
DirectoryKeepsContract == Contract!Spec

\* A CR whose zip is not finished is never forgotten, whoever removes the
\* directory between MkdirAll and OpenFile and whatever fails: its name waits
\* for the worker, or the worker is at it (Create, whose error makes Reconcile
\* repeat it).  Only a zip that a crash or a failing Remove has left unfinished
\* is taken for one that is finished (Exists).
UnmadeIsScheduled ==
  \A a \in Archives : a \in live \ (reported \cup truncated) =>
    a \in queue \/ name["worker"] = a

\* Whoever removes the directory, a requested zip is finished and its URL
\* returned in the end: MkdirAll is part of every attempt (Create), and failed
\* ones are repeated.  The exception is that of UnmadeIsScheduled.
EveryZipIsMade ==
  \A a \in Archives : (a \in live) ~> (a \in reported \/ a \notin live \/ a \in truncated)

\* A zip without a CR does not stay for ever, be it that Delete could not remove
\* it, or that the event was lost in a crash: "sync will clean up later anyway"
\* (pkg/adapter/kubernetes/supportArchiveController.go:54).  The sync loop does
\* not see names with a dot, nor what the walk visits behind one.
SyncCleansUp ==
  \A a \in Archives : (\A d \in Dotted : a < d) =>
    ((a \in zips /\ a \notin live) ~> (a \notin zips))
=============================================================================
