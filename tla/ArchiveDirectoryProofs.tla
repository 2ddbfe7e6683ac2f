----------------------- MODULE ArchiveDirectoryProofs -----------------------
(***************************************************************************)
(* The directory of the archives, for every number of names, every set of  *)
(* names with a dot, and every bound on the failures.                      *)
(***************************************************************************)
EXTENDS ArchiveDirectory, TLAPS

\* Whoever is busy is busy with a name that was a CR.
Typed ==
  /\ TypeOK
  /\ \A p \in Procs : name[p] # 0 => name[p] \in used
  /\ \A p \in Procs : op[p] \in {"mkdir", "open", "write", "abort", "remove", "read", "rmdir"} => name[p] # 0

LEMMA NumbersAreNat == NumArchives \in Nat /\ MaxFailures \in Nat
  BY ArchiveDirectoryAssumption

LEMMA InitTyped == Init => Typed
<1> SUFFICES ASSUME Init PROVE Typed
  OBVIOUS
<1>1. 0 \in 0 .. NumArchives /\ 0 \in 0 .. MaxFailures
  BY NumbersAreNat
<1>2. \A p \in Procs : op[p] = "idle" /\ name[p] = 0
  BY DEF Init
<1> QED
  BY <1>1, <1>2 DEF Init, Typed, TypeOK

\* Every step keeps the types.
LEMMA NextTyped == Typed /\ [Next]_vars => Typed'
<1> SUFFICES ASSUME Typed, [Next]_vars PROVE Typed'
  OBVIOUS
<1> USE NumbersAreNat DEF Typed, TypeOK, Goes, Turns, SetZips, KeepsZips, Fails, userVars, walkVars, histVars
<1>1. ASSUME NEW a \in Archives, UserCreates(a) \/ UserDeletes(a) PROVE Typed'
  BY <1>1 DEF UserCreates, UserDeletes
<1>2. ASSUME NEW a \in Archives, PicksUp(a) PROVE Typed'
  <2>1. a \in 0 .. NumArchives /\ a # 0
    BY DEF Archives
  <2>2. CASE WorkerFindsNoCR(a)
    BY <2>1, <2>2 DEF WorkerFindsNoCR
  <2>3. CASE WorkerFindsZip(a)
    BY <2>3 DEF WorkerFindsZip
  <2>4. CASE WorkerStartsZip(a)
    BY <2>1, <2>4 DEF WorkerStartsZip
  <2> QED
    BY <1>2, <2>2, <2>3, <2>4 DEF PicksUp
<1>3. ASSUME NEW a \in Archives, GcDeletesCR(a) PROVE Typed'
  BY <1>3 DEF GcDeletesCR, Procs, Archives
<1>4. CASE CreateStep
  <2>1. CASE MakesDirectory
    BY <2>1 DEF MakesDirectory, Procs
  <2>2. CASE WriteFails \/ MkdirFails
    <3>1. failures' \in 0 .. MaxFailures
      BY <2>2 DEF WriteFails, MkdirFails, Fails
    <3> QED
      BY <2>2, <3>1 DEF WriteFails, MkdirFails, Requeues, Procs
  <2>3. CASE RemovesUnfinished
    <3>1. failures' \in 0 .. MaxFailures
      BY <2>3 DEF RemovesUnfinished
    <3> QED
      BY <2>3, <3>1 DEF RemovesUnfinished, Requeues, Procs
  <2>4. CASE OpensZip
    BY <2>4 DEF OpensZip, Procs
  <2>5. CASE OpenFails \/ WritesZip
    BY <2>5 DEF OpenFails, WritesZip, Requeues, Procs
  <2> QED
    BY <1>4, <2>1, <2>2, <2>3, <2>4, <2>5 DEF CreateStep
<1>5. ASSUME NEW p \in Procs, Delete(p) PROVE Typed'
  <2>1. CASE RemovesZip(p)
    BY <2>1 DEF RemovesZip
  <2>2. CASE FindsEntries(p) \/ FindsNothing(p)
    BY <2>2 DEF FindsEntries, FindsNothing, Returns
  <2>3. CASE RemovesDirectory(p)
    <3>1. dir' \in BOOLEAN
      BY <2>3 DEF RemovesDirectory
    <3> QED
      BY <2>3, <3>1 DEF RemovesDirectory, Returns
  <2> QED
    BY <1>5, <2>1, <2>2, <2>3 DEF Delete
<1>6. CASE WalkBegins \/ Walks
  <2>1. CASE WalkBegins
    BY <2>1 DEF WalkBegins, Procs
  <2>2. CASE Walks
    <3>1. listed' \subseteq used /\ gap' \in BOOLEAN
      BY <2>2 DEF Walks
    <3> QED
      BY <2>2, <3>1 DEF Walks, Procs
  <2> QED
    BY <1>6, <2>1, <2>2
<1>7. CASE SyncGivesUp \/ SyncListsCRs \/ SyncTriggers
  <2>1. CASE SyncGivesUp
    BY <2>1 DEF SyncGivesUp, ForgetsList, Procs
  <2>2. CASE SyncListsCRs
    BY <2>2 DEF SyncListsCRs, ForgetsList, Procs
  <2>3. CASE SyncTriggers
    BY <2>3 DEF SyncTriggers, Procs
  <2> QED
    BY <1>7, <2>1, <2>2, <2>3
<1>8. ASSUME NEW a \in Archives, SyncDeletes(a) PROVE Typed'
  BY <1>8 DEF SyncDeletes, Procs, Archives
<1>9. CASE Restart
  <2>1. 0 \in 0 .. NumArchives /\ failures' \in 0 .. MaxFailures
    BY <1>9 DEF Restart
  <2>2. \A p \in Procs : op'[p] = "idle" /\ name'[p] = 0
    BY <1>9 DEF Restart
  <2> QED
    BY <1>9, <2>1, <2>2 DEF Restart, ForgetsList
<1>10. CASE UNCHANGED vars
  BY <1>10 DEF vars
<1> QED
  BY <1>1, <1>2, <1>3, <1>4, <1>5, <1>6, <1>7, <1>8, <1>9, <1>10 DEF Next, SyncStep, Procs

\* The state has its type: what is queued, listed, worked on and on the volume
\* are names that have had a CR.
THEOREM TypeCorrect == Spec => []TypeOK
<1>1. Typed => TypeOK
  BY DEF Typed
<1> QED
  BY InitTyped, NextTyped, <1>1, PTL DEF Spec

-----------------------------------------------------------------------------
(* Zips stay *)

\* The inductive invariant: the zip of a reported archive is there, and what is
\* being made or deleted is none of those.
StaysInv ==
  /\ reported \cap live \subseteq zips
  /\ todo \cap live = {}
  /\ \A p \in Procs : op[p] \in {"remove", "read", "rmdir"} => name[p] \notin live
  /\ op["worker"] \in {"mkdir", "open", "write", "abort"} => name["worker"] \notin reported
  /\ op["worker"] = "write" /\ name["worker"] \in live => name["worker"] \in zips

LEMMA NextStays == Typed /\ StaysInv /\ [Next]_vars => StaysInv'
<1> SUFFICES ASSUME Typed, StaysInv, [Next]_vars PROVE StaysInv'
  OBVIOUS
<1> USE DEF Typed, TypeOK, StaysInv, Goes, Turns, SetZips, KeepsZips, userVars, walkVars, histVars
<1>1. ASSUME NEW a \in Archives, UserCreates(a) \/ UserDeletes(a) PROVE StaysInv'
  BY <1>1 DEF UserCreates, UserDeletes, Procs
<1>2. ASSUME NEW a \in Archives, PicksUp(a) PROVE StaysInv'
  BY <1>2 DEF PicksUp, WorkerFindsNoCR, WorkerFindsZip, WorkerStartsZip, Procs, Archives
<1>3. ASSUME NEW a \in Archives, GcDeletesCR(a) PROVE StaysInv'
  BY <1>3 DEF GcDeletesCR, Procs, Archives
<1>4. CASE CreateStep
  <2>1. CASE MakesDirectory \/ MkdirFails \/ WriteFails
    BY <2>1 DEF MakesDirectory, MkdirFails, WriteFails, Requeues, Procs
  <2>2. CASE OpensZip \/ RemovesUnfinished
    BY <2>2 DEF OpensZip, RemovesUnfinished, Requeues, Procs
  <2>3. CASE OpenFails \/ WritesZip
    BY <2>3 DEF OpenFails, WritesZip, Requeues, Procs
  <2> QED
    BY <1>4, <2>1, <2>2, <2>3 DEF CreateStep
<1>5. ASSUME NEW p \in Procs, Delete(p) PROVE StaysInv'
  <2>1. CASE RemovesZip(p)
    BY <2>1 DEF RemovesZip, Procs
  <2>2. CASE FindsEntries(p) \/ FindsNothing(p)
    BY <2>2 DEF FindsEntries, FindsNothing, Returns, Procs
  <2>3. CASE RemovesDirectory(p)
    BY <2>3 DEF RemovesDirectory, Returns, Procs
  <2> QED
    BY <1>5, <2>1, <2>2, <2>3 DEF Delete
<1>6. CASE WalkBegins \/ Walks
  BY <1>6 DEF WalkBegins, Walks, Procs
<1>7. CASE SyncGivesUp \/ SyncListsCRs \/ SyncTriggers
  BY <1>7 DEF SyncGivesUp, SyncListsCRs, SyncTriggers, ForgetsList, Procs
<1>8. ASSUME NEW a \in Archives, SyncDeletes(a) PROVE StaysInv'
  BY <1>8 DEF SyncDeletes, Procs, Archives
<1>9. CASE Restart
  BY <1>9 DEF Restart, ForgetsList, Procs
<1>10. CASE UNCHANGED vars
  BY <1>10 DEF vars
<1> QED
  BY <1>1, <1>2, <1>3, <1>4, <1>5, <1>6, <1>7, <1>8, <1>9, <1>10 DEF Next, SyncStep, Procs

\* A zip whose URL was handed out stays while its CR lives, although the
\* directory it is in is removed by others who once found it empty.
THEOREM ReportedZipsStay == Spec => []ReportedZipStays
<1>1. Init => StaysInv
  BY DEF Init, StaysInv
<1>2. StaysInv => ReportedZipStays
  BY DEF StaysInv, ReportedZipStays
<1> QED
  BY InitTyped, NextTyped, <1>1, NextStays, <1>2, PTL DEF Spec

-----------------------------------------------------------------------------
(* Lists are complete *)

\* The inductive invariant: the walk knows what is there.
WalkInv ==
  /\ zips # {} => dir
  /\ Walking => steady \subseteq zips /\ zips \subseteq seen
  /\ CleanListIsComplete

LEMMA NextWalk == Typed /\ WalkInv /\ [Next]_vars => WalkInv'
<1> SUFFICES ASSUME Typed, WalkInv, [Next]_vars PROVE WalkInv'
  OBVIOUS
<1> USE DEF Typed, TypeOK, WalkInv, CleanListIsComplete, Walking, Goes, Turns, SetZips, KeepsZips,
            userVars, walkVars, histVars
<1>1. ASSUME NEW a \in Archives, UserCreates(a) \/ UserDeletes(a) PROVE WalkInv'
  BY <1>1 DEF UserCreates, UserDeletes
<1>2. ASSUME NEW a \in Archives, PicksUp(a) \/ GcDeletesCR(a) PROVE WalkInv'
  BY <1>2 DEF PicksUp, WorkerFindsNoCR, WorkerFindsZip, WorkerStartsZip, GcDeletesCR, Procs
<1>3. CASE CreateStep
  <2>1. CASE MakesDirectory \/ MkdirFails \/ WriteFails
    BY <2>1 DEF MakesDirectory, MkdirFails, WriteFails, Requeues, Procs
  <2>2. CASE OpensZip \/ RemovesUnfinished
    BY <2>2 DEF OpensZip, RemovesUnfinished, Requeues, Procs
  <2>3. CASE OpenFails \/ WritesZip
    BY <2>3 DEF OpenFails, WritesZip, Requeues, Procs
  <2> QED
    BY <1>3, <2>1, <2>2, <2>3 DEF CreateStep
<1>4. ASSUME NEW p \in Procs, Delete(p) PROVE WalkInv'
  <2>1. CASE RemovesZip(p)
    BY <2>1 DEF RemovesZip, Procs
  <2>2. CASE FindsEntries(p) \/ FindsNothing(p)
    BY <2>2 DEF FindsEntries, FindsNothing, Returns, Procs
  <2>3. CASE RemovesDirectory(p)
    BY <2>3 DEF RemovesDirectory, Returns, Procs
  <2> QED
    BY <1>4, <2>1, <2>2, <2>3 DEF Delete
<1>5. CASE WalkBegins
  BY <1>5 DEF WalkBegins, Procs
<1>6. CASE Walks
  BY <1>6 DEF Walks, Procs
<1>7. CASE SyncGivesUp \/ SyncListsCRs \/ SyncTriggers
  BY <1>7 DEF SyncGivesUp, SyncListsCRs, SyncTriggers, ForgetsList, Procs
<1>8. ASSUME NEW a \in Archives, SyncDeletes(a) PROVE WalkInv'
  BY <1>8 DEF SyncDeletes, Procs
<1>9. CASE Restart
  BY <1>9 DEF Restart, ForgetsList, Procs
<1>10. CASE UNCHANGED vars
  BY <1>10 DEF vars
<1> QED
  BY <1>1, <1>2, <1>3, <1>4, <1>5, <1>6, <1>7, <1>8, <1>9, <1>10 DEF Next, SyncStep, Procs

\* A list without an error has every zip that was there during the walk, and
\* none that was not, whatever the others make and delete meanwhile.
THEOREM ListsAreComplete == Spec => []CleanListIsComplete
<1>1. Init => WalkInv
  BY DEF Init, WalkInv, Walking, CleanListIsComplete, Procs
<1>2. WalkInv => CleanListIsComplete
  BY DEF WalkInv
<1> QED
  BY InitTyped, NextTyped, <1>1, NextWalk, <1>2, PTL DEF Spec
-----------------------------------------------------------------------------
(* Requests stay scheduled *)

\* The zips that the worker takes for finished are those that are, and those
\* that are truncated.
Settled == reported \cup truncated

\* The inductive invariant: a worker that is idle holds no name, and a zip that
\* is not finished is the one it writes.
ScheduledInv ==
  /\ UnmadeIsScheduled
  /\ op["worker"] = "idle" => name["worker"] = 0
  /\ truncated \subseteq zips
  /\ \A a \in live \cap zips :
       a \in Settled \/ (name["worker"] = a /\ op["worker"] \in {"write", "abort"})

\* A step that leaves the worker's name alone, queues new CRs, makes no zip and
\* takes none from a CR keeps it.
LEMMA ScheduledKept ==
  ASSUME ScheduledInv, queue \subseteq queue', live' \subseteq live \cup queue',
         \A a \in live' : a \in Settled => a \in Settled',
         \A a \in live' : a \in zips' => a \in live /\ a \in zips,
         truncated' \subseteq zips',
         name'["worker"] = name["worker"], op'["worker"] = "idle" => op["worker"] = "idle",
         op["worker"] \in {"write", "abort"} => op'["worker"] \in {"write", "abort"}
  PROVE  ScheduledInv'
<1>1. UnmadeIsScheduled'
  BY DEF ScheduledInv, UnmadeIsScheduled, Settled
<1> QED
  BY <1>1 DEF ScheduledInv

\* A worker that is done with a name has queued it, has made its zip, or has
\* found no CR; and what it has left of the zip is truncated.
LEMMA ScheduledWhenDone ==
  ASSUME ScheduledInv, live' = live, queue \subseteq queue',
         op'["worker"] = "idle", name'["worker"] = 0,
         \A a \in live : a \in Settled => a \in Settled',
         truncated' \subseteq zips', zips' \subseteq zips,
         name["worker"] \in queue' \/ name["worker"] \notin live \/ name["worker"] \in Settled',
         name["worker"] \in live \cap zips' => name["worker"] \in Settled'
  PROVE  ScheduledInv'
<1>1. UnmadeIsScheduled'
  BY DEF ScheduledInv, UnmadeIsScheduled, Settled
<1>2. \A a \in live \cap zips' : a \in Settled'
  BY DEF ScheduledInv
<1> QED
  BY <1>1, <1>2 DEF ScheduledInv

\* Every step keeps the invariant.
LEMMA NextScheduled == Typed /\ StaysInv /\ ScheduledInv /\ [Next]_vars => ScheduledInv'
<1> SUFFICES ASSUME Typed, StaysInv, ScheduledInv, [Next]_vars PROVE ScheduledInv'
  OBVIOUS
<1>0. /\ op \in [Procs -> {"idle", "mkdir", "open", "write", "abort", "remove", "read", "rmdir",
                           "walk", "crs", "next"}]
      /\ name \in [Procs -> 0 .. NumArchives]
      /\ {"worker", "sync", "gc"} = Procs /\ live \subseteq used /\ zips \subseteq used
      /\ truncated \subseteq zips
  BY DEF Typed, TypeOK, Procs, ScheduledInv
<1> USE DEF Goes, Turns, SetZips, KeepsZips, userVars, walkVars, histVars, Settled
<1>1. ASSUME NEW a \in Archives, UserCreates(a) \/ UserDeletes(a) PROVE ScheduledInv'
  BY <1>0, <1>1, ScheduledKept DEF UserCreates, UserDeletes
<1>2. ASSUME NEW a \in Archives, PicksUp(a) PROVE ScheduledInv'
  <2>1. /\ op["worker"] = "idle" /\ name["worker"] = 0 /\ a # 0
        /\ UNCHANGED <<live, zips, reported, truncated>> /\ queue' = queue \ {a}
    BY <1>2 DEF PicksUp, WorkerFindsNoCR, WorkerFindsZip, WorkerStartsZip, ScheduledInv, Archives
  <2>2. \A b \in Archives : b \in live \ Settled => b \in queue
    BY <2>1 DEF ScheduledInv, UnmadeIsScheduled, Archives
  <2>3. \A b \in live \cap zips : b \in Settled
    BY <2>1 DEF ScheduledInv
  <2>4. CASE WorkerFindsZip(a)
    <3>1. a \in Settled /\ UNCHANGED <<op, name>>
      BY <2>3, <2>4 DEF WorkerFindsZip
    <3> QED
      BY <1>0, <2>1, <2>2, <2>3, <3>1 DEF ScheduledInv, UnmadeIsScheduled
  <2>5. CASE WorkerFindsNoCR(a) \/ WorkerStartsZip(a)
    <3>1. name'["worker"] = a /\ op'["worker"] # "idle"
      BY <1>0, <2>5 DEF WorkerFindsNoCR, WorkerStartsZip, Archives
    <3> QED
      BY <1>0, <2>1, <2>2, <2>3, <3>1 DEF ScheduledInv, UnmadeIsScheduled
  <2> QED
    BY <1>2, <2>4, <2>5 DEF PicksUp
<1>3. ASSUME NEW a \in Archives, GcDeletesCR(a) PROVE ScheduledInv'
  <2>1. op'["worker"] = op["worker"] /\ name'["worker"] = name["worker"]
    BY <1>0, <1>3 DEF GcDeletesCR
  <2> QED
    BY <1>0, <1>3, <2>1, ScheduledKept DEF GcDeletesCR
<1>4. CASE CreateStep
  <2>1. CASE MakesDirectory \/ WriteFails
    <3>1. /\ op'["worker"] # "idle" /\ name'["worker"] = name["worker"]
          /\ op["worker"] \in {"write", "abort"} => op'["worker"] \in {"write", "abort"}
      BY <1>0, <2>1 DEF MakesDirectory, WriteFails
    <3> QED
      BY <1>0, <2>1, <3>1, ScheduledKept DEF MakesDirectory, WriteFails
  <2>2. CASE OpensZip
    <3>1. /\ op["worker"] = "open" /\ op'["worker"] = "write" /\ name' = name
          /\ UNCHANGED <<live, queue, reported>> /\ zips' = zips \cup {name["worker"]}
          /\ truncated' = truncated
      BY <1>0, <2>2 DEF OpensZip
    <3> QED
      BY <1>0, <3>1 DEF ScheduledInv, UnmadeIsScheduled
  <2>3. CASE OpenFails \/ MkdirFails
    <3>1. /\ op'["worker"] = "idle" /\ name'["worker"] = 0 /\ op["worker"] \in {"open", "mkdir"}
          /\ UNCHANGED <<live, zips, reported, truncated>> /\ queue' = queue \cup {name["worker"]}
      BY <1>0, <2>3 DEF OpenFails, MkdirFails, Requeues
    <3>2. \A b \in live \cap zips : b \in Settled
      BY <3>1 DEF ScheduledInv
    <3> QED
      BY <1>0, <3>1, <3>2, ScheduledWhenDone
  <2>4. CASE RemovesUnfinished
    <3>1. /\ op'["worker"] = "idle" /\ name'["worker"] = 0 /\ name["worker"] \notin reported
          /\ UNCHANGED <<live, reported>> /\ queue' = queue \cup {name["worker"]}
      BY <1>0, <2>4 DEF RemovesUnfinished, Requeues, StaysInv
    <3>2. CASE SetZips(zips \ {name["worker"]})
      <4>1. zips' = zips \ {name["worker"]} /\ truncated' = truncated \ {name["worker"]}
        BY <1>0, <3>2
      <4>2. UnmadeIsScheduled'
        BY <3>1, <4>1 DEF ScheduledInv, UnmadeIsScheduled
      <4>3. \A b \in live' \cap zips' : b \in Settled'
        BY <3>1, <4>1 DEF ScheduledInv
      <4> QED
        BY <1>0, <3>1, <4>1, <4>2, <4>3 DEF ScheduledInv
    <3>3. CASE name["worker"] \in zips /\ truncated' = truncated \cup {name["worker"]} /\ zips' = zips
      BY <1>0, <3>1, <3>3, ScheduledWhenDone
    <3> QED
      BY <2>4, <3>2, <3>3 DEF RemovesUnfinished
  <2>5. CASE WritesZip
    <3>1. op'["worker"] = "idle" /\ name'["worker"] = 0
      BY <1>0, <2>5 DEF WritesZip
    <3> QED
      BY <1>0, <2>5, <3>1, ScheduledWhenDone DEF WritesZip
  <2> QED
    BY <1>4, <2>1, <2>2, <2>3, <2>4, <2>5 DEF CreateStep
<1>5. ASSUME NEW p \in Procs, Delete(p) PROVE ScheduledInv'
  <2>1. /\ op[p] \in {"remove", "read", "rmdir"} /\ name[p] \notin live
        /\ UNCHANGED <<live, queue, reported>> /\ zips' \subseteq zips
        /\ truncated' \subseteq zips' /\ \A a \in live : a \in truncated => a \in truncated'
    BY <1>0, <1>5 DEF Delete, RemovesZip, FindsEntries, FindsNothing, RemovesDirectory, StaysInv
  <2>2. CASE p # "worker"
    <3>1. op'["worker"] = op["worker"] /\ name'["worker"] = name["worker"]
      BY <1>0, <1>5, <2>2 DEF Delete, RemovesZip, FindsEntries, FindsNothing, RemovesDirectory, Returns
    <3> QED
      BY <2>1, <3>1, ScheduledKept
  <2>3. CASE p = "worker" /\ (RemovesZip(p) \/ FindsNothing(p))
    <3>1. op'["worker"] # "idle" /\ name'["worker"] = name["worker"]
      BY <1>0, <2>3 DEF RemovesZip, FindsNothing
    <3> QED
      BY <2>1, <2>3, <3>1, ScheduledKept
  <2>4. CASE p = "worker" /\ (FindsEntries(p) \/ RemovesDirectory(p))
    <3>1. op'["worker"] = "idle" /\ name'["worker"] = 0
      BY <1>0, <2>4 DEF FindsEntries, RemovesDirectory, Returns
    <3> QED
      BY <2>1, <2>4, <3>1, ScheduledWhenDone
  <2> QED
    BY <1>5, <2>2, <2>3, <2>4 DEF Delete
<1>6. ASSUME SyncStep, ~Delete("sync") PROVE ScheduledInv'
  <2>1. /\ UNCHANGED <<live, zips, reported, truncated>> /\ queue \subseteq queue'
        /\ op'["worker"] = op["worker"] /\ name'["worker"] = name["worker"]
    BY <1>0, <1>6 DEF SyncStep, WalkBegins, Walks, SyncGivesUp, SyncListsCRs, SyncTriggers,
       SyncDeletes, ForgetsList
  <2> QED
    BY <1>0, <2>1, ScheduledKept
<1>7. CASE Restart
  <2>1. /\ queue' = live /\ UNCHANGED <<live, zips, reported>>
        /\ op'["worker"] = "idle" /\ name'["worker"] = 0
        /\ truncated' = truncated \cup
             {a \in zips : op["worker"] \in {"write", "abort"} /\ name["worker"] = a}
    BY <1>0, <1>7 DEF Restart
  <2>2. \A a \in live \cap zips : a \in Settled'
    BY <2>1 DEF ScheduledInv
  <2> QED
    BY <1>0, <2>1, <2>2 DEF ScheduledInv, UnmadeIsScheduled
<1>8. CASE UNCHANGED vars
  BY <1>0, <1>8, ScheduledKept DEF vars
<1> QED
  BY <1>0, <1>1, <1>2, <1>3, <1>4, <1>5, <1>6, <1>7, <1>8 DEF Next, SyncStep

\* A CR whose zip is not finished is queued or worked on, whoever removes the
\* directory under the worker's hands, and however often calls fail and the
\* operator dies, unless a crash or a failing Remove has left the zip truncated
\* (UnmadeIsScheduled): for every number of archives.
THEOREM UnmadeStaysScheduled == Spec => []UnmadeIsScheduled
<1>1. Init => StaysInv /\ ScheduledInv
  BY DEF Init, StaysInv, ScheduledInv, UnmadeIsScheduled, Settled, Procs
<1>2. ScheduledInv => UnmadeIsScheduled
  BY DEF ScheduledInv
<1> QED
  BY InitTyped, NextTyped, <1>1, NextStays, NextScheduled, <1>2, PTL DEF Spec

-----------------------------------------------------------------------------
(* The directory implements ArchiveContract *)

\* A step that leaves the CR of an archive and its zip alone leaves its stage.
LEMMA SameStage ==
  ASSUME NEW a, a \in live' <=> a \in live, a \in reported' <=> a \in reported,
         a \in live => (a \in zips' <=> a \in zips) \/ a \notin reported
  PROVE  Stage(a)' = Stage(a)
BY DEF Stage

\* The steps the contract allows one archive here.
StageMoves(a) ==
  \/ Stage(a)' = Stage(a)
  \/ Stage(a)' = "none"
  \/ Stage(a) = "none" /\ Stage(a)' = "requested"
  \/ Stage(a) = "requested" /\ Stage(a)' = "zipped"

\* If one archive makes such a step and no other does, the contract is kept.
LEMMA MoveKeepsContract ==
  ASSUME NEW a \in Archives, StageMoves(a), \A b \in Archives \ {a} : Stage(b)' = Stage(b)
  PROVE  Contract!Next \/ UNCHANGED [b \in Archives |-> Stage(b)]
<1> DEFINE stage == [b \in Archives |-> Stage(b)]
<1>1. stage' = [stage EXCEPT ![a] = Stage(a)']
  OBVIOUS
<1>2. stage[a] = Stage(a) /\ (Stage(a)' = Stage(a) => stage' = stage)
  OBVIOUS
<1> QED
  BY <1>1, <1>2 DEF StageMoves, Contract!Next, Contract!Request, Contract!MakeZip,
                    Contract!Withdraw, Contract!Becomes

\* Every call, of whomever, is a step of the contract or none.
LEMMA StepKeepsContract ==
  Typed /\ StaysInv /\ [Next]_vars => Contract!Next \/ UNCHANGED [a \in Archives |-> Stage(a)]
<1> SUFFICES ASSUME Typed, StaysInv, [Next]_vars
             PROVE  Contract!Next \/ UNCHANGED [a \in Archives |-> Stage(a)]
  OBVIOUS
<1> USE DEF SetZips, KeepsZips, userVars, walkVars, histVars
<1>1. ASSUME \A a \in Archives : Stage(a)' = Stage(a)
      PROVE  UNCHANGED [a \in Archives |-> Stage(a)]
  BY <1>1
<1>2. ASSUME NEW a \in Archives, UserCreates(a)
      PROVE  Contract!Next \/ UNCHANGED [b \in Archives |-> Stage(b)]
  <2>1. a \notin live /\ a \notin reported /\ live' = live \cup {a} /\ UNCHANGED <<zips, reported>>
    BY <1>2 DEF UserCreates, Typed, TypeOK
  <2>2. Stage(a) = "none" /\ Stage(a)' = "requested"
    BY <2>1 DEF Stage
  <2>3. \A b \in Archives \ {a} : Stage(b)' = Stage(b)
    BY <2>1, SameStage
  <2> QED
    BY <2>2, <2>3, MoveKeepsContract DEF StageMoves
<1>3. ASSUME NEW a \in Archives, UserDeletes(a) \/ GcDeletesCR(a)
      PROVE  Contract!Next \/ UNCHANGED [b \in Archives |-> Stage(b)]
  <2>1. live' = live \ {a} /\ UNCHANGED <<zips, reported>>
    BY <1>3 DEF UserDeletes, GcDeletesCR
  <2>2. Stage(a)' = "none"
    BY <2>1 DEF Stage
  <2>3. \A b \in Archives \ {a} : Stage(b)' = Stage(b)
    BY <2>1, SameStage
  <2> QED
    BY <2>2, <2>3, MoveKeepsContract DEF StageMoves
<1>4. CASE WritesZip
  <2>1. PICK a \in Archives : a = name["worker"]
    BY <1>4 DEF WritesZip, Typed, TypeOK, Procs
  <2>2. a \notin reported /\ reported' = reported \cup {a} /\ UNCHANGED <<live, zips>>
        /\ (a \in live => a \in zips)
    BY <1>4, <2>1 DEF WritesZip, StaysInv
  <2>3. StageMoves(a)
    BY <2>2 DEF StageMoves, Stage
  <2>4. \A b \in Archives \ {a} : Stage(b)' = Stage(b)
    BY <2>2, SameStage
  <2> QED
    BY <2>3, <2>4, MoveKeepsContract
<1>5. CASE OpensZip \/ RemovesUnfinished
  <2>1. /\ name["worker"] \notin reported /\ UNCHANGED <<live, reported>>
        /\ \A a \in Archives \ {name["worker"]} : a \in zips' <=> a \in zips
    BY <1>5 DEF OpensZip, RemovesUnfinished, StaysInv
  <2> QED
    BY <2>1, <1>1, SameStage
<1>6. ASSUME NEW p \in Procs, Delete(p)
      PROVE  UNCHANGED [a \in Archives |-> Stage(a)]
  <2>1. /\ name[p] \notin live /\ UNCHANGED <<live, reported>>
        /\ \A a \in live : a \in zips' <=> a \in zips
    BY <1>6 DEF Delete, RemovesZip, FindsEntries, FindsNothing, RemovesDirectory, StaysInv
  <2> QED
    BY <2>1, <1>1, SameStage
<1>7. ASSUME \/ \E a \in Archives : PicksUp(a)
             \/ MakesDirectory \/ MkdirFails \/ OpenFails \/ WriteFails
             \/ SyncStep /\ ~Delete("sync")
             \/ Restart \/ UNCHANGED vars
      PROVE  UNCHANGED [a \in Archives |-> Stage(a)]
  <2>1. UNCHANGED <<live, zips, reported>>
    <3>1. ASSUME NEW a \in Archives, PicksUp(a) PROVE UNCHANGED <<live, zips, reported>>
      BY <3>1 DEF PicksUp, WorkerFindsNoCR, WorkerFindsZip, WorkerStartsZip
    <3>2. CASE MakesDirectory \/ MkdirFails \/ OpenFails \/ WriteFails
      BY <3>2 DEF MakesDirectory, MkdirFails, OpenFails, WriteFails
    <3>3. CASE SyncStep /\ ~Delete("sync")
      BY <3>3 DEF SyncStep, WalkBegins, Walks, SyncGivesUp, SyncListsCRs, SyncTriggers, SyncDeletes
    <3>4. CASE Restart \/ UNCHANGED vars
      BY <3>4 DEF Restart, vars
    <3> QED
      BY <1>7, <3>1, <3>2, <3>3, <3>4
  <2> QED
    BY <2>1, <1>1, SameStage
<1>8. {"worker", "sync", "gc"} = Procs
  BY DEF Procs
<1> QED
  BY <1>2, <1>3, <1>4, <1>5, <1>6, <1>7, <1>8 DEF Next, CreateStep

\* Call by call, the directory does what ArchiveContract promises to users, for
\* every number of archives, whatever fails and whenever the operator dies
\* (DirectoryKeepsContract).
THEOREM DirectoryImplementsContract == Spec => DirectoryKeepsContract
<1>1. Init => StaysInv
  BY DEF Init, StaysInv
<1>2. Init => Contract!Init
  BY DEF Init, Contract!Init, Stage
<1>3. Typed /\ StaysInv /\ [Next]_vars => [Contract!Next]_[a \in Archives |-> Stage(a)]
  BY StepKeepsContract
<1> QED
  BY InitTyped, NextTyped, <1>1, NextStays, <1>2, <1>3, PTL
  DEF Spec, DirectoryKeepsContract, Contract!Spec
=============================================================================
