--------------------------- MODULE ArchiveStream ----------------------------
(***************************************************************************)
(* The making of one zip (createArchive).  An errgroup runs one goroutine  *)
(* per collector, which walks the collector's directory and sends a reader *)
(* for every file on an unbuffered channel, and one that creates the zip   *)
(* and reads these channels one collector after the other.  What the zip   *)
(* holds when all have returned is for ever: a later reconcile looks at    *)
(* its existence only.                                                     *)
(***************************************************************************)
EXTENDS Integers, FiniteSetsExt

CONSTANTS
  Collectors,   \* the required collectors, all of them collected
  None,         \* no collector
  N,            \* how many files each has; the first is `.done`
  Faults,       \* what may go wrong in this instance
  MaxAttempts   \* bound on the number of attempts

AllFaults == { "walk",      \* reading a directory fails
               "open",      \* the zip cannot be created
               "copy",      \* a file cannot be read, or its copy written
               "remove",    \* the zip cannot be removed after an error
               "seal",      \* closing the zip writer or the zip fails
               "race",      \* another process deletes the data, file by file
               "shutdown",  \* the manager's context is cancelled
               "crash" }    \* the process dies at any point

ASSUME ArchiveStreamAssumption ==
  /\ None \notin Collectors
  /\ N \in Nat \ {0} /\ MaxAttempts \in Nat
  /\ Faults \subseteq AllFaults

VARIABLES
  phase,      \* the worker: "idle" or "running" (inside errGroup.Wait)
  str,        \* str[c]: the goroutine that streams collector c
  left,       \* left[c]: the files of c it has still to send
  zipper,     \* the goroutine that writes the zip
  cur,        \* the collector it reads
  todo,       \* the collectors it has still to read
  item,       \* the file of cur it has received last
  failed,     \* a goroutine has returned an error, the context is cancelled
  shutdown,   \* the context of the manager is cancelled
  onDisk,     \* the files of the collectors that are there
  zip,        \* the zip: "none", "open", "sealed" or "unsealed" (no directory)
  entries,    \* the files in it
  kept,       \* history: this attempt could not remove its zip
  attempts,   \* attempts made
  outcome     \* what the last attempt reported

runVars  == <<phase, attempts, outcome>>
strVars  == <<str, left>>
readVars == <<zipper, cur, todo, item>>
zipVars  == <<zip, entries, kept>>
vars == <<runVars, strVars, readVars, zipVars, failed, shutdown, onDisk>>

Files == Collectors \X (1 .. N)

TypeOK ==
  /\ phase \in {"idle", "running"}
  /\ str \in [Collectors -> {"off", "check", "list", "walk", "send", "closed", "returned"}]
  /\ left \in [Collectors -> SUBSET (1 .. N)]
  /\ zipper \in {"off", "open", "next", "read", "copy", "abort", "returned"}
  /\ cur \in Collectors \cup {None}
  /\ zipper \in {"read", "copy"} => cur \in todo
  /\ todo \subseteq Collectors
  /\ item \in 0 .. N
  /\ failed \in BOOLEAN /\ shutdown \in BOOLEAN
  /\ onDisk \subseteq Files
  /\ zip \in {"none", "open", "sealed", "unsealed"}
  /\ entries \subseteq Files /\ kept \in BOOLEAN
  /\ attempts \in 0 .. MaxAttempts
  /\ outcome \in {"none", "ok", "error"}

Init ==
  /\ phase = "idle" /\ attempts = 0 /\ outcome = "none"
  /\ str = [c \in Collectors |-> "off"] /\ left = [c \in Collectors |-> {}]
  /\ zipper = "off" /\ cur = None /\ todo = {} /\ item = 0
  /\ failed = FALSE /\ shutdown = FALSE /\ onDisk = Files
  /\ zip = "none" /\ entries = {} /\ kept = FALSE

\* Slip: the goroutines are given the context of the reconcile.
ParentDone == shutdown

\* errCtx.Done() is ready.
CtxDone == failed \/ shutdown

IsCollected(c) == <<c, 1>> \in onDisk

\* A zip is made when every collector is collected and no zip is there.
StartArchive ==
  /\ phase = "idle" /\ zip = "none" /\ ~shutdown /\ attempts < MaxAttempts
  /\ \A c \in Collectors : IsCollected(c)
  /\ phase' = "running" /\ attempts' = attempts + 1 /\ outcome' = "none"
  /\ str' = [c \in Collectors |-> "check"] /\ left' = [c \in Collectors |-> {}]
  /\ zipper' = "open" /\ cur' = None /\ todo' = Collectors /\ item' = 0
  /\ failed' = FALSE /\ kept' = FALSE
  /\ UNCHANGED <<zip, entries, shutdown, onDisk>>

\* errGroup.Wait returns: the URL, or the first error.
WaitReturns ==
  /\ phase = "running" /\ zipper = "returned"
  /\ \A c \in Collectors : str[c] \in {"closed", "returned"}
  /\ phase' = "idle" /\ outcome' = IF failed THEN "error" ELSE "ok"
  /\ str' = [c \in Collectors |-> "off"] /\ zipper' = "off"
  /\ UNCHANGED <<attempts, left, cur, todo, item, zipVars, failed, shutdown, onDisk>>

-----------------------------------------------------------------------------
(* The goroutine that streams collector c *)

StreamTo(c, place) == str' = [str EXCEPT ![c] = place]

\* streamFromRepository asks IsCollected first.
StreamChecks(c) ==
  /\ str[c] = "check" /\ IsCollected(c)
  /\ StreamTo(c, "list")
  /\ UNCHANGED <<runVars, left, readVars, zipVars, failed, shutdown, onDisk>>

\* WalkDir reads the directory: it visits what is there now.
StreamLists(c) ==
  /\ str[c] = "list" /\ StreamTo(c, "walk")
  /\ left' = [left EXCEPT ![c] = {i \in 1 .. N : <<c, i>> \in onDisk}]
  /\ UNCHANGED <<runVars, readVars, zipVars, failed, shutdown, onDisk>>

\* It is not collected any more, or a directory cannot be read.  The channel
\* stays open.
StreamFails(c) ==
  /\ \/ str[c] = "check" /\ ~IsCollected(c)
     \/ str[c] \in {"check", "list", "walk"} /\ "walk" \in Faults
     \/ str[c] = "list" /\ ~\E i \in 1 .. N : <<c, i>> \in onDisk
  /\ StreamTo(c, "returned") /\ failed' = TRUE
  /\ UNCHANGED <<runVars, left, readVars, zipVars, shutdown, onDisk>>

StreamNext(c) ==
  /\ str[c] = "walk" /\ left[c] # {}
  /\ StreamTo(c, "send")
  /\ UNCHANGED <<runVars, left, readVars, zipVars, failed, shutdown, onDisk>>

\* The file c sends; a walk is in lexical order.
Sent(c) == Min(left[c])
IsSent(c) == left' = [left EXCEPT ![c] = @ \ {Sent(c)}]

\* Slip: writeSaveToChannel is given the context of the reconcile.
StreamDropsOnShutdownOnly(c) ==
  /\ str[c] = "send" /\ shutdown
  /\ StreamTo(c, "walk") /\ IsSent(c)
  /\ UNCHANGED <<runVars, readVars, zipVars, failed, shutdown, onDisk>>

\* Slip: a file that was not sent is sent again.
StreamSendsAgain(c) ==
  /\ str[c] = "send" /\ CtxDone
  /\ StreamTo(c, "walk")
  /\ UNCHANGED <<runVars, left, readVars, zipVars, failed, shutdown, onDisk>>

\* writeSaveToChannel takes the ctx.Done branch: the file is skipped, no error.
StreamDrops(c) ==
  /\ str[c] = "send" /\ CtxDone
  /\ StreamTo(c, "walk") /\ IsSent(c)
  /\ UNCHANGED <<runVars, readVars, zipVars, failed, shutdown, onDisk>>

\* The walk is over: the channel is closed.
StreamCloses(c) ==
  /\ str[c] = "walk" /\ left[c] = {}
  /\ StreamTo(c, "closed")
  /\ UNCHANGED <<runVars, left, readVars, zipVars, failed, shutdown, onDisk>>

-----------------------------------------------------------------------------
(* The goroutine that writes the zip *)

ZipOpens ==
  /\ zipper = "open"
  /\ zipper' = "next" /\ zip' = "open" /\ entries' = {}
  /\ UNCHANGED <<runVars, strVars, cur, todo, item, kept, failed, shutdown, onDisk>>

\* MkdirAll or OpenFile fails, before there is anything to remove.
ZipOpenFails ==
  /\ zipper = "open" /\ "open" \in Faults
  /\ zipper' = "returned" /\ failed' = TRUE
  /\ UNCHANGED <<runVars, strVars, cur, todo, item, zipVars, shutdown, onDisk>>

\* The map of streams is read in any order.
ZipTakesStream ==
  /\ zipper = "next"
  /\ cur' \in todo
  /\ zipper' = "read"
  /\ UNCHANGED <<runVars, strVars, todo, item, zipVars, failed, shutdown, onDisk>>

\* The rendezvous on the channel of cur.
ZipReceives ==
  /\ zipper = "read" /\ str[cur] = "send"
  /\ zipper' = "copy" /\ item' = Sent(cur)
  /\ StreamTo(cur, "walk") /\ IsSent(cur)
  /\ UNCHANGED <<runVars, cur, todo, zipVars, failed, shutdown, onDisk>>

ZipCopies ==
  /\ zipper = "copy" /\ <<cur, item>> \in onDisk
  /\ zipper' = "read" /\ entries' = entries \cup {<<cur, item>>}
  /\ UNCHANGED <<runVars, strVars, cur, todo, item, zip, kept, failed, shutdown, onDisk>>

\* Slip: a file that cannot be read is left out.
ZipSkipsFile ==
  /\ zipper = "copy" /\ (<<cur, item>> \notin onDisk \/ "copy" \in Faults)
  /\ zipper' = "read"
  /\ UNCHANGED <<runVars, strVars, cur, todo, item, zipVars, failed, shutdown, onDisk>>

\* The file cannot be opened, read or written to the zip.
ZipCopyFails ==
  /\ zipper = "copy" /\ (<<cur, item>> \notin onDisk \/ "copy" \in Faults)
  /\ zipper' = "abort"
  /\ UNCHANGED <<runVars, strVars, cur, todo, item, zipVars, failed, shutdown, onDisk>>

\* Slip: break leaves the select, not the loop.
ZipReadsOn ==
  /\ zipper = "read" /\ str[cur] = "closed"
  /\ todo' = todo \ {cur}
  /\ UNCHANGED <<runVars, strVars, zipper, cur, item, zipVars, failed, shutdown, onDisk>>

\* The channel of cur is closed.
ZipSeesClosed ==
  /\ zipper = "read" /\ str[cur] = "closed"
  /\ zipper' = "next" /\ todo' = todo \ {cur}
  /\ UNCHANGED <<runVars, strVars, cur, item, zipVars, failed, shutdown, onDisk>>

\* The select of rangeOverStream takes the ctx.Done branch.
ZipSeesDone ==
  /\ zipper = "read" /\ CtxDone
  /\ zipper' = "abort"
  /\ UNCHANGED <<runVars, strVars, cur, todo, item, zipVars, failed, shutdown, onDisk>>

\* Slip: the deferred function tests an err of its own.
ZipStays ==
  /\ zipper = "abort"
  /\ zipper' = "returned" /\ failed' = TRUE
  /\ UNCHANGED <<runVars, strVars, cur, todo, item, zipVars, shutdown, onDisk>>

\* After an error the writer and the file are closed, then the file removed.
ZipAborts ==
  /\ zipper = "abort"
  /\ zipper' = "returned" /\ failed' = TRUE
  /\ \/ zip' = "none" /\ entries' = {} /\ UNCHANGED kept
     \/ "remove" \in Faults /\ zip' = "sealed" /\ kept' = TRUE /\ UNCHANGED entries
  /\ UNCHANGED <<runVars, strVars, cur, todo, item, shutdown, onDisk>>

\* All streams are read.  Errors of the two Close calls are logged only.
ZipCloses ==
  /\ zipper = "next" /\ todo = {}
  /\ zipper' = "returned"
  /\ zip' \in {"sealed"} \cup (IF "seal" \in Faults THEN {"unsealed"} ELSE {})
  /\ UNCHANGED <<runVars, strVars, cur, todo, item, entries, kept, failed, shutdown, onDisk>>

-----------------------------------------------------------------------------
(* What happens around it *)

\* RemoveAll of the sync or the garbage collection loop meets file i of c.
DataRemoved(c, i) ==
  /\ "race" \in Faults /\ <<c, i>> \in onDisk /\ phase = "running"
  /\ onDisk' = onDisk \ {<<c, i>>}
  /\ UNCHANGED <<runVars, strVars, readVars, zipVars, failed, shutdown>>

\* A collector without `.done` is executed again before the next attempt.
Recollected(c) ==
  /\ phase = "idle" /\ ~IsCollected(c)
  /\ onDisk' = onDisk \cup ({c} \X (1 .. N))
  /\ UNCHANGED <<runVars, strVars, readVars, zipVars, failed, shutdown>>

\* SIGTERM: the signal context, parent of every reconcile context, is cancelled.
Shutdown ==
  /\ "shutdown" \in Faults /\ ~shutdown
  /\ shutdown' = TRUE
  /\ UNCHANGED <<runVars, strVars, readVars, zipVars, failed, onDisk>>

\* A process that is told to stop waits for the worker; one that crashes does
\* not.  A new one starts: the disk is all that is left.
Restart ==
  /\ (shutdown /\ phase = "idle") \/ "crash" \in Faults
  /\ phase' = "idle" /\ outcome' = "none" /\ failed' = FALSE /\ shutdown' = FALSE
  /\ str' = [c \in Collectors |-> "off"] /\ left' = [c \in Collectors |-> {}]
  /\ zipper' = "off" /\ cur' = None /\ todo' = {} /\ item' = 0
  /\ UNCHANGED <<attempts, zipVars, onDisk>>

StreamStep(c) ==
  \/ StreamChecks(c) \/ StreamLists(c) \/ StreamFails(c) \/ StreamNext(c)
  \/ StreamDrops(c) \/ StreamCloses(c)

ZipStep ==
  \/ ZipOpens \/ ZipOpenFails \/ ZipTakesStream \/ ZipReceives \/ ZipCopies
  \/ ZipCopyFails \/ ZipSeesClosed \/ ZipSeesDone \/ ZipAborts \/ ZipCloses

Next ==
  \/ StartArchive \/ WaitReturns \/ ZipStep
  \/ \E c \in Collectors : StreamStep(c) \/ Recollected(c)
  \/ \E c \in Collectors, i \in 1 .. N : DataRemoved(c, i)
  \/ Shutdown \/ Restart

\* Go runs a goroutine that can run; the disk answers.
Fairness ==
  /\ WF_vars(ZipStep) /\ WF_vars(WaitReturns)
  /\ \A c \in Collectors : WF_vars(StreamStep(c))

Spec     == Init /\ [][Next]_vars
FairSpec == Spec /\ Fairness

-----------------------------------------------------------------------------
(* Properties *)

\* A step in which createArchive returns.
Returns == phase = "running" /\ outcome = "none" /\ outcome' # "none"

\* When createArchive returns the download URL, which goes into the CR's status,
\* every file of every required collector is in the zip, although streams and
\* zip learn of each other's errors through the context only (createArchive).
\* Left out: a shutdown, which drops files silently (and the status cannot be
\* written any more), and data deleted meanwhile, which WalkDir may not list.
ReportedZipIsComplete ==
  [][Returns /\ outcome' = "ok" /\ ~shutdown /\ onDisk = Files =>
       zip' = "sealed" /\ entries' = Files]_vars

\* After an error there is no zip that later reconciles could take for the
\* archive, unless Remove fails: "If any error occurs during creating, try to
\* delete the zip to avoid false recognition bei Exists method."
\* (pkg/adapter/archive/file/zipFileArchiveRepository.go:61)
FailedZipIsRemoved ==
  [][Returns /\ outcome' = "error" => zip' = "none" \/ kept]_vars

\* A goroutine waits for nothing: for no reader, no file and no context.
StreamGoesOn(c) == str[c] \in {"check", "list", "walk"} \/ (str[c] = "send" /\ CtxDone)
ZipGoesOn ==
  \/ zipper \in {"open", "next", "copy", "abort"}
  \/ zipper = "read" /\ (CtxDone \/ str[cur] \in {"send", "closed"})

AllReturned ==
  zipper = "returned" /\ \A c \in Collectors : str[c] \in {"closed", "returned"}

\* createArchive never comes to a standstill: no stream waits for a zip that
\* has given up or is reading another stream that will not end, and the zip
\* waits for no stream that has failed and left its channel open, although the
\* only thing they tell each other is the context (writeSaveToChannel and the
\* select of rangeOverStream).
SomebodyGoesOn ==
  phase = "running" =>
    ZipGoesOn \/ AllReturned \/ \E c \in Collectors : StreamGoesOn(c)

\* How many steps are left at most: of the stream of c with the reading of what
\* it sends, and of the zip besides.
StreamWork(c) ==
  LET files == Cardinality(left[c]) IN
  CASE str[c] = "check" -> 3 * N + 3
    [] str[c] = "list"  -> 3 * N + 2
    [] str[c] = "walk"  -> 3 * files + 1
    [] str[c] = "send"  -> 3 * files
    [] OTHER            -> 0
ReadWork(c) ==
  CASE c \notin todo \/ zipper \in {"off", "abort", "returned"} -> 0
    [] c \in todo /\ zipper = "read" /\ c = cur                -> 1
    [] OTHER                                                   -> 2
Work(c) == StreamWork(c) + ReadWork(c)
ZipWork ==
  CASE zipper = "open"                     -> 3
    [] zipper \in {"next", "read", "copy"} -> 2
    [] zipper = "abort"                    -> 1
    [] OTHER                               -> 0

\* Nothing in createArchive is tried twice: each step brings the end nearer, be
\* it a file that is sent, dropped, copied or refused, and data that vanish or
\* a shutdown take it no further away.
CreationRunsDown ==
  [][phase = "running" /\ phase' = "running" =>
       /\ ZipWork' <= ZipWork /\ \A c \in Collectors : Work(c)' <= Work(c)
       /\ \/ ZipWork' < ZipWork \/ \E c \in Collectors : Work(c)' < Work(c)
          \/ UNCHANGED <<strVars, readVars>>]_vars

\* createArchive returns: no stream waits for a zip that has given up, and the
\* zip waits for no stream that has failed without closing its channel
\* (writeSaveToChannel and the select of rangeOverStream).
CreationEnds == (phase = "running") ~> (phase = "idle")
=============================================================================
