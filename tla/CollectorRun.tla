---------------------------- MODULE CollectorRun ----------------------------
(***************************************************************************)
(* One collector of one support archive, over as many attempts as the      *)
(* reconcile worker gives it.                                              *)
(*                                                                         *)
(* An attempt (startCollector) runs two goroutines in an errgroup: the     *)
(* collector produces the items 1..N and sends them on an unbuffered       *)
(* channel, the file repository receives them and writes them to the       *)
(* collector's work directory.  The `.done` file of that directory is what *)
(* later reconciles read as "this collector has finished".                 *)
(*                                                                         *)
(* The kinds of collector differ in how an item reaches the disk, and in   *)
(* how it is sent:                                                         *)
(*   "append"  one log file, kept open in a map of the repository          *)
(*             (logs, events);                                             *)
(*   "csv"     files kept open behind a buffered csv writer (node infos);  *)
(*   "yaml"    one file per item, rewritten whole (volumes, secrets);      *)
(*   "state"   the same for the system state.                              *)
(* "csv" and "state" send without watching the context.                    *)
(***************************************************************************)
EXTENDS Integers

CONSTANTS
  N,               \* how many items the collector finds
  Kinds,           \* the kinds of collector of this instance
  Faults,          \* what may go wrong in this instance
  MaxAttempts      \* bound on the number of attempts

AllFaults == { "collect",   \* the provider's query fails
               "write",     \* writing an item fails
               "delete",    \* RemoveAll of the directory fails half way
               "flush",     \* the csv writer's unchecked Flush fails
               "finish",    \* creating or writing `.done` fails
               "close",     \* closing the data file fails
               "shutdown",  \* the manager's context is cancelled
               "crash",     \* the process dies at any point
               "remove",    \* the CR is deleted between two attempts
               "unlink",    \* the same, while an attempt has left a file open
               "race" }     \* the sync loop deletes the data during an attempt

ASSUME CollectorRunAssumption ==
  /\ N \in Nat
  /\ MaxAttempts \in Nat
  /\ Kinds \subseteq {"append", "csv", "yaml", "state"}
  /\ Faults \subseteq AllFaults

Items == 1 .. N

VARIABLES
  kind,       \* the kind of this collector
  phase,      \* the worker: "idle" or "running" (inside errGroup.Wait)
  col,        \* the collector goroutine
  sent,       \* items the collector has handed over or dropped
  colErr,     \* the collector's error
  repo,       \* the repository goroutine
  item,       \* the item it has received last
  repoErr,    \* the repository's error
  cancelled,  \* the errgroup has cancelled its context
  shutdown,   \* the context of the manager is cancelled
  content,    \* content[i]: copies of item i on disk
  buffer,     \* buffer[i]: copies of item i in the csv writer
  done,       \* the `.done` file exists
  file,       \* the open data file: "none", "live" or "stale" (unlinked)
  attempts,   \* attempts made
  outcome,    \* what the last attempt reported
  abandoned,  \* history: an attempt or a Delete ended without tidying up
  damaged     \* history: a Delete was cut off and has left `.done` without data

runVars  == <<kind, phase, attempts, outcome>>
colVars  == <<col, sent, colErr>>
repoVars == <<repo, item, repoErr>>
diskVars == <<content, buffer, done, file>>
histVars == <<abandoned, damaged>>
vars == <<runVars, colVars, repoVars, diskVars, cancelled, shutdown, histVars>>

Nothing == [i \in Items |-> 0]

TypeOK ==
  /\ kind \in Kinds
  /\ phase \in {"idle", "running"}
  /\ col \in {"off", "produce", "send", "closed", "returned"}
  /\ sent \in 0 .. N
  /\ repo \in {"off", "select", "create", "tidy", "delete", "flush", "finish", "close", "returned"}
  /\ item \in 0 .. N
  /\ colErr \in BOOLEAN /\ repoErr \in BOOLEAN /\ cancelled \in BOOLEAN
  /\ shutdown \in BOOLEAN /\ done \in BOOLEAN
  /\ abandoned \in BOOLEAN /\ damaged \in BOOLEAN
  /\ content \in [Items -> Nat]
  /\ buffer \in [Items -> Nat]
  /\ file \in {"none", "live", "stale"}
  /\ attempts \in 0 .. MaxAttempts
  /\ outcome \in {"none", "ok", "error"}

Init ==
  /\ kind \in Kinds
  /\ phase = "idle" /\ attempts = 0 /\ outcome = "none"
  /\ col = "off" /\ sent = 0 /\ colErr = FALSE
  /\ repo = "off" /\ item = 0 /\ repoErr = FALSE
  /\ cancelled = FALSE /\ shutdown = FALSE
  /\ abandoned = FALSE /\ damaged = FALSE
  /\ content = Nothing /\ buffer = Nothing /\ done = FALSE /\ file = "none"

-----------------------------------------------------------------------------
(* The worker *)

\* Slip: the goroutines are given the context of the reconcile.
ParentDone == shutdown

\* errCtx.Done() is ready: the group was cancelled, or its parent context was.
CtxDone == cancelled \/ shutdown

\* A collector is executed only while its repository does not say IsCollected.
StartCollector ==
  /\ phase = "idle" /\ ~done /\ ~shutdown /\ attempts < MaxAttempts
  /\ phase' = "running" /\ attempts' = attempts + 1 /\ outcome' = "none"
  /\ col' = "produce" /\ sent' = 0 /\ colErr' = FALSE
  /\ repo' = "select" /\ item' = 0 /\ repoErr' = FALSE
  /\ cancelled' = FALSE
  /\ UNCHANGED <<kind, diskVars, shutdown, histVars>>

\* errGroup.Wait returns once both goroutines have returned.
WaitReturns ==
  /\ phase = "running" /\ col = "returned" /\ repo = "returned"
  /\ phase' = "idle" /\ col' = "off" /\ repo' = "off"
  /\ outcome' = IF colErr \/ repoErr THEN "error" ELSE "ok"
  /\ UNCHANGED <<kind, attempts, sent, colErr, item, repoErr, diskVars,
                 cancelled, shutdown, histVars>>

-----------------------------------------------------------------------------
(* The collector goroutine *)

\* It sends with writeSaveToChannel; the others with a plain `ch <- x`.
SelectsOnDone == kind \in {"append", "yaml"}

\* Slip: one item too many.
CollectorProducesOneMore ==
  /\ col = "produce" /\ sent <= N
  /\ col' = "send"
  /\ UNCHANGED <<runVars, sent, colErr, repoVars, diskVars, cancelled, shutdown, histVars>>

\* The next item is there to be sent.
CollectorProduces ==
  /\ col = "produce" /\ sent < N
  /\ col' = "send"
  /\ UNCHANGED <<runVars, sent, colErr, repoVars, diskVars, cancelled, shutdown, histVars>>

\* Slip: a failed query makes the collector begin again.
CollectorBeginsAgain ==
  /\ col = "produce" /\ ("collect" \in Faults \/ CtxDone)
  /\ sent' = 0
  /\ UNCHANGED <<runVars, col, colErr, repoVars, diskVars, cancelled, shutdown, histVars>>

\* A query fails, by itself or because the context is done.  The deferred
\* close(resultChan) runs before errgroup sees the error.
CollectorFails ==
  /\ col = "produce" /\ ("collect" \in Faults \/ CtxDone)
  /\ col' = "closed" /\ colErr' = TRUE
  /\ UNCHANGED <<runVars, sent, repoVars, diskVars, cancelled, shutdown, histVars>>

\* Slip: the collector stops at an empty page instead of at the last one.
CollectorEndsEarly ==
  /\ col = "produce" /\ sent <= N
  /\ col' = "closed"
  /\ UNCHANGED <<runVars, sent, colErr, repoVars, diskVars, cancelled, shutdown, histVars>>

CollectorEnds ==
  /\ col = "produce" /\ sent = N
  /\ col' = "closed"
  /\ UNCHANGED <<runVars, sent, colErr, repoVars, diskVars, cancelled, shutdown, histVars>>

\* Slip: the select has a default branch.
CollectorDropsWhenBusy ==
  /\ SelectsOnDone /\ col = "send" /\ (CtxDone \/ repo # "select")
  /\ col' = "produce" /\ sent' = sent + 1
  /\ UNCHANGED <<runVars, colErr, repoVars, diskVars, cancelled, shutdown, histVars>>

\* Slip: the context given to writeSaveToChannel is not the group's.
CollectorDropsOnShutdownOnly ==
  /\ SelectsOnDone /\ col = "send" /\ shutdown
  /\ col' = "produce" /\ sent' = sent + 1
  /\ UNCHANGED <<runVars, colErr, repoVars, diskVars, cancelled, shutdown, histVars>>

\* writeSaveToChannel takes the ctx.Done branch: the item is lost, no error.
CollectorDrops ==
  /\ SelectsOnDone /\ col = "send" /\ CtxDone
  /\ col' = "produce" /\ sent' = sent + 1
  /\ UNCHANGED <<runVars, colErr, repoVars, diskVars, cancelled, shutdown, histVars>>

\* errgroup records the error and cancels the context.
CollectorReturns ==
  /\ col = "closed"
  /\ col' = "returned"
  /\ cancelled' = (cancelled \/ colErr)
  /\ UNCHANGED <<runVars, sent, colErr, repoVars, diskVars, shutdown, histVars>>

\* The rendezvous on the unbuffered channel.
HandOver ==
  /\ col = "send" /\ repo = "select"
  /\ col' = "produce" /\ sent' = sent + 1
  /\ repo' = "create" /\ item' = sent + 1
  /\ UNCHANGED <<runVars, colErr, repoErr, diskVars, cancelled, shutdown, histVars>>

-----------------------------------------------------------------------------
(* The repository goroutine: create, with the functions of its kind *)

\* createLog: the first line of an attempt opens the file, unless the map
\* still holds one.
WritesLine ==
  /\ kind = "append"
  /\ file' = IF file = "none" THEN "live" ELSE file
  /\ content' = IF file = "stale" THEN content
                ELSE [content EXCEPT ![item] = @ + 1]
  /\ UNCHANGED buffer

\* createNodeInfo: the csv writer keeps the row or writes its buffer out.
WritesRow ==
  LET rows == [buffer EXCEPT ![item] = @ + 1] IN
  /\ kind = "csv"
  /\ file' = IF file = "none" THEN "live" ELSE file
  /\ \/ buffer' = rows /\ UNCHANGED content
     \/ /\ buffer' = Nothing
        /\ content' = IF file = "stale" THEN content
                      ELSE [i \in Items |-> content[i] + rows[i]]

\* createYAMLFile: the file of the item is written anew.
WritesFile ==
  /\ kind \in {"yaml", "state"}
  /\ content' = [content EXCEPT ![item] = 1]
  /\ UNCHANGED <<file, buffer>>

\* createFn succeeds.
RepositoryWrites ==
  /\ repo = "create"
  /\ WritesLine \/ WritesRow \/ WritesFile
  /\ repo' = "select"
  /\ UNCHANGED <<runVars, colVars, item, repoErr, done, cancelled, shutdown, histVars>>

\* createFn fails: the repository goes on to handleCreateErr.
RepositoryWriteFails ==
  /\ repo = "create" /\ "write" \in Faults
  /\ repo' = "tidy"
  /\ UNCHANGED <<runVars, colVars, item, repoErr, diskVars, cancelled, shutdown, histVars>>

\* What is on disk once the open files are flushed and closed.
Flushed == IF file = "live" THEN [i \in Items |-> content[i] + buffer[i]] ELSE content

\* Slip: handleCreateErr without closeFn.
ErrorSkipsClose ==
  /\ repo = "tidy"
  /\ repo' = "delete"
  /\ UNCHANGED <<runVars, colVars, item, repoErr, diskVars, cancelled, shutdown, histVars>>

\* handleCreateErr: first closeFn, if the repository has one.
ErrorCloses ==
  /\ repo = "tidy"
  /\ repo' = "delete"
  /\ content' \in {Flushed} \cup (IF "flush" \in Faults THEN {content} ELSE {})
  /\ buffer' = Nothing /\ file' = "none"
  /\ UNCHANGED <<runVars, colVars, item, repoErr, done, cancelled, shutdown, histVars>>

\* RemoveAll that is cut off leaves any part of the directory: of the log file,
\* of the files of the items, and of `.done`.
Parts == IF kind = "append" THEN {{}, Items} ELSE SUBSET Items
RemovesAllBut(kept) ==
  /\ content' = [i \in Items |-> IF i \in kept THEN content[i] ELSE 0]
  /\ done' \in {FALSE, done}
  /\ damaged' = (done' /\ (damaged \/ content' # content))
RemovesAll == content' = Nothing /\ done' = FALSE /\ damaged' = FALSE

\* Then deleteFn: RemoveAll of the directory.
Tidy ==
  /\ repo = "delete"
  /\ RemovesAll
  /\ repo' = "returned" /\ repoErr' = TRUE /\ cancelled' = TRUE
  /\ UNCHANGED <<runVars, colVars, item, buffer, file, shutdown, abandoned>>

\* The same with a RemoveAll that fails after removing some of the files.
TidyFails ==
  /\ repo = "delete" /\ "delete" \in Faults
  /\ \E kept \in Parts : RemovesAllBut(kept)
  /\ repo' = "returned" /\ repoErr' = TRUE /\ cancelled' = TRUE
  /\ abandoned' = TRUE
  /\ UNCHANGED <<runVars, colVars, item, buffer, file, shutdown>>

\* The select of create takes the ctx.Done branch: no closeFn, no deleteFn.
RepositorySeesDone ==
  /\ repo = "select" /\ CtxDone
  /\ repo' = "returned" /\ repoErr' = TRUE /\ cancelled' = TRUE
  /\ abandoned' = TRUE
  /\ UNCHANGED <<runVars, colVars, item, diskVars, shutdown, damaged>>

\* Slip: the base finishCollection is called before the files are flushed.
RepositoryMarksBeforeFlush ==
  /\ repo = "select" /\ col \in {"closed", "returned"}
  /\ repo' = IF kind = "csv" THEN "flush" ELSE "finish"
  /\ done' = TRUE
  /\ UNCHANGED <<runVars, colVars, item, repoErr, content, buffer, file,
                 cancelled, shutdown, histVars>>

\* The channel is closed and drained: finishFn is called.
RepositorySeesClosed ==
  /\ repo = "select" /\ col \in {"closed", "returned"}
  /\ repo' = IF kind = "csv" THEN "flush" ELSE "finish"
  /\ UNCHANGED <<runVars, colVars, item, repoErr, diskVars, cancelled, shutdown, histVars>>

\* Slip: the files are closed without flushing their writers.
RepositoryClosesUnflushed ==
  /\ repo = "flush"
  /\ repo' = "finish"
  /\ buffer' = Nothing /\ file' = "none"
  /\ UNCHANGED <<runVars, colVars, item, repoErr, content, done, cancelled, shutdown, histVars>>

\* NodeInfoRepository.finishCollection closes its files first.  Nobody looks
\* at the error of Flush, an error of Close is joined to the result.
RepositoryFlushes ==
  /\ repo = "flush"
  /\ repo' = "finish"
  /\ buffer' = Nothing /\ file' = "none"
  /\ content' \in {Flushed} \cup (IF "flush" \in Faults THEN {content} ELSE {})
  /\ repoErr' \in {FALSE, file # "none" /\ "close" \in Faults}
  /\ UNCHANGED <<runVars, colVars, item, done, cancelled, shutdown, histVars>>

\* The base finishCollection writes `.done`.
RepositoryFinishes ==
  /\ repo = "finish"
  /\ done' = TRUE
  /\ repo' = IF repoErr THEN "returned" ELSE "close"
  /\ cancelled' = (cancelled \/ repoErr)
  /\ UNCHANGED <<runVars, colVars, item, repoErr, content, buffer, file, shutdown, histVars>>

\* It cannot create `.done`, or creates it and cannot write "done" into it.
\* create returns at once, without closeFn.
RepositoryFinishFails ==
  /\ repo = "finish" /\ "finish" \in Faults
  /\ done' \in BOOLEAN
  /\ repo' = "returned" /\ repoErr' = TRUE /\ cancelled' = TRUE
  /\ abandoned' = TRUE
  /\ UNCHANGED <<runVars, colVars, item, content, buffer, file, shutdown, damaged>>

\* doSafeClose: the log file is closed, for the other kinds nothing is open.
RepositoryCloses ==
  /\ repo = "close"
  /\ repo' = "returned" /\ file' = "none"
  /\ repoErr' \in {FALSE, file # "none" /\ "close" \in Faults}
  /\ cancelled' = (cancelled \/ repoErr')
  /\ UNCHANGED <<runVars, colVars, item, content, buffer, done, shutdown, histVars>>

-----------------------------------------------------------------------------
(* What happens around the attempts *)

\* The CR is gone: DeleteArchiveUseCase.Delete works on the directory, for the
\* worker between two attempts or for the sync loop during one.
InDelete ==
  /\ \/ phase = "idle" /\ file # "live" /\ "remove" \in Faults
     \/ phase = "idle" /\ file = "live" /\ "unlink" \in Faults
     \/ phase = "running" /\ "race" \in Faults
  /\ done \/ content # Nothing \/ file = "live"

\* Its RemoveAll succeeds.  A file that is still open loses its directory entry;
\* the repository's map keeps it.
DataRemoved ==
  /\ InDelete
  /\ RemovesAll
  /\ file' = IF file = "live" THEN "stale" ELSE file
  /\ outcome' = "none"
  /\ UNCHANGED <<kind, phase, attempts, colVars, repoVars, buffer, cancelled, shutdown, abandoned>>

\* It fails half way, and nobody tries again; or it is that of the sync loop,
\* half way through while the attempt goes on.
PartRemoved ==
  /\ InDelete /\ ("delete" \in Faults \/ phase = "running")
  /\ \E kept \in Parts :
       /\ RemovesAllBut(kept)
       /\ file' = IF file = "live" /\ kept # Items THEN "stale" ELSE file
  /\ outcome' = "none" /\ abandoned' = TRUE
  /\ UNCHANGED <<kind, phase, attempts, colVars, repoVars, buffer, cancelled, shutdown>>

\* SIGTERM: the signal context, parent of every reconcile context, is cancelled.
Shutdown ==
  /\ "shutdown" \in Faults /\ ~shutdown
  /\ shutdown' = TRUE
  /\ UNCHANGED <<runVars, colVars, repoVars, diskVars, cancelled, histVars>>

\* The process ends and a new one starts: the disk is all that is left, and
\* what a RemoveAll has not come to.
Restart ==
  /\ shutdown \/ "crash" \in Faults
  /\ phase' = "idle" /\ outcome' = "none"
  /\ col' = "off" /\ sent' = 0 /\ colErr' = FALSE
  /\ repo' = "off" /\ item' = 0 /\ repoErr' = FALSE
  /\ cancelled' = FALSE /\ shutdown' = FALSE
  /\ buffer' = Nothing /\ file' = "none"
  /\ \/ /\ abandoned' = (abandoned \/ phase = "running")
        /\ UNCHANGED <<content, done, damaged>>
     \/ /\ InDelete \/ repo = "delete"
        /\ \E kept \in Parts : RemovesAllBut(kept)
        /\ abandoned' = TRUE
  /\ UNCHANGED <<kind, attempts>>

-----------------------------------------------------------------------------
CollectorStep ==
  \/ CollectorProduces \/ CollectorFails \/ CollectorEnds
  \/ CollectorDrops \/ CollectorReturns

RepositoryStep ==
  \/ RepositoryWrites \/ RepositoryWriteFails \/ ErrorCloses \/ Tidy \/ TidyFails
  \/ RepositorySeesDone \/ RepositorySeesClosed \/ RepositoryFlushes
  \/ RepositoryFinishes \/ RepositoryFinishFails \/ RepositoryCloses

Next ==
  \/ StartCollector \/ WaitReturns
  \/ CollectorStep \/ HandOver \/ RepositoryStep
  \/ DataRemoved \/ PartRemoved \/ Shutdown \/ Restart

\* Go runs a goroutine that can run; the provider and the disk answer.
Fairness ==
  /\ WF_vars(CollectorStep) /\ WF_vars(HandOver) /\ WF_vars(RepositoryStep)
  /\ WF_vars(WaitReturns)

Spec     == Init /\ [][Next]_vars
FairSpec == Spec /\ Fairness

-----------------------------------------------------------------------------
(* Properties *)

\* An attempt that reported success left `.done` and at least one copy of
\* every item (startCollector returning nil, create and the collectors'
\* sends).  While the manager shuts down the collectors drop items silently,
\* so an attempt a shutdown has met is left out.
ReportedSuccessIsComplete ==
  outcome = "ok" /\ ~shutdown =>
    done /\ \A i \in Items : content[i] > 0

\* `.done` stands for a complete collection: "The existence of the file
\* indicates that the collector fetched successfully." (docs/dev/usage.md:24)
\* The only exception is what a Delete that was cut off leaves behind.
DoneMeansComplete ==
  done /\ ~damaged => \A i \in Items : content[i] > 0

\* Once `.done` is there, nothing is written to the collector's directory any
\* more: every data write of create comes before finishFn.  Its files change no
\* more, only a Delete that is cut off takes some of them away.
FinishedDataIsFrozen ==
  [][done /\ done' =>
       content' = content \/ (damaged' /\ \A i \in Items : content'[i] \in {0, content[i]})]_vars

\* A second copy of an item, or a data file still open between two attempts,
\* is left by an attempt that ended without handleCreateErr's clean-up or
\* without closeFn (the ctx.Done branch of create, a failed RemoveAll, a failed
\* finishFn, or the end of the process), or by a Delete that was cut off.
LeftoversComeFromAbandonedWork ==
  \/ abandoned
  \/ /\ \A i \in Items : content[i] + buffer[i] < 2
     /\ phase = "idle" => file = "none" /\ buffer = Nothing

\* A goroutine waits for nothing: for no receiver, no item and no context.
CollectorGoesOn ==
  col \in {"produce", "closed"} \/ (col = "send" /\ SelectsOnDone /\ CtxDone)
RepositoryGoesOn ==
  \/ repo \in {"create", "tidy", "delete", "flush", "finish", "close"}
  \/ repo = "select" /\ (CtxDone \/ col \in {"send", "closed", "returned"})

\* Both goroutines wait, and not both have returned.
Standstill ==
  /\ phase = "running" /\ ~CollectorGoesOn /\ ~RepositoryGoesOn
  /\ ~(col = "returned" /\ repo = "returned")

\* The one way for an attempt to stand still: the repository has returned an
\* error, and the collector sends without watching the context. Whoever uses
\* writeSaveToChannel, and every repository, learns of the other side's end
\* (the channel between Collect and create).
OnlyBlindSendersBlock ==
  Standstill => ~SelectsOnDone /\ col = "send" /\ repo = "returned" /\ repoErr

\* How many steps the goroutines take at most before both have returned.
CollectorWork ==
  CASE col = "produce" -> 3 * (N - sent) + 2
    [] col = "send"    -> 3 * (N - sent) + 1
    [] col = "closed"  -> 1
    [] OTHER           -> 0
RepositoryWork ==
  CASE repo = "create"              -> 5
    [] repo = "select"              -> 4
    [] repo = "flush"               -> 3
    [] repo \in {"finish", "tidy"}  -> 2
    [] repo \in {"close", "delete"} -> 1
    [] OTHER                        -> 0
Work == CollectorWork + RepositoryWork

\* Nothing in an attempt is tried twice: each step of a goroutine brings the
\* end nearer, failing steps and hand-overs included, and what goes on around
\* the attempt takes it no further away (Collect and create).
AttemptRunsDown ==
  [][phase = "running" /\ phase' = "running" =>
       Work' < Work \/ UNCHANGED <<colVars, repoVars>>]_vars

Contract == INSTANCE CollectorContract
              WITH stored <- {i \in Items : content[i] > 0}, collected <- done

\* The collector's directory keeps what CollectorContract promises: create
\* writes `.done` last, after every item, and only Delete takes data away.
KeepsContract == Contract!Spec

\* Every attempt ends: the errgroup's Wait returns, so the only reconcile
\* worker is free for the next request. "Select ctx.Done on writing to avoid
\* blocking this process if the receiver throws an error and does not read the
\* channel anymore." (pkg/adapter/collector/logs.go:34)
AttemptEnds == (phase = "running") ~> (phase = "idle")
=============================================================================
