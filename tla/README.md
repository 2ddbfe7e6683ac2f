# A model of the support archive operator

The operator watches `SupportArchive` custom resources (CRs). For each it runs a
number of collectors (logs, events, volumes, node infos, secrets, system state),
keeps what they collect on a volume, packs it into a zip, and writes the zip's
URL into the CR's status. Two loops beside the controller remove archives that
have no CR, and CRs of which there are too many. This directory holds a TLA+
model of that program, the TLC configurations that check it on small instances,
and proofs about its core for all instances.

Paths below are relative to the repository; `CA:98` and the like abbreviate
`pkg/usecase/create_archive.go:98`.

## The system

| component | state it keeps | operations | hard behaviour |
|---|---|---|---|
| Reconciler (`pkg/adapter/kubernetes`) | the work queue of controller-runtime | `Reconcile`: create branch, delete branch; results: requeue after 1 ns, error, done | one collector per reconcile: every early return must queue the request again or be final |
| Create use case (`pkg/usecase/create_archive.go`) | none of its own; reads `.done` files and the zip's existence | `HandleArchiveRequest`, `startCollector`, `createArchive`, status updates | two errgroups with a goroutine per collector, errors that travel by context; dying between zip and status |
| Collectors (`pkg/adapter/collector`) | none | `Collect`: query, send every item, close the channel | `close` by `defer` before the error is known; sends with and without a `select` on the context |
| File repositories (`baseFileRepository.go` and the files of each kind) | a directory per archive and collector, `.done`; maps of open files and csv writers | `create`, `finishCollection`, `close`, `Delete`, `IsCollected`, `Stream` | error paths that clean up and ones that do not, open files that outlive their directory, buffered rows |
| Zip repository (`zipFileArchiveRepository.go`) | `<namespace>/<name>.zip` | `Create`, `Delete`, `Exists`, `List` | the zip is written in its final place; its existence is all that is looked at later; one directory that is made, emptied, removed and walked by three processes |
| Delete use case | none | delete each collector's directory, then the zip | no lock, by name, for three callers at once |
| Sync loop | the zips and CRs it has listed | delete zips without a CR, trigger a reconcile of every CR | acts on lists that are out of date |
| Garbage collection loop | the CRs and zips it has listed | delete the oldest completed CRs and their data | the same; "newest" must survive |
| Loki log provider | the position of its search | `findLogs`: window after window, page after page | a full page may be cut off anywhere; loops without a bound |
| Prometheus metrics provider | the page of a query | `queryRange` for each of thirteen metrics | pages against the end of the time frame; requests that fail half way |
| `main.go` | | start, signal context | everything in memory is lost; only the volume and the API server remain |
| Configuration, filesystem adapter, domain types, Helm chart | | | no behaviour of their own; not modelled |

The components meet in three places. The *volume*: `.done` of a collector's
directory and the existence of the zip are the operator's only memory. The *API
server*: the CR's existence, spec and status. *Channels*: collector to repository
(`startCollector`), repository to zip (`createArchive`), sync loop to controller.

What makes it correct, by component:

* an attempt of a collector that reports success has stored everything
  (`ReportedSuccessIsComplete`), `.done` means complete (`DoneMeansComplete`),
  nothing is written behind it (`FinishedDataIsFrozen`), attempts end
  (`AttemptEnds`): they never repeat themselves (`AttemptRunsDown`) and stand
  still in one place only (`OnlyBlindSendersBlock`);
* a log search finds every line (`NothingIsMissed`), loses at most a page when
  it is cancelled (`OnlyTheLastPageIsLost`), repeats lines once at most
  (`NoLineThreeTimes`), moves on with each page (`SearchMovesOn`) and ends
  (`SearchEnds`); the metrics are complete
  (`NoSampleIsMissed`), repeated at page borders only (`OnlyBordersTwice`), and
  asked for in pages one behind the other (`CollectMovesOn`);
* a zip that is reported holds every file (`ReportedZipIsComplete`), one that
  failed is gone (`FailedZipIsRemoved`), its making ends (`CreationEnds`), since
  its goroutines never all wait for each other (`SomebodyGoesOn`) and each of
  their steps leaves less to do (`CreationRunsDown`);
* the zips' directory loses no zip of a CR (`ReportedZipStays`), gets every
  requested one, finished and reported (`UnmadeIsScheduled`, `EveryZipIsMade`), is listed truly
  (`CleanListIsComplete`) and cleaned up (`SyncCleansUp`), and does call by call
  what is promised of archives (`DirectoryKeepsContract`);
* requests are not forgotten (`UnfinishedIsScheduled`), archives get created
  (`EveryArchiveIsCreated`), a reconcile never undoes another (`CollectedStays`),
  the status says what is so (`StatusIsTrue`), and users see no step back (`KeepsArchiveContract`);
* data without a CR are on their way out (`OrphanIsBeingCleaned`,
  `SyncCleansUp`), data with a CR are left alone (`LiveDataIsIntact`),
  and garbage collection keeps the newest (`GcKeepsNewest`).

## The modules

| module | what it is |
|---|---|
| `CollectorContract` | what a collector's directory promises: items are gathered, then it is finished and frozen until it is discarded, or until a deletion is cut off |
| `CollectorRun` | one collector of one archive over several attempts: worker, collector goroutine, repository goroutine; implements `CollectorContract` |
| `CollectorRunProofs`, `CollectorLeftoverProofs` | the theorems about `CollectorRun` |
| `LogPaging`, `LogPagingProofs` | the search of the logs and events in Loki, and the theorems about it |
| `MetricPaging`, `MetricPagingProofs` | the thirteen metrics of the node info collector, in pages, and the theorems about them |
| `ArchiveStream`, `ArchiveStreamProofs` | the making of one zip: a goroutine per collector that streams its files, one that writes the zip; the theorems |
| `ArchiveDirectory`, `ArchiveDirectoryProofs` | the directory all zips are in, call by call: `Create`, `Delete` by three processes, `List`; the theorems |
| `ArchiveLifecycle` | CRs, users, volume, the reconcile worker, the sync and the garbage collection loop, crashes |
| `ArchiveLifecycleProofs`, `ArchiveDataProofs` | the theorems about `ArchiveLifecycle`: requests and status, and the data on the volume |
| `ArchiveContract` | what users see of an archive: requested, zipped, reported, withdrawn; `ArchiveLifecycle` and `ArchiveDirectory` implement it |
| `MCArchiveLifecycle` | symmetry for TLC |

The modules are layers. `ArchiveLifecycle` has one step for the start and one for
each outcome of a collector's attempt, and one for the opening and one for each
outcome of a zip; `CollectorRun` and `ArchiveStream` say which outcomes there
are. An attempt that fails may leave its directory empty, partial, with `.done`,
or with `.done` but not all data: that is what `CollectorRun` shows
(`ArchiveLifecycle!CollectorFails`). `LogPaging` and `MetricPaging` are one layer
below `CollectorRun`: they say which items a collector produces, and
`CollectorProduces`, `CollectorFails` and `CollectorEnds` are what remains of
them there. `ArchiveDirectory` is the layer below the zip steps of
`ArchiveLifecycle`: one step of `OpensZip`, `DeletesZip` or `SyncListsZips` there
is a sequence of calls here, and the processes' calls interleave. What the two
layers have in common is `ArchiveContract`: each implements it.

Every module contains operators whose comment begins with "Slip:". They are not
part of the specification. Each is a variant of the definition that follows it,
with a mistake a programmer could make in the code it stands for; in place of
that definition it must make the property named in `PROJECT.json` fail.

### CollectorRun

`startCollector` (CA:334-355). The collector goroutine is `col`:
`produce -> send -> produce ... -> closed -> returned`. Between `closed` and
`returned` lies the gap between the deferred `close(resultChan)` and errgroup
taking notice of the error, which is what makes `.done` unreliable (below). The
repository goroutine is `repo`: `select` is the select of `create`, `create` the
call of `createFn`, `tidy` and `delete` the two halves of `handleCreateErr`,
`flush`, `finish`, `close` the three stages of the end. The variable `kind`,
chosen at the start, says how an item reaches the disk: an appended log file kept open in a map
(logs, events), a csv writer with a buffer (node infos), or one file per item
(volumes, secrets, system state). `SelectsOnDone` tells senders that use
`writeSaveToChannel` from those that do not (node infos, system state).

The disk is a number of copies for each item (`content`), so that duplicates can
be seen, plus `done`. `file` is the entry of the repository's map: "stale" is an
entry whose file was unlinked by a `Delete` of another goroutine.

`Faults` names what may go wrong in an instance; each fault guards the failing
branch of one or several actions. A CR that is deleted between two attempts is
"remove", or "unlink" when an attempt has left a file open.

A deletion is `RemoveAll` of the directory, for the worker (`DataRemoved`), for a
failing attempt (`TidySucceeds`) or for the sync loop during one. It may stop
anywhere: with an error ("delete": `PartRemoved`, `TidyFails`) or because the
process dies (`Restart`). `RemovesAllBut` is what it leaves then: any of the files,
with or without `.done`. Nobody tries again, so the next attempt, possibly for a CR
created again under that name, meets what is left. Two history variables keep
track. `abandoned`: an attempt or a deletion ended without its clean-up. `damaged`:
a deletion that was cut off has taken data away and left `.done`; only a whole
deletion ends that, as `IsCollected` keeps the collector from running again.

### LogPaging

`findLogs` (`pkg/adapter/loki/lokiLogsProvider.go:96-129`). `from` is where the
next window begins, `page` the last answer, `sent` how often each line was
written to the channel. `Init` gives each line an instant (`stamp`); instants are
nanoseconds, which is what makes `AfterFullPage` step by one. Loki is external:
`IsAnswer` says that it sends the earliest `Limit` lines of the window, and that
which lines of one instant it cuts off is open. `Written` is
`writeSaveToChannel`, which drops lines without an error once the context is
done. `WritePanics` is a line whose text is the JSON literal `null`.

### MetricPaging

`queryRange` (`pkg/adapter/prometheus/v1/api.go:120-168`) for the metrics in the
order of `NodeInfoCollector.Collect`, with the hardware or the usage step.
Instants are counted in steps of the metric's query; `whole` and `ragged` say
where the time frame ends, on a step or between two. `LastPage` is the comparison
of `pageEnd` with `end`, `PageInstants` what Prometheus evaluates for a range
with both ends included.

### ArchiveStream

`createArchive` (CA:157-204). `str[c]` is the goroutine that streams collector
`c` (`check`: IsCollected; `list`: WalkDir reads the directory; `walk`, `send`:
its callback), `zipper` the one that runs `ZipFileArchiveRepository.Create`.
`CtxDone` is the shared context; both selects, of `writeSaveToChannel` and of
`rangeOverStream`, take a ready branch at random. `onDisk` holds the files, which
`DataRemoved` takes away one by one.

### ArchiveDirectory

`op[p]` is the call process `p` makes next on the archive `name[p]`. The worker:
`mkdir`, `open`, `write` and, after an error, `abort` are the four calls of
`Create`. Any process: `remove`, `read` and `rmdir` are `Delete` with
`removeDirIfEmpty`. The sync loop: `walk` is between `WalkDir`'s two reads of a
directory, `crs` has the list. Names are numbers in the order of the walk, so "the
entries before the first that does not match" is an inequality; names in `Dotted`
never match the expression of `List`. `steady` and `seen` are history: the zips
that were there all the time, and at some time, since the walk began. The
operating system contributes three facts: an open in a directory that is gone
fails, removing a directory that is not empty fails, and reading a directory
gives what is in it at that moment. Each call of `Create`, the deferred `Remove`
included, may fail for other reasons as well. `truncated`, also history, holds the zips
that an attempt has left unfinished: its `Remove` failed, or the process died.
`Exists` takes them for finished.

### ArchiveLifecycle

The API server is `uid`, `required` (the collectors a spec does not exclude),
`terminating`, `cond` and `created`; the volume is `work` and `zip`; the rest is
memory of the operator, lost in `Crash`. The three processes have a program
counter each. `DeletesCollector` and `DeletesZip` are `DeleteArchiveUseCase.Delete`
for whichever process is in `delete`: one directory at a time, no lock. The event
filter of the controller (creation, deletion, change of generation) is `Event`,
used by the users' actions; status updates do not pass it. `born`
is the creation timestamp of a CR, in seconds as in Kubernetes: two CRs may have
the same, and which of them garbage collection takes for the older one is open.

## The runs

| run | instance | what it shows |
|---|---|---|
| `CollectorStored` | all four kinds, 3 items, 3 attempts; storage failures, crashes, deletions between attempts, cut off or not | `.done` means complete unless a deletion that was cut off left it, nothing is written behind it, the run implements `CollectorContract`, and only a sender that does not watch the context stands still |
| `CollectorEnds` | the kinds that send with `writeSaveToChannel`, 3 items, 3 attempts; the same, failing queries and a shutdown | a reported success is complete; duplicates and open files only come from abandoned attempts and deletions that were cut off; each step brings the end nearer; `AttemptEnds` |
| `StreamZip` | 2 collectors with 2 files, 2 attempts; everything but seal errors | a reported zip is complete, a failed one is removed, streams and zip do not wait for each other, each step leaves less to do, `createArchive` returns |
| `LogPages` | 5 lines (one of them `null`) at any of 4 instants or at the end, pages of 2, windows of 3; failing requests and conversions, cancellation | the search is complete, bounded in what it loses and repeats, and ends |
| `MetricPages` | pages of 1, 2 and 3 steps, time frames of 0 to 5 steps for each of the two steps; failing requests, answers that are no matrix | the metrics are complete, repeated at borders only, and the collector ends |
| `LifeLoops` | 2 archives, 1 collector, both loops, API failures, deletions (also in the foreground) | orphaned data are always about to be removed, live data are intact, what was collected stays, and the run implements `ArchiveContract` |
| `LifeRecreate` | 1 archive created twice, 2 collectors, no loops, every failure and a crash, all that users do | unfinished requests stay scheduled, the status is true |
| `LifeCreated` | 2 archives, 1 collector, both loops, `Keep` = 1, spec changes | every archive is created; the newest with a whole zip, or one in the making, is kept |
| `Directory` | 2 archives, the second with a dot in its name, both loops, 2 failing calls or crashes | the calls implement `ArchiveContract`, so no reported zip is lost with its directory, every zip that is not truncated by a crash or a failing `Remove` is scheduled until it is finished, and gets finished and reported, a list without an error is complete, zips that `Delete` or a crash left without a CR are removed |
| `DoneAfterCollectorError` | log file; a query may fail | violation of `DoneMeansComplete` |
| `WorkerBlocked` | node infos and system state, blocking sends; a write may fail | violation of `AttemptEnds` |
| `CrashBeforeStatus` | 1 archive, 1 crash | violation of `EveryArchiveIsCreated` |

**Bounds.** `N` = 3 items (2 files of a zip) give a first, a last, and a state in
between; every property is about "all" or "some" of them. Two or three attempts:
one that leaves something behind, one that meets it, one after that. Five lines
on four instants with pages of two give: a page of one instant that is full, one
that is overfull (three lines, of which one cannot be found), a full page that
ends inside an instant, two full pages in one window, an empty window, a window
that is cut at the end of the time frame, and lines at its very end. Time frames
of up to five steps with pages of one to three give: none, shorter than a page,
exactly one, several, exactly several, with and without a rest. Two archives are
what garbage collection needs to choose, and what the single worker needs to be
busy with another name. Two collectors make "some collected, some not" and a
requeue between them; runs with two archives have one. `MaxCreated`, `MaxChanges`
and `MaxCrashes` bound what users and Kubernetes do.
`Directory` needs two names: one whose removal empties the directory, one that is
made meanwhile. The dotted one comes last, so that the walk has one to list before
it. `MaxFailures` bounds failing calls and crashes; with failures without end nothing could be
promised of the clean-up.

**Deadlock** is not checked in any run: the bounds on attempts, creations and
crashes end the behaviours, and an operator with nothing to do rests. Where
"everyone waits for everyone" is the danger, the liveness properties
(`AttemptEnds`, `CreationEnds`, `EveryArchiveIsCreated`) exclude it, and
`OnlyBlindSendersBlock` and `SomebodyGoesOn` say the same as invariants: they
list what each goroutine can do next, the partner of each channel included.

**Fairness.** `LogPaging` and `MetricPaging`: weak fairness of the provider's
steps (a request is answered or fails, the loop goes on), none of a cancellation.
That the lines and samples are taken off the channel is assumed there; when they
are not is the subject of `CollectorRun`. `CollectorRun` and `ArchiveStream`: weak fairness of the goroutines
(Go runs what can run; a provider's query and a write to the volume return, with
or without an error, as the code sets no timeouts of its own) and of
`errGroup.Wait`. Nothing is assumed about faults. `ArchiveLifecycle`: weak
fairness of the worker and both loops (the tickers go on), strong fairness of
`PicksUp` for each name since the work queue is first in, first out and names are
added and taken while others are worked on, weak fairness of `Start` (Kubernetes
restarts the pod) and of the end of a foreground deletion. Nothing is assumed of
users. `ArchiveDirectory`: the same for the worker, the sync loop and the calls
garbage collection has begun, nothing about which CRs it chooses. Symmetry is used in safety runs only.

## The proofs

`CollectorRunProofs`, for every `N`, set of kinds, set of faults and bound:

| theorem | statement |
|---|---|
| `TypeCorrect` | `Spec => []TypeOK` |
| `SuccessIsComplete` | `Lossless => (Spec => []ReportedSuccessIsComplete)` |
| `FinishedDataStays` | `Spec => FinishedDataIsFrozen`, with every fault |
| `DoneIsComplete` | `Honest => (Spec => []DoneMeansComplete)` |
| `CollectorRefinesContract` | `Honest => (Spec => KeepsContract)` |
| `OnlyBlindSendersStandStill` | `Spec => []OnlyBlindSendersBlock`, with every fault |
| `AttemptsRunDown` | `Spec => AttemptRunsDown`, with every fault |

`Lossless`: no unchecked flush errors, no deletion during an attempt, and none
between attempts while a file is open. Each of these, let in, breaks the property
(divergences below), so the assumption says exactly where the code is safe.
`Honest`: additionally no failing query and no shutdown.

`LogPagingProofs`, for every finite set of lines, every limit and window of at
least 1, every time frame and set of faults: `TypeCorrect`; `SearchIsComplete`
(`Spec => []NothingIsMissed`), `CancelledSearchLosesOnePage`
(`Spec => []OnlyTheLastPageIsLost`), `PagesOverlapOnce`
(`Spec => []NoLineThreeTimes`), `SearchingMovesOn` (`Spec => SearchMovesOn`).

`CollectorLeftoverProofs`, with every fault and without an assumption:
`LeftoversAreAbandoned` (`Spec => []LeftoversComeFromAbandonedWork`).

`ArchiveStreamProofs`, for every set of collectors, number of files and bound:

| theorem | statement |
|---|---|
| `TypeCorrect` | `Spec => []TypeOK` |
| `FailedZipStaysAway` | `Spec => FailedZipIsRemoved`, with every fault |
| `ReportedZipStaysComplete` | `Closing => (Spec => ReportedZipIsComplete)`; `Closing`: no error of `Close` is swallowed |
| `CreationNeverStands` | `Spec => []SomebodyGoesOn`, with every fault |
| `CreationsRunDown` | `Spec => CreationRunsDown`, with every fault |

`ArchiveDirectoryProofs`, for every number of names, every `Dotted` and bound:
`TypeCorrect`, `ReportedZipsStay` (`Spec => []ReportedZipStays`), `ListsAreComplete`
(`Spec => []CleanListIsComplete`), `UnmadeStaysScheduled`
(`Spec => []UnmadeIsScheduled`), `DirectoryImplementsContract`
(`Spec => DirectoryKeepsContract`).

`ArchiveLifecycleProofs` and `ArchiveDataProofs`, for every set of archives and
collectors, every `Keep`, `Loops`, `Users`, `Faults` and bound:

| theorem | statement |
|---|---|
| `TypeCorrect` | `Spec => []TypeOK` |
| `UnfinishedStaysScheduled` | `Undisturbed => (Spec => []UnfinishedIsScheduled)` |
| `StatusStaysTrue` | `Undisturbed => (Spec => []StatusIsTrue)` |
| `OrphanStaysBeingCleaned` | `Calm => (Spec => []OrphanIsBeingCleaned)` |
| `LiveDataStaysIntact` | `Undisturbed /\ Honest => (Spec => []LiveDataIsIntact)` |
| `LifecycleImplementsContract` | `"recreate" \notin Users => (Spec => KeepsArchiveContract)` |
| `CollectedDataStay` | `"recreate" \notin Users => (Spec => CollectedStays)`, with every fault |
| `GarbageCollectionKeepsNewest` | `Quiet => (Spec => GcKeepsNewest)` |

`Undisturbed`: no loop is enabled, or users do not take a name twice; the loops
delete by name from old lists, so without it the statements are false
("race" below). `Calm`: the volume works and the operator does not die; the worker
drops the errors of `Delete`, and a crash loses the event. `Honest` (there): no
collector fails, as a failing one may leave `.done` behind (finding 1), and either
the volume works or names are used once: what a failing `Delete` leaves behind
would be taken for the data of the next CR of that name. `Quiet`: no collector
fails, the volume works, no crash, and nobody but garbage collection deletes CRs; if users delete some of those that are kept, fewer than `Keep` remain, which is
nobody's fault.

`MetricPagingProofs`, for every set of page sizes and every length of the time
frame: `TypeCorrect`; `MetricsAreComplete` (`Spec => []NoSampleIsMissed`), `BordersOverlapOnce`
(`Spec => []OnlyBordersTwice`), `CollectingMovesOn` (`Spec => CollectMovesOn`).

The argument for `CollectorRun`. `ReportedSuccessIsComplete` speaks of idle states, so it is not
inductive; the invariant has to say what is known while the goroutines run.
`SuccessInv` has four parts. `Typed` is the type. `Control` says in which places
the two goroutines can be together, and that a cancelled context means a
recorded error. `Files` says where rows can be that are not on disk: no file is
ever stale, and only an open csv file has a buffer. `Kept` is the heart: as long
as nothing has failed and no shutdown has begun, every item handed over so far is
in `content`, in `buffer` or in the repository's hand, and once `finishFn` is
reached all items are in `content`.

`DoneInv` is for `.done`: `Typed`, `Control` and `Files` again, `MarkerInv` (while
an attempt runs, `.done` is there only in its last stages, so no write can follow
it; this alone gives `FinishedDataStays`), and `ContractInv` (what `Kept` says,
but for every attempt in which the repository still runs, since without query
errors and shutdowns only the repository itself can cancel). A deletion that is cut
off would end that induction; `damaged` is what is said instead: `.done` without
the data is there only behind such a deletion, and no attempt begins then. The
refinement maps `stored` to the set of items with a copy,
`collected` to `done` and `damaged` to itself; each action is a step of the contract
or a stutter. `PartialRemoval` says which: as long as `.done` is there, a part that
is removed is a deletion of the contract that is cut off (`DiscardFails`), or a
stutter if nothing was lost.

That an attempt ends has two halves, both proved. *Nobody waits for ever*:
`Meeting` says that both goroutines run while the attempt does, that the
repository leaves its loop only with the channel closed or the context done, and
that an error it returns cancels the context; so a collector that waits for a
receiver which is not there finds the context done, unless it does not look.
*Nothing is done again*: `Work` counts the steps that are left, at most `3N + 6`
(`WorkIsBounded`), and every step of a goroutine lowers it.

The argument for `LogPaging`. What is complete at the end says nothing about the
middle of the search; `SearchInv` says that before each query every line in front
of the window was written (`Covered(from)`), and that a page is what Loki may
answer for its window. `PageCovers` is the heart: if the page is not full it holds
the whole window; if it is full, all lines before its latest instant are on it,
and when that instant is the window's first, the page consists of lines of this
instant only, so stepping over it loses none unless there are more than a page of
them (`Uncrowded`). A cancelled context breaks `Covered`, but then the next query
fails. `OverlapInv` bounds repetition: behind the window's start nothing was
written, at its start at most once.

The argument for `MetricPaging` has the same shape: `SearchInv` says that the
metrics before the current one are complete and the current one up to the page's
start, `BorderInv` that a page starts at a multiple
of its size, behind which nothing was sent, and at which once at most.

The argument for leftovers (`CollectorLeftoverProofs`). `OnceInv` says that, until
an attempt or a deletion is abandoned, an attempt begins with an empty directory and no open
file, that item `i` has no copy until it was handed over, and none while it is the
one in the repository's hand, so a write makes the first copy. `OpenFiles` says
which kinds have open files at which places; it is what makes `doSafeClose` after
`.done` enough.

The argument for `ArchiveStream`. For `FailedZipIsRemoved`, `FailInv` follows the
error: once something has failed, either a stream has returned, and the zipper can
only see the done context, or the zipper has returned without a zip. For
`ReportedZipIsComplete`, `CompleteInv` says that while nothing failed and nothing
was deleted, each file of a collector is still to be walked, in the zip, or in
somebody's hand, and that a stream whose channel is closed has nothing left.
`EndInv` is what `createArchive` needs to end: a stream that has been taken off
the zip's list has closed its channel, and a goroutine that has returned early has
left an error behind, so the context is done for whoever would wait for it. The
work that is left is counted for each stream and for the zip; no step raises any
of these numbers and each lowers one, at most `3N + 5` times for each collector and
three times for the zip.

The argument for `ArchiveDirectory`. `StaysInv`: whatever is being deleted or about
to be has no CR (the sync loop's `todo` included), and what is being made has not
been reported. `WalkInv`: where there are zips there is a directory, and the walk's
history is right. `ScheduledInv` adds to `UnmadeIsScheduled` that an idle worker
holds no name, which is what makes picking a name up and giving it back safe, and
that a zip which is there for a CR was reported, is truncated, or is being written
by the worker: so a worker that finds a zip and lets the name go forgets nothing. The
refinement of `ArchiveContract` maps an archive to its `Stage`; a zip becomes
visible with its report, and `StaysInv` says why no call of one process can take
it back while its CR lives.

The argument for `ArchiveLifecycle`. `LifeInv` adds three parts to the two
statements it proves. `NamesInv`: what has data, is queued, listed or worked on was
a CR once. `LoopsInv`: what a loop deletes, or has decided to, is gone for good;
this is where `Undisturbed` is needed, and it makes the loops' steps harmless.
`WorkerInv`: what the worker has read of its archive (collected, no zip) is still
so when it acts on it. `CleanInv` adds that a worker in the middle of an archive
whose CR has gone has the event waiting in the queue, and that what it has deleted
is gone. `LiveInv` adds that a collector that is running for a CR that stays has
its data still there.

The refinement of `ArchiveContract` maps each archive to its `Stage`, which depends
on its CR and its zip only. A step changes the stage of one archive at most; which
changes are possible follows from `LifeInv` and `WorkerDeletesGone` (an archive the
worker deletes stays gone while it does). `CollectedDataStay` rests on the same
two facts: the data a step takes away are those of an archive that has gone, and
the worker, whose list of missing collectors is older than its steps, runs only
collectors that are still missing (`WorkerInv`). With `UnfinishedStaysScheduled`
these are the two halves of the safety behind `EveryArchiveIsCreated`: a request
is always about to be worked on, and work that was done is not lost.

`KeepInv` is for `GcKeepsNewest`, which speaks of the moment of a deletion, while
the choice was made on a list taken long before. `Spared` carries the choice over:
as long as something is left to delete there is a set of `Keep` archives that are
not older, have their CRs and zips, and are not to be deleted. That the choice
leaves such a set is `ChoiceSpares`, by cardinalities; that nobody takes a zip from
it needs `ZipReady` (the worker never gives up a zip it has begun), `ListInv` (the
list is true of the CRs that are left) and `Whole` (every zip of a CR is whole or
being written).

Every invariant and every action property of the passing runs is stated by a
theorem. Three theorems are about properties that no run checks, since a run checks
more: `ReportedZipStays` is a part of `DirectoryKeepsContract`, and `SearchMovesOn`
and `CollectMovesOn` are why `SearchEnds` and `CollectEnds` hold. Only model-checked: liveness (`AttemptEnds`, `CreationEnds`, `SearchEnds`,
`CollectEnds`, `EveryArchiveIsCreated`, `EveryZipIsMade`, `SyncCleansUp`), because it
rests on fairness and `ENABLED`, which the prover does not treat. For the first
four the proofs leave only the last step to TLC: what can go on under fairness
does. For an attempt and for the making of a zip it is proved that somebody can go
on and that the work that is left is a natural number every step lowers; for the
two searches that a position bounded by the end of the time frame moves forward
with every page. For node infos and system state that conclusion fails in one
state, which `OnlyBlindSendersStandStill` names and `WorkerBlocked` reaches.

## Divergences of the code from its documentation

Three are shown by runs and listed as findings in `PROJECT.json`:

1. A collector that fails half way closes its channel before errgroup sees its
   error. The repository takes that for the end and writes `.done`; the next
   reconcile skips the collector (`DoneAfterCollectorError`).
2. Node info and system state collectors send without watching the context. A
   failed write leaves them blocked, and with them the only worker, for ever
   (`WorkerBlocked`).
3. After a crash between zip and status the zip exists, so the status is never
   written (`CrashBeforeStatus`).

Others can be seen in the model by adding the fault named, and are the reason why
the passing runs leave it out:

* A dot in an archive's name, in `SyncCleansUp` without the condition on `Dotted`:
  `List` looks for names without one, and the walk ends with an error at the first
  other. That zip and all behind it are never cleaned up, against
  `supportArchiveController.go:54`; if it is the first, the sync loop also stops
  triggering reconciles.
* "unlink" in `ReportedSuccessIsComplete`: after an attempt that ends in the
  `ctx.Done` branch of `create` the log file stays open in the repository's map.
  If the CR is then deleted, the next archive of that name writes into an unlinked
  file and reports success.
* A `Delete` that stops half way, by an error the worker only logs or by a crash
  ("sync will clean up later anyway", `supportArchiveController.go:54`, but the sync
  loop lists zips). If the CR is created again under that name, two things may be
  met: `.done` without its data, so the collector is skipped and the archive has
  holes; or the data without `.done`, to which the next attempt adds (`O_APPEND`,
  `singleLogFileRepository.go:44`), so lines are there twice. `DoneMeansComplete`
  without `damaged` and `LeftoversComeFromAbandonedWork` without the deletions in
  `abandoned` fail.
* A zip that a crash or a failing `Remove` in `Create` leaves truncated is taken for
  finished by `Exists` from then on, against the comment in
  `zipFileArchiveRepository.go:61`: no reconcile makes it again or reports it.
  `UnmadeIsScheduled` and `EveryZipIsMade` name it as their exception
  (`truncated`).
* A page of metrics asks for one instant more than `MetricsMaxSamples`, "the maximum
  number of samples the metrics server can serve in a single request"
  (`config.go:80`): a page is that many steps long, and a range of Prometheus
  includes both ends.
  (`PageInstants`).
* "shutdown" in `DoneMeansComplete`: items dropped by `writeSaveToChannel` during
  a shutdown, channel closed, `.done` written. The same happens to files of a zip
  (`ArchiveStream` during a shutdown: `StreamDrops`, then `ZipSeesClosed`).
* "flush" in `ReportedSuccessIsComplete`: `csv.Writer.Flush` without `Error()`.
* "seal" in `ReportedZipIsComplete`: errors of `zipWriter.Close` are only logged.
* "race": the sync loop deletes by name the data of a CR created again since its
  list was taken. `LiveDataIsIntact` fails when users re-create names while a
  loop runs; so does "garbage collection deletes only what it chose".
* A log line with the text `null`: `isValidJsonObject` accepts it (it unmarshals
  into a nil map), `enrichLogLine` then assigns to that map and panics, in a
  goroutine of the errgroup where nothing recovers. The operator dies at every
  attempt to collect a time frame with such a line (`LogPaging!WritePanics`);
  `writeResponse`'s comment promises that it "parses all lines".
* A limit, a time window or a page size of 0 makes `findLogs` or `queryRange` loop
  for ever; the configuration (`config.go:335-361`) accepts them. The assumptions
  on the constants leave them out.
* Garbage collection takes any zip for complete, one that is being written
  included; if that one fails, an older whole one may already be deleted.
* An attempt that fails in the `ctx.Done` branch does not tidy up, against the
  comment at `baseFileRepository.go:115`.
* `deleteUnusedRepositoryData` never deletes anything: the list it is given holds
  required collectors only (CA:361), against the comment at CA:89.
* Collector data without a zip, whose delete event was missed, are removed by
  nobody: the sync loop lists zips, against `supportArchiveController.go:54`.
* A CR created again before its delete event is handled finds the old zip, and
  is never reported as created.
* `docs/dev/usage.md:10-13` describes finalizers; the code has none (the
  changelog tells why).

## Abstractions

* Items, files and lines are numbers; their contents, the names of files, the
  zip's format, censoring of secrets and selection of resources are left out.
* Writing one item is one step. A failed write may leave a part of an item; it is
  followed by the removal of the directory, and if that fails the attempt is
  "abandoned", so the part is not told apart from a missing item.
* Except in `ArchiveDirectory`, `MkdirAll` and `OpenFile` are one step: a directory
  removed between them shows as a failed write. In `CollectorRun` and `ArchiveLifecycle` `RemoveAll` of one
  directory is one step, which may stop half way; in `ArchiveStream` it goes file
  by file. In `CollectorRun` the csv files of the node infos are one: the first
  whose entry is removed makes the repository's whole map "stale".
* One namespace. The time frame of the contents is left out, so is
  `RetryOnConflict` inside status updates: an update works, or fails for good.
* `LogPaging`: the lines of Loki do not change during a search; the text of a line
  is told apart only by whether it is `null`. One time frame, no streams.
* `MetricPaging`: a sample stands for those of all nodes at its instant. The
  product of step and page size stays below 2^63 ns. `pageEnd` beyond the last
  step of the time frame and at its end are the same set of instants.
* The operator's graceful shutdown is no process of its own in `ArchiveLifecycle`:
  what happens with a cancelled context is what happens with failing calls, up to
  a crash.
* A shutdown cancels the context; the process then ends when the worker is idle
  (`ArchiveStream`) or at any time (`CollectorRun`, where it covers the expiry of
  the manager's grace period as well). `ArchiveLifecycle` has crashes only.

## Not modelled

* Configuration (`config.go`): environment variables read once at the start; the
  values that matter are constants of the modules (`Limit`, `Window`, `Sizes`,
  `Keep`, `Loops`).
* Filesystem adapter and domain types: no behaviour of their own.
* What collectors select and how secrets are censored: functions of one object to
  one object, without state.
* A volume whose directories cannot be read. `List` would panic if the archives' root
  were missing (`WalkDir` passes a nil entry, `d.IsDir()`), but the chart mounts that
  directory into the web server as a `subPath` (`deployment.yaml:43-46`), so it is
  there before the operator runs.
* The instant queries of the volumes collector: one request, one number.
* Names such as `a.zip.b`, of which `List`'s unanchored expression would take the
  first part for a name; several namespaces in the archives' root.
* The sync loop's blocking send during a graceful shutdown: it ends with the
  manager's grace period.
* Clients, TLS, probes, Helm chart, build.

## Plan

Done: all modules above and their theorems, among them the refinements of
`CollectorContract` by `CollectorRun` and of `ArchiveContract` by both
`ArchiveLifecycle` and `ArchiveDirectory`. Left, by what it would add:

1. From the parts to `EveryArchiveIsCreated`: a measure of the reconciles an
   archive still needs, as for the attempts; `CollectedDataStay` is its first half.
2. What `SyncCleansUp` rests on: that a zip without a CR, whose event is lost, is on
   the list of every clean walk that begins after it (`ListsAreComplete` is a part).
3. The hazards without a property (`PROJECT.json`): the sync loop's blocking send
   during a graceful shutdown; a directory that is removed between `MkdirAll` and
   `OpenFile` of a collector's file, which shows as a failed write now.
