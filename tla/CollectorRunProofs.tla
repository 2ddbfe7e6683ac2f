-------------------------- MODULE CollectorRunProofs ------------------------
(***************************************************************************)
(* What CollectorRun guarantees for every number of items, every kind of   *)
(* collector and every bound on the attempts.                              *)
(***************************************************************************)
EXTENDS CollectorRun, TLAPS

-----------------------------------------------------------------------------
(* Type correctness *)

\* The constants that are used as numbers.
LEMMA NumbersAreNat == N \in Nat /\ MaxAttempts \in Nat
  BY CollectorRunAssumption DEF CollectorRunAssumption

\* The counters start in their ranges.
LEMMA ZeroTyped == 0 \in 0 .. N /\ 0 \in 0 .. MaxAttempts
  BY NumbersAreNat

\* An empty directory is a directory.
LEMMA NothingTyped == Nothing \in [Items -> Nat]
  BY DEF Nothing

\* TypeOK with what makes it inductive: a collector that sends still has the
\* item it sends.
Typed == TypeOK /\ (col = "send" => sent < N)

\* The initial state is well-typed (empty repositories, no attempt).
LEMMA InitTyped == Init => Typed
  BY ZeroTyped, NothingTyped DEF Init, Typed, TypeOK

\* Typed without the contents of the files.
Places ==
  /\ kind \in Kinds
  /\ phase \in {"idle", "running"}
  /\ col \in {"off", "produce", "send", "closed", "returned"}
  /\ sent \in 0 .. N
  /\ repo \in {"off", "select", "create", "tidy", "delete", "flush", "finish", "close", "returned"}
  /\ item \in 0 .. N
  /\ colErr \in BOOLEAN /\ repoErr \in BOOLEAN /\ cancelled \in BOOLEAN
  /\ shutdown \in BOOLEAN /\ done \in BOOLEAN
  /\ abandoned \in BOOLEAN /\ damaged \in BOOLEAN
  /\ file \in {"none", "live", "stale"}
  /\ attempts \in 0 .. MaxAttempts
  /\ outcome \in {"none", "ok", "error"}
  /\ col = "send" => sent < N

\* Typed is Places together with the types of the files and their buffers.
LEMMA TypedParts ==
  Typed <=> Places /\ content \in [Items -> Nat] /\ buffer \in [Items -> Nat]
  BY DEF Typed, TypeOK, Places

\* What a RemoveAll that is cut off can leave: some of the copies, and `.done`
\* if it was there.
LEMMA PartialRemoval ==
  ASSUME content \in [Items -> Nat], \E kept \in Parts : RemovesAllBut(kept)
  PROVE  /\ content' \in [Items -> Nat]
         /\ \A i \in Items : content'[i] \in {0, content[i]}
         /\ done' \in {FALSE, done}
         /\ damaged' = (done' /\ (damaged \/ content' # content))
<1>1. PICK kept \in Parts : RemovesAllBut(kept)
  OBVIOUS
<1>2. content' = [i \in Items |-> IF i \in kept THEN content[i] ELSE 0]
  BY <1>1 DEF RemovesAllBut
<1>3. \A i \in Items : content[i] \in Nat
  OBVIOUS
<1>4. content' \in [Items -> Nat] /\ \A i \in Items : content'[i] \in {0, content[i]}
  BY <1>2, <1>3
<1> QED
  BY <1>1, <1>4 DEF RemovesAllBut

\* A RemoveAll that is cut off leaves the types of `.done` and its history.
LEMMA RemovalPlaces ==
  ASSUME Places, \E kept \in Parts : RemovesAllBut(kept)
  PROVE  done' \in BOOLEAN /\ damaged' \in BOOLEAN
  BY DEF Places, RemovesAllBut

\* No step of the worker, the goroutines or the process leaves the types of
\* the control state, whatever it does to the files.
LEMMA NextPlaces ==
  ASSUME Places, [Next]_vars
  PROVE  Places'
<1> USE NumbersAreNat, ZeroTyped DEF Places
<1>1. CASE StartCollector
  <2>1. attempts + 1 \in 0 .. MaxAttempts
    BY <1>1 DEF StartCollector
  <2> QED
    BY <1>1, <2>1 DEF StartCollector, diskVars, histVars
<1>2. CASE WaitReturns
  BY <1>2 DEF WaitReturns, diskVars, histVars
<1>3. CASE CollectorStep
  <2>1. CASE CollectorProduces
    BY <2>1 DEF CollectorProduces, runVars, repoVars, diskVars, histVars
  <2>2. CASE CollectorFails
    BY <2>2 DEF CollectorFails, runVars, repoVars, diskVars, histVars
  <2>3. CASE CollectorEnds
    BY <2>3 DEF CollectorEnds, runVars, repoVars, diskVars, histVars
  <2>4. CASE CollectorDrops
    BY <2>4 DEF CollectorDrops, runVars, repoVars, diskVars, histVars
  <2>5. CASE CollectorReturns
    BY <2>5 DEF CollectorReturns, runVars, repoVars, diskVars, histVars
  <2> QED
    BY <1>3, <2>1, <2>2, <2>3, <2>4, <2>5 DEF CollectorStep
<1>4. CASE HandOver
  BY <1>4 DEF HandOver, runVars, diskVars, histVars
<1>5. CASE RepositoryStep
  <2>1. CASE RepositoryWrites
    <3>1. file' \in {"none", "live", "stale"}
      BY <2>1 DEF RepositoryWrites, WritesLine, WritesRow, WritesFile
    <3> QED
      BY <2>1, <3>1 DEF RepositoryWrites, runVars, colVars, histVars
  <2>2. CASE RepositoryWriteFails
    BY <2>2 DEF RepositoryWriteFails, runVars, colVars, diskVars, histVars
  <2>3. CASE Tidy
    BY <2>3 DEF Tidy, RemovesAll, runVars, colVars, histVars
  <2>4. CASE TidyFails
    BY <2>4, RemovalPlaces DEF TidyFails, runVars, colVars, histVars
  <2>5. CASE RepositorySeesDone
    BY <2>5 DEF RepositorySeesDone, runVars, colVars, diskVars, histVars
  <2>6. CASE RepositorySeesClosed
    BY <2>6 DEF RepositorySeesClosed, runVars, colVars, diskVars, histVars
  <2>7. CASE RepositoryFlushes
    <3>1. repo = "flush" /\ repo' = "finish" /\ repoErr' \in BOOLEAN /\ file' = "none"
      BY <2>7 DEF RepositoryFlushes
    <3>2. UNCHANGED <<runVars, colVars, item, done, cancelled, shutdown, histVars>>
      BY <2>7 DEF RepositoryFlushes
    <3> QED
      BY <3>1, <3>2 DEF runVars, colVars, histVars
  <2>8. CASE RepositoryFinishes
    BY <2>8 DEF RepositoryFinishes, runVars, colVars, histVars
  <2>9. CASE RepositoryFinishFails
    BY <2>9 DEF RepositoryFinishFails, runVars, colVars, histVars
  <2>10. CASE RepositoryCloses
    <3>1. /\ repo' = "returned" /\ file' = "none" /\ repoErr' \in BOOLEAN
          /\ cancelled' \in BOOLEAN
      BY <2>10 DEF RepositoryCloses
    <3>2. kind' = kind /\ phase' = phase /\ attempts' = attempts /\ outcome' = outcome
      BY <2>10 DEF RepositoryCloses, runVars
    <3>3. col' = col /\ sent' = sent /\ colErr' = colErr /\ item' = item
      BY <2>10 DEF RepositoryCloses, colVars
    <3>4. /\ done' = done /\ shutdown' = shutdown
          /\ abandoned' = abandoned /\ damaged' = damaged
      BY <2>10 DEF RepositoryCloses, histVars
    <3> QED
      BY <3>1, <3>2, <3>3, <3>4
  <2>11. CASE ErrorCloses
    <3>1. repo' = "delete" /\ file' = "none"
      BY <2>11 DEF ErrorCloses
    <3>2. kind' = kind /\ phase' = phase /\ attempts' = attempts /\ outcome' = outcome
      BY <2>11 DEF ErrorCloses, runVars
    <3>3. col' = col /\ sent' = sent /\ colErr' = colErr /\ item' = item /\ repoErr' = repoErr
      BY <2>11 DEF ErrorCloses, colVars
    <3>4. /\ done' = done /\ cancelled' = cancelled
          /\ shutdown' = shutdown /\ abandoned' = abandoned /\ damaged' = damaged
      BY <2>11 DEF ErrorCloses, histVars
    <3> QED
      BY <3>1, <3>2, <3>3, <3>4
  <2> QED
    BY <1>5, <2>1, <2>2, <2>3, <2>4, <2>5, <2>6, <2>7, <2>8, <2>9, <2>10, <2>11
       DEF RepositoryStep
<1>6. CASE DataRemoved \/ PartRemoved
  <2>1. file' \in {"none", "live", "stale"} /\ outcome' = "none"
    BY <1>6 DEF DataRemoved, PartRemoved
  <2>2. done' \in BOOLEAN /\ damaged' \in BOOLEAN /\ abandoned' \in BOOLEAN
    BY <1>6, RemovalPlaces DEF DataRemoved, PartRemoved, RemovesAll
  <2>3. /\ kind' = kind /\ phase' = phase /\ attempts' = attempts
        /\ cancelled' = cancelled /\ shutdown' = shutdown
    BY <1>6 DEF DataRemoved, PartRemoved
  <2>4. col' = col /\ sent' = sent /\ colErr' = colErr
    BY <1>6 DEF DataRemoved, PartRemoved, colVars
  <2>5. repo' = repo /\ item' = item /\ repoErr' = repoErr
    BY <1>6 DEF DataRemoved, PartRemoved, repoVars
  <2>6. /\ kind' \in Kinds /\ phase' \in {"idle", "running"} /\ attempts' \in 0 .. MaxAttempts
        /\ cancelled' \in BOOLEAN /\ shutdown' \in BOOLEAN
    BY <2>3
  <2> QED
    BY <2>1, <2>2, <2>4, <2>5, <2>6
<1>7. CASE Shutdown
  BY <1>7 DEF Shutdown, runVars, colVars, repoVars, diskVars, histVars
<1>8. CASE Restart
  <2>1. done' \in BOOLEAN /\ damaged' \in BOOLEAN /\ abandoned' \in BOOLEAN
    BY <1>8, RemovalPlaces DEF Restart
  <2>2. /\ phase' = "idle" /\ outcome' = "none" /\ col' = "off" /\ sent' = 0 /\ ~colErr'
        /\ repo' = "off" /\ item' = 0 /\ ~repoErr' /\ ~cancelled' /\ ~shutdown'
        /\ file' = "none" /\ UNCHANGED <<kind, attempts>>
    BY <1>8 DEF Restart
  <2>3. colErr' \in BOOLEAN /\ repoErr' \in BOOLEAN /\ cancelled' \in BOOLEAN /\ shutdown' \in BOOLEAN
    BY <1>8 DEF Restart
  <2> QED
    BY <2>1, <2>2, <2>3
<1>9. CASE UNCHANGED vars
  BY <1>9 DEF vars, runVars, colVars, repoVars, diskVars, histVars
<1> QED
  BY <1>1, <1>2, <1>3, <1>4, <1>5, <1>6, <1>7, <1>8, <1>9 DEF Next

\* Every write, flush and removal leaves whole numbers of copies.
LEMMA NextStored ==
  ASSUME content \in [Items -> Nat], buffer \in [Items -> Nat], [Next]_vars
  PROVE  content' \in [Items -> Nat] /\ buffer' \in [Items -> Nat]
<1> USE NothingTyped
<1>1. \A i \in Items : /\ content[i] \in Nat /\ buffer[i] \in Nat
                       /\ content[i] + buffer[i] \in Nat
                       /\ content[i] + 1 \in Nat /\ buffer[i] + 1 \in Nat
  OBVIOUS
<1>2. Flushed \in [Items -> Nat]
  BY <1>1 DEF Flushed
<1>3. CASE RepositoryWrites
  <2>1. CASE WritesLine
    <3>1. [content EXCEPT ![item] = @ + 1] \in [Items -> Nat]
      BY <1>1
    <3> QED
      BY <2>1, <3>1 DEF WritesLine
  <2>2. CASE WritesRow
    <3> DEFINE rows == [buffer EXCEPT ![item] = @ + 1]
    <3>1. rows \in [Items -> Nat]
      BY <1>1
    <3> HIDE DEF rows
    <3>2. [i \in Items |-> content[i] + rows[i]] \in [Items -> Nat]
      BY <1>1, <3>1
    <3> QED
      BY <2>2, <3>1, <3>2 DEF WritesRow, rows
  <2>3. CASE WritesFile
    BY <2>3 DEF WritesFile
  <2> QED
    BY <1>3, <2>1, <2>2, <2>3 DEF RepositoryWrites
<1>4. CASE Tidy
  BY <1>4 DEF Tidy, RemovesAll
<1>5. CASE TidyFails
  BY <1>5, PartialRemoval DEF TidyFails
<1>6. CASE RepositoryFlushes \/ ErrorCloses
  BY <1>2, <1>6 DEF RepositoryFlushes, ErrorCloses
<1>7. CASE DataRemoved \/ PartRemoved
  BY <1>7, PartialRemoval DEF DataRemoved, PartRemoved, RemovesAll
<1>8. CASE Restart
  BY <1>8, PartialRemoval DEF Restart
<1>9. CASE StartCollector \/ WaitReturns \/ CollectorStep \/ HandOver \/ Shutdown
  BY <1>9 DEF StartCollector, WaitReturns, CollectorStep, CollectorProduces, CollectorFails,
       CollectorEnds, CollectorDrops, CollectorReturns, HandOver, Shutdown, diskVars
<1>10. CASE RepositoryWriteFails \/ RepositorySeesDone \/ RepositorySeesClosed
            \/ RepositoryFinishes \/ RepositoryFinishFails \/ RepositoryCloses
  BY <1>10 DEF RepositoryWriteFails, RepositorySeesDone, RepositorySeesClosed,
       RepositoryFinishes, RepositoryFinishFails, RepositoryCloses, diskVars
<1>11. CASE UNCHANGED vars
  BY <1>11 DEF vars, diskVars
<1> QED
  BY <1>3, <1>4, <1>5, <1>6, <1>7, <1>8, <1>9, <1>10, <1>11 DEF Next, RepositoryStep

\* No step of the worker, the goroutines or the process leaves the types.
LEMMA NextTyped == Typed /\ [Next]_vars => Typed'
<1> SUFFICES ASSUME Typed, [Next]_vars PROVE Typed'
  OBVIOUS
<1>1. Places'
  BY TypedParts, NextPlaces
<1>2. content' \in [Items -> Nat] /\ buffer' \in [Items -> Nat]
  BY TypedParts, NextStored
<1>3. Typed' <=> Places' /\ content' \in [Items -> Nat] /\ buffer' \in [Items -> Nat]
  BY DEF Typed, TypeOK, Places
<1> QED
  BY <1>1, <1>2, <1>3

\* The state of a collector's attempts always has its type (CollectorRun).
THEOREM TypeCorrect == Spec => []TypeOK
<1>1. Init => Typed
  BY InitTyped
<1>2. Typed /\ [Next]_vars => Typed'
  BY NextTyped
<1>3. Typed => TypeOK
  BY DEF Typed
<1> QED
  BY <1>1, <1>2, <1>3, PTL DEF Spec

-----------------------------------------------------------------------------
(* A reported success is complete *)

\* What must not happen for the guarantee: a csv buffer that is lost without
\* an error, data deleted under a running collector, and data deleted between
\* two attempts while a log or csv file is still open.
Lossless ==
  /\ "flush" \notin Faults /\ "race" \notin Faults /\ "unlink" \notin Faults

\* Where the two goroutines can be, relative to each other.
Control ==
  /\ phase = "idle" <=> col = "off"
  /\ phase = "idle" <=> repo = "off"
  /\ phase = "running" => outcome = "none"
  /\ repo \in {"create", "tidy", "delete"} => item \in Items
  /\ phase = "running" /\ cancelled => colErr \/ repoErr
  /\ repoErr => repo \in {"finish", "returned", "off"}
  /\ col \in {"closed", "returned"} /\ ~colErr => sent = N
  /\ repo \in {"flush", "finish", "close"} => col \in {"closed", "returned"}
  /\ repo = "returned" /\ ~repoErr => col \in {"closed", "returned"}
  /\ repo \in {"close", "returned"} /\ ~repoErr => done

\* The repository's files: never unlinked while open, and the csv writers go
\* with them.
Files ==
  /\ file # "stale"
  /\ file = "none" => buffer = Nothing
  /\ kind # "csv" => buffer = Nothing
  /\ kind \in {"yaml", "state"} => file = "none"
  /\ kind = "csv" /\ repo \in {"finish", "close"} => file = "none"

\* Neither side has failed so far, and no shutdown.
Unharmed == ~colErr /\ ~repoErr /\ ~shutdown

\* Nothing handed over is lost: it is on its way, buffered or on disk; and it
\* is on disk when `.done` is written.
Kept ==
  /\ phase = "running" /\ Unharmed =>
       /\ \A i \in 1 .. sent : \/ content[i] + buffer[i] > 0
                               \/ repo \in {"create", "tidy", "delete"} /\ i = item
       /\ repo \in {"finish", "close", "returned"} => \A i \in Items : content[i] > 0
  /\ ReportedSuccessIsComplete

SuccessInv == Typed /\ Control /\ Files /\ Kept

\* The invariant holds at the start of the operator.
LEMMA InitSuccess == Init => SuccessInv
  BY InitTyped DEF Init, SuccessInv, Control, Files, Kept, Unharmed, ReportedSuccessIsComplete

\* Without `race` and `unlink`, data are deleted between two attempts and with
\* no file open.
LEMMA QuietRemoval ==
  ASSUME Places, content \in [Items -> Nat], Lossless, DataRemoved \/ PartRemoved
  PROVE  /\ phase = "idle" /\ file' = file /\ outcome' = "none"
         /\ UNCHANGED <<kind, phase, attempts, colVars, repoVars, buffer, cancelled, shutdown>>
         /\ \/ ~done'
            \/ done /\ (damaged' \/ (content' = content /\ damaged' = damaged))
<1>1. phase = "idle" /\ file # "live"
  BY DEF DataRemoved, PartRemoved, InDelete, Lossless, Places
<1>2. file' = file /\ outcome' = "none"
  BY <1>1 DEF DataRemoved, PartRemoved
<1>3. UNCHANGED <<kind, phase, attempts, colVars, repoVars, buffer, cancelled, shutdown>>
  BY DEF DataRemoved, PartRemoved
<1>4. CASE DataRemoved
  BY <1>1, <1>2, <1>3, <1>4 DEF DataRemoved, RemovesAll
<1>5. CASE PartRemoved
  <2>1. done' \in {FALSE, done} /\ damaged' = (done' /\ (damaged \/ content' # content))
    BY <1>5, PartialRemoval DEF PartRemoved
  <2>2. done' \in BOOLEAN /\ damaged' \in BOOLEAN /\ done \in BOOLEAN /\ damaged \in BOOLEAN
    BY <1>5, RemovalPlaces DEF PartRemoved, Places
  <2>3. ~done' \/ (done /\ (damaged' \/ (content' = content /\ damaged' = damaged)))
    BY <2>1, <2>2
  <2> QED
    BY <1>1, <1>2, <1>3, <2>3
<1> QED
  BY <1>4, <1>5

\* The goroutines keep to their places.
LEMMA NextControl ==
  ASSUME Typed, Control, [Next]_vars, Lossless
  PROVE  Control'
<1> USE DEF Control, Typed, TypeOK, Lossless
<1>1. CASE StartCollector
  BY <1>1 DEF StartCollector, diskVars
<1>2. CASE WaitReturns
  BY <1>2 DEF WaitReturns, diskVars
<1>3. CASE CollectorStep
  <2>1. CASE CollectorProduces
    BY <2>1 DEF CollectorProduces, runVars, repoVars, diskVars
  <2>2. CASE CollectorFails
    BY <2>2 DEF CollectorFails, CtxDone, runVars, repoVars, diskVars
  <2>3. CASE CollectorEnds
    BY <2>3 DEF CollectorEnds, runVars, repoVars, diskVars
  <2>4. CASE CollectorDrops
    BY <2>4 DEF CollectorDrops, CtxDone, runVars, repoVars, diskVars
  <2>5. CASE CollectorReturns
    BY <2>5 DEF CollectorReturns, runVars, repoVars, diskVars
  <2> QED
    BY <1>3, <2>1, <2>2, <2>3, <2>4, <2>5 DEF CollectorStep
<1>4. CASE HandOver
  <2>1. sent + 1 \in Items
    BY <1>4, NumbersAreNat DEF HandOver, Items
  <2> QED
    BY <1>4, <2>1 DEF HandOver, runVars, diskVars
<1>5. CASE RepositoryStep
  <2>1. CASE RepositoryWrites
    BY <2>1 DEF RepositoryWrites, runVars, colVars
  <2>2. CASE RepositoryWriteFails
    BY <2>2 DEF RepositoryWriteFails, runVars, colVars, diskVars
  <2>3. CASE Tidy
    BY <2>3 DEF Tidy, RemovesAll, runVars, colVars
  <2>4. CASE TidyFails
    BY <2>4 DEF TidyFails, RemovesAllBut, runVars, colVars
  <2>5. CASE RepositorySeesDone
    BY <2>5 DEF RepositorySeesDone, CtxDone, runVars, colVars, diskVars
  <2>6. CASE RepositorySeesClosed
    BY <2>6 DEF RepositorySeesClosed, runVars, colVars, diskVars
  <2>7. CASE RepositoryFlushes
    BY <2>7 DEF RepositoryFlushes, Flushed, runVars, colVars
  <2>8. CASE RepositoryFinishes
    BY <2>8 DEF RepositoryFinishes, runVars, colVars
  <2>9. CASE RepositoryFinishFails
    BY <2>9 DEF RepositoryFinishFails, runVars, colVars
  <2>10. CASE RepositoryCloses
    BY <2>10 DEF RepositoryCloses, runVars, colVars
  <2>11. CASE ErrorCloses
    BY <2>11 DEF ErrorCloses, runVars, colVars
  <2> QED
    BY <1>5, <2>1, <2>2, <2>3, <2>4, <2>5, <2>6, <2>7, <2>8, <2>9, <2>10, <2>11 DEF RepositoryStep
<1>6. CASE DataRemoved \/ PartRemoved
  BY <1>6, TypedParts, QuietRemoval DEF colVars, repoVars
<1>7. CASE Shutdown
  BY <1>7 DEF Shutdown, runVars, colVars, repoVars, diskVars
<1>8. CASE Restart
  BY <1>8 DEF Restart
<1>9. CASE UNCHANGED vars
  BY <1>9 DEF vars, runVars, colVars, repoVars, diskVars
<1> QED
  BY <1>1, <1>2, <1>3, <1>4, <1>5, <1>6, <1>7, <1>8, <1>9 DEF Next

\* The open files go when they are closed, never before.
LEMMA NextFiles ==
  ASSUME Typed, Control, Files, [Next]_vars, Lossless
  PROVE  Files'
<1> USE DEF Files, Control, Typed, TypeOK, Lossless
<1>1. CASE StartCollector
  BY <1>1 DEF StartCollector, diskVars
<1>2. CASE WaitReturns
  BY <1>2 DEF WaitReturns, diskVars
<1>3. CASE CollectorStep
  <2>1. CASE CollectorProduces
    BY <2>1 DEF CollectorProduces, runVars, repoVars, diskVars
  <2>2. CASE CollectorFails
    BY <2>2 DEF CollectorFails, CtxDone, runVars, repoVars, diskVars
  <2>3. CASE CollectorEnds
    BY <2>3 DEF CollectorEnds, runVars, repoVars, diskVars
  <2>4. CASE CollectorDrops
    BY <2>4 DEF CollectorDrops, CtxDone, runVars, repoVars, diskVars
  <2>5. CASE CollectorReturns
    BY <2>5 DEF CollectorReturns, runVars, repoVars, diskVars
  <2> QED
    BY <1>3, <2>1, <2>2, <2>3, <2>4, <2>5 DEF CollectorStep
<1>4. CASE HandOver
  BY <1>4 DEF HandOver, runVars, diskVars
<1>5. CASE RepositoryStep
  <2>1. CASE RepositoryWrites
    BY <2>1 DEF RepositoryWrites, WritesLine, WritesRow, WritesFile, runVars, colVars
  <2>2. CASE RepositoryWriteFails
    BY <2>2 DEF RepositoryWriteFails, runVars, colVars, diskVars
  <2>3. CASE Tidy
    BY <2>3 DEF Tidy, RemovesAll, runVars, colVars
  <2>4. CASE TidyFails
    BY <2>4 DEF TidyFails, RemovesAllBut, runVars, colVars
  <2>5. CASE RepositorySeesDone
    BY <2>5 DEF RepositorySeesDone, CtxDone, runVars, colVars, diskVars
  <2>6. CASE RepositorySeesClosed
    BY <2>6 DEF RepositorySeesClosed, runVars, colVars, diskVars
  <2>7. CASE RepositoryFlushes
    BY <2>7 DEF RepositoryFlushes, Flushed, runVars, colVars
  <2>8. CASE RepositoryFinishes
    BY <2>8 DEF RepositoryFinishes, runVars, colVars
  <2>9. CASE RepositoryFinishFails
    BY <2>9 DEF RepositoryFinishFails, runVars, colVars
  <2>10. CASE RepositoryCloses
    BY <2>10 DEF RepositoryCloses, runVars, colVars
  <2>11. CASE ErrorCloses
    BY <2>11 DEF ErrorCloses, runVars, colVars
  <2> QED
    BY <1>5, <2>1, <2>2, <2>3, <2>4, <2>5, <2>6, <2>7, <2>8, <2>9, <2>10, <2>11 DEF RepositoryStep
<1>6. CASE DataRemoved \/ PartRemoved
  BY <1>6, TypedParts, QuietRemoval DEF colVars, repoVars
<1>7. CASE Shutdown
  BY <1>7 DEF Shutdown, runVars, colVars, repoVars, diskVars
<1>8. CASE Restart
  BY <1>8 DEF Restart
<1>9. CASE UNCHANGED vars
  BY <1>9 DEF vars, runVars, colVars, repoVars, diskVars
<1> QED
  BY <1>1, <1>2, <1>3, <1>4, <1>5, <1>6, <1>7, <1>8, <1>9 DEF Next

\* A write to a file that is still linked keeps every copy there is, on disk or
\* in the csv writer, and adds the item.
LEMMA WriteAddsItem ==
  ASSUME content \in [Items -> Nat], buffer \in [Items -> Nat], item \in Items,
         file # "stale", RepositoryWrites
  PROVE  \A i \in Items : /\ content[i] + buffer[i] > 0 => content'[i] + buffer'[i] > 0
                          /\ i = item => content'[i] + buffer'[i] > 0
<1> SUFFICES ASSUME NEW i \in Items
             PROVE  /\ content[i] + buffer[i] > 0 => content'[i] + buffer'[i] > 0
                    /\ i = item => content'[i] + buffer'[i] > 0
  OBVIOUS
<1>1. content[i] \in Nat /\ buffer[i] \in Nat
  OBVIOUS
<1>2. CASE WritesLine
  <2>1. content'[i] = (IF i = item THEN content[i] + 1 ELSE content[i]) /\ buffer'[i] = buffer[i]
    BY <1>2 DEF WritesLine
  <2> QED
    BY <1>1, <2>1
<1>3. CASE WritesRow
  <2> DEFINE row == IF i = item THEN buffer[i] + 1 ELSE buffer[i]
  <2>1. \/ content'[i] = content[i] /\ buffer'[i] = row
        \/ content'[i] = content[i] + row /\ buffer'[i] = 0
    BY <1>3 DEF WritesRow, Nothing
  <2> QED
    BY <1>1, <2>1
<1>4. CASE WritesFile
  <2>1. content'[i] = (IF i = item THEN 1 ELSE content[i]) /\ buffer'[i] = buffer[i]
    BY <1>4 DEF WritesFile
  <2> QED
    BY <1>1, <2>1
<1> QED
  BY <1>2, <1>3, <1>4 DEF RepositoryWrites

\* No item is lost on the way from the collector to the disk.
LEMMA NextKept ==
  ASSUME Typed, Control, Files, Kept, [Next]_vars, Lossless
  PROVE  Kept'
<1> USE NumbersAreNat DEF Kept, Unharmed, ReportedSuccessIsComplete, Files, Control, Typed, TypeOK, Lossless, Items
<1>1. CASE StartCollector
  BY <1>1 DEF StartCollector, diskVars
<1>2. CASE WaitReturns
  BY <1>2 DEF WaitReturns, diskVars
<1>3. CASE CollectorStep
  <2>1. CASE CollectorProduces
    BY <2>1 DEF CollectorProduces, runVars, repoVars, diskVars
  <2>2. CASE CollectorFails
    BY <2>2 DEF CollectorFails, CtxDone, runVars, repoVars, diskVars
  <2>3. CASE CollectorEnds
    BY <2>3 DEF CollectorEnds, runVars, repoVars, diskVars
  <2>4. CASE CollectorDrops
    BY <2>4 DEF CollectorDrops, CtxDone, runVars, repoVars, diskVars
  <2>5. CASE CollectorReturns
    BY <2>5 DEF CollectorReturns, runVars, repoVars, diskVars
  <2> QED
    BY <1>3, <2>1, <2>2, <2>3, <2>4, <2>5 DEF CollectorStep
<1>4. CASE HandOver
  BY <1>4 DEF HandOver, runVars, diskVars
<1>5. CASE RepositoryStep
  <2>1. CASE RepositoryWrites
    <3>1. /\ repo = "create" /\ repo' = "select" /\ item' = item /\ item \in Items
          /\ phase' = "running" /\ outcome' = "none"
          /\ sent' = sent /\ colErr' = colErr /\ repoErr' = repoErr /\ shutdown' = shutdown
      BY <2>1 DEF RepositoryWrites, runVars, colVars
    <3>2. \A i \in Items : content[i] \in Nat /\ buffer[i] \in Nat
      OBVIOUS
    <3>3. \A i \in Items : /\ content[i] + buffer[i] > 0 => content'[i] + buffer'[i] > 0
                           /\ i = item => content'[i] + buffer'[i] > 0
      BY <2>1, <3>1, WriteAddsItem
    <3>4. \A i \in Items : content'[i] \in Nat /\ buffer'[i] \in Nat
      BY NextTyped DEF Nothing
    <3> QED
      BY <3>1, <3>2, <3>3, <3>4
  <2>2. CASE RepositoryWriteFails
    BY <2>2 DEF RepositoryWriteFails, runVars, colVars, diskVars
  <2>3. CASE Tidy
    BY <2>3 DEF Tidy, RemovesAll, runVars, colVars
  <2>4. CASE TidyFails
    BY <2>4 DEF TidyFails, RemovesAllBut, runVars, colVars
  <2>5. CASE RepositorySeesDone
    BY <2>5 DEF RepositorySeesDone, CtxDone, runVars, colVars, diskVars
  <2>6. CASE RepositorySeesClosed
    <3>1. kind # "csv" => \A i \in Items : buffer[i] = 0
      BY DEF Nothing
    <3> QED
      BY <2>6, <3>1 DEF RepositorySeesClosed, runVars, colVars, diskVars
  <2>7. CASE RepositoryFlushes
    <3>1. file = "none" => \A i \in Items : buffer[i] = 0
      BY DEF Nothing
    <3>2. \A i \in Items : content'[i] = content[i] + buffer[i]
      BY <2>7, <3>1 DEF RepositoryFlushes, Flushed
    <3>3. CASE phase = "running" /\ Unharmed
      <4>1. \A i \in Items : content[i] + buffer[i] > 0
        BY <2>7, <3>3 DEF RepositoryFlushes, Flushed
      <4>2. \A i \in Items : content'[i] > 0 /\ buffer'[i] = 0
        BY <2>7, <3>2, <4>1 DEF RepositoryFlushes, Flushed, Nothing
      <4>3. \A i \in 1 .. sent' : i \in Items /\ content'[i] \in Nat
        BY <2>7, <3>2 DEF RepositoryFlushes, colVars
      <4>4. \A i \in 1 .. sent' : content'[i] + buffer'[i] > 0
        BY <4>2, <4>3
      <4>5. phase' = "running" /\ outcome' = "none"
        BY <2>7 DEF RepositoryFlushes, Flushed, runVars
      <4> QED
        BY <4>2, <4>4, <4>5
    <3>4. CASE ~(phase = "running" /\ Unharmed)
      BY <2>7, <3>4 DEF RepositoryFlushes, Flushed, runVars, colVars
    <3> QED
      BY <3>3, <3>4
  <2>8. CASE RepositoryFinishes
    BY <2>8 DEF RepositoryFinishes, runVars, colVars
  <2>9. CASE RepositoryFinishFails
    BY <2>9 DEF RepositoryFinishFails, runVars, colVars
  <2>10. CASE RepositoryCloses
    BY <2>10 DEF RepositoryCloses, runVars, colVars
  <2>11. CASE ErrorCloses
    <3>1. file = "none" => \A i \in Items : buffer[i] = 0
      BY DEF Nothing
    <3>2. \A i \in Items : /\ content'[i] = content[i] + buffer[i] /\ buffer'[i] = 0
                           /\ content[i] \in Nat /\ buffer[i] \in Nat
      BY <2>11, <3>1 DEF ErrorCloses, Flushed, Nothing
    <3> QED
      BY <2>11, <3>2 DEF ErrorCloses, runVars, colVars
  <2> QED
    BY <1>5, <2>1, <2>2, <2>3, <2>4, <2>5, <2>6, <2>7, <2>8, <2>9, <2>10, <2>11 DEF RepositoryStep
<1>6. CASE DataRemoved \/ PartRemoved
  BY <1>6, TypedParts, QuietRemoval DEF colVars, repoVars
<1>7. CASE Shutdown
  BY <1>7 DEF Shutdown, runVars, colVars, repoVars, diskVars
<1>8. CASE Restart
  BY <1>8 DEF Restart
<1>9. CASE UNCHANGED vars
  BY <1>9 DEF vars, runVars, colVars, repoVars, diskVars
<1> QED
  BY <1>1, <1>2, <1>3, <1>4, <1>5, <1>6, <1>7, <1>8, <1>9 DEF Next

\* An attempt that reports success has stored everything, for every number of
\* items, every bound and every failure but the three named by Lossless.
THEOREM SuccessIsComplete ==
  ASSUME Lossless
  PROVE  Spec => []ReportedSuccessIsComplete
<1>1. Init => SuccessInv
  BY InitSuccess
<1>2. SuccessInv /\ [Next]_vars => SuccessInv'
  BY Lossless, NextTyped, NextControl, NextFiles, NextKept DEF SuccessInv
<1>3. SuccessInv => ReportedSuccessIsComplete
  BY DEF SuccessInv, Kept
<1> QED
  BY <1>1, <1>2, <1>3, PTL DEF Spec

-----------------------------------------------------------------------------
(* `.done` comes last *)

\* During an attempt `.done` is there only after finishFn.
MarkerInv ==
  /\ phase = "idle" <=> repo = "off"
  /\ done /\ phase = "running" => repo \in {"close", "returned"}

\* Only finishFn writes `.done`, and an attempt starts without it.
LEMMA NextMarker ==
  ASSUME TypeOK, MarkerInv, [Next]_vars
  PROVE  MarkerInv'
<1> USE DEF MarkerInv, TypeOK
<1>1. CASE StartCollector
  BY <1>1 DEF StartCollector, diskVars
<1>2. CASE WaitReturns
  BY <1>2 DEF WaitReturns, diskVars
<1>3. CASE CollectorStep
  <2>1. CASE CollectorProduces
    BY <2>1 DEF CollectorProduces, runVars, repoVars, diskVars
  <2>2. CASE CollectorFails
    BY <2>2 DEF CollectorFails, CtxDone, runVars, repoVars, diskVars
  <2>3. CASE CollectorEnds
    BY <2>3 DEF CollectorEnds, runVars, repoVars, diskVars
  <2>4. CASE CollectorDrops
    BY <2>4 DEF CollectorDrops, CtxDone, runVars, repoVars, diskVars
  <2>5. CASE CollectorReturns
    BY <2>5 DEF CollectorReturns, runVars, repoVars, diskVars
  <2> QED
    BY <1>3, <2>1, <2>2, <2>3, <2>4, <2>5 DEF CollectorStep
<1>4. CASE HandOver
  BY <1>4 DEF HandOver, runVars, diskVars
<1>5. CASE RepositoryStep
  <2>1. CASE RepositoryWrites
    BY <2>1 DEF RepositoryWrites, runVars, colVars
  <2>2. CASE RepositoryWriteFails
    BY <2>2 DEF RepositoryWriteFails, runVars, colVars, diskVars
  <2>3. CASE Tidy
    BY <2>3 DEF Tidy, RemovesAll, runVars, colVars
  <2>4. CASE TidyFails
    BY <2>4 DEF TidyFails, RemovesAllBut, runVars, colVars
  <2>5. CASE RepositorySeesDone
    BY <2>5 DEF RepositorySeesDone, CtxDone, runVars, colVars, diskVars
  <2>6. CASE RepositorySeesClosed
    BY <2>6 DEF RepositorySeesClosed, runVars, colVars, diskVars
  <2>7. CASE RepositoryFlushes
    BY <2>7 DEF RepositoryFlushes, Flushed, runVars, colVars
  <2>8. CASE RepositoryFinishes
    BY <2>8 DEF RepositoryFinishes, runVars, colVars
  <2>9. CASE RepositoryFinishFails
    BY <2>9 DEF RepositoryFinishFails, runVars, colVars
  <2>10. CASE RepositoryCloses
    BY <2>10 DEF RepositoryCloses, runVars, colVars
  <2>11. CASE ErrorCloses
    BY <2>11 DEF ErrorCloses, runVars, colVars
  <2> QED
    BY <1>5, <2>1, <2>2, <2>3, <2>4, <2>5, <2>6, <2>7, <2>8, <2>9, <2>10, <2>11 DEF RepositoryStep
<1>6. CASE DataRemoved \/ PartRemoved
  <2>1. done' => done
    BY <1>6, PartialRemoval DEF DataRemoved, PartRemoved, RemovesAll
  <2>2. phase' = phase /\ repo' = repo
    BY <1>6 DEF DataRemoved, PartRemoved, repoVars
  <2> QED
    BY <2>1, <2>2
<1>7. CASE Shutdown
  BY <1>7 DEF Shutdown, runVars, colVars, repoVars, diskVars
<1>8. CASE Restart
  BY <1>8 DEF Restart
<1>9. CASE UNCHANGED vars
  BY <1>9 DEF vars, runVars, colVars, repoVars, diskVars
<1> QED
  BY <1>1, <1>2, <1>3, <1>4, <1>5, <1>6, <1>7, <1>8, <1>9 DEF Next

\* The data of a collector never change while its `.done` is there, unless a
\* Delete that is cut off takes some of them: whatever fails, create writes no
\* item after finishFn (FinishedDataIsFrozen).
THEOREM FinishedDataStays == Spec => FinishedDataIsFrozen
<1>1. Init => Typed /\ MarkerInv
  BY InitTyped DEF Init, MarkerInv
<1>2. Typed /\ MarkerInv /\ [Next]_vars => (Typed /\ MarkerInv)'
  BY NextTyped, NextMarker DEF Typed
<1>3. ASSUME Typed, MarkerInv, [Next]_vars, done, done'
      PROVE  content' = content \/ (damaged' /\ \A i \in Items : content'[i] \in {0, content[i]})
  <2> USE <1>3 DEF Typed, TypeOK, MarkerInv
  <2>1. ASSUME \E kept \in Parts : RemovesAllBut(kept)
        PROVE  content' = content \/ (damaged' /\ \A i \in Items : content'[i] \in {0, content[i]})
    BY <2>1, PartialRemoval
  <2>2. CASE StartCollector \/ WaitReturns \/ CollectorStep \/ HandOver \/ Shutdown
    BY <2>2 DEF StartCollector, WaitReturns, CollectorStep, CollectorProduces, CollectorFails,
         CollectorEnds, CollectorDrops, CollectorReturns, HandOver, Shutdown, diskVars
  <2>3. CASE RepositoryStep
    BY <2>3 DEF RepositoryStep, RepositoryWrites, RepositoryWriteFails, Tidy, TidyFails,
         RepositorySeesDone, RepositorySeesClosed, RepositoryFlushes, ErrorCloses, RepositoryFinishes,
         RepositoryFinishFails, RepositoryCloses, diskVars
  <2>4. CASE DataRemoved
    BY <2>4 DEF DataRemoved, RemovesAll
  <2>5. CASE PartRemoved \/ Restart
    BY <2>1, <2>5 DEF PartRemoved, Restart
  <2>6. CASE UNCHANGED vars
    BY <2>6 DEF vars, diskVars
  <2> QED
    BY <2>2, <2>3, <2>4, <2>5, <2>6 DEF Next
<1>4. Typed /\ MarkerInv /\ [Next]_vars =>
        [done /\ done' =>
           content' = content \/ (damaged' /\ \A i \in Items : content'[i] \in {0, content[i]})]_vars
  BY <1>3
<1> QED
  BY <1>1, <1>2, <1>4, PTL DEF Spec, FinishedDataIsFrozen

-----------------------------------------------------------------------------
(* The contract *)

\* What the contract needs besides: a collector that reports errors by itself,
\* and a shutdown, make the repository see a closed channel after lost items.
Honest == Lossless /\ "collect" \notin Faults /\ "shutdown" \notin Faults

\* While the repository listens, nothing has been cancelled and nothing lost.
ContractInv ==
  /\ ~shutdown
  /\ phase = "running" /\ (cancelled \/ colErr) => repo = "returned"
  /\ phase = "running" /\ repo # "returned" =>
       \A i \in 1 .. sent : \/ content[i] + buffer[i] > 0
                            \/ repo \in {"create", "tidy", "delete"} /\ i = item
  /\ repo \in {"finish", "close"} => \A i \in Items : content[i] > 0
  /\ DoneMeansComplete

\* The whole inductive invariant of the refinement.
DoneInv == Typed /\ Control /\ Files /\ MarkerInv /\ ContractInv

\* The directory is empty and nothing runs when the operator starts.
LEMMA InitDone == Init => DoneInv
  BY InitTyped DEF Init, DoneInv, Control, Files, MarkerInv, ContractInv, DoneMeansComplete

\* `.done` is written only after every item, and no step takes an item away
\* without it.
LEMMA NextContract ==
  ASSUME DoneInv, [Next]_vars, Honest
  PROVE  ContractInv'
<1> USE NumbersAreNat DEF histVars, DoneInv, ContractInv, DoneMeansComplete, MarkerInv, Files, Control, Typed, TypeOK, Honest, Lossless, Items
<1>1. CASE StartCollector
  BY <1>1 DEF StartCollector, diskVars
<1>2. CASE WaitReturns
  BY <1>2 DEF WaitReturns, diskVars
<1>3. CASE CollectorStep
  <2>1. CASE CollectorProduces
    BY <2>1 DEF CollectorProduces, runVars, repoVars, diskVars
  <2>2. CASE CollectorFails
    BY <2>2 DEF CollectorFails, CtxDone, runVars, repoVars, diskVars
  <2>3. CASE CollectorEnds
    BY <2>3 DEF CollectorEnds, runVars, repoVars, diskVars
  <2>4. CASE CollectorDrops
    BY <2>4 DEF CollectorDrops, CtxDone, runVars, repoVars, diskVars
  <2>5. CASE CollectorReturns
    BY <2>5 DEF CollectorReturns, runVars, repoVars, diskVars
  <2> QED
    BY <1>3, <2>1, <2>2, <2>3, <2>4, <2>5 DEF CollectorStep
<1>4. CASE HandOver
  BY <1>4 DEF HandOver, runVars, diskVars
<1>5. CASE RepositoryStep
  <2>1. CASE RepositoryWrites
    <3>1. /\ repo = "create" /\ repo' = "select" /\ item' = item /\ item \in Items
          /\ phase' = "running" /\ phase = "running" /\ done' = FALSE
          /\ sent' = sent /\ colErr' = colErr /\ cancelled' = cancelled /\ shutdown' = shutdown
      BY <2>1 DEF RepositoryWrites, runVars, colVars
    <3>2. \A i \in Items : content[i] \in Nat /\ buffer[i] \in Nat
      OBVIOUS
    <3>3. \A i \in Items : /\ content[i] + buffer[i] > 0 => content'[i] + buffer'[i] > 0
                           /\ i = item => content'[i] + buffer'[i] > 0
      BY <2>1, <3>1, WriteAddsItem
    <3>4. ASSUME NEW i \in 1 .. sent' PROVE content'[i] + buffer'[i] > 0
      <4>1. i \in Items
        BY <3>1
      <4>2. content[i] + buffer[i] > 0 \/ i = item
        BY <3>1
      <4> QED
        BY <3>3, <4>1, <4>2
    <3> QED
      BY <3>1, <3>4
  <2>2. CASE RepositoryWriteFails
    BY <2>2 DEF RepositoryWriteFails, runVars, colVars, diskVars
  <2>3. CASE Tidy
    BY <2>3 DEF Tidy, RemovesAll, runVars, colVars
  <2>4. CASE TidyFails
    <3>1. ~done'
      BY <2>4, PartialRemoval DEF TidyFails
    <3>2. /\ repo' = "returned" /\ phase' = phase /\ shutdown' = shutdown
      BY <2>4 DEF TidyFails, runVars
    <3> QED
      BY <3>1, <3>2
  <2>5. CASE RepositorySeesDone
    BY <2>5 DEF RepositorySeesDone, CtxDone, runVars, colVars, diskVars
  <2>6. CASE RepositorySeesClosed
    <3>1. kind # "csv" => \A i \in Items : buffer[i] = 0
      BY DEF Nothing
    <3> QED
      BY <2>6, <3>1 DEF RepositorySeesClosed, runVars, colVars, diskVars
  <2>7. CASE RepositoryFlushes
    <3>1. file = "none" => \A i \in Items : buffer[i] = 0
      BY DEF Nothing
    <3>2. \A i \in Items : content'[i] = content[i] + buffer[i]
      BY <2>7, <3>1 DEF RepositoryFlushes, Flushed
    <3>3. \A i \in Items : content[i] + buffer[i] > 0
      BY <2>7 DEF RepositoryFlushes, Flushed
    <3>4. \A i \in Items : content'[i] > 0 /\ buffer'[i] = 0
      BY <2>7, <3>2, <3>3 DEF RepositoryFlushes, Flushed, Nothing
    <3>5. /\ phase' = "running" /\ phase = "running" /\ repo = "flush" /\ repo' = "finish"
          /\ done' = done /\ sent' = sent /\ shutdown' = shutdown
          /\ cancelled' = cancelled /\ colErr' = colErr
      BY <2>7 DEF RepositoryFlushes, Flushed, runVars, colVars
    <3>6. \A i \in Items : content'[i] \in Nat
      BY <3>2
    <3>7. \A i \in 1 .. sent' : i \in Items
      BY <3>5
    <3>8. \A i \in 1 .. sent' : content'[i] + buffer'[i] > 0
      BY <3>4, <3>6, <3>7
    <3> QED
      BY <3>4, <3>5, <3>8
  <2>8. CASE RepositoryFinishes
    BY <2>8 DEF RepositoryFinishes, runVars, colVars
  <2>9. CASE RepositoryFinishFails
    BY <2>9 DEF RepositoryFinishFails, runVars, colVars
  <2>10. CASE RepositoryCloses
    BY <2>10 DEF RepositoryCloses, runVars, colVars
  <2>11. CASE ErrorCloses
    <3>1. file = "none" => \A i \in Items : buffer[i] = 0
      BY DEF Nothing
    <3>2. \A i \in Items : /\ content'[i] = content[i] + buffer[i] /\ buffer'[i] = 0
                           /\ content[i] \in Nat /\ buffer[i] \in Nat
      BY <2>11, <3>1 DEF ErrorCloses, Flushed, Nothing
    <3> QED
      BY <2>11, <3>2 DEF ErrorCloses, runVars, colVars
  <2> QED
    BY <1>5, <2>1, <2>2, <2>3, <2>4, <2>5, <2>6, <2>7, <2>8, <2>9, <2>10, <2>11 DEF RepositoryStep
<1>6. CASE DataRemoved \/ PartRemoved
  <2>1. /\ phase' = "idle" /\ repo' = "off" /\ ~shutdown'
        /\ ~done' \/ (done /\ (damaged' \/ (content' = content /\ damaged' = damaged)))
    BY <1>6, TypedParts, QuietRemoval DEF repoVars
  <2> QED
    BY <2>1
<1>7. CASE Shutdown
  BY <1>7 DEF Shutdown, runVars, colVars, repoVars, diskVars
<1>8. CASE Restart
  <2>1. phase' = "idle" /\ repo' = "off" /\ ~shutdown'
    BY <1>8 DEF Restart
  <2>2. CASE UNCHANGED <<content, done, damaged>>
    BY <2>1, <2>2
  <2>3. CASE \E kept \in Parts : RemovesAllBut(kept)
    <3>1. done' => done /\ (damaged' \/ (content' = content /\ ~damaged))
      BY <2>3, PartialRemoval, TypedParts DEF Places
    <3> QED
      BY <2>1, <3>1
  <2> QED
    BY <1>8, <2>2, <2>3 DEF Restart
<1>9. CASE UNCHANGED vars
  BY <1>9 DEF vars, runVars, colVars, repoVars, diskVars
<1> QED
  BY <1>1, <1>2, <1>3, <1>4, <1>5, <1>6, <1>7, <1>8, <1>9 DEF Next

\* Every step of the detailed model is a step of the contract, or leaves what
\* the contract talks about alone.
LEMMA StepKeepsContract ==
  ASSUME DoneInv, DoneInv', Next, Honest
  PROVE  Contract!Next \/ UNCHANGED <<{i \in Items : content[i] > 0}, done, damaged>>
<1> DEFINE stored == {i \in Items : content[i] > 0}
<1> USE DEF DoneInv, ContractInv, MarkerInv, Control, Files, Typed, TypeOK, Honest, Lossless
<1>1. ASSUME ~done, ~done', damaged' = damaged, stored \subseteq stored' PROVE Contract!Gather
  BY <1>1 DEF Contract!Gather
<1>2. ASSUME ~done', ~damaged', stored' \subseteq stored PROVE Contract!Discard
  BY <1>2 DEF Contract!Discard
<1>3. ASSUME ~done, done', damaged' = damaged, stored' = Items, stored = stored' PROVE Contract!Finish
  BY <1>3 DEF Contract!Finish
<1>4. ASSUME content' = content, done' = done, damaged' = damaged
      PROVE  UNCHANGED <<stored, done, damaged>>
  BY <1>4
<1>5. ASSUME \E kept \in Parts : RemovesAllBut(kept)
      PROVE  Contract!Next \/ UNCHANGED <<stored, done, damaged>>
  <2>1. /\ \A i \in Items : content'[i] \in {0, content[i]}
        /\ done' \in {FALSE, done}
        /\ damaged' = (done' /\ (damaged \/ content' # content))
    BY <1>5, PartialRemoval
  <2>2. stored' \subseteq stored
    BY <2>1
  <2>3. CASE ~done'
    <3>1. ~damaged'
      BY <2>1, <2>3
    <3> QED
      BY <1>2, <2>2, <2>3, <3>1 DEF Contract!Next
  <2>4. CASE done' /\ damaged'
    <3>1. done /\ done' = done /\ damaged' = TRUE
      BY <2>1, <2>4
    <3>2. Contract!DiscardFails
      BY <2>2, <3>1 DEF Contract!DiscardFails
    <3> QED
      BY <3>2 DEF Contract!Next
  <2>5. CASE done' /\ ~damaged'
    <3>1. content' = content /\ done' = done /\ damaged' = damaged
      BY <2>1, <2>5
    <3> QED
      BY <1>4, <3>1
  <2> QED
    BY <2>3, <2>4, <2>5
<1>6. CASE StartCollector \/ WaitReturns \/ CollectorStep \/ HandOver \/ Shutdown
  BY <1>4, <1>6 DEF StartCollector, WaitReturns, CollectorStep, CollectorProduces, CollectorFails,
       CollectorEnds, CollectorDrops, CollectorReturns, HandOver, Shutdown, diskVars, histVars
<1>7. CASE RepositoryWrites
  <2>1. \A i \in Items : content[i] > 0 => content'[i] > 0
    <3>1. CASE WritesLine
      BY <1>7, <3>1 DEF RepositoryWrites, WritesLine
    <3>2. CASE WritesRow
      BY <1>7, <3>2 DEF RepositoryWrites, WritesRow
    <3>3. CASE WritesFile
      BY <1>7, <3>3 DEF RepositoryWrites, WritesFile
    <3> QED
      BY <1>7, <3>1, <3>2, <3>3 DEF RepositoryWrites
  <2>2. ~done /\ ~done' /\ damaged' = damaged
    BY <1>7 DEF RepositoryWrites, histVars
  <2> QED
    BY <1>1, <2>1, <2>2 DEF Contract!Next
<1>8. CASE Tidy
  <2>1. ~done' /\ ~damaged' /\ stored' = {}
    BY <1>8 DEF Tidy, RemovesAll, Nothing
  <2> QED
    BY <1>2, <2>1 DEF Contract!Next
<1>9. CASE TidyFails \/ PartRemoved
  BY <1>5, <1>9 DEF TidyFails, PartRemoved
<1>10. CASE RepositoryFlushes \/ ErrorCloses
  <2>1. content' = Flushed
    BY <1>10 DEF RepositoryFlushes, ErrorCloses
  <2>2. \A i \in Items : content'[i] >= content[i]
    BY <2>1 DEF Flushed
  <2>3. ~done /\ ~done' /\ damaged' = damaged
    BY <1>10 DEF RepositoryFlushes, ErrorCloses, histVars
  <2> QED
    BY <1>1, <2>2, <2>3 DEF Contract!Next
<1>11. CASE RepositoryFinishes \/ RepositoryFinishFails
  <2>1. ~done /\ content' = content /\ damaged' = damaged /\ \A i \in Items : content[i] > 0
    BY <1>11 DEF RepositoryFinishes, RepositoryFinishFails, histVars
  <2>2. stored = Items /\ stored' = stored
    BY <2>1
  <2>3. CASE done'
    BY <1>3, <2>1, <2>2, <2>3 DEF Contract!Next
  <2>4. CASE ~done'
    BY <1>4, <2>1, <2>4
  <2> QED
    BY <2>3, <2>4
<1>12. CASE RepositoryWriteFails \/ RepositorySeesDone \/ RepositorySeesClosed \/ RepositoryCloses
  BY <1>4, <1>12 DEF RepositoryWriteFails, RepositorySeesDone, RepositorySeesClosed,
       RepositoryCloses, diskVars, histVars
<1>13. CASE DataRemoved
  <2>1. ~done' /\ ~damaged' /\ stored' = {}
    BY <1>13 DEF DataRemoved, RemovesAll, Nothing
  <2> QED
    BY <1>2, <2>1 DEF Contract!Next
<1>14. CASE Restart
  <2>1. CASE UNCHANGED <<content, done, damaged>>
    BY <1>4, <2>1
  <2>2. CASE \E kept \in Parts : RemovesAllBut(kept)
    BY <1>5, <2>2
  <2> QED
    BY <1>14, <2>1, <2>2 DEF Restart
<1> QED
  BY <1>7, <1>8, <1>9, <1>10, <1>11, <1>12, <1>13, <1>6, <1>14 DEF Next, RepositoryStep

\* A collector's directory behaves as CollectorContract says, for every number
\* of items and every storage failure and crash, deletions that are cut
\* off included, as long as the collector reports no error of its own and no shutdown meets it (Honest).
THEOREM CollectorRefinesContract ==
  ASSUME Honest
  PROVE  Spec => KeepsContract
<1>1. Init => DoneInv
  BY InitDone
<1>2. DoneInv /\ [Next]_vars => DoneInv'
  BY Honest, NextTyped, NextControl, NextFiles, NextMarker, NextContract
     DEF DoneInv, Typed, Honest
<1>3. Init => Contract!Init
  BY DEF Init, Contract!Init, Nothing
<1>4. DoneInv /\ DoneInv' /\ [Next]_vars =>
        [Contract!Next]_<<{i \in Items : content[i] > 0}, done, damaged>>
  BY Honest, StepKeepsContract DEF vars, diskVars, histVars
<1> QED
  BY <1>1, <1>2, <1>3, <1>4, PTL DEF Spec, KeepsContract, Contract!Spec

\* The promise of docs/dev/usage.md:24 itself, under the same assumption.
THEOREM DoneIsComplete ==
  ASSUME Honest
  PROVE  Spec => []DoneMeansComplete
<1>1. Init => DoneInv
  BY InitDone
<1>2. DoneInv /\ [Next]_vars => DoneInv'
  BY Honest, NextTyped, NextControl, NextFiles, NextMarker, NextContract
     DEF DoneInv, Typed, Honest
<1>3. DoneInv => DoneMeansComplete
  BY DEF DoneInv, ContractInv
<1> QED
  BY <1>1, <1>2, <1>3, PTL DEF Spec
-----------------------------------------------------------------------------
(* An attempt cannot stand still, and runs down *)

\* What one goroutine knows when the other has come to its end.
Meeting ==
  /\ phase = "running" <=> col # "off"
  /\ phase = "running" <=> repo # "off"
  /\ repo \in {"flush", "finish", "close"} => col \in {"closed", "returned"}
  /\ repo = "returned" /\ ~repoErr => col \in {"closed", "returned"}
  /\ repo = "returned" /\ repoErr => cancelled

\* Every step of an attempt, and whatever happens around it, keeps Meeting;
\* no fault has to be left out.
LEMMA NextMeeting ==
  ASSUME TypeOK, Meeting, [Next]_vars
  PROVE  Meeting'
<1> USE DEF Meeting
<1>1. CASE StartCollector
  BY <1>1 DEF StartCollector
<1>2. CASE WaitReturns
  BY <1>2 DEF WaitReturns
<1>3. CASE CollectorStep
  <2>1. phase' = phase /\ repo' = repo /\ repoErr' = repoErr
    BY <1>3 DEF CollectorStep, CollectorProduces, CollectorFails, CollectorEnds, CollectorDrops,
         CollectorReturns, runVars, repoVars
  <2>2. /\ col # "off" /\ col' # "off"
        /\ col \in {"closed", "returned"} => col' \in {"closed", "returned"}
    BY <1>3 DEF CollectorStep, CollectorProduces, CollectorFails, CollectorEnds, CollectorDrops,
         CollectorReturns
  <2>3. cancelled => cancelled'
    BY <1>3 DEF CollectorStep, CollectorProduces, CollectorFails, CollectorEnds, CollectorDrops,
         CollectorReturns
  <2> QED
    BY <2>1, <2>2, <2>3
<1>4. CASE HandOver
  BY <1>4 DEF HandOver, runVars
<1>5. CASE RepositoryStep
  <2>1. CASE RepositoryWrites
    BY <2>1 DEF RepositoryWrites, runVars, colVars
  <2>2. CASE RepositoryWriteFails \/ ErrorCloses
    BY <2>2 DEF RepositoryWriteFails, ErrorCloses, runVars, colVars
  <2>3. CASE Tidy \/ TidyFails \/ RepositorySeesDone \/ RepositoryFinishFails
    BY <2>3 DEF Tidy, TidyFails, RepositorySeesDone, RepositoryFinishFails, runVars, colVars
  <2>4. CASE RepositorySeesClosed
    BY <2>4 DEF RepositorySeesClosed, runVars, colVars
  <2>5. CASE RepositoryFlushes
    BY <2>5 DEF RepositoryFlushes, runVars, colVars
  <2>6. CASE RepositoryFinishes
    BY <2>6 DEF RepositoryFinishes, runVars, colVars
  <2>7. CASE RepositoryCloses
    <3>1. /\ repo = "close" /\ repo' = "returned" /\ cancelled' = (cancelled \/ repoErr')
          /\ phase' = phase /\ col' = col
      BY <2>7 DEF RepositoryCloses, runVars, colVars
    <3> QED
      BY <3>1
  <2> QED
    BY <1>5, <2>1, <2>2, <2>3, <2>4, <2>5, <2>6, <2>7 DEF RepositoryStep
<1>6. CASE DataRemoved \/ PartRemoved
  BY <1>6 DEF DataRemoved, PartRemoved, colVars, repoVars
<1>7. CASE Shutdown
  BY <1>7 DEF Shutdown, runVars, colVars, repoVars
<1>8. CASE Restart
  BY <1>8 DEF Restart
<1>9. CASE UNCHANGED vars
  BY <1>9 DEF vars, runVars, colVars, repoVars
<1> QED
  BY <1>1, <1>2, <1>3, <1>4, <1>5, <1>6, <1>7, <1>8, <1>9 DEF Next

\* If both goroutines wait, the repository has gone and the collector has not
\* noticed.
LEMMA MeetingPreventsStandstill ==
  ASSUME TypeOK, Meeting
  PROVE  OnlyBlindSendersBlock
<1> SUFFICES ASSUME Standstill
             PROVE  ~SelectsOnDone /\ col = "send" /\ repo = "returned" /\ repoErr
  BY DEF OnlyBlindSendersBlock
<1>1. col \in {"send", "returned"} /\ repo \in {"select", "returned"}
  BY DEF Standstill, CollectorGoesOn, RepositoryGoesOn, TypeOK, Meeting
<1>2. repo = "returned" /\ col = "send"
  BY <1>1 DEF Standstill, RepositoryGoesOn
<1>3. repoErr /\ cancelled
  BY <1>2 DEF Meeting
<1>4. ~SelectsOnDone
  BY <1>2, <1>3 DEF Standstill, CollectorGoesOn, CtxDone
<1> QED
  BY <1>2, <1>3, <1>4

\* The only standstill an attempt can come to is that of a collector that
\* sends without watching the context (startCollector), whatever fails.
THEOREM OnlyBlindSendersStandStill == Spec => []OnlyBlindSendersBlock
<1>1. Init => TypeOK /\ Meeting
  BY InitTyped DEF Init, Meeting, Typed
<1>2. TypeOK /\ Meeting /\ [Next]_vars => Meeting'
  BY NextMeeting
<1>3. TypeOK /\ Meeting => OnlyBlindSendersBlock
  BY MeetingPreventsStandstill
<1> QED
  BY <1>1, <1>2, <1>3, TypeCorrect, PTL DEF Spec

\* The work ahead of the goroutines is a natural number, and 3 N + 6 when an
\* attempt starts: the steps they take in an attempt are no more than that.
LEMMA WorkIsBounded ==
  ASSUME Typed
  PROVE  Work \in 0 .. 3 * N + 7 /\ (StartCollector => Work' = 3 * N + 6)
<1> USE NumbersAreNat
<1>1. sent \in Int /\ 0 <= sent /\ sent <= N /\ (col = "send" => sent < N)
  BY DEF Typed, TypeOK
<1>2. CollectorWork \in 0 .. 3 * N + 2
  <2>1. 3 * (N - sent) \in 0 .. 3 * N
    BY <1>1
  <2> HIDE NumbersAreNat
  <2> QED
    BY <2>1, NumbersAreNat DEF CollectorWork
<1>3. RepositoryWork \in 0 .. 5
  BY DEF RepositoryWork
<1>4. StartCollector => CollectorWork' = 3 * N + 2 /\ RepositoryWork' = 4
  BY DEF StartCollector, CollectorWork, RepositoryWork
<1> QED
  BY <1>2, <1>3, <1>4 DEF Work

\* Both parts of the work ahead are whole numbers.
LEMMA WorkTyped ==
  ASSUME Typed
  PROVE  CollectorWork \in Int /\ RepositoryWork \in Int
<1>1. N - sent \in Int
  BY NumbersAreNat DEF Typed, TypeOK
<1> QED
  BY <1>1 DEF CollectorWork, RepositoryWork

\* A step that only the collector takes.
LEMMA CollectorRunsDown ==
  ASSUME Typed, CollectorStep
  PROVE  CollectorWork' < CollectorWork /\ RepositoryWork' = RepositoryWork
<1> USE NumbersAreNat
<1>1. sent \in Int /\ 0 <= sent /\ sent <= N
  BY DEF Typed, TypeOK
<1>2. repo' = repo
  BY DEF CollectorStep, CollectorProduces, CollectorFails, CollectorEnds, CollectorDrops,
     CollectorReturns, repoVars
<1>3. \/ col = "produce" /\ col' = "send" /\ sent' = sent
      \/ col = "produce" /\ col' = "closed"
      \/ col = "send" /\ col' = "produce" /\ sent' = sent + 1
      \/ col = "closed" /\ col' = "returned"
  BY DEF CollectorStep, CollectorProduces, CollectorFails, CollectorEnds, CollectorDrops,
     CollectorReturns
<1> QED
  BY <1>1, <1>2, <1>3 DEF CollectorWork, RepositoryWork

\* A step that only the repository takes.
LEMMA RepositoryRunsDown ==
  ASSUME Typed, RepositoryStep
  PROVE  RepositoryWork' < RepositoryWork /\ CollectorWork' = CollectorWork
<1>1. col' = col /\ sent' = sent
  BY DEF RepositoryStep, RepositoryWrites, RepositoryWriteFails, ErrorCloses, Tidy, TidyFails,
     RepositorySeesDone, RepositorySeesClosed, RepositoryFlushes, RepositoryFinishes,
     RepositoryFinishFails, RepositoryCloses, colVars
<1>2. \/ repo = "create" /\ repo' \in {"select", "tidy"}
      \/ repo = "tidy" /\ repo' = "delete"
      \/ repo \in {"select", "delete", "finish", "close"} /\ repo' = "returned"
      \/ repo = "select" /\ repo' \in {"flush", "finish"}
      \/ repo = "flush" /\ repo' = "finish"
      \/ repo = "finish" /\ repo' = "close"
  BY DEF RepositoryStep, RepositoryWrites, RepositoryWriteFails, ErrorCloses, Tidy, TidyFails,
     RepositorySeesDone, RepositorySeesClosed, RepositoryFlushes, RepositoryFinishes,
     RepositoryFinishFails, RepositoryCloses
<1> QED
  BY <1>1, <1>2 DEF CollectorWork, RepositoryWork

\* An item that is handed over is one step nearer to the disk.
LEMMA HandOverRunsDown ==
  ASSUME Typed, HandOver
  PROVE  Work' < Work
<1> USE NumbersAreNat
<1>1. sent \in Int /\ 0 <= sent /\ sent <= N
  BY DEF Typed, TypeOK
<1>2. CollectorWork' = CollectorWork - 2 /\ RepositoryWork' = RepositoryWork + 1
  BY <1>1 DEF HandOver, CollectorWork, RepositoryWork
<1>3. CollectorWork \in Int /\ RepositoryWork \in Int
  BY <1>1 DEF HandOver, CollectorWork, RepositoryWork
<1> QED
  BY <1>2, <1>3 DEF Work

\* Each step of an attempt takes it nearer to its end, and nothing around it
\* takes it away from there: no item, write or clean-up is tried again within an
\* attempt (startCollector).
THEOREM AttemptsRunDown == Spec => AttemptRunsDown
<1>1. ASSUME Typed, [Next]_vars, phase = "running", phase' = "running"
      PROVE  Work' < Work \/ UNCHANGED <<colVars, repoVars>>
  <2> USE <1>1
  <2>1. CASE CollectorStep
    <3>1. Typed'
      BY NextTyped
    <3>2. CollectorWork' \in Int
      BY <3>1, NumbersAreNat DEF Typed, TypeOK, CollectorWork
    <3> QED
      BY <2>1, <3>2, CollectorRunsDown, WorkTyped DEF Work
  <2>2. CASE RepositoryStep
    <3>1. RepositoryWork' \in Int
      BY DEF RepositoryWork
    <3> QED
      BY <2>2, <3>1, RepositoryRunsDown, WorkTyped DEF Work
  <2>3. CASE HandOver
    BY <2>3, HandOverRunsDown
  <2>4. ~StartCollector /\ ~WaitReturns /\ ~Restart
    BY DEF StartCollector, WaitReturns, Restart
  <2>5. CASE DataRemoved \/ PartRemoved \/ Shutdown
    BY <2>5 DEF DataRemoved, PartRemoved, Shutdown
  <2>6. CASE UNCHANGED vars
    BY <2>6 DEF vars
  <2> QED
    BY <2>1, <2>2, <2>3, <2>4, <2>5, <2>6 DEF Next
<1>2. Typed /\ [Next]_vars =>
        [phase = "running" /\ phase' = "running" =>
           Work' < Work \/ UNCHANGED <<colVars, repoVars>>]_vars
  BY <1>1
<1>3. Init => Typed
  BY InitTyped
<1>4. Typed /\ [Next]_vars => Typed'
  BY NextTyped
<1> QED
  BY <1>2, <1>3, <1>4, PTL DEF Spec, AttemptRunsDown
=============================================================================
