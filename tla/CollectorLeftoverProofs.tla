---------------------- MODULE CollectorLeftoverProofs -----------------------
(***************************************************************************)
(* What an attempt leaves behind, for every number of items, every kind of *)
(* collector, every combination of faults and every bound: a second copy   *)
(* of an item comes from an attempt that ended without tidying up, or from *)
(* a deletion that was cut off.                                            *)
(***************************************************************************)
EXTENDS CollectorRunProofs

\* How often item i is there, on disk or in the csv writer.
Copies(i) == content[i] + buffer[i]

\* No file is open and nothing is buffered.
Closed == file = "none" /\ buffer = Nothing

\* The repository's files, whatever fails: who has one, and where it is closed.
OpenFiles ==
  /\ phase = "idle" <=> repo = "off"
  /\ kind # "csv" => buffer = Nothing
  /\ kind \in {"yaml", "state"} => file = "none"
  /\ repo = "create" => item \in Items /\ item <= sent
  /\ repoErr => repo \in {"finish", "returned", "off"}
  /\ repoErr /\ repo = "finish" => kind = "csv"
  /\ repo = "flush" => kind = "csv"
  /\ kind = "csv" /\ repo \in {"finish", "close"} => Closed
  /\ repo = "delete" => Closed

\* The inductive invariant: an attempt begins with an empty directory, and
\* writes every item at most once.
OnceInv ==
  /\ ~abandoned /\ repo = "close" => done \/ content = Nothing
  /\ ~abandoned /\ repo \in {"returned", "off"} => Closed /\ (done \/ content = Nothing)
  /\ ~abandoned => \A i \in Items :
       /\ Copies(i) \in {0, 1}
       /\ phase = "running" /\ (i > sent \/ (repo = "create" /\ i = item)) => Copies(i) = 0

\* No attempt, no data.
LEMMA InitOnce == Init => OpenFiles /\ OnceInv
<1> SUFFICES ASSUME Init PROVE OpenFiles /\ OnceInv
  OBVIOUS
<1>1. \A i \in Items : Copies(i) = 0
  BY DEF Init, Copies, Nothing
<1> QED
  BY <1>1 DEF Init, OpenFiles, OnceInv, Closed

\* Every step keeps the files to their places.
LEMMA NextOpenFiles ==
  ASSUME Typed, OpenFiles, [Next]_vars
  PROVE  OpenFiles'
<1> USE DEF OpenFiles, Closed
<1>1. CASE StartCollector
  BY <1>1 DEF StartCollector, diskVars
<1>2. CASE WaitReturns
  BY <1>2 DEF WaitReturns, diskVars
<1>3. CASE CollectorStep
  <2>1. sent \in Int /\ item \in Int /\ sent' \in {sent, sent + 1}
    BY <1>3, NumbersAreNat DEF CollectorStep, CollectorProduces, CollectorFails, CollectorEnds,
       CollectorDrops, CollectorReturns, Typed, TypeOK
  <2> QED
    BY <1>3, <2>1 DEF CollectorStep, CollectorProduces, CollectorFails, CollectorEnds, CollectorDrops,
              CollectorReturns, runVars, repoVars, diskVars
<1>4. CASE HandOver
  <2>1. item' \in Items /\ item' <= sent'
    BY <1>4, NumbersAreNat DEF HandOver, Typed, TypeOK, Items
  <2> QED
    BY <1>4, <2>1 DEF HandOver, runVars, diskVars
<1>5. CASE RepositoryWrites \/ RepositoryWriteFails
  BY <1>5 DEF RepositoryWrites, RepositoryWriteFails, WritesLine, WritesRow, WritesFile,
              runVars, colVars, diskVars
<1>6. CASE ErrorCloses \/ Tidy \/ TidyFails
  BY <1>6 DEF ErrorCloses, Tidy, TidyFails, runVars, colVars
<1>7. CASE RepositorySeesDone \/ RepositorySeesClosed
  BY <1>7 DEF RepositorySeesDone, RepositorySeesClosed, runVars, colVars, diskVars
<1>8. CASE RepositoryFlushes
  BY <1>8 DEF RepositoryFlushes, runVars, colVars
<1>9. CASE RepositoryFinishes \/ RepositoryFinishFails
  BY <1>9 DEF RepositoryFinishes, RepositoryFinishFails, runVars, colVars
<1>10. CASE RepositoryCloses
  BY <1>10 DEF RepositoryCloses, runVars, colVars
<1>11. CASE DataRemoved \/ PartRemoved
  BY <1>11 DEF DataRemoved, PartRemoved, colVars, repoVars
<1>12. CASE Shutdown
  BY <1>12 DEF Shutdown, runVars, colVars, repoVars, diskVars
<1>13. CASE Restart
  BY <1>13 DEF Restart
<1>14. CASE UNCHANGED vars
  BY <1>14 DEF vars, runVars, colVars, repoVars, diskVars
<1> QED
  BY <1>1, <1>2, <1>3, <1>4, <1>5, <1>6, <1>7, <1>8, <1>9, <1>10, <1>11, <1>12, <1>13, <1>14
     DEF Next, RepositoryStep

\* A write gives one more copy of the item, and of no other.
LEMMA WriteOnce ==
  ASSUME Typed, OpenFiles, RepositoryWrites, \A i \in Items : Copies(i) \in {0, 1}, Copies(item) = 0
  PROVE  \A i \in Items : Copies(i)' \in {0, 1} /\ (i # item => Copies(i)' \in {0, Copies(i)})
<1> USE DEF Typed, TypeOK
<1> SUFFICES ASSUME NEW i \in Items
             PROVE  Copies(i)' \in {0, 1} /\ (i # item => Copies(i)' \in {0, Copies(i)})
  OBVIOUS
<1>1. content[i] \in Nat /\ buffer[i] \in Nat
  OBVIOUS
<1>2. CASE WritesLine
  <2>1. content'[i] \in {content[i], IF i = item THEN content[i] + 1 ELSE content[i]} /\ buffer'[i] = buffer[i]
    BY <1>2 DEF WritesLine
  <2> QED
    BY <1>1, <2>1 DEF Copies
<1>3. CASE WritesRow
  <2> DEFINE row == IF i = item THEN buffer[i] + 1 ELSE buffer[i]
  <2>1. \/ content'[i] = content[i] /\ buffer'[i] = row
        \/ content'[i] = content[i] /\ buffer'[i] = 0
        \/ content'[i] = content[i] + row /\ buffer'[i] = 0
    BY <1>3 DEF WritesRow, Nothing
  <2> QED
    BY <1>1, <2>1 DEF Copies
<1>4. CASE WritesFile
  <2>1. content'[i] = (IF i = item THEN 1 ELSE content[i]) /\ buffer'[i] = 0 /\ buffer[i] = 0
    BY <1>4 DEF WritesFile, OpenFiles, Nothing
  <2> QED
    BY <1>1, <2>1 DEF Copies
<1> QED
  BY <1>2, <1>3, <1>4 DEF RepositoryWrites

\* No other step of the repository makes a copy.
LEMMA NoNewCopies ==
  ASSUME Typed, RepositoryStep, ~RepositoryWrites
  PROVE  \A i \in Items : Copies(i)' \in 0 .. Copies(i)
<1> USE DEF Typed, TypeOK
<1> SUFFICES ASSUME NEW i \in Items
             PROVE  Copies(i)' \in 0 .. Copies(i)
  OBVIOUS
<1>1. content[i] \in Nat /\ buffer[i] \in Nat
  OBVIOUS
<1>2. CASE ErrorCloses \/ RepositoryFlushes
  <2>1. content'[i] \in {content[i], content[i] + buffer[i]} /\ buffer'[i] = 0
    BY <1>2 DEF ErrorCloses, RepositoryFlushes, Flushed, Nothing
  <2> QED
    BY <1>1, <2>1 DEF Copies
<1>3. CASE Tidy \/ TidyFails
  <2>1. content'[i] \in {0, content[i]} /\ buffer'[i] = buffer[i]
    BY <1>3, PartialRemoval DEF Tidy, TidyFails, RemovesAll, Nothing
  <2> QED
    BY <1>1, <2>1 DEF Copies
<1>4. CASE UNCHANGED <<content, buffer>>
  BY <1>1, <1>4 DEF Copies
<1> QED
  BY <1>2, <1>3, <1>4 DEF RepositoryStep, RepositoryWriteFails, RepositorySeesDone,
     RepositorySeesClosed, RepositoryFinishes, RepositoryFinishFails, RepositoryCloses, diskVars

\* Every step writes an item at most once, until an attempt is abandoned.
LEMMA NextOnce ==
  ASSUME Typed, OpenFiles, OnceInv, [Next]_vars
  PROVE  OnceInv'
<1>1. CASE StartCollector
  <2>1. ~abandoned => content = Nothing /\ buffer = Nothing
    BY <1>1 DEF StartCollector, OpenFiles, OnceInv, Closed
  <2>2. ~abandoned => \A i \in Items : Copies(i)' = 0
    BY <1>1, <2>1 DEF StartCollector, diskVars, Copies, Nothing
  <2> QED
    BY <1>1, <2>2 DEF StartCollector, diskVars, histVars, OnceInv
<1>2. CASE WaitReturns
  BY <1>2 DEF WaitReturns, diskVars, histVars, OnceInv, OpenFiles, Closed, Copies
<1>3. CASE CollectorStep
  <2>1. sent \in Int /\ sent' \in {sent, sent + 1}
    BY <1>3, NumbersAreNat DEF CollectorStep, CollectorProduces, CollectorFails, CollectorEnds,
       CollectorDrops, CollectorReturns, Typed, TypeOK
  <2>2. UNCHANGED <<runVars, repoVars, diskVars, abandoned>>
    BY <1>3 DEF CollectorStep, CollectorProduces, CollectorFails, CollectorEnds,
       CollectorDrops, CollectorReturns, histVars
  <2>3. \A i \in Items : (i > sent' => i > sent) /\ Copies(i)' = Copies(i)
    BY <2>1, <2>2 DEF Items, diskVars, Copies
  <2> QED
    BY <2>2, <2>3 DEF runVars, repoVars, diskVars, OnceInv, Closed
<1>4. CASE HandOver
  <2>1. sent \in Int /\ sent' = sent + 1 /\ item' = sent + 1
    BY <1>4, NumbersAreNat DEF HandOver, Typed, TypeOK
  <2>2. \A i \in Items : (i > sent' \/ i = item' => i > sent) /\ Copies(i)' = Copies(i)
    BY <1>4, <2>1 DEF HandOver, Items, diskVars, Copies
  <2>3. phase = "running" /\ UNCHANGED <<phase, abandoned>> /\ repo' = "create"
    BY <1>4 DEF HandOver, runVars, histVars, OpenFiles, Typed, TypeOK
  <2> QED
    BY <2>2, <2>3 DEF OnceInv
<1>5. CASE RepositoryWrites
  <2>1. /\ repo = "create" /\ repo' = "select" /\ phase = "running"
        /\ UNCHANGED <<phase, sent, item, abandoned>>
    BY <1>5 DEF RepositoryWrites, runVars, colVars, histVars, OpenFiles, Typed, TypeOK
  <2>2. ~abandoned => \A i \in Items : Copies(i)' \in {0, 1} /\ (i # item => Copies(i)' \in {0, Copies(i)})
    BY <1>5, <2>1, WriteOnce DEF OnceInv, OpenFiles
  <2>3. \A i \in Items : i > sent => i # item
    BY <2>1, NumbersAreNat DEF OpenFiles, Items, Typed, TypeOK
  <2> QED
    BY <2>1, <2>2, <2>3 DEF OnceInv
<1>6. CASE RepositoryStep /\ ~RepositoryWrites
  <2>1. \A i \in Items : Copies(i)' \in 0 .. Copies(i)
    BY <1>6, NoNewCopies
  <2>2. UNCHANGED <<phase, sent, item>> /\ repo' # "create" /\ abandoned' \in {abandoned, TRUE}
    BY <1>6 DEF RepositoryStep, RepositoryWriteFails, ErrorCloses, Tidy, TidyFails,
       RepositorySeesDone, RepositorySeesClosed, RepositoryFlushes, RepositoryFinishes,
       RepositoryFinishFails, RepositoryCloses, runVars, colVars, histVars
  <2>3. ~abandoned' => \A i \in Items :
           /\ Copies(i)' \in {0, 1}
           /\ phase' = "running" /\ i > sent' => Copies(i)' = 0
    <3> SUFFICES ASSUME ~abandoned', NEW i \in Items
                 PROVE  /\ Copies(i)' \in {0, 1}
                        /\ phase' = "running" /\ i > sent' => Copies(i)' = 0
      OBVIOUS
    <3>1. /\ Copies(i) \in {0, 1}
          /\ phase = "running" /\ i > sent => Copies(i) = 0
      <4>1. abandoned' \in BOOLEAN /\ abandoned \in BOOLEAN
        BY <2>2 DEF Typed, TypeOK
      <4>2. ~abandoned
        BY <2>2, <4>1
      <4> QED
        BY <4>2 DEF OnceInv
    <3>2. Copies(i)' \in 0 .. Copies(i)
      BY <2>1
    <3>3. Copies(i)' \in {0, 1} /\ (Copies(i) = 0 => Copies(i)' = 0)
      BY <3>1, <3>2
    <3> QED
      BY <2>2, <3>1, <3>3
  <2>4. CASE repo' \notin {"close", "returned", "off"}
    BY <2>2, <2>3, <2>4 DEF OnceInv
  <2>5. CASE Tidy
    BY <2>2, <2>3, <2>5 DEF Tidy, RemovesAll, OpenFiles, OnceInv, Closed
  <2>6. CASE RepositoryFinishes
    BY <2>2, <2>3, <2>6 DEF RepositoryFinishes, OpenFiles, OnceInv, Closed
  <2>7. CASE RepositoryCloses
    <3>1. repo = "close" /\ repo' = "returned" /\ file' = "none" /\ UNCHANGED <<content, buffer, done, abandoned>>
      BY <2>7 DEF RepositoryCloses, histVars
    <3>2. kind = "csv" => buffer = Nothing
      BY <3>1 DEF OpenFiles, Closed
    <3> QED
      BY <2>2, <2>3, <3>1, <3>2 DEF OpenFiles, OnceInv, Closed
  <2>8. CASE TidyFails \/ RepositorySeesDone \/ RepositoryFinishFails
    BY <2>2, <2>8 DEF TidyFails, RepositorySeesDone, RepositoryFinishFails, OnceInv
  <2> QED
    BY <1>6, <2>4, <2>5, <2>6, <2>7, <2>8 DEF RepositoryStep, RepositoryWriteFails, ErrorCloses,
       RepositorySeesClosed, RepositoryFlushes
<1>7. CASE DataRemoved
  <2>1. UNCHANGED <<phase, repo, item, sent, buffer, abandoned>> /\ content' = Nothing
    BY <1>7 DEF DataRemoved, RemovesAll, colVars, repoVars
  <2>2. file = "none" => file' = "none"
    BY <1>7 DEF DataRemoved
  <2>3. \A i \in Items : Copies(i)' \in 0 .. Copies(i)
    BY <2>1 DEF Copies, Nothing, Typed, TypeOK
  <2>4. \A i \in Items : Copies(i) \in {0, 1} => Copies(i)' \in {0, 1}
    BY <2>3
  <2>5. \A i \in Items : Copies(i) = 0 => Copies(i)' = 0
    BY <2>3
  <2> QED
    BY <2>1, <2>2, <2>4, <2>5 DEF OnceInv, Closed
<1>8. CASE Shutdown \/ UNCHANGED vars
  BY <1>8 DEF Shutdown, vars, runVars, colVars, repoVars, diskVars, histVars, OnceInv, Closed, Copies
<1>9. CASE PartRemoved
  <2>1. abandoned'
    BY <1>9 DEF PartRemoved
  <2> QED
    BY <2>1 DEF OnceInv
<1>10. CASE Restart
  <2>1. CASE abandoned'
    BY <2>1, <1>10 DEF OnceInv, Restart
  <2>2. CASE ~abandoned'
    <3>1. /\ phase' = "idle" /\ repo' = "off" /\ Closed' /\ UNCHANGED <<content, done>>
          /\ buffer' = Nothing /\ ~abandoned /\ phase # "running"
      BY <1>10, <2>2 DEF Restart, Closed
    <3>2. done \/ content = Nothing
      BY <3>1 DEF OnceInv, OpenFiles, Typed, TypeOK
    <3>3. \A i \in Items : Copies(i)' = content[i]
      BY <3>1 DEF Copies, Nothing, Typed, TypeOK
    <3>4. \A i \in Items : Copies(i) \in {0, 1} => Copies(i)' \in {0, 1}
      BY <3>3 DEF Copies, Typed, TypeOK
    <3> QED
      BY <3>1, <3>2, <3>4 DEF OnceInv
  <2> QED
    BY <2>1, <2>2
<1> QED
  BY <1>1, <1>2, <1>3, <1>4, <1>5, <1>6, <1>7, <1>8, <1>9, <1>10 DEF Next

\* A second copy of an item, or a file still open between two attempts, was
\* left by an attempt that ended without handleCreateErr's clean-up or without
\* closeFn, or by a Delete that was cut off: whatever fails, create begins with an empty directory and writes
\* each item once.
THEOREM LeftoversAreAbandoned == Spec => []LeftoversComeFromAbandonedWork
<1>1. Init => Typed /\ OpenFiles /\ OnceInv
  BY InitTyped, InitOnce
<1>2. Typed /\ OpenFiles /\ OnceInv /\ [Next]_vars => (Typed /\ OpenFiles /\ OnceInv)'
  BY NextTyped, NextOpenFiles, NextOnce
<1>3. Typed /\ OpenFiles /\ OnceInv => LeftoversComeFromAbandonedWork
  BY DEF Typed, TypeOK, OpenFiles, OnceInv, Closed, Copies, LeftoversComeFromAbandonedWork
<1> QED
  BY <1>1, <1>2, <1>3, PTL DEF Spec
=============================================================================
