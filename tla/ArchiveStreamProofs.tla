------------------------- MODULE ArchiveStreamProofs ------------------------
(***************************************************************************)
(* What createArchive guarantees for every set of collectors, every number *)
(* of files, every combination of faults and any number of attempts.       *)
(***************************************************************************)
EXTENDS ArchiveStream, FiniteSetTheorems, WellFoundedInduction, TLAPS

-----------------------------------------------------------------------------
(* Type correctness *)

\* The constants that are used as numbers, and the collector that is none.
LEMMA Numbers == N \in Nat /\ N >= 1 /\ MaxAttempts \in Nat /\ None \notin Collectors
  BY ArchiveStreamAssumption DEF ArchiveStreamAssumption

\* The first of the files that are left is one of them.
LEMMA MinIsMember ==
  ASSUME NEW S, S \subseteq 1 .. N, S # {}
  PROVE  Min(S) \in S
<1>1. S \subseteq Nat
  BY Numbers
<1>2. PICK x \in S : \A y \in S : ~(<<y, x>> \in OpToRel(<, Nat))
  BY <1>1, WFMin, NatLessThanWellFounded, Zenon
<1>3. \A y \in S : x =< y
  <2> SUFFICES ASSUME NEW y \in S, y < x PROVE FALSE
    BY <1>1
  <2>1. <<y, x>> \in Nat \X Nat
    BY <1>1
  <2> QED
    BY <1>2, <2>1 DEF OpToRel
<1> QED
  BY <1>3 DEF Min

\* TypeOK, and a goroutine that sends has a file to send.
Typed == TypeOK /\ \A c \in Collectors : str[c] = "send" => left[c] # {}

\* Goroutines that are all in the same place, none sending, with no files.
LEMMA AllTyped ==
  ASSUME NEW place \in {"off", "check"}
  PROVE  /\ [c \in Collectors |-> place] \in
              [Collectors -> {"off", "check", "list", "walk", "send", "closed", "returned"}]
         /\ [c \in Collectors |-> {}] \in [Collectors -> SUBSET (1 .. N)]
         /\ \A c \in Collectors : [d \in Collectors |-> place][c] # "send"
  OBVIOUS

\* No zip, and no goroutine.
LEMMA InitTyped == Init => Typed
<1> SUFFICES ASSUME Init PROVE Typed
  OBVIOUS
<1>1. /\ str = [c \in Collectors |-> "off"] /\ left = [c \in Collectors |-> {}]
      /\ onDisk \subseteq Files /\ entries \subseteq Files
      /\ todo \subseteq Collectors /\ item \in 0 .. N /\ attempts \in 0 .. MaxAttempts
      /\ cur \in Collectors \cup {None}
  BY Numbers DEF Init
<1>2. /\ phase = "idle" /\ zipper = "off" /\ outcome = "none"
      /\ failed \in BOOLEAN /\ shutdown \in BOOLEAN /\ kept \in BOOLEAN /\ zip = "none"
  BY DEF Init
<1> QED
  BY <1>1, <1>2, AllTyped DEF Typed, TypeOK

\* One goroutine of a stream goes on.
LEMMA StreamTyped ==
  ASSUME Typed, NEW c \in Collectors, StreamStep(c)
  PROVE  Typed'
<1> USE Numbers DEF Typed, TypeOK, StreamTo, runVars, readVars, zipVars
<1>1. CASE StreamChecks(c)
  BY <1>1 DEF StreamChecks
<1>2. CASE StreamLists(c)
  BY <1>2 DEF StreamLists
<1>3. CASE StreamFails(c)
  BY <1>3 DEF StreamFails
<1>4. CASE StreamNext(c)
  BY <1>4 DEF StreamNext
<1>5. CASE StreamDrops(c)
  BY <1>5 DEF StreamDrops, IsSent
<1>6. CASE StreamCloses(c)
  BY <1>6 DEF StreamCloses
<1> QED
  BY <1>1, <1>2, <1>3, <1>4, <1>5, <1>6 DEF StreamStep

\* The goroutine of the zip goes on.
LEMMA ZipTyped ==
  ASSUME Typed, ZipStep
  PROVE  Typed'
<1> USE Numbers DEF Typed, TypeOK, runVars, strVars, zipVars
<1>1. CASE ZipOpens \/ ZipOpenFails
  BY <1>1 DEF ZipOpens, ZipOpenFails
<1>2. CASE ZipTakesStream
  BY <1>2 DEF ZipTakesStream
<1>3. CASE ZipReceives
  <2>1. cur \in Collectors /\ left[cur] \subseteq 1 .. N /\ left[cur] # {}
    BY <1>3 DEF ZipReceives
  <2>2. item' \in 0 .. N
    BY <1>3, <2>1, MinIsMember DEF ZipReceives, Sent
  <2>3. /\ str' \in [Collectors -> {"off", "check", "list", "walk", "send", "closed", "returned"}]
        /\ left' \in [Collectors -> SUBSET (1 .. N)]
        /\ \A c \in Collectors : str'[c] = "send" => left'[c] # {}
    BY <1>3, <2>1 DEF ZipReceives, StreamTo, IsSent
  <2> QED
    BY <1>3, <2>2, <2>3 DEF ZipReceives
<1>4. CASE ZipCopies
  BY <1>4 DEF ZipCopies
<1>5. CASE ZipCopyFails \/ ZipSeesDone
  BY <1>5 DEF ZipCopyFails, ZipSeesDone
<1>6. CASE ZipSeesClosed
  BY <1>6 DEF ZipSeesClosed
<1>7. CASE ZipAborts
  BY <1>7 DEF ZipAborts
<1>8. CASE ZipCloses
  BY <1>8 DEF ZipCloses
<1> QED
  BY <1>1, <1>2, <1>3, <1>4, <1>5, <1>6, <1>7, <1>8 DEF ZipStep

\* Every step keeps the types.
LEMMA NextTyped == Typed /\ [Next]_vars => Typed'
<1> SUFFICES ASSUME Typed, [Next]_vars PROVE Typed'
  OBVIOUS
<1> USE Numbers DEF Typed, TypeOK, runVars, strVars, readVars, zipVars
<1>1. CASE UNCHANGED vars
  BY <1>1 DEF vars
<1>2. CASE StartArchive
  <2>1. /\ str' \in [Collectors -> {"off", "check", "list", "walk", "send", "closed", "returned"}]
        /\ left' \in [Collectors -> SUBSET (1 .. N)]
        /\ \A c \in Collectors : str'[c] # "send"
    BY <1>2, AllTyped DEF StartArchive
  <2>2. /\ zipper' = "open" /\ cur' = None /\ todo' = Collectors /\ item' = 0
        /\ phase' = "running" /\ attempts' = attempts + 1 /\ attempts < MaxAttempts
        /\ failed' \in BOOLEAN /\ kept' \in BOOLEAN /\ outcome' = "none"
        /\ UNCHANGED <<zip, entries, shutdown, onDisk>>
    BY <1>2 DEF StartArchive
  <2> QED
    BY <2>1, <2>2
<1>3. CASE WaitReturns
  BY <1>3 DEF WaitReturns
<1>4. CASE ZipStep
  BY <1>4, ZipTyped
<1>5. ASSUME NEW c \in Collectors, StreamStep(c) PROVE Typed'
  BY <1>5, StreamTyped
<1>6. ASSUME NEW c \in Collectors, Recollected(c) PROVE Typed'
  <2>1. {c} \X (1 .. N) \subseteq Files
    BY DEF Files
  <2> QED
    BY <1>6, <2>1 DEF Recollected
<1>7. ASSUME NEW c \in Collectors, NEW i \in 1 .. N, DataRemoved(c, i) PROVE Typed'
  BY <1>7 DEF DataRemoved
<1>8. CASE Shutdown
  BY <1>8 DEF Shutdown
<1>9. CASE Restart
  <2>1. /\ str' \in [Collectors -> {"off", "check", "list", "walk", "send", "closed", "returned"}]
        /\ left' \in [Collectors -> SUBSET (1 .. N)]
        /\ \A c \in Collectors : str'[c] # "send"
    BY <1>9, AllTyped DEF Restart
  <2>2. /\ zipper' = "off" /\ cur' = None /\ todo' = {} /\ item' = 0
        /\ phase' = "idle" /\ outcome' = "none" /\ failed' \in BOOLEAN /\ shutdown' \in BOOLEAN
        /\ UNCHANGED <<attempts, zip, entries, kept, onDisk>>
    BY <1>9 DEF Restart
  <2> QED
    BY <2>1, <2>2
<1> QED
  BY <1>1, <1>2, <1>3, <1>4, <1>5, <1>6, <1>7, <1>8, <1>9 DEF Next

\* The state has its type: what is read, received and written is a file of a
\* collector whose stream is open.
THEOREM TypeCorrect == Spec => []TypeOK
<1>1. Spec => []Typed
  BY InitTyped, NextTyped, PTL DEF Spec
<1>2. Typed => TypeOK
  BY DEF Typed
<1> QED
  BY <1>1, <1>2, PTL

-----------------------------------------------------------------------------
(* What the steps have in common *)

\* A stream's step moves that stream only, and never from its end.
LEMMA StreamStepIsLocal ==
  ASSUME Typed, NEW c \in Collectors, StreamStep(c)
  PROVE  /\ UNCHANGED <<runVars, readVars, zipVars, shutdown, onDisk>>
         /\ str[c] \in {"check", "list", "walk", "send"}
         /\ \A d \in Collectors \ {c} : str'[d] = str[d] /\ left'[d] = left[d]
         /\ str'[c] = "returned" => failed'
         /\ failed' => failed \/ str'[c] = "returned"
         /\ failed => failed'
<1>1. str \in [Collectors -> {"off", "check", "list", "walk", "send", "closed", "returned"}]
      /\ left \in [Collectors -> SUBSET (1 .. N)]
  BY DEF Typed, TypeOK
<1> QED
  BY <1>1 DEF StreamStep, StreamChecks, StreamLists, StreamFails, StreamNext, StreamDrops,
              StreamCloses, StreamTo, IsSent

\* What happens around a running attempt.
LEMMA OutsideStep ==
  ASSUME [Next]_vars, phase' = "running",
         ~StartArchive, ~ZipStep, ~\E c \in Collectors : StreamStep(c)
  PROVE  /\ phase = "running"
         /\ UNCHANGED <<runVars, strVars, readVars, zipVars, failed>>
         /\ ~shutdown' => ~shutdown
         /\ onDisk' = Files => onDisk = Files
<1>1. CASE UNCHANGED vars
  BY <1>1 DEF vars, runVars
<1>2. CASE WaitReturns \/ Restart
  BY <1>2 DEF WaitReturns, Restart
<1>3. ASSUME NEW c \in Collectors, Recollected(c) PROVE FALSE
  BY <1>3 DEF Recollected, runVars
<1>4. ASSUME NEW c \in Collectors, NEW i \in 1 .. N, DataRemoved(c, i)
      PROVE  UNCHANGED <<runVars, strVars, readVars, zipVars, failed, shutdown>> /\ onDisk' # Files
  BY <1>4 DEF DataRemoved, Files
<1>5. CASE Shutdown
  BY <1>5 DEF Shutdown, runVars
<1> QED
  BY <1>1, <1>2, <1>3, <1>4, <1>5 DEF Next, runVars

\* createArchive returns in errGroup.Wait.
LEMMA ReturnsInWait ==
  ASSUME Next, Returns
  PROVE  WaitReturns
  BY DEF Next, Returns, WaitReturns, StartArchive, ZipStep, ZipOpens, ZipOpenFails,
     ZipTakesStream, ZipReceives, ZipCopies, ZipCopyFails, ZipSeesClosed, ZipSeesDone,
     ZipAborts, ZipCloses, StreamStep, StreamChecks, StreamLists, StreamFails, StreamNext,
     StreamDrops, StreamCloses, Recollected, DataRemoved, Shutdown, Restart, runVars

-----------------------------------------------------------------------------
(* A failed zip is removed *)

\* A stream that has failed never closes its channel, so the zip cannot be
\* finished; a zip that has failed is removed before the error is returned.
FailInv ==
  phase = "running" =>
    /\ zipper # "off"
    /\ \A c \in Collectors \ todo : str[c] = "closed"
    /\ zipper = "open" => zip = "none"
    /\ zipper = "returned" => zip = "none" \/ kept \/ todo = {}
    /\ failed => \/ \E c \in Collectors : str[c] = "returned"
                 \/ zipper = "returned" /\ (zip = "none" \/ kept)

\* Every step keeps it.
LEMMA NextFail == Typed /\ FailInv /\ [Next]_vars => FailInv'
<1> SUFFICES ASSUME Typed, FailInv, [Next]_vars, phase' = "running" PROVE FailInv'
  BY DEF FailInv
<1>0. /\ str \in [Collectors -> {"off", "check", "list", "walk", "send", "closed", "returned"}]
      /\ left \in [Collectors -> SUBSET (1 .. N)]
  BY DEF Typed, TypeOK
<1>1. CASE StartArchive
  BY <1>1 DEF StartArchive, FailInv
<1>2. ASSUME NEW c \in Collectors, StreamStep(c) PROVE FailInv'
  <2>1. /\ UNCHANGED <<runVars, readVars, zipVars, shutdown, onDisk>>
        /\ str[c] \in {"check", "list", "walk", "send"}
        /\ \A d \in Collectors \ {c} : str'[d] = str[d]
        /\ failed' => failed \/ str'[c] = "returned"
    BY <1>2, StreamStepIsLocal
  <2> QED
    BY <2>1 DEF FailInv, runVars, readVars, zipVars
<1>3. CASE ZipStep
  <2>1. phase = "running" /\ UNCHANGED <<runVars, shutdown, onDisk>>
    BY <1>3 DEF ZipStep, ZipOpens, ZipOpenFails, ZipTakesStream, ZipReceives, ZipCopies,
       ZipCopyFails, ZipSeesClosed, ZipSeesDone, ZipAborts, ZipCloses, runVars
  <2>2. CASE ZipOpens \/ ZipOpenFails
    BY <2>1, <2>2 DEF ZipOpens, ZipOpenFails, FailInv, strVars, zipVars
  <2>3. CASE ZipTakesStream \/ ZipCopies \/ ZipCopyFails \/ ZipSeesDone
    BY <2>1, <2>3 DEF ZipTakesStream, ZipCopies, ZipCopyFails, ZipSeesDone, FailInv, strVars, zipVars
  <2>4. CASE ZipReceives
    <3>1. /\ UNCHANGED <<todo, zip, kept, failed>> /\ zipper = "read" /\ zipper' = "copy"
          /\ str[cur] = "send" /\ \A d \in Collectors : d # cur => str'[d] = str[d]
      BY <1>0, <2>4 DEF ZipReceives, StreamTo, zipVars
    <3> QED
      BY <2>1, <3>1 DEF FailInv
  <2>5. CASE ZipSeesClosed
    BY <2>1, <2>5 DEF ZipSeesClosed, FailInv, strVars, zipVars
  <2>6. CASE ZipAborts
    BY <2>1, <2>6 DEF ZipAborts, FailInv, strVars
  <2>7. CASE ZipCloses
    BY <2>1, <2>7 DEF ZipCloses, FailInv, strVars
  <2> QED
    BY <1>3, <2>2, <2>3, <2>4, <2>5, <2>6, <2>7 DEF ZipStep
<1>4. CASE ~(StartArchive \/ ZipStep \/ \E c \in Collectors : StreamStep(c))
  BY <1>4, OutsideStep DEF FailInv, runVars, strVars, readVars, zipVars
<1> QED
  BY <1>1, <1>2, <1>3, <1>4

\* After an error there is no zip that a later reconcile could take for the
\* archive, unless Remove failed: whatever else fails, whenever data are
\* deleted or the process dies.
THEOREM FailedZipStaysAway == Spec => FailedZipIsRemoved
<1>1. Init => FailInv
  BY DEF Init, FailInv
<1>2. Spec => []Typed
  BY InitTyped, NextTyped, PTL DEF Spec
<1>3. FailInv /\ [Next]_vars =>
        [Returns /\ outcome' = "error" => zip' = "none" \/ kept]_vars
  <2> SUFFICES ASSUME FailInv, Next, Returns, outcome' = "error"
               PROVE  zip' = "none" \/ kept
    OBVIOUS
  <2>1. WaitReturns
    BY ReturnsInWait
  <2>2. failed /\ zipper = "returned" /\ UNCHANGED zipVars
    BY <2>1 DEF WaitReturns
  <2> QED
    BY <2>2 DEF FailInv, Returns, zipVars
<1> QED
  BY <1>1, <1>2, <1>3, NextFail, PTL DEF Spec, FailedZipIsRemoved

-----------------------------------------------------------------------------
(* A reported zip is complete *)

\* File i of c has been received and is not yet written.
InHand(c, i) == zipper = "copy" /\ cur = c /\ item = i

\* While nothing has gone wrong, a file that a stream has not left to send is
\* in the zip or in hand; nothing is sent before the zip is open.
CompleteInv ==
  phase = "running" /\ ~failed /\ ~shutdown /\ onDisk = Files =>
    /\ zipper = "open" => \A c \in Collectors :
         /\ str[c] \in {"check", "list", "walk", "send"}
         /\ str[c] \in {"walk", "send"} => left[c] = 1 .. N
    /\ zipper \notin {"open", "abort"} => \A c \in Collectors, i \in 1 .. N :
         str[c] \in {"walk", "send", "closed"} =>
           i \in left[c] \/ <<c, i>> \in entries \/ InHand(c, i)
    /\ \A c \in Collectors : str[c] = "closed" => left[c] = {}
    /\ \A c \in Collectors \ todo : str[c] = "closed"
    /\ zipper = "returned" => zip = "sealed" /\ todo = {}

\* The zip is finished or not: Close of its writer never fails unnoticed.
Closing == "seal" \notin Faults

\* A stream's step keeps it: what it does not send it has not lost.
LEMMA StreamComplete ==
  ASSUME Typed, CompleteInv, NEW c \in Collectors, StreamStep(c)
  PROVE  CompleteInv'
<1>0. /\ str \in [Collectors -> {"off", "check", "list", "walk", "send", "closed", "returned"}]
      /\ left \in [Collectors -> SUBSET (1 .. N)]
  BY DEF Typed, TypeOK
<1>1. /\ UNCHANGED <<runVars, readVars, zipVars, shutdown, onDisk>>
      /\ str[c] \in {"check", "list", "walk", "send"}
      /\ \A d \in Collectors \ {c} : str'[d] = str[d] /\ left'[d] = left[d]
      /\ str'[c] = "returned" => failed'
      /\ failed => failed'
  BY <1>0, StreamStepIsLocal
<1> SUFFICES ASSUME phase = "running", ~failed, ~failed', ~shutdown, onDisk = Files
             PROVE  CompleteInv'
  BY <1>1 DEF CompleteInv, runVars
<1>2. c \in todo
  BY <1>1 DEF CompleteInv
<1>3. \/ str'[c] = "list"
      \/ str'[c] = "walk" /\ left'[c] = 1 .. N
      \/ str[c] = "walk" /\ str'[c] = "send" /\ left'[c] = left[c]
      \/ str[c] = "walk" /\ str'[c] = "closed" /\ left[c] = {} /\ left'[c] = {}
  <2>1. CASE StreamChecks(c)
    BY <1>0, <2>1 DEF StreamChecks, StreamTo
  <2>2. CASE StreamLists(c)
    <3>1. {i \in 1 .. N : <<c, i>> \in onDisk} = 1 .. N
      BY DEF Files
    <3> QED
      BY <1>0, <2>2, <3>1 DEF StreamLists, StreamTo
  <2>3. CASE StreamFails(c) \/ StreamDrops(c)
    BY <1>1, <2>3 DEF StreamFails, StreamDrops, CtxDone
  <2>4. CASE StreamNext(c) \/ StreamCloses(c)
    BY <1>0, <2>4 DEF StreamNext, StreamCloses, StreamTo
  <2> QED
    BY <2>1, <2>2, <2>3, <2>4 DEF StreamStep
<1>4. 1 .. N # {}
  BY Numbers
<1>5. UNCHANGED <<zipper, cur, item, entries, zip, todo>>
  BY <1>1 DEF readVars, zipVars
<1>6. zipper = "open" => \A d \in Collectors :
        /\ str'[d] \in {"check", "list", "walk", "send"}
        /\ str'[d] \in {"walk", "send"} => left'[d] = 1 .. N
  BY <1>1, <1>3, <1>4 DEF CompleteInv
<1>7. ASSUME zipper \notin {"open", "abort"}, NEW d \in Collectors, NEW i \in 1 .. N,
             str'[d] \in {"walk", "send", "closed"}
      PROVE  i \in left'[d] \/ <<d, i>> \in entries \/ InHand(d, i)
  BY <1>1, <1>3, <1>7 DEF CompleteInv
<1>8. /\ \A d \in Collectors : str'[d] = "closed" => left'[d] = {}
      /\ \A d \in Collectors \ todo : str'[d] = "closed"
      /\ zipper = "returned" => zip = "sealed" /\ todo = {}
  BY <1>1, <1>2, <1>3 DEF CompleteInv
<1> QED
  BY <1>5, <1>6, <1>7, <1>8 DEF CompleteInv, InHand

\* A step of the zip keeps it: what is received is in hand until it is written.
LEMMA ZipComplete ==
  ASSUME Closing, Typed, CompleteInv, ZipStep
  PROVE  CompleteInv'
<1>0. /\ str \in [Collectors -> {"off", "check", "list", "walk", "send", "closed", "returned"}]
      /\ left \in [Collectors -> SUBSET (1 .. N)]
      /\ zipper \in {"read", "copy"} => cur \in Collectors
  BY DEF Typed, TypeOK
<1>1. UNCHANGED <<phase, shutdown, onDisk>> /\ (failed => failed')
  BY DEF ZipStep, ZipOpens, ZipOpenFails, ZipTakesStream, ZipReceives, ZipCopies,
     ZipCopyFails, ZipSeesClosed, ZipSeesDone, ZipAborts, ZipCloses, runVars
<1> SUFFICES ASSUME phase = "running", ~failed, ~failed', ~shutdown, onDisk = Files
             PROVE  CompleteInv'
  BY <1>1 DEF CompleteInv
<1>2. CASE ZipOpens
  BY <1>2 DEF ZipOpens, CompleteInv, InHand, strVars
<1>3. CASE ZipOpenFails \/ ZipAborts
  BY <1>3 DEF ZipOpenFails, ZipAborts
<1>4. CASE ZipTakesStream
  BY <1>4 DEF ZipTakesStream, CompleteInv, InHand, strVars, zipVars
<1>5. CASE ZipReceives
  <2>1. /\ zipper = "read" /\ zipper' = "copy" /\ cur \in Collectors /\ str[cur] = "send"
        /\ item' = Sent(cur) /\ cur' = cur /\ todo' = todo /\ UNCHANGED <<zip, entries>>
        /\ str'[cur] = "walk" /\ left'[cur] = left[cur] \ {item'}
        /\ \A d \in Collectors \ {cur} : str'[d] = str[d] /\ left'[d] = left[d]
    BY <1>0, <1>5 DEF ZipReceives, StreamTo, IsSent, zipVars
  <2>2. ASSUME NEW d \in Collectors, NEW i \in 1 .. N, str'[d] \in {"walk", "send", "closed"}
        PROVE  i \in left'[d] \/ <<d, i>> \in entries' \/ InHand(d, i)'
    <3>1. str[d] \in {"walk", "send", "closed"} /\ ~InHand(d, i)
      BY <2>1, <2>2 DEF InHand
    <3>2. i \in left[d] \/ <<d, i>> \in entries
      BY <2>1, <3>1 DEF CompleteInv
    <3> QED
      BY <2>1, <3>2 DEF InHand
  <2>3. /\ \A d \in Collectors : str'[d] = "closed" => left'[d] = {}
        /\ \A d \in Collectors \ todo : str'[d] = "closed"
    BY <2>1 DEF CompleteInv
  <2> QED
    BY <2>1, <2>2, <2>3 DEF CompleteInv
<1>6. CASE ZipCopies
  <2>1. /\ zipper = "copy" /\ zipper' = "read" /\ entries' = entries \cup {<<cur, item>>}
        /\ UNCHANGED <<str, left, todo>>
    BY <1>6 DEF ZipCopies, strVars
  <2>2. ASSUME NEW d \in Collectors, NEW i \in 1 .. N, str[d] \in {"walk", "send", "closed"}
        PROVE  i \in left[d] \/ <<d, i>> \in entries'
    BY <2>1, <2>2 DEF CompleteInv, InHand
  <2> QED
    BY <2>1, <2>2 DEF CompleteInv
<1>7. CASE ZipCopyFails \/ ZipSeesDone
  BY <1>7 DEF ZipCopyFails, ZipSeesDone, CompleteInv, strVars, zipVars
<1>8. CASE ZipSeesClosed
  BY <1>8 DEF ZipSeesClosed, CompleteInv, InHand, strVars, zipVars
<1>9. CASE ZipCloses
  BY <1>9 DEF ZipCloses, Closing, CompleteInv, InHand, strVars
<1> QED
  BY <1>2, <1>3, <1>4, <1>5, <1>6, <1>7, <1>8, <1>9 DEF ZipStep

\* Every step keeps it.
LEMMA NextComplete == Closing /\ Typed /\ CompleteInv /\ [Next]_vars => CompleteInv'
<1> SUFFICES ASSUME Closing, Typed, CompleteInv, [Next]_vars PROVE CompleteInv'
  OBVIOUS
<1>1. CASE StartArchive
  BY <1>1 DEF StartArchive, CompleteInv
<1>2. ASSUME NEW c \in Collectors, StreamStep(c) PROVE CompleteInv'
  BY <1>2, StreamComplete
<1>3. CASE ZipStep
  BY <1>3, ZipComplete
<1>4. CASE phase' # "running"
  BY <1>4 DEF CompleteInv
<1>5. CASE phase' = "running" /\ ~(StartArchive \/ ZipStep \/ \E c \in Collectors : StreamStep(c))
  BY <1>5, OutsideStep DEF CompleteInv, InHand, runVars, strVars, readVars, zipVars
<1> QED
  BY <1>1, <1>2, <1>3, <1>4, <1>5

\* When createArchive returns the download URL, every file of every required
\* collector is in the zip, although the goroutines share nothing but channels
\* and the context: for any number of collectors and files.
THEOREM ReportedZipStaysComplete ==
  ASSUME Closing PROVE Spec => ReportedZipIsComplete
<1>1. Init => CompleteInv
  BY DEF Init, CompleteInv
<1>2. Spec => []Typed
  BY InitTyped, NextTyped, PTL DEF Spec
<1>3. Typed /\ CompleteInv /\ [Next]_vars => CompleteInv'
  BY NextComplete
<1>4. Typed /\ CompleteInv /\ [Next]_vars =>
        [Returns /\ outcome' = "ok" /\ ~shutdown /\ onDisk = Files =>
           zip' = "sealed" /\ entries' = Files]_vars
  <2> SUFFICES ASSUME Typed, CompleteInv, Next, Returns, outcome' = "ok", ~shutdown, onDisk = Files
               PROVE  zip' = "sealed" /\ entries' = Files
    OBVIOUS
  <2>1. WaitReturns
    BY ReturnsInWait
  <2>2. ~failed /\ zipper = "returned" /\ UNCHANGED <<zip, entries>> /\ phase = "running"
    BY <2>1 DEF WaitReturns, zipVars
  <2>3. zip = "sealed" /\ \A c \in Collectors : str[c] = "closed" /\ left[c] = {}
    BY <2>2 DEF CompleteInv
  <2>4. \A c \in Collectors, i \in 1 .. N : <<c, i>> \in entries
    BY <2>2, <2>3 DEF CompleteInv, InHand
  <2>5. entries = Files
    BY <2>4 DEF Typed, TypeOK, Files
  <2> QED
    BY <2>2, <2>3, <2>5
<1> QED
  BY <1>1, <1>2, <1>3, <1>4, PTL DEF Spec, ReportedZipIsComplete

-----------------------------------------------------------------------------
(* createArchive cannot stand still *)

\* Who has ended knows why: a stream is behind the zip only when it is closed,
\* one that has returned without closing has cancelled the context, and a zip
\* that is over without an error has read every stream to its end.
EndInv ==
  phase = "running" =>
    /\ zipper # "off" /\ \A c \in Collectors : str[c] # "off"
    /\ \A c \in Collectors \ todo : str[c] = "closed"
    /\ \A c \in Collectors : str[c] = "returned" => failed
    /\ zipper = "returned" => failed \/ todo = {}

\* Every step keeps it, whatever fails.
LEMMA NextEnd == Typed /\ EndInv /\ [Next]_vars => EndInv'
<1> SUFFICES ASSUME Typed, EndInv, [Next]_vars, phase' = "running" PROVE EndInv'
  BY DEF EndInv
<1>0. str \in [Collectors -> {"off", "check", "list", "walk", "send", "closed", "returned"}]
  BY DEF Typed, TypeOK
<1>1. CASE StartArchive
  BY <1>1 DEF StartArchive, EndInv
<1>2. ASSUME NEW c \in Collectors, StreamStep(c) PROVE EndInv'
  <2>1. /\ UNCHANGED <<phase, zipper, todo>>
        /\ str[c] \in {"check", "list", "walk", "send"}
        /\ \A d \in Collectors \ {c} : str'[d] = str[d]
        /\ str'[c] = "returned" => failed'
        /\ failed => failed'
    BY <1>2, StreamStepIsLocal DEF runVars, readVars
  <2>2. str'[c] # "off"
    BY <1>0, <1>2 DEF StreamStep, StreamChecks, StreamLists, StreamFails, StreamNext,
       StreamDrops, StreamCloses, StreamTo
  <2> QED
    BY <2>1, <2>2 DEF EndInv
<1>3. CASE ZipStep
  <2>1. phase = "running"
    BY <1>3 DEF ZipStep, ZipOpens, ZipOpenFails, ZipTakesStream, ZipReceives, ZipCopies,
       ZipCopyFails, ZipSeesClosed, ZipSeesDone, ZipAborts, ZipCloses, runVars
  <2>2. CASE ZipReceives
    <3>1. /\ UNCHANGED <<todo, failed>> /\ zipper' = "copy"
          /\ str[cur] = "send" /\ \A d \in Collectors : str'[d] = IF d = cur THEN "walk" ELSE str[d]
      BY <1>0, <2>2 DEF ZipReceives, StreamTo
    <3> QED
      BY <2>1, <3>1 DEF EndInv
  <2>3. CASE ZipSeesClosed
    BY <2>1, <2>3 DEF ZipSeesClosed, EndInv, strVars
  <2>4. CASE ZipOpenFails \/ ZipAborts
    BY <2>1, <2>4 DEF ZipOpenFails, ZipAborts, EndInv, strVars
  <2>5. CASE ZipOpens \/ ZipTakesStream \/ ZipCopies \/ ZipCopyFails \/ ZipSeesDone \/ ZipCloses
    BY <2>1, <2>5 DEF ZipOpens, ZipTakesStream, ZipCopies, ZipCopyFails, ZipSeesDone,
       ZipCloses, EndInv, strVars
  <2> QED
    BY <1>3, <2>2, <2>3, <2>4, <2>5 DEF ZipStep
<1>4. CASE ~(StartArchive \/ ZipStep \/ \E c \in Collectors : StreamStep(c))
  BY <1>4, OutsideStep DEF EndInv, runVars, strVars, readVars
<1> QED
  BY <1>1, <1>2, <1>3, <1>4

\* createArchive never comes to a standstill, whatever fails, is deleted or is
\* cancelled, for any number of collectors (the goroutines of createArchive).
THEOREM CreationNeverStands == Spec => []SomebodyGoesOn
<1>1. Init => EndInv
  BY DEF Init, EndInv
<1>2. Spec => []Typed
  BY InitTyped, NextTyped, PTL DEF Spec
<1>3. Typed /\ EndInv => SomebodyGoesOn
  <2> SUFFICES ASSUME Typed, EndInv, phase = "running", ~ZipGoesOn,
                      \A c \in Collectors : ~StreamGoesOn(c)
               PROVE  AllReturned
    BY DEF SomebodyGoesOn
  <2>1. /\ zipper \in {"read", "returned"}
        /\ zipper = "read" => ~failed /\ str[cur] \notin {"send", "closed"} /\ cur \in Collectors
    BY DEF Typed, TypeOK, EndInv, ZipGoesOn, CtxDone
  <2>2. \A c \in Collectors : str[c] \in {"send", "closed", "returned"} /\ (str[c] = "send" => ~failed)
    BY DEF Typed, TypeOK, EndInv, StreamGoesOn, CtxDone
  <2>3. zipper = "returned"
    BY <2>1, <2>2 DEF EndInv
  <2>4. ASSUME NEW c \in Collectors PROVE str[c] \in {"closed", "returned"}
    BY <2>2, <2>3 DEF EndInv
  <2> QED
    BY <2>3, <2>4 DEF AllReturned
<1> QED
  BY <1>1, <1>2, <1>3, NextEnd, PTL DEF Spec

-----------------------------------------------------------------------------
(* createArchive runs down *)

\* A set of file numbers has at most N members.
LEMMA AtMostN ==
  ASSUME NEW files \in SUBSET (1 .. N)
  PROVE  IsFiniteSet(files) /\ Cardinality(files) \in 0 .. N
<1>1. IsFiniteSet(1 .. N) /\ Cardinality(1 .. N) = N
  BY FS_Interval, Numbers
<1>2. IsFiniteSet(files) /\ Cardinality(files) <= N
  BY <1>1, FS_Subset
<1>3. Cardinality(files) \in Nat
  BY <1>2, FS_CardinalityType
<1> QED
  BY <1>2, <1>3, Numbers

\* A stream never has more than N files to send.
LEMMA FileCount ==
  ASSUME Typed, NEW c \in Collectors
  PROVE  IsFiniteSet(left[c]) /\ Cardinality(left[c]) \in 0 .. N
  BY AtMostN DEF Typed, TypeOK

\* The work ahead is a natural number for each stream and for the zip.
LEMMA WorkIsNat ==
  ASSUME Typed
  PROVE  /\ ZipWork \in 0 .. 3
         /\ \A c \in Collectors : /\ StreamWork(c) \in 0 .. 3 * N + 3
                                  /\ ReadWork(c) \in 0 .. 2
<1>1. ZipWork \in 0 .. 3
  BY DEF ZipWork
<1>2. ASSUME NEW c \in Collectors PROVE ReadWork(c) \in 0 .. 2
  BY DEF ReadWork
<1>3. ASSUME NEW c \in Collectors PROVE StreamWork(c) \in 0 .. 3 * N + 3
  <2>1. Cardinality(left[c]) \in 0 .. N
    BY FileCount
  <2> QED
    BY <2>1, Numbers DEF StreamWork
<1> QED
  BY <1>1, <1>2, <1>3

\* A file that is sent or dropped is one less to send.
LEMMA OneFileLess ==
  ASSUME Typed, NEW c \in Collectors, str[c] = "send", StreamTo(c, "walk"), IsSent(c)
  PROVE  StreamWork(c)' = StreamWork(c) - 2
<1>1. left[c] # {} /\ left[c] \subseteq 1 .. N /\ IsFiniteSet(left[c]) /\ Cardinality(left[c]) \in 0 .. N
  BY FileCount DEF Typed, TypeOK
<1>2. Sent(c) \in left[c]
  BY <1>1, MinIsMember DEF Sent
<1>3. Cardinality(left[c] \ {Sent(c)}) = Cardinality(left[c]) - 1
  BY <1>1, <1>2, FS_RemoveElement
<1>4. str'[c] = "walk" /\ left'[c] = left[c] \ {Sent(c)}
  BY DEF Typed, TypeOK, StreamTo, IsSent
<1>5. StreamWork(c) = 3 * Cardinality(left[c]) /\ StreamWork(c)' = 3 * Cardinality(left'[c]) + 1
  BY <1>4 DEF StreamWork
<1> QED
  BY <1>1, <1>3, <1>4, <1>5

\* A stream's step takes it nearer to its end and touches no other.
LEMMA StreamRunsDown ==
  ASSUME Typed, NEW c \in Collectors, StreamStep(c)
  PROVE  /\ ZipWork' = ZipWork /\ \A d \in Collectors : ReadWork(d)' = ReadWork(d)
         /\ \A d \in Collectors \ {c} : StreamWork(d)' = StreamWork(d)
         /\ StreamWork(c)' < StreamWork(c)
<1>1. /\ UNCHANGED readVars
      /\ \A d \in Collectors \ {c} : str'[d] = str[d] /\ left'[d] = left[d]
  BY StreamStepIsLocal
<1>2. ZipWork' = ZipWork /\ \A d \in Collectors : ReadWork(d)' = ReadWork(d)
  BY <1>1 DEF readVars, ZipWork, ReadWork
<1>3. \A d \in Collectors \ {c} : StreamWork(d)' = StreamWork(d)
  BY <1>1 DEF StreamWork
<1>4. Typed' /\ str \in [Collectors -> {"off", "check", "list", "walk", "send", "closed", "returned"}]
      /\ left \in [Collectors -> SUBSET (1 .. N)]
  BY NextTyped DEF Next, Typed, TypeOK
<1>5. Cardinality(left[c]) \in 0 .. N /\ Cardinality(left'[c]) \in 0 .. N
  <2>1. left[c] \in SUBSET (1 .. N) /\ left'[c] \in SUBSET (1 .. N)
    BY <1>4 DEF Typed, TypeOK
  <2> QED
    BY <2>1, AtMostN
<1>6. StreamWork(c)' < StreamWork(c)
  <2>1. CASE StreamChecks(c)
    BY <1>4, <2>1, Numbers DEF StreamChecks, StreamTo, StreamWork
  <2>2. CASE StreamLists(c)
    <3>1. str[c] = "list" /\ str'[c] = "walk"
      BY <1>4, <2>2 DEF StreamLists, StreamTo
    <3> QED
      BY <1>5, <3>1, Numbers DEF StreamWork
  <2>3. CASE StreamFails(c)
    <3>1. str[c] \in {"check", "list", "walk"} /\ str'[c] = "returned"
      BY <1>4, <2>3 DEF StreamFails, StreamTo
    <3> QED
      BY <1>5, <3>1, Numbers DEF StreamWork
  <2>4. CASE StreamNext(c) \/ StreamCloses(c)
    <3>1. /\ str[c] = "walk" /\ left'[c] = left[c]
          /\ str'[c] \in {"send", "closed"}
      BY <1>4, <2>4 DEF StreamNext, StreamCloses, StreamTo
    <3> QED
      BY <1>5, <3>1, Numbers DEF StreamWork
  <2>5. CASE StreamDrops(c)
    <3>1. str[c] = "send" /\ StreamTo(c, "walk") /\ IsSent(c)
      BY <2>5 DEF StreamDrops
    <3> QED
      BY <3>1, OneFileLess, WorkIsNat
  <2> QED
    BY <2>1, <2>2, <2>3, <2>4, <2>5 DEF StreamStep
<1> QED
  BY <1>2, <1>3, <1>6

\* A step of the zip takes it, or the stream it reads, nearer to the end.
LEMMA ZipRunsDown ==
  ASSUME Typed, ZipStep
  PROVE  /\ ZipWork' <= ZipWork /\ \A c \in Collectors : Work(c)' <= Work(c)
         /\ ZipWork' < ZipWork \/ \E c \in Collectors : Work(c)' < Work(c)
<1>0. /\ ZipWork \in Int
      /\ \A c \in Collectors : StreamWork(c) \in Int /\ ReadWork(c) \in 0 .. 2 /\ Work(c) \in Int
  BY WorkIsNat DEF Work
<1>1. CASE ZipReceives
  <2>1. /\ zipper = "read" /\ zipper' = "copy" /\ cur \in Collectors /\ cur \in todo
        /\ str[cur] = "send" /\ StreamTo(cur, "walk") /\ IsSent(cur) /\ cur' = cur /\ todo' = todo
    BY <1>1 DEF ZipReceives, Typed, TypeOK
  <2>2. StreamWork(cur)' = StreamWork(cur) - 2 /\ ReadWork(cur) = 1 /\ ReadWork(cur)' = 2
    BY <2>1, OneFileLess DEF ReadWork
  <2>3. ASSUME NEW c \in Collectors \ {cur} PROVE Work(c)' = Work(c)
    <3>1. str'[c] = str[c] /\ left'[c] = left[c]
      BY <2>1 DEF StreamTo, IsSent, Typed, TypeOK
    <3> QED
      BY <2>1, <3>1 DEF Work, StreamWork, ReadWork
  <2>4. ZipWork' = ZipWork
    BY <2>1 DEF ZipWork
  <2> QED
    BY <1>0, <2>1, <2>2, <2>3, <2>4 DEF Work
<1>2. CASE ~ZipReceives
  <2>1. /\ \A c \in Collectors : StreamWork(c)' = StreamWork(c)
        /\ \A c \in Collectors : ReadWork(c)' <= ReadWork(c) => Work(c)' <= Work(c)
        /\ \A c \in Collectors : ReadWork(c)' < ReadWork(c) => Work(c)' < Work(c)
    <3>1. UNCHANGED strVars
      BY <1>2 DEF ZipStep, ZipOpens, ZipOpenFails, ZipTakesStream, ZipCopies,
         ZipCopyFails, ZipSeesClosed, ZipSeesDone, ZipAborts, ZipCloses
    <3>2. \A c \in Collectors : StreamWork(c)' = StreamWork(c)
      BY <3>1 DEF StreamWork, strVars
    <3>3. \A c \in Collectors : ReadWork(c)' \in 0 .. 2
      BY DEF ReadWork
    <3> QED
      BY <1>0, <3>2, <3>3 DEF Work
  <2>2. CASE ZipOpens \/ ZipOpenFails \/ ZipAborts \/ ZipCloses \/ ZipCopyFails \/ ZipSeesDone
    <3>1. ZipWork' < ZipWork /\ ZipWork' <= ZipWork
      BY <2>2 DEF ZipOpens, ZipOpenFails, ZipAborts, ZipCloses, ZipCopyFails, ZipSeesDone, ZipWork
    <3>2. ASSUME NEW c \in Collectors PROVE ReadWork(c)' <= ReadWork(c)
      <4>1. CASE ZipOpens
        <5>1. zipper = "open" /\ zipper' = "next" /\ todo' = todo
          BY <4>1 DEF ZipOpens
        <5>2. ReadWork(c)' = ReadWork(c)
          BY <5>1 DEF ReadWork
        <5> QED
          BY <1>0, <5>2
      <4>2. CASE ZipOpenFails \/ ZipAborts \/ ZipCloses \/ ZipCopyFails \/ ZipSeesDone
        <5>1. zipper' \in {"abort", "returned"}
          BY <4>2 DEF ZipOpenFails, ZipAborts, ZipCloses, ZipCopyFails, ZipSeesDone
        <5>2. ReadWork(c)' = 0
          BY <5>1 DEF ReadWork
        <5> QED
          BY <1>0, <5>2
      <4> QED
        BY <2>2, <4>1, <4>2
    <3> QED
      BY <1>0, <2>1, <3>1, <3>2
  <2>3. CASE ZipTakesStream
    <3>1. /\ zipper = "next" /\ zipper' = "read" /\ cur' \in Collectors /\ cur' \in todo /\ todo' = todo
      BY <2>3 DEF ZipTakesStream, Typed, TypeOK
    <3>2. ZipWork' = ZipWork /\ \A c \in Collectors : ReadWork(c)' <= ReadWork(c)
      BY <3>1 DEF ZipWork, ReadWork
    <3>3. PICK c \in Collectors : c = cur'
      BY <3>1
    <3>4. ReadWork(c)' < ReadWork(c)
      BY <3>1, <3>3 DEF ReadWork
    <3> QED
      BY <1>0, <2>1, <3>2, <3>4
  <2>4. CASE ZipCopies \/ ZipSeesClosed
    <3>1. /\ zipper \in {"read", "copy"} /\ cur \in Collectors /\ cur \in todo /\ cur' = cur
          /\ \/ zipper = "copy" /\ zipper' = "read" /\ todo' = todo
             \/ zipper = "read" /\ zipper' = "next" /\ todo' = todo \ {cur}
      BY <2>4 DEF ZipCopies, ZipSeesClosed, Typed, TypeOK
    <3>2. ZipWork' = ZipWork /\ \A c \in Collectors : ReadWork(c)' <= ReadWork(c)
      BY <3>1 DEF ZipWork, ReadWork
    <3>3. ReadWork(cur)' < ReadWork(cur)
      BY <3>1 DEF ReadWork
    <3>4. Work(cur)' < Work(cur)
      BY <3>1, <2>1, <3>3
    <3> QED
      BY <1>0, <2>1, <3>1, <3>2, <3>4
  <2> QED
    BY <1>2, <2>2, <2>3, <2>4 DEF ZipStep
<1> QED
  BY <1>1, <1>2

\* createArchive comes nearer to its return with every step of its goroutines,
\* and nothing around it takes it away from there, for any number of collectors
\* and files: nothing is sent, copied or waited for again.
THEOREM CreationsRunDown == Spec => CreationRunsDown
<1>1. ASSUME Typed, [Next]_vars, phase = "running", phase' = "running"
      PROVE  /\ ZipWork' <= ZipWork /\ \A c \in Collectors : Work(c)' <= Work(c)
             /\ \/ ZipWork' < ZipWork \/ \E c \in Collectors : Work(c)' < Work(c)
                \/ UNCHANGED <<strVars, readVars>>
  <2> USE <1>1
  <2>0. ZipWork \in Int /\ \A c \in Collectors : StreamWork(c) \in Int /\ ReadWork(c) \in Int
    BY WorkIsNat
  <2>1. CASE ZipStep
    BY <2>1, ZipRunsDown
  <2>2. ASSUME NEW c \in Collectors, StreamStep(c)
        PROVE  ZipWork' <= ZipWork /\ (\A d \in Collectors : Work(d)' <= Work(d)) /\ Work(c)' < Work(c)
    <3>1. StreamWork(c)' \in Int
      <4>1. left'[c] \in SUBSET (1 .. N)
        BY NextTyped DEF Typed, TypeOK
      <4>2. Cardinality(left'[c]) \in 0 .. N
        BY <4>1, AtMostN
      <4> QED
        BY <4>2, Numbers DEF StreamWork
    <3> QED
      BY <2>0, <2>2, <3>1, StreamRunsDown DEF Work
  <2>3. CASE StartArchive
    BY <2>3 DEF StartArchive
  <2>4. CASE ~(StartArchive \/ ZipStep \/ \E c \in Collectors : StreamStep(c))
    <3>1. UNCHANGED <<strVars, readVars>>
      BY <2>4, OutsideStep
    <3>2. ZipWork' = ZipWork
      BY <3>1 DEF readVars, ZipWork
    <3>3. \A c \in Collectors : Work(c)' = Work(c)
      BY <3>1 DEF strVars, readVars, Work, StreamWork, ReadWork
    <3>4. \A c \in Collectors : Work(c) \in Int
      BY <2>0 DEF Work
    <3> QED
      BY <2>0, <3>1, <3>2, <3>3, <3>4
  <2> QED
    BY <2>1, <2>2, <2>3, <2>4
<1>2. Typed /\ [Next]_vars =>
        [phase = "running" /\ phase' = "running" =>
           /\ ZipWork' <= ZipWork /\ \A c \in Collectors : Work(c)' <= Work(c)
           /\ \/ ZipWork' < ZipWork \/ \E c \in Collectors : Work(c)' < Work(c)
              \/ UNCHANGED <<strVars, readVars>>]_vars
  BY <1>1
<1>3. Spec => []Typed
  BY InitTyped, NextTyped, PTL DEF Spec
<1> QED
  BY <1>2, <1>3, PTL DEF Spec, CreationRunsDown
=============================================================================
