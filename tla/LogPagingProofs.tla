-------------------------- MODULE LogPagingProofs ---------------------------
(***************************************************************************)
(* What the search of the logs guarantees for every set of lines, every    *)
(* limit and window of at least 1, and every time frame.                   *)
(***************************************************************************)
EXTENDS LogPaging, FiniteSetTheorems, TLAPS

-----------------------------------------------------------------------------
(* The constants and the windows *)

\* The constants as numbers.
LEMMA Numbers ==
  /\ Limit \in Nat /\ Limit >= 1 /\ Window \in Nat /\ Window >= 1
  /\ Start \in Nat /\ End \in Nat /\ Start <= End
  BY LogPagingAssumption DEF LogPagingAssumption

\* A window starts where the search is and ends in the time frame.
LEMMA WindowBounds ==
  ASSUME TypeOK
  PROVE  WindowEnd \in Start .. End /\ from <= WindowEnd
  BY Numbers DEF TypeOK, WindowEnd

\* Sets of lines are finite.
LEMMA LinesFinite ==
  ASSUME NEW S \in SUBSET Lines
  PROVE  IsFiniteSet(S) /\ Cardinality(S) \in Nat
  BY LogPagingAssumption, FS_Subset, FS_CardinalityType DEF LogPagingAssumption

-----------------------------------------------------------------------------
(* Type correctness *)

\* TypeOK with what makes it inductive: the page lies in its window.
Typed ==
  /\ TypeOK
  /\ pc = "write" => page \subseteq Within(from, WindowEnd)

\* The search starts well-typed, at the start of the time frame.
LEMMA InitTyped == Init => Typed
<1> SUFFICES ASSUME Init PROVE Typed
  OBVIOUS
<1>1. sent \in [Lines -> Nat]
  BY DEF Init
<1>2. from \in Start .. End
  BY Numbers DEF Init
<1> QED
  BY <1>1, <1>2 DEF Init, Typed, TypeOK

\* Writing lines counts them.
LEMMA WritesTyped ==
  ASSUME sent \in [Lines -> Nat], NEW W \in SUBSET Lines, Writes(W)
  PROVE  /\ sent' \in [Lines -> Nat]
         /\ \A l \in Lines : sent'[l] = IF l \in W THEN sent[l] + 1 ELSE sent[l]
<1>1. \A l \in Lines : sent[l] \in Nat /\ sent[l] + 1 \in Nat
  OBVIOUS
<1> QED
  BY <1>1 DEF Writes

\* The search goes on inside the time frame, never before its last window.
LEMMA NextFrom ==
  ASSUME Typed, WritePage
  PROVE  /\ from' \in Start .. End
         /\ ~Full => from' = WindowEnd
         /\ Full => \E t \in Start .. End :
                      IsLatest(t) /\ from <= t /\ t < WindowEnd /\ from' = AfterFullPage(t)
<1>1. CASE ~Full
  BY <1>1, WindowBounds DEF WritePage, Typed
<1>2. CASE Full
  <2>1. PICK t \in Start .. End : IsLatest(t) /\ from' = AfterFullPage(t)
    BY <1>2 DEF WritePage
  <2>2. PICK l \in page : stamp[l] = t
    BY <2>1 DEF IsLatest
  <2>3. from <= t /\ t < WindowEnd
    BY <2>2 DEF WritePage, Typed, Within
  <2>4. from' \in Start .. End
    BY <2>1, <2>3, WindowBounds, Numbers DEF AfterFullPage, Typed, TypeOK
  <2> QED
    BY <1>2, <2>1, <2>3, <2>4
<1> QED
  BY <1>1, <1>2

\* No query, page or failure leaves the types.
LEMMA NextTyped == Typed /\ [Next]_vars => Typed'
<1> SUFFICES ASSUME Typed, [Next]_vars PROVE Typed'
  OBVIOUS
<1>1. CASE Query
  <2>1. page' \subseteq Within(from, WindowEnd) /\ page' \subseteq Lines
    BY <1>1 DEF Query, Within
  <2>2. Within(from, WindowEnd)' = Within(from, WindowEnd)
    BY <1>1 DEF Query, Within, WindowEnd
  <2> QED
    BY <1>1, <2>1, <2>2 DEF Query, Typed, TypeOK
<1>2. CASE QueryFails
  BY <1>2 DEF QueryFails, Typed, TypeOK
<1>3. CASE WritePage
  <2>1. PICK W \in SUBSET Lines : Writes(W)
    BY <1>3 DEF WritePage, Written, Typed, TypeOK
  <2>2. sent' \in [Lines -> Nat]
    BY <2>1, WritesTyped DEF Typed, TypeOK
  <2>3. from' \in Start .. End
    BY <1>3, NextFrom
  <2> QED
    BY <1>3, <2>2, <2>3 DEF WritePage, Typed, TypeOK
<1>4. CASE WriteFails \/ WritePanics
  <2>1. PICK W \in SUBSET Lines : Writes(W)
    BY <1>4 DEF WriteFails, WritePanics, Typed, TypeOK
  <2>2. sent' \in [Lines -> Nat]
    BY <2>1, WritesTyped DEF Typed, TypeOK
  <2> QED
    BY <1>4, <2>2 DEF WriteFails, WritePanics, Typed, TypeOK
<1>5. CASE Cancel
  <2>1. Within(from, WindowEnd)' = Within(from, WindowEnd)
    BY <1>5 DEF Cancel, Within, WindowEnd
  <2> QED
    BY <1>5, <2>1 DEF Cancel, Typed, TypeOK
<1>6. CASE UNCHANGED vars
  <2>1. Within(from, WindowEnd)' = Within(from, WindowEnd)
    BY <1>6 DEF vars, Within, WindowEnd
  <2> QED
    BY <1>6, <2>1 DEF vars, Typed, TypeOK
<1> QED
  BY <1>1, <1>2, <1>3, <1>4, <1>5, <1>6 DEF Next

\* The state of a search has its type (TypeOK): in particular no page takes
\* the search out of the time frame.
THEOREM TypeCorrect == Spec => []TypeOK
<1>1. Typed => TypeOK
  BY DEF Typed
<1> QED
  BY InitTyped, NextTyped, <1>1, PTL DEF Spec

-----------------------------------------------------------------------------
(* Nothing is missed *)

\* The lines before instant t that were written, and were not too many.
Covered(t) == \A l \in Lines : stamp[l] < t /\ Uncrowded(l) => sent[l] > 0

\* While the search goes on it has written everything before its window; its
\* page is what Loki answers for the window; and what it reports is complete.
SearchInv ==
  /\ pc = "query" /\ ~cancelled => Covered(from)
  /\ pc = "write" => Covered(from) /\ IsAnswer(page, from, WindowEnd)
  /\ OnlyTheLastPageIsLost
  /\ NothingIsMissed

\* A page that is not full holds every line of its window.
LEMMA ShortPageIsWhole ==
  ASSUME Typed, IsAnswer(page, from, WindowEnd), ~Full
  PROVE  page = Within(from, WindowEnd)
<1>1. Cardinality(page) \in Nat
  BY LinesFinite DEF Typed, TypeOK
<1> QED
  BY <1>1, Numbers DEF IsAnswer, Full

\* A full page holds every line before its latest instant.
LEMMA FullPageHasTheEarlier ==
  ASSUME Typed, IsAnswer(page, from, WindowEnd),
         NEW t \in Start .. End, IsLatest(t), t < WindowEnd,
         NEW l \in Lines, from <= stamp[l], stamp[l] < t
  PROVE  l \in page
<1>1. PICK k \in page : stamp[k] = t
  BY DEF IsLatest
<1>2. stamp[l] \in Nat /\ WindowEnd \in Nat
  BY WindowBounds, Numbers DEF Typed, TypeOK
<1>3. l \in Within(from, WindowEnd)
  BY <1>2, Numbers DEF Within
<1>4. l \notin page => t <= stamp[l]
  BY <1>1, <1>3 DEF IsAnswer
<1> QED
  BY <1>2, <1>4, Numbers

\* A full page that does not get past the first instant of its window holds
\* every line of that instant, unless they are too many for one page.
LEMMA FullPageHasItsInstant ==
  ASSUME Typed, IsAnswer(page, from, WindowEnd), Full, IsLatest(from),
         NEW l \in Lines, stamp[l] = from, Uncrowded(l)
  PROVE  l \in page
<1> DEFINE Here == {k \in Lines : stamp[k] = stamp[l]}
<1>1. \A k \in page : stamp[k] = from
  <2> SUFFICES ASSUME NEW k \in page PROVE stamp[k] = from
    OBVIOUS
  <2>1. stamp[k] \in Nat /\ from \in Nat
    BY Numbers DEF Typed, TypeOK
  <2>2. from <= stamp[k]
    BY DEF IsAnswer, Within
  <2>3. stamp[k] <= from
    BY DEF IsLatest
  <2> QED
    BY <2>1, <2>2, <2>3
<1>2. page \in SUBSET Here
  BY <1>1 DEF Typed, TypeOK
<1>3. IsFiniteSet(Here) /\ Cardinality(Here) \in Nat
  BY LinesFinite
<1>4. Cardinality(page) <= Cardinality(Here) /\ (Cardinality(Here) = Cardinality(page) => Here = page)
  BY <1>2, <1>3, FS_Subset
<1>5. Cardinality(Here) <= Limit /\ Cardinality(page) = Limit
  BY DEF Uncrowded, Full
<1>6. Here = page
  BY <1>3, <1>4, <1>5, Numbers
<1> QED
  BY <1>6

\* What a page that was written wholly or in part covers: everything before
\* the next window, but for lines of that page.
LEMMA PageCovers ==
  ASSUME Typed, IsAnswer(page, from, WindowEnd), WritePage,
         NEW l \in Lines, from <= stamp[l], stamp[l] < from', Uncrowded(l)
  PROVE  l \in page
<1>1. stamp[l] \in Nat /\ from \in Nat
  BY Numbers DEF Typed, TypeOK
<1>2. CASE ~Full
  BY <1>2, NextFrom, ShortPageIsWhole DEF Within
<1>3. CASE Full
  <2>1. PICK t \in Start .. End : /\ IsLatest(t) /\ from <= t /\ t < WindowEnd
                                  /\ from' = AfterFullPage(t)
    BY <1>3, NextFrom
  <2>2. CASE t = from
    <3>1. stamp[l] = from
      BY <1>1, <2>1, <2>2 DEF AfterFullPage
    <3> QED
      BY <1>3, <2>1, <2>2, <3>1, FullPageHasItsInstant
  <2>3. CASE t # from
    <3>1. stamp[l] < t
      BY <2>1, <2>3 DEF AfterFullPage
    <3> QED
      BY <2>1, <3>1, FullPageHasTheEarlier
  <2> QED
    BY <2>2, <2>3
<1> QED
  BY <1>2, <1>3

\* A search that starts has nothing behind it.
LEMMA InitSearch == Init => SearchInv
<1> SUFFICES ASSUME Init PROVE SearchInv
  OBVIOUS
<1>1. \A l \in Lines : stamp[l] \in Nat /\ Start <= stamp[l]
  BY Numbers DEF Init
<1>2. Covered(from)
  BY <1>1, Numbers DEF Init, Covered
<1> QED
  BY <1>2 DEF Init, SearchInv, OnlyTheLastPageIsLost, NothingIsMissed

\* A written page keeps the invariant: what it covers was written, unless the
\* context was done; then the search fails at its next query, or ends here.
LEMMA WritePageKeepsSearchInv ==
  ASSUME Typed, SearchInv, WritePage
  PROVE  SearchInv'
<1>1. PICK W \in Written : Writes(W)
  BY DEF WritePage
<1>2. W \in SUBSET Lines /\ W \subseteq page /\ (~cancelled => W = page)
  BY DEF Written, Typed, TypeOK
<1>3. \A l \in Lines : sent[l] \in Nat /\ sent'[l] = IF l \in W THEN sent[l] + 1 ELSE sent[l]
  BY <1>1, <1>2, WritesTyped DEF Typed, TypeOK
<1>4. stamp' = stamp /\ page' = page /\ cancelled' = cancelled
  BY DEF WritePage
<1>5. \A l \in Lines : Uncrowded(l)' <=> Uncrowded(l)
  BY <1>4 DEF Uncrowded
<1>6. ASSUME NEW l \in Lines, stamp[l] < from', Uncrowded(l)
      PROVE  sent'[l] > 0 \/ (l \in page /\ cancelled)
  <2>1. stamp[l] \in Nat /\ from \in Nat
    BY Numbers DEF Typed, TypeOK
  <2>2. CASE stamp[l] < from
    <3>1. sent[l] > 0
      BY <1>6, <2>2 DEF SearchInv, Covered, WritePage
    <3> QED
      BY <1>3, <3>1
  <2>3. CASE from <= stamp[l]
    <3>1. l \in page
      BY <1>6, <2>3, PageCovers DEF SearchInv, WritePage
    <3> QED
      BY <1>2, <1>3, <3>1
  <2> QED
    BY <2>1, <2>2, <2>3
<1>7. CASE LastPage
  <2>1. pc' = "done" /\ from' = End
    BY <1>7 DEF WritePage, LastPage
  <2>2. \A l \in Lines : InTimeFrame(l)' <=> stamp[l] < from'
    BY <1>4, <2>1 DEF InTimeFrame
  <2>3. OnlyTheLastPageIsLost' /\ NothingIsMissed'
    BY <1>4, <1>5, <1>6, <2>2 DEF OnlyTheLastPageIsLost, NothingIsMissed
  <2> QED
    BY <2>1, <2>3 DEF SearchInv
<1>8. CASE ~LastPage
  <2>1. pc' = "query"
    BY <1>8 DEF WritePage
  <2>2. ~cancelled => Covered(from)'
    BY <1>4, <1>5, <1>6 DEF Covered
  <2> QED
    BY <1>4, <2>1, <2>2 DEF SearchInv, OnlyTheLastPageIsLost, NothingIsMissed
<1> QED
  BY <1>7, <1>8

\* Every step keeps the invariant.
LEMMA NextSearch == Typed /\ SearchInv /\ [Next]_vars => SearchInv'
<1> SUFFICES ASSUME Typed, SearchInv, [Next]_vars PROVE SearchInv'
  OBVIOUS
<1>1. ASSUME UNCHANGED <<stamp, from, sent>>
      PROVE  Covered(from)' <=> Covered(from)
  <2>1. \A l \in Lines : Uncrowded(l)' <=> Uncrowded(l)
    BY <1>1 DEF Uncrowded
  <2> QED
    BY <1>1, <2>1 DEF Covered
<1>2. CASE Query
  <2>1. UNCHANGED <<stamp, from, sent, cancelled>> /\ pc' = "write"
    BY <1>2 DEF Query
  <2>2. Covered(from)'
    BY <1>1, <1>2, <2>1 DEF Query, SearchInv
  <2>3. IsAnswer(page', from, WindowEnd)
    BY <1>2 DEF Query
  <2>4. IsAnswer(page, from, WindowEnd)'
    BY <2>1, <2>3 DEF IsAnswer, Within, WindowEnd
  <2> QED
    BY <2>1, <2>2, <2>4 DEF SearchInv, OnlyTheLastPageIsLost, NothingIsMissed
<1>3. CASE QueryFails \/ WriteFails \/ WritePanics
  <2>1. pc' \in {"error", "panic"}
    BY <1>3 DEF QueryFails, WriteFails, WritePanics
  <2> QED
    BY <2>1 DEF SearchInv, OnlyTheLastPageIsLost, NothingIsMissed
<1>4. CASE WritePage
  BY <1>4, WritePageKeepsSearchInv
<1>5. CASE Cancel
  <2>1. UNCHANGED <<stamp, from, sent, page, pc>> /\ cancelled' /\ pc \in {"query", "write"}
    BY <1>5 DEF Cancel
  <2>2. Covered(from)' <=> Covered(from)
    BY <1>1, <2>1
  <2>3. IsAnswer(page, from, WindowEnd)' <=> IsAnswer(page, from, WindowEnd)
    BY <2>1 DEF IsAnswer, Within, WindowEnd
  <2> QED
    BY <2>1, <2>2, <2>3 DEF SearchInv, OnlyTheLastPageIsLost, NothingIsMissed
<1>6. CASE UNCHANGED vars
  <2>1. UNCHANGED <<stamp, from, sent, page, cancelled, pc>>
    BY <1>6 DEF vars
  <2>2. Covered(from)' <=> Covered(from)
    BY <1>1, <2>1
  <2>3. IsAnswer(page, from, WindowEnd)' <=> IsAnswer(page, from, WindowEnd)
    BY <2>1 DEF IsAnswer, Within, WindowEnd
  <2>4. \A l \in Lines : (Uncrowded(l)' <=> Uncrowded(l)) /\ (InTimeFrame(l)' <=> InTimeFrame(l))
    BY <2>1 DEF Uncrowded, InTimeFrame
  <2> QED
    BY <2>1, <2>2, <2>3, <2>4 DEF SearchInv, OnlyTheLastPageIsLost, NothingIsMissed
<1> QED
  BY <1>2, <1>3, <1>4, <1>5, <1>6 DEF Next

\* A search that reports success has written every line of the time frame,
\* however many lines, windows and full pages there are (NothingIsMissed).
THEOREM SearchIsComplete == Spec => []NothingIsMissed
<1>1. SearchInv => NothingIsMissed
  BY DEF SearchInv
<1> QED
  BY InitTyped, NextTyped, InitSearch, NextSearch, <1>1, PTL DEF Spec

\* Even a search that was cancelled lacks lines of its last page only, when it
\* reports success (OnlyTheLastPageIsLost).
THEOREM CancelledSearchLosesOnePage == Spec => []OnlyTheLastPageIsLost
<1>1. SearchInv => OnlyTheLastPageIsLost
  BY DEF SearchInv
<1> QED
  BY InitTyped, NextTyped, InitSearch, NextSearch, <1>1, PTL DEF Spec

-----------------------------------------------------------------------------
(* No line is written three times *)

\* Behind the start of the window nothing was written yet; at its start once
\* at most, by the page that ended there.
OverlapInv ==
  /\ NoLineThreeTimes
  /\ pc \in {"query", "write"} =>
       \A l \in Lines : /\ stamp[l] = from => sent[l] <= 1
                        /\ stamp[l] > from => sent[l] = 0

\* Nothing was written when the search starts.
LEMMA InitOverlap == Init => OverlapInv
  BY DEF Init, OverlapInv, NoLineThreeTimes

\* Lines of the window are written once more, and only the ones at the page's
\* latest instant can be asked for again.
LEMMA NextOverlap == Typed /\ OverlapInv /\ [Next]_vars => OverlapInv'
<1> SUFFICES ASSUME Typed, OverlapInv, [Next]_vars PROVE OverlapInv'
  OBVIOUS
<1>1. \A l \in Lines : stamp[l] \in Nat /\ sent[l] \in Nat
  BY Numbers DEF Typed, TypeOK
<1>2. from \in Nat /\ WindowEnd \in Nat /\ from <= WindowEnd
  BY Numbers, WindowBounds DEF Typed, TypeOK
<1>3. ASSUME pc = "write", NEW W \in SUBSET page, Writes(W), NEW l \in Lines
      PROVE  /\ sent'[l] = IF l \in W THEN sent[l] + 1 ELSE sent[l]
             /\ l \in W => from <= stamp[l] /\ stamp[l] < WindowEnd
             /\ sent'[l] <= 2
  <2>1. W \in SUBSET Lines
    BY DEF Typed, TypeOK
  <2>2. sent'[l] = IF l \in W THEN sent[l] + 1 ELSE sent[l]
    BY <1>3, <2>1, WritesTyped DEF Typed, TypeOK
  <2>3. l \in W => from <= stamp[l] /\ stamp[l] < WindowEnd
    BY <1>3 DEF Typed, Within
  <2>4. l \in W => sent[l] <= 1
    BY <1>1, <1>2, <1>3, <2>3 DEF OverlapInv
  <2> QED
    BY <1>1, <2>2, <2>3, <2>4 DEF OverlapInv, NoLineThreeTimes
<1>4. CASE Query \/ QueryFails \/ Cancel \/ UNCHANGED vars
  <2>1. UNCHANGED <<stamp, from, sent>> /\ (pc' \in {"query", "write"} => pc \in {"query", "write"})
    BY <1>4 DEF Query, QueryFails, Cancel, vars
  <2> QED
    BY <2>1 DEF OverlapInv, NoLineThreeTimes
<1>5. CASE WriteFails \/ WritePanics
  <2>1. PICK W \in SUBSET page : Writes(W)
    BY <1>5 DEF WriteFails, WritePanics
  <2>2. NoLineThreeTimes'
    BY <1>3, <1>5, <2>1 DEF NoLineThreeTimes, WriteFails, WritePanics
  <2>3. pc' \notin {"query", "write"}
    BY <1>5 DEF WriteFails, WritePanics
  <2> QED
    BY <2>2, <2>3 DEF OverlapInv
<1>6. CASE WritePage
  <2>1. pc = "write" /\ stamp' = stamp
    BY <1>6 DEF WritePage
  <2>2. PICK W \in SUBSET page : Writes(W)
    BY <1>6 DEF WritePage, Written
  <2>3. NoLineThreeTimes'
    BY <1>3, <2>1, <2>2 DEF NoLineThreeTimes
  <2>4. ASSUME NEW l \in Lines
        PROVE  /\ stamp[l] = from' => sent'[l] <= 1
               /\ stamp[l] > from' => sent'[l] = 0
    <3>1. /\ sent'[l] = IF l \in W THEN sent[l] + 1 ELSE sent[l]
          /\ l \in W => from <= stamp[l] /\ stamp[l] < WindowEnd
      BY <1>3, <2>1, <2>2
    <3>2. stamp[l] > from => sent[l] = 0
      BY <2>1 DEF OverlapInv
    <3>3. CASE ~Full
      <4>1. from' = WindowEnd
        BY <1>6, <3>3, NextFrom
      <4>2. CASE stamp[l] > from
        BY <1>1, <1>2, <3>1, <3>2, <4>1, <4>2
      <4>3. CASE stamp[l] = from /\ from' = from
        BY <1>1, <2>1, <3>1, <4>1, <4>3 DEF OverlapInv
      <4> QED
        BY <1>1, <1>2, <4>1, <4>2, <4>3
    <3>4. CASE Full
      <4>1. PICK t \in Start .. End : IsLatest(t) /\ from <= t /\ from' = AfterFullPage(t)
        BY <1>6, <3>4, NextFrom
      <4>2. l \in W => stamp[l] <= t
        BY <2>2, <4>1 DEF IsLatest
      <4>3. t \in Nat /\ from' \in Nat /\ t <= from' /\ from < from'
        BY <1>2, <4>1, Numbers DEF AfterFullPage
      <4>4. stamp[l] >= from' => sent[l] = 0
        BY <1>1, <1>2, <3>2, <4>3
      <4>5. stamp[l] > from' => l \notin W
        BY <1>1, <4>2, <4>3
      <4> QED
        BY <1>1, <3>1, <4>3, <4>4, <4>5
    <3> QED
      BY <3>3, <3>4
  <2> QED
    BY <2>1, <2>3, <2>4 DEF OverlapInv
<1> QED
  BY <1>4, <1>5, <1>6 DEF Next

\* Neighbouring pages share one instant at most: no line reaches the log file
\* of an attempt more than twice (NoLineThreeTimes).
THEOREM PagesOverlapOnce == Spec => []NoLineThreeTimes
<1>1. OverlapInv => NoLineThreeTimes
  BY DEF OverlapInv
<1> QED
  BY InitTyped, NextTyped, InitOverlap, NextOverlap, <1>1, PTL DEF Spec
-----------------------------------------------------------------------------
(* The search moves on *)

\* However crowded an instant is, no page leaves the search where it was or
\* takes it back, and none takes it out of the time frame: at most End - Start
\* more pages follow the first one (SearchMovesOn).
THEOREM SearchingMovesOn == Spec => SearchMovesOn
<1>1. Typed /\ [Next]_vars =>
        [\/ pc = "query" /\ pc' = "write" /\ from' = from
         \/ pc = "write" /\ pc' = "query" /\ from < from' /\ from' <= End
         \/ pc' \notin {"query", "write"}
         \/ cancelled' # cancelled /\ UNCHANGED <<pc, from>>]_vars
  <2> SUFFICES ASSUME Typed, Next
               PROVE  \/ pc = "query" /\ pc' = "write" /\ from' = from
                      \/ pc = "write" /\ pc' = "query" /\ from < from' /\ from' <= End
                      \/ pc' \notin {"query", "write"}
                      \/ cancelled' # cancelled /\ UNCHANGED <<pc, from>>
    OBVIOUS
  <2>1. CASE Query
    BY <2>1 DEF Query
  <2>2. CASE QueryFails \/ WriteFails \/ WritePanics
    BY <2>2 DEF QueryFails, WriteFails, WritePanics
  <2>3. CASE Cancel
    BY <2>3 DEF Cancel
  <2>4. CASE WritePage /\ LastPage
    BY <2>4 DEF WritePage
  <2>5. CASE WritePage /\ ~LastPage
    <3>1. pc = "write" /\ pc' = "query"
      BY <2>5 DEF WritePage
    <3>2. from' \in Start .. End /\ from \in Nat /\ from <= End
      BY <2>5, NextFrom, Numbers DEF Typed, TypeOK
    <3>3. from < from'
      <4>1. CASE Full
        <5>1. PICK t \in Start .. End : from <= t /\ from' = AfterFullPage(t)
          BY <2>5, <4>1, NextFrom
        <5> QED
          BY <3>2, <5>1, Numbers DEF AfterFullPage
      <4>2. CASE ~Full
        <5>1. from' = WindowEnd /\ WindowEnd # End
          BY <2>5, <4>2, NextFrom DEF LastPage
        <5>2. WindowEnd = from + Window
          BY <5>1 DEF WindowEnd
        <5> QED
          BY <3>2, <5>1, <5>2, Numbers
      <4> QED
        BY <4>1, <4>2
    <3> QED
      BY <3>1, <3>2, <3>3, Numbers
  <2> QED
    BY <2>1, <2>2, <2>3, <2>4, <2>5 DEF Next
<1> QED
  BY InitTyped, NextTyped, <1>1, PTL DEF Spec, SearchMovesOn
=============================================================================
