----------------------------- MODULE LogPaging -----------------------------
(***************************************************************************)
(* How the log provider fetches the log lines of one archive from Loki:    *)
(* findLogs queries one time window after the other, writes every line of  *)
(* the answer to the collector's channel and moves on.  An answer that is  *)
(* full may be cut off; the search then goes on at the latest instant it   *)
(* has seen.                                                               *)
(*                                                                         *)
(* Instants are nanoseconds.  Loki answers a query for [lo, hi) with at    *)
(* most Limit lines, the earliest ones; which of several lines of one      *)
(* instant it cuts off is not determined.                                  *)
(***************************************************************************)
EXTENDS Integers, FiniteSets

CONSTANTS
  Lines,       \* the log lines in Loki
  NullLines,   \* the lines whose text is the JSON literal null
  Limit,       \* LOG_MAX_QUERY_RESULT_COUNT
  Window,      \* LOG_MAX_QUERY_TIME_WINDOW
  Start, End,  \* the time frame of the archive
  Faults       \* what may go wrong: "query", "parse", "cancel"

ASSUME LogPagingAssumption ==
  /\ IsFiniteSet(Lines) /\ NullLines \subseteq Lines
  /\ Limit \in Nat \ {0} /\ Window \in Nat \ {0}
  /\ Start \in Nat /\ End \in Nat /\ Start <= End
  /\ Faults \subseteq {"query", "parse", "cancel"}

VARIABLES
  stamp,      \* stamp[l]: the instant of line l
  from,       \* the start of the next window: reqEndTime of the last iteration
  page,       \* the lines of the last answer
  sent,       \* sent[l]: how often l was written to the channel
  cancelled,  \* the context is done
  pc          \* "query", "write", or how the search ended

vars == <<stamp, from, page, sent, cancelled, pc>>

TypeOK ==
  /\ stamp \in [Lines -> Start .. End]
  /\ from \in Start .. End
  /\ page \subseteq Lines
  /\ sent \in [Lines -> Nat]
  /\ cancelled \in BOOLEAN
  /\ pc \in {"query", "write", "done", "error", "panic"}

Init ==
  /\ stamp \in [Lines -> Start .. End]
  /\ from = Start /\ page = {} /\ sent = [l \in Lines |-> 0]
  /\ cancelled = FALSE /\ pc = "query"

-----------------------------------------------------------------------------
(* The queries *)

\* Slip: the window is not cut at the end of the time frame.
WindowUncut == from + Window

\* findLogsNextTimeWindow
WindowEnd == IF from + Window < End THEN from + Window ELSE End

Within(lo, hi) == {l \in Lines : lo <= stamp[l] /\ stamp[l] < hi}

\* What Loki may answer to a forward query with a limit.
IsAnswer(S, lo, hi) ==
  /\ S \subseteq Within(lo, hi)
  /\ Cardinality(S) <= Limit
  /\ Cardinality(S) < Limit => S = Within(lo, hi)
  /\ \A l \in S, k \in Within(lo, hi) \ S : stamp[l] <= stamp[k]

\* Slip: the request is made without the context.
QueryIgnoresContext ==
  /\ pc = "query"
  /\ page' \in {S \in SUBSET Within(from, WindowEnd) : IsAnswer(S, from, WindowEnd)}
  /\ pc' = "write"
  /\ UNCHANGED <<stamp, from, sent, cancelled>>

\* httpFindLogs with an answer.
Query ==
  /\ pc = "query" /\ ~cancelled
  /\ page' \in {S \in SUBSET Within(from, WindowEnd) : IsAnswer(S, from, WindowEnd)}
  /\ pc' = "write"
  /\ UNCHANGED <<stamp, from, sent, cancelled>>

\* The request fails, or its context is done.
QueryFails ==
  /\ pc = "query" /\ ("query" \in Faults \/ cancelled)
  /\ pc' = "error"
  /\ UNCHANGED <<stamp, from, page, sent, cancelled>>

-----------------------------------------------------------------------------
(* The answers *)

\* The lines W of the page reach the repository.
Writes(W) == sent' = [l \in Lines |-> IF l \in W THEN sent[l] + 1 ELSE sent[l]]

\* writeSaveToChannel hands over every line, or loses some when the context
\* is done.
Written == IF cancelled THEN SUBSET page ELSE {page}

Full == Cardinality(page) = Limit

\* t is the latest instant of the page.
IsLatest(t) ==
  /\ \E l \in page : stamp[l] = t
  /\ \A l \in page : stamp[l] <= t

\* Slip: a full page always steps over its latest instant.
AfterFullPageSkips(latest) == latest + 1

\* Slip: a full page steps back, to be on the safe side.
AfterFullPageBack(latest) ==
  IF latest = from THEN from + 1 ELSE IF latest = from + 1 THEN latest ELSE latest - 1

\* Where the search goes on after a page that may be cut off: at its latest
\* instant, some lines of which may be missing, or behind it when that is the
\* instant the window began with.
AfterFullPage(latest) == IF latest = from THEN from + 1 ELSE latest

\* Slip: the comparison with the limit is the wrong way round.
LastWhenFull == WindowEnd = End /\ Full

\* The last window of the time frame was answered completely.
LastPage == WindowEnd = End /\ ~Full

\* writeResponse, then the end of the loop or its next turn.
WritePage ==
  /\ pc = "write" /\ page \cap NullLines = {}
  /\ \E W \in Written : Writes(W)
  /\ pc' = IF LastPage THEN "done" ELSE "query"
  /\ \/ ~Full /\ from' = WindowEnd
     \/ Full /\ \E t \in Start .. End : IsLatest(t) /\ from' = AfterFullPage(t)
  /\ UNCHANGED <<stamp, page, cancelled>>

\* A line cannot be converted; the ones before it were written.
WriteFails ==
  /\ pc = "write" /\ "parse" \in Faults
  /\ \E l \in page : \E W \in SUBSET (page \ {l}) : Writes(W)
  /\ pc' = "error"
  /\ UNCHANGED <<stamp, from, page, cancelled>>

\* isValidJsonObject takes null for an object; enrichLogLine then writes to a
\* map that is nil.
WritePanics ==
  /\ pc = "write"
  /\ \E l \in page \cap NullLines : \E W \in SUBSET (page \ {l}) : Writes(W)
  /\ pc' = "panic"
  /\ UNCHANGED <<stamp, from, page, cancelled>>

\* The errgroup's context, or its parent, is cancelled.
Cancel ==
  /\ "cancel" \in Faults /\ ~cancelled /\ pc \in {"query", "write"}
  /\ cancelled' = TRUE
  /\ UNCHANGED <<stamp, from, page, sent, pc>>

Next == Query \/ QueryFails \/ WritePage \/ WriteFails \/ WritePanics \/ Cancel

\* The provider goes on with its loop; Loki answers or the request fails.
Fairness == WF_vars(Query \/ QueryFails \/ WritePage \/ WriteFails \/ WritePanics)

Spec     == Init /\ [][Next]_vars
FairSpec == Spec /\ Fairness

-----------------------------------------------------------------------------
(* Properties *)

\* The lines of one instant fit into a page.  "we use a high limit to avoid
\* that." (pkg/adapter/loki/lokiLogsProvider.go:124)
Uncrowded(l) == Cardinality({k \in Lines : stamp[k] = stamp[l]}) <= Limit

InTimeFrame(l) == stamp[l] < End

\* A search that ends without an error and was not cancelled has written every
\* line of the time frame, however the lines fall on windows and pages and
\* whatever a full page cuts off (findLogs).
NothingIsMissed ==
  pc = "done" /\ ~cancelled =>
    \A l \in Lines : InTimeFrame(l) /\ Uncrowded(l) => sent[l] > 0

\* A search that was cancelled either fails, or was at its last page already:
\* only lines of that page can be missing from what it reports as success
\* (writeSaveToChannel drops lines without an error).
OnlyTheLastPageIsLost ==
  pc = "done" =>
    \A l \in Lines : InTimeFrame(l) /\ Uncrowded(l) => sent[l] > 0 \/ l \in page

\* Pages overlap in one instant only, and never three of them: no line is
\* written more than twice (the restart at the latest instant of a full page).
NoLineThreeTimes == \A l \in Lines : sent[l] <= 2

\* Every page takes the search on: the next window begins later, also behind a
\* full page all of whose lines are of one instant (findLogs, whose loop has no
\* bound).
SearchMovesOn ==
  [][\/ pc = "query" /\ pc' = "write" /\ from' = from
     \/ pc = "write" /\ pc' = "query" /\ from < from' /\ from' <= End
     \/ pc' \notin {"query", "write"}
     \/ cancelled' # cancelled /\ UNCHANGED <<pc, from>>]_vars

\* The search ends: no page, full or empty, leaves the next window where the
\* last one was (findLogs, whose loop has no bound).
SearchEnds == <>(pc \notin {"query", "write"})
=============================================================================
