---------------------------- MODULE MetricPaging ----------------------------
(***************************************************************************)
(* How the node info collector fetches its metrics from Prometheus: one    *)
(* query after the other, each of them split into pages of a number of     *)
(* steps (queryRange), whose samples go to the collector's channel.        *)
(*                                                                         *)
(* The instants of a query are counted in its steps: 0 is the start of the *)
(* time frame, whole[s] the last instant in it, and the time frame ends    *)
(* there or (ragged) before the next one.  A sample stands for those of    *)
(* all nodes at its instant.  A page of no steps, whose loop would never   *)
(* end, and a step times a size beyond 2^63 ns are left out.  That nobody  *)
(* may read the channel any more is in CollectorRun.                       *)
(***************************************************************************)
EXTENDS Integers

CONSTANTS
  Sizes,      \* values of METRICS_MAX_SAMPLES
  MaxWhole,   \* bound on the number of steps in a time frame
  Faults      \* what may go wrong: "query", "type"

ASSUME MetricPagingAssumption ==
  /\ Sizes \subseteq Nat \ {0}
  /\ MaxWhole \in Nat
  /\ Faults \subseteq {"query", "type"}

Steps == {"hardware", "usage"}

\* The metrics in the order of Collect, each by the step it is asked for with:
\* names, count; storage, free, free in percent; cores, usage, in percent;
\* RAM, free, used in percent; network received, sent.
StepOf ==
  << "hardware", "hardware",
     "hardware", "usage", "usage",
     "hardware", "usage", "usage",
     "hardware", "usage", "usage",
     "usage", "usage" >>

Metrics  == 1 .. 13
Instants == 0 .. MaxWhole

VARIABLES
  size,    \* steps per page: maxSamples
  whole,   \* whole[s]: the steps s that fit into the time frame
  ragged,  \* ragged[s]: the time frame is longer than that
  metric,  \* the metric that is being queried
  from,    \* pageStart
  page,    \* the instants of the last answer
  sent,    \* sent[m][i]: how often the sample of m at instant i was sent
  pc       \* "query", "write", or how Collect ended

vars == <<size, whole, ragged, metric, from, page, sent, pc>>

Length(m) == whole[StepOf[m]]

TypeOK ==
  /\ size \in Sizes
  /\ whole \in [Steps -> Instants]
  /\ ragged \in [Steps -> BOOLEAN]
  /\ metric \in Metrics
  /\ from \in 0 .. Length(metric)
  /\ page \subseteq from .. Length(metric)
  /\ sent \in [Metrics -> [Instants -> Nat]]
  /\ pc \in {"query", "write", "done", "error"}

Init ==
  /\ size \in Sizes
  /\ whole \in [Steps -> Instants]
  /\ ragged \in [Steps -> BOOLEAN]
  /\ metric = 1 /\ from = 0 /\ page = {}
  /\ sent = [m \in Metrics |-> [i \in Instants |-> 0]]
  /\ pc = "query"

-----------------------------------------------------------------------------
(* queryRange *)

\* The time frame of the metric in steps, rounded up.
Ceiling == IF ragged[StepOf[metric]] THEN Length(metric) + 1 ELSE Length(metric)

\* The page would end at the end of the time frame or after it.
LastPage == from + size >= Ceiling

\* Slip: the last page is not cut at the end of the time frame.
UncutPage == from .. from + size

\* The instants Prometheus evaluates for a page: both ends are included, which
\* makes one more than its size.
PageInstants == IF LastPage THEN from .. Length(metric) ELSE from .. from + size

\* QueryRange answers with a matrix.
Query ==
  /\ pc = "query"
  /\ page' = PageInstants
  /\ pc' = "write"
  /\ UNCHANGED <<size, whole, ragged, metric, from, sent>>

\* The request fails: Collect gives up, the other metrics are not asked for.
QueryFails ==
  /\ pc = "query" /\ "query" \in Faults
  /\ pc' = "error"
  /\ UNCHANGED <<size, whole, ragged, metric, from, page, sent>>

\* Slip: an answer that is no matrix is asked for again.
NoMatrixAsksAgain ==
  /\ pc = "write" /\ "type" \in Faults
  /\ page' = {} /\ pc' = "query"
  /\ UNCHANGED <<size, whole, ragged, metric, from, sent>>

\* writeMatrixToChannel refuses an answer that is no matrix.
AnswerIsNoMatrix ==
  /\ pc = "write" /\ "type" \in Faults
  /\ pc' = "error"
  /\ UNCHANGED <<size, whole, ragged, metric, from, page, sent>>

\* writeMatrixToChannel
Writes ==
  sent' = [sent EXCEPT ![metric] =
             [i \in Instants |-> IF i \in page THEN sent[metric][i] + 1 ELSE sent[metric][i]]]

\* Slip: the next page starts one step before the end of the last one.
TurnPageBack ==
  /\ pc = "write" /\ ~LastPage
  /\ Writes
  /\ from' = (IF size > 1 THEN from + size - 1 ELSE from + size) /\ page' = {}
  /\ pc' = "query"
  /\ UNCHANGED <<size, whole, ragged, metric>>

\* A page in the middle: the next one starts where it ended.
TurnPage ==
  /\ pc = "write" /\ ~LastPage
  /\ Writes
  /\ from' = from + size /\ page' = {}
  /\ pc' = "query"
  /\ UNCHANGED <<size, whole, ragged, metric>>

\* Slip: the loop is left before the last page is written.
EndMetricUnwritten ==
  /\ pc = "write" /\ LastPage
  /\ UNCHANGED sent
  /\ from' = 0 /\ page' = {}
  /\ IF metric < 13 THEN metric' = metric + 1 /\ pc' = "query"
                    ELSE pc' = "done" /\ UNCHANGED metric
  /\ UNCHANGED <<size, whole, ragged>>

\* The last page: on to the next metric, or the collector is done.
EndMetric ==
  /\ pc = "write" /\ LastPage
  /\ Writes
  /\ from' = 0 /\ page' = {}
  /\ IF metric < 13 THEN metric' = metric + 1 /\ pc' = "query"
                    ELSE pc' = "done" /\ UNCHANGED metric
  /\ UNCHANGED <<size, whole, ragged>>

Next == Query \/ QueryFails \/ AnswerIsNoMatrix \/ TurnPage \/ EndMetric

\* Prometheus answers or the request fails, and the samples are read.
Fairness == WF_vars(Next)

Spec     == Init /\ [][Next]_vars
FairSpec == Spec /\ Fairness

-----------------------------------------------------------------------------
(* Properties *)

\* All samples of metric m in the time frame were sent.
IsComplete(m) == \A i \in 0 .. Length(m) : sent[m][i] > 0

\* Collect goes on to the next metric, and ends, only with every sample of the
\* metrics before: no instant falls between two pages or behind the last one,
\* whatever the page size, the step and the end of the time frame
\* (queryRange's page arithmetic).
NoSampleIsMissed ==
  /\ \A m \in 1 .. metric - 1 : IsComplete(m)
  /\ pc = "done" => IsComplete(metric)

\* The only samples sent twice are those at the border of two pages, never the
\* first or one behind the time frame: both pages ask for the border
\* (pageStart = pageEnd with inclusive ends).
OnlyBordersTwice ==
  \A m \in Metrics, i \in Instants :
    /\ sent[m][i] <= IF i \in 1 .. Length(m) /\ i % size = 0 THEN 2 ELSE 1
    /\ i > Length(m) => sent[m][i] = 0

\* Every answer takes the collector on, to a later page of its metric that is
\* not behind the end of the time frame, or to the next metric (queryRange).
CollectMovesOn ==
  [][\/ pc = "query" /\ pc' = "write" /\ UNCHANGED <<metric, from>>
     \/ pc = "write" /\ pc' = "query" /\ metric' = metric
        /\ from < from' /\ from' <= Length(metric)
     \/ pc = "write" /\ pc' = "query" /\ metric' = metric + 1 /\ from' = 0
     \/ pc' \in {"done", "error"}]_vars

\* The node info collector comes to an end: every page moves on.
CollectEnds == <>(pc \in {"done", "error"})
=============================================================================
