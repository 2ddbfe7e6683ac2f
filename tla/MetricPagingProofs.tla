------------------------- MODULE MetricPagingProofs -------------------------
(***************************************************************************)
(* What the queries of the node info collector guarantee for every page    *)
(* size of at least 1 and every length of the time frame.                  *)
(***************************************************************************)
EXTENDS MetricPaging, TLAPS

-----------------------------------------------------------------------------
(* Constants and lengths *)

\* The page sizes and the bound as numbers.
LEMMA Numbers ==
  /\ MaxWhole \in Nat
  /\ \A s \in Sizes : s \in Nat /\ s >= 1
  BY MetricPagingAssumption DEF MetricPagingAssumption

\* Every metric has a step.
LEMMA MetricHasStep == \A m \in Metrics : StepOf[m] \in Steps
  BY DEF StepOf, Steps, Metrics

\* The length of every metric's time frame is one of the instants.
LEMMA LengthTyped ==
  ASSUME whole \in [Steps -> Instants], NEW m \in Metrics
  PROVE  Length(m) \in Instants /\ Length(m) \in Nat /\ Length(m) <= MaxWhole
  BY MetricHasStep, Numbers DEF Length, Instants

-----------------------------------------------------------------------------
(* Type correctness *)

\* TypeOK with what makes it inductive: the answer is the one of the page.
Typed ==
  /\ TypeOK
  /\ pc = "write" => page = PageInstants

\* The variables of a well-typed state as numbers.
LEMMA TypedNumbers ==
  ASSUME TypeOK
  PROVE  /\ size \in Nat /\ size >= 1
         /\ from \in Nat /\ from <= Length(metric)
         /\ Length(metric) \in Nat /\ Length(metric) <= MaxWhole
         /\ Ceiling \in Nat /\ Ceiling <= Length(metric) + 1 /\ Length(metric) <= Ceiling
<1>1. size \in Nat /\ size >= 1
  BY Numbers DEF TypeOK
<1>2. Length(metric) \in Nat /\ Length(metric) <= MaxWhole
  BY LengthTyped DEF TypeOK
<1>3. from \in Nat /\ from <= Length(metric)
  BY <1>2 DEF TypeOK
<1>4. Ceiling \in Nat /\ Ceiling <= Length(metric) + 1 /\ Length(metric) <= Ceiling
  BY <1>2 DEF Ceiling
<1> QED
  BY <1>1, <1>2, <1>3, <1>4

\* A page starts where the search is and ends in the time frame; one that is
\* not the last leaves the next page its start.
LEMMA PageTyped ==
  ASSUME TypeOK
  PROVE  /\ PageInstants \subseteq from .. Length(metric)
         /\ ~LastPage => from + size \in 0 .. Length(metric)
<1>1. ~LastPage => from + size \in 0 .. Length(metric)
  BY TypedNumbers DEF LastPage
<1>2. CASE LastPage
  BY <1>1, <1>2 DEF PageInstants
<1>3. CASE ~LastPage
  BY <1>1, <1>3, TypedNumbers DEF PageInstants
<1> QED
  BY <1>1, <1>2, <1>3

\* Writing a page counts its samples, of the current metric only.
LEMMA WritesTyped ==
  ASSUME TypeOK, Writes
  PROVE  /\ sent' \in [Metrics -> [Instants -> Nat]]
         /\ \A m \in Metrics, i \in Instants :
              sent'[m][i] = IF m = metric /\ i \in page THEN sent[m][i] + 1 ELSE sent[m][i]
<1> DEFINE row == [i \in Instants |-> IF i \in page THEN sent[metric][i] + 1 ELSE sent[metric][i]]
<1>1. metric \in Metrics /\ sent \in [Metrics -> [Instants -> Nat]]
  BY DEF TypeOK
<1>2. row \in [Instants -> Nat]
  <2>1. \A i \in Instants : sent[metric][i] \in Nat /\ sent[metric][i] + 1 \in Nat
    BY <1>1
  <2> QED
    BY <2>1
<1>3. sent' = [sent EXCEPT ![metric] = row]
  BY DEF Writes
<1>4. \A m \in Metrics : sent'[m] = IF m = metric THEN row ELSE sent[m]
  BY <1>1, <1>3
<1>5. \A i \in Instants : row[i] = IF i \in page THEN sent[metric][i] + 1 ELSE sent[metric][i]
  OBVIOUS
<1> HIDE DEF row
<1>6. sent' \in [Metrics -> [Instants -> Nat]]
  BY <1>1, <1>2, <1>3
<1> QED
  BY <1>4, <1>5, <1>6

\* Collect starts well-typed, with the first metric.
LEMMA InitTyped == Init => Typed
<1> SUFFICES ASSUME Init PROVE Typed
  OBVIOUS
<1>1. metric \in Metrics /\ Length(metric) \in Nat
  BY LengthTyped DEF Init, Metrics
<1>2. sent \in [Metrics -> [Instants -> Nat]]
  BY DEF Init
<1> QED
  BY <1>1, <1>2 DEF Init, Typed, TypeOK

\* No query, page or failure leaves the types.
LEMMA NextTyped == Typed /\ [Next]_vars => Typed'
<1> SUFFICES ASSUME Typed, [Next]_vars PROVE Typed'
  OBVIOUS
<1>1. CASE Query
  <2>1. UNCHANGED <<size, whole, ragged, metric, from, sent>> /\ pc' = "write" /\ page' = PageInstants
    BY <1>1 DEF Query
  <2>2. PageInstants' = PageInstants /\ Length(metric)' = Length(metric)
    BY <2>1 DEF PageInstants, LastPage, Ceiling, Length
  <2> QED
    BY <2>1, <2>2, PageTyped DEF Typed, TypeOK
<1>2. CASE QueryFails \/ AnswerIsNoMatrix
  <2>1. UNCHANGED <<size, whole, ragged, metric, from, page, sent>> /\ pc' = "error"
    BY <1>2 DEF QueryFails, AnswerIsNoMatrix
  <2>2. Length(metric)' = Length(metric)
    BY <2>1 DEF Length
  <2> QED
    BY <2>1, <2>2 DEF Typed, TypeOK
<1>3. CASE TurnPage
  <2>1. /\ UNCHANGED <<size, whole, ragged, metric>> /\ pc' = "query"
        /\ from' = from + size /\ page' = {} /\ Writes /\ ~LastPage
    BY <1>3 DEF TurnPage
  <2>2. Length(metric)' = Length(metric)
    BY <2>1 DEF Length
  <2>3. sent' \in [Metrics -> [Instants -> Nat]]
    BY <2>1, WritesTyped DEF Typed
  <2> QED
    BY <2>1, <2>2, <2>3, PageTyped DEF Typed, TypeOK
<1>4. CASE EndMetric
  <2>1. /\ UNCHANGED <<size, whole, ragged>> /\ pc' \in {"query", "done"}
        /\ from' = 0 /\ page' = {} /\ Writes
    BY <1>4 DEF EndMetric
  <2>2. metric' \in Metrics
    BY <1>4 DEF EndMetric, Typed, TypeOK, Metrics
  <2>3. sent' \in [Metrics -> [Instants -> Nat]]
    BY <2>1, WritesTyped DEF Typed
  <2>4. whole' \in [Steps -> Instants] /\ size' \in Sizes /\ ragged' \in [Steps -> BOOLEAN]
    BY <2>1 DEF Typed, TypeOK
  <2>5. Length(metric)' \in Nat
    BY <2>2, <2>4, MetricHasStep, Numbers DEF Length, Instants
  <2> QED
    BY <2>1, <2>2, <2>3, <2>4, <2>5 DEF Typed, TypeOK
<1>5. CASE UNCHANGED vars
  <2>1. PageInstants' = PageInstants /\ Length(metric)' = Length(metric)
    BY <1>5 DEF vars, PageInstants, LastPage, Ceiling, Length
  <2> QED
    BY <1>5, <2>1 DEF vars, Typed, TypeOK
<1> QED
  BY <1>1, <1>2, <1>3, <1>4, <1>5 DEF Next

\* The state of Collect has its type (TypeOK): no page leaves the time frame.
THEOREM TypeCorrect == Spec => []TypeOK
<1>1. Typed => TypeOK
  BY DEF Typed
<1> QED
  BY InitTyped, NextTyped, <1>1, PTL DEF Spec

-----------------------------------------------------------------------------
(* No sample is missed *)

\* The metrics before the current one are complete, and the current one up to
\* the start of its page.
SearchInv ==
  /\ NoSampleIsMissed
  /\ pc \in {"query", "write"} => \A i \in Instants : i < from => sent[metric][i] > 0

\* Nothing has to be sent yet.
LEMMA InitSearch == Init => SearchInv
<1> SUFFICES ASSUME Init PROVE SearchInv
  OBVIOUS
<1>1. \A i \in Instants : ~(i < from)
  BY Numbers DEF Init, Instants
<1>2. \A m \in 1 .. metric - 1 : FALSE
  BY DEF Init
<1> QED
  BY <1>1, <1>2 DEF Init, SearchInv, NoSampleIsMissed

\* A page closes the gap between its start and the next one's.
LEMMA NextSearch == Typed /\ SearchInv /\ [Next]_vars => SearchInv'
<1> SUFFICES ASSUME Typed, SearchInv, [Next]_vars PROVE SearchInv'
  OBVIOUS
<1>1. metric \in Metrics /\ metric \in Nat /\ metric <= 13
  BY DEF Typed, TypeOK, Metrics
<1>2. \A m \in Metrics, i \in Instants : sent[m][i] \in Nat
  BY DEF Typed, TypeOK
<1>3. \A m \in Metrics : 0 .. Length(m) \subseteq Instants
  BY LengthTyped, Numbers DEF Typed, TypeOK, Instants
<1>4. ASSUME UNCHANGED <<whole, sent>> PROVE \A m \in Metrics : IsComplete(m)' <=> IsComplete(m)
  BY <1>4 DEF IsComplete, Length
<1>5. CASE Query \/ QueryFails \/ AnswerIsNoMatrix \/ UNCHANGED vars
  <2>1. UNCHANGED <<size, whole, ragged, metric, from, sent>>
    BY <1>5 DEF Query, QueryFails, AnswerIsNoMatrix, vars
  <2>2. /\ pc' \in {"query", "write"} => pc \in {"query", "write"}
        /\ pc' = "done" => pc = "done"
    BY <1>5 DEF Query, QueryFails, AnswerIsNoMatrix, vars
  <2>3. \A m \in 1 .. metric' - 1 : IsComplete(m)'
    BY <1>1, <1>4, <2>1 DEF SearchInv, NoSampleIsMissed, Metrics
  <2>4. pc' = "done" => IsComplete(metric)'
    BY <2>1, <2>2 DEF SearchInv, NoSampleIsMissed, IsComplete, Length
  <2> QED
    BY <2>1, <2>2, <2>3, <2>4 DEF SearchInv, NoSampleIsMissed
<1>6. ASSUME Writes, UNCHANGED whole
      PROVE  /\ \A m \in 1 .. metric - 1 : IsComplete(m)'
             /\ \A i \in Instants : i \in page \/ sent[metric][i] > 0 => sent'[metric][i] > 0
  <2>1. \A m \in Metrics, i \in Instants :
          sent'[m][i] = IF m = metric /\ i \in page THEN sent[m][i] + 1 ELSE sent[m][i]
    BY <1>6, WritesTyped DEF Typed
  <2>2. ASSUME NEW m \in 1 .. metric - 1 PROVE IsComplete(m)'
    <3>1. m \in Metrics /\ m # metric /\ IsComplete(m)
      BY <1>1 DEF SearchInv, NoSampleIsMissed, Metrics
    <3>2. Length(m)' = Length(m)
      BY <1>6 DEF Length
    <3> QED
      BY <1>3, <2>1, <3>1, <3>2 DEF IsComplete
  <2> QED
    BY <1>1, <1>2, <2>1, <2>2
<1>7. CASE TurnPage
  <2>1. /\ pc = "write" /\ ~LastPage /\ Writes /\ UNCHANGED whole
        /\ metric' = metric /\ from' = from + size /\ pc' = "query"
    BY <1>7 DEF TurnPage
  <2>2. page = from .. from + size
    BY <2>1 DEF Typed, PageInstants
  <2>3. ASSUME NEW i \in Instants, i < from' PROVE sent'[metric][i] > 0
    <3>1. i \in Nat /\ from \in Nat /\ size \in Nat
      BY TypedNumbers, Numbers DEF Typed, Instants
    <3>2. i < from \/ i \in page
      BY <2>1, <2>2, <2>3, <3>1
    <3> QED
      BY <1>6, <2>1, <3>2 DEF SearchInv
  <2> QED
    BY <1>6, <2>1, <2>3 DEF SearchInv, NoSampleIsMissed
<1>8. CASE EndMetric
  <2>1. /\ pc = "write" /\ LastPage /\ Writes /\ UNCHANGED whole /\ from' = 0
        /\ \/ metric < 13 /\ metric' = metric + 1 /\ pc' = "query"
           \/ metric' = metric /\ pc' = "done"
    BY <1>8 DEF EndMetric
  <2>2. page = from .. Length(metric)
    BY <2>1 DEF Typed, PageInstants
  <2>3. ASSUME NEW i \in 0 .. Length(metric) PROVE sent'[metric][i] > 0
    <3>1. i \in Instants /\ i \in Nat /\ from \in Nat /\ Length(metric) \in Nat
      BY <1>1, <1>3, TypedNumbers DEF Typed
    <3>2. i < from \/ i \in page
      BY <2>2, <3>1
    <3> QED
      BY <1>6, <2>1, <3>1, <3>2 DEF SearchInv
  <2>4. \A i \in 0 .. whole'[StepOf[metric]] : sent'[metric][i] > 0
    BY <2>1, <2>3 DEF Length
  <2>5. \A m \in 1 .. metric : whole' = whole /\ (\A i \in 0 .. whole'[StepOf[m]] : sent'[m][i] > 0)
    <3> SUFFICES ASSUME NEW m \in 1 .. metric
                 PROVE  \A i \in 0 .. whole'[StepOf[m]] : sent'[m][i] > 0
      BY <2>1
    <3>1. CASE m = metric
      BY <2>4, <3>1
    <3>2. CASE m # metric
      <4>1. m \in 1 .. metric - 1
        BY <1>1, <3>2
      <4> QED
        BY <1>6, <2>1, <4>1 DEF IsComplete, Length
    <3> QED
      BY <3>1, <3>2
  <2>6. \A m \in 1 .. metric : IsComplete(m)'
    BY <2>5 DEF IsComplete, Length
  <2>7. \A i \in Instants : ~(i < from')
    BY <2>1, Numbers DEF Instants
  <2>8. CASE metric < 13 /\ metric' = metric + 1 /\ pc' = "query"
    <3>1. metric' - 1 = metric
      BY <1>1, <2>8
    <3> QED
      BY <2>6, <2>7, <2>8, <3>1 DEF SearchInv, NoSampleIsMissed
  <2>9. CASE metric' = metric /\ pc' = "done"
    <3>1. IsComplete(metric)'
      BY <2>4, <2>9 DEF IsComplete, Length
    <3>2. \A m \in 1 .. metric' - 1 : IsComplete(m)'
      BY <1>1, <2>6, <2>9
    <3> QED
      BY <2>9, <3>1, <3>2 DEF SearchInv, NoSampleIsMissed
  <2> QED
    BY <2>1, <2>8, <2>9
<1> QED
  BY <1>5, <1>7, <1>8 DEF Next

\* Collect ends, and goes on to the next metric, with every sample of the time
\* frame, for every page size and time frame (NoSampleIsMissed).
THEOREM MetricsAreComplete == Spec => []NoSampleIsMissed
<1>1. SearchInv => NoSampleIsMissed
  BY DEF SearchInv
<1> QED
  BY InitTyped, NextTyped, InitSearch, NextSearch, <1>1, PTL DEF Spec

-----------------------------------------------------------------------------
(* Only borders are sent twice *)

\* A multiple leaves no remainder.
LEMMA MultipleOf ==
  ASSUME NEW n \in Nat, n >= 1, NEW q \in Nat
  PROVE  (q * n) % n = 0
  BY Z3

\* The borders of the pages are the multiples of the size.
LEMMA NextBorder ==
  ASSUME NEW k \in Nat, NEW n \in Nat, n >= 1, k % n = 0
  PROVE  (k + n) % n = 0
<1>1. PICK q \in Nat : k = q * n
  <2>1. k \div n \in Nat
    OBVIOUS
  <2>2. k = (k \div n) * n + (k % n)
    OBVIOUS
  <2>3. k = (k \div n) * n
    BY <2>1, <2>2
  <2> QED
    BY <2>1, <2>3
<1>2. k + n = (q + 1) * n
  BY <1>1
<1>3. ((q + 1) * n) % n = 0
  BY MultipleOf
<1> QED
  BY <1>2, <1>3

\* Behind the start of the page nothing was sent yet; at its start once at
\* most, by the page that ended there.
BorderInv ==
  /\ OnlyBordersTwice
  /\ \A m \in Metrics, i \in Instants : m > metric => sent[m][i] = 0
  /\ pc \in {"query", "write"} =>
       /\ from % size = 0
       /\ \A i \in Instants : /\ i > from \/ from = 0 => sent[metric][i] = 0
                              /\ i = from => sent[metric][i] <= 1

\* Nothing was sent when Collect starts.
LEMMA InitBorder == Init => BorderInv
<1> SUFFICES ASSUME Init PROVE BorderInv
  OBVIOUS
<1>1. \A m \in Metrics, i \in Instants : sent[m][i] = 0
  BY DEF Init
<1>2. from % size = 0
  BY Numbers DEF Init
<1>3. OnlyBordersTwice
  BY <1>1 DEF OnlyBordersTwice
<1>4. metric \in Metrics
  BY DEF Init, Metrics
<1> QED
  BY <1>1, <1>2, <1>3, <1>4 DEF BorderInv

\* A page that is written raises its samples to one, and the border it begins
\* at to two.
LEMMA WritesKeepBorders ==
  ASSUME Typed, BorderInv, pc = "write", Writes, UNCHANGED <<size, whole>>
  PROVE  /\ OnlyBordersTwice'
         /\ \A m \in Metrics, i \in Instants : m > metric => sent'[m][i] = 0
         /\ \A i \in Instants : /\ i > from => sent'[metric][i] <= 1
                                /\ i > from /\ i \notin page => sent'[metric][i] = 0
<1>1. metric \in Metrics /\ metric \in Nat
  BY DEF Typed, TypeOK, Metrics
<1>2. \A m \in Metrics, i \in Instants :
        /\ sent'[m][i] = IF m = metric /\ i \in page THEN sent[m][i] + 1 ELSE sent[m][i]
        /\ sent[m][i] \in Nat /\ i \in Nat
  <2>1. \A m \in Metrics, i \in Instants :
          sent'[m][i] = IF m = metric /\ i \in page THEN sent[m][i] + 1 ELSE sent[m][i]
    BY WritesTyped DEF Typed
  <2>2. \A m \in Metrics, i \in Instants : sent[m][i] \in Nat
    BY DEF Typed, TypeOK
  <2>3. \A i \in Instants : i \in Nat
    BY Numbers DEF Instants
  <2> QED
    BY <2>1, <2>2, <2>3
<1>3. page \subseteq from .. Length(metric) /\ from \in Nat /\ size \in Nat /\ Length(metric) \in Nat
  BY TypedNumbers DEF Typed, TypeOK
<1>4. \A m \in Metrics : whole'[StepOf[m]] = Length(m)
  BY DEF Length
<1>5. ASSUME NEW m \in Metrics, NEW i \in Instants
      PROVE  /\ sent'[m][i] <= IF i \in 1 .. Length(m) /\ i % size = 0 THEN 2 ELSE 1
             /\ i > Length(m) => sent'[m][i] = 0
  <2>1. /\ sent[m][i] <= IF i \in 1 .. Length(m) /\ i % size = 0 THEN 2 ELSE 1
        /\ i > Length(m) => sent[m][i] = 0
    BY DEF BorderInv, OnlyBordersTwice
  <2>2. CASE m = metric /\ i \in page
    <3>1. from <= i /\ i <= Length(m) /\ i \in Nat /\ Length(m) \in Nat
      BY <1>2, <1>3, <2>2
    <3>2. sent'[m][i] = sent[m][i] + 1 /\ sent[m][i] \in Nat
      BY <1>2, <2>2
    <3>3. CASE i = from /\ from # 0
      <4>1. sent[m][i] <= 1 /\ i % size = 0
        BY <2>2, <3>3 DEF BorderInv
      <4>2. i \in 1 .. Length(m)
        BY <1>3, <2>2, <3>1, <3>3
      <4> QED
        BY <3>1, <3>2, <4>1, <4>2
    <3>4. CASE i > from \/ from = 0
      <4>1. sent[m][i] = 0
        BY <2>2, <3>4 DEF BorderInv
      <4> QED
        BY <3>1, <3>2, <4>1
    <3> QED
      BY <1>3, <3>1, <3>3, <3>4
  <2>3. CASE ~(m = metric /\ i \in page)
    <3>1. sent'[m][i] = sent[m][i]
      BY <1>2, <2>3
    <3> QED
      BY <2>1, <3>1
  <2> QED
    BY <2>2, <2>3
<1>6. OnlyBordersTwice'
  <2>1. \A m \in Metrics : Length(m)' = Length(m)
    BY DEF Length
  <2> QED
    BY <1>5, <2>1 DEF OnlyBordersTwice
<1>7. \A m \in Metrics, i \in Instants : m > metric => sent'[m][i] = 0
  BY <1>1, <1>2 DEF BorderInv, Metrics
<1>8. ASSUME NEW i \in Instants, i > from
      PROVE  sent'[metric][i] <= 1 /\ (i \notin page => sent'[metric][i] = 0)
  <2>1. sent[metric][i] = 0
    BY <1>8 DEF BorderInv
  <2> QED
    BY <1>1, <1>2, <2>1
<1> QED
  BY <1>6, <1>7, <1>8

\* Two pages share their border and nothing else.
LEMMA NextBorders == Typed /\ BorderInv /\ [Next]_vars => BorderInv'
<1> SUFFICES ASSUME Typed, BorderInv, [Next]_vars PROVE BorderInv'
  OBVIOUS
<1>1. CASE Query \/ QueryFails \/ AnswerIsNoMatrix \/ UNCHANGED vars
  <2>1. /\ UNCHANGED <<size, whole, ragged, metric, from, sent>>
        /\ pc' \in {"query", "write"} => pc \in {"query", "write"}
    BY <1>1 DEF Query, QueryFails, AnswerIsNoMatrix, vars
  <2>2. OnlyBordersTwice'
    BY <2>1 DEF BorderInv, OnlyBordersTwice, Length
  <2> QED
    BY <2>1, <2>2 DEF BorderInv
<1>2. CASE TurnPage
  <2>1. /\ pc = "write" /\ ~LastPage /\ Writes /\ UNCHANGED <<size, whole>>
        /\ metric' = metric /\ from' = from + size /\ pc' = "query"
    BY <1>2 DEF TurnPage
  <2>2. page = from .. from + size
    BY <2>1 DEF Typed, PageInstants
  <2>3. from \in Nat /\ size \in Nat /\ size >= 1 /\ from % size = 0
    BY <2>1, TypedNumbers DEF Typed, BorderInv
  <2>4. from' % size' = 0
    BY <2>1, <2>3, NextBorder
  <2>5. ASSUME NEW i \in Instants
        PROVE  /\ i > from' \/ from' = 0 => sent'[metric][i] = 0
               /\ i = from' => sent'[metric][i] <= 1
    <3>1. i \in Nat
      BY Numbers DEF Instants
    <3>2. from' # 0 /\ (i > from' => i > from /\ i \notin page) /\ (i = from' => i > from)
      BY <2>1, <2>2, <2>3, <3>1
    <3> QED
      BY <2>1, <3>2, WritesKeepBorders
  <2> QED
    BY <2>1, <2>4, <2>5, WritesKeepBorders DEF BorderInv
<1>3. CASE EndMetric
  <2>1. /\ pc = "write" /\ Writes /\ UNCHANGED <<size, whole>> /\ from' = 0
        /\ \/ metric' = metric + 1 /\ pc' = "query"
           \/ metric' = metric /\ pc' = "done"
    BY <1>3 DEF EndMetric
  <2>2. metric \in Nat /\ \A m \in Metrics : m \in Nat
    BY DEF Typed, TypeOK, Metrics
  <2>3. from' % size' = 0
    BY <2>1, TypedNumbers DEF Typed
  <2>4. metric' \in Metrics
    BY NextTyped DEF Typed, TypeOK
  <2>5. \A m \in Metrics, i \in Instants : m > metric => sent'[m][i] = 0
    BY <2>1, WritesKeepBorders
  <2>6. \A m \in Metrics, i \in Instants : m > metric' => sent'[m][i] = 0
    BY <2>1, <2>2, <2>5
  <2>7. pc' = "query" => \A i \in Instants : sent'[metric'][i] = 0
    BY <2>1, <2>2, <2>4, <2>5
  <2> QED
    BY <2>1, <2>3, <2>6, <2>7, WritesKeepBorders DEF BorderInv
<1> QED
  BY <1>1, <1>2, <1>3 DEF Next

\* A sample reaches the node info file twice only at the border of two pages,
\* and never three times (OnlyBordersTwice).
THEOREM BordersOverlapOnce == Spec => []OnlyBordersTwice
<1>1. BorderInv => OnlyBordersTwice
  BY DEF BorderInv
<1> QED
  BY InitTyped, NextTyped, InitBorder, NextBorders, <1>1, PTL DEF Spec
-----------------------------------------------------------------------------
(* Collect moves on *)

\* Whatever the page size and the time frame, no answer leaves the collector
\* where it was, and no page begins behind the end of the time frame: at most
\* Length(m) + 1 requests are made for metric m (CollectMovesOn).
THEOREM CollectingMovesOn == Spec => CollectMovesOn
<1>1. Typed /\ [Next]_vars =>
        [\/ pc = "query" /\ pc' = "write" /\ UNCHANGED <<metric, from>>
         \/ pc = "write" /\ pc' = "query" /\ metric' = metric
            /\ from < from' /\ from' <= Length(metric)
         \/ pc = "write" /\ pc' = "query" /\ metric' = metric + 1 /\ from' = 0
         \/ pc' \in {"done", "error"}]_vars
  <2> SUFFICES ASSUME Typed, Next
               PROVE  \/ pc = "query" /\ pc' = "write" /\ UNCHANGED <<metric, from>>
                      \/ pc = "write" /\ pc' = "query" /\ metric' = metric
                         /\ from < from' /\ from' <= Length(metric)
                      \/ pc = "write" /\ pc' = "query" /\ metric' = metric + 1 /\ from' = 0
                      \/ pc' \in {"done", "error"}
    OBVIOUS
  <2>1. CASE Query
    BY <2>1 DEF Query
  <2>2. CASE QueryFails \/ AnswerIsNoMatrix
    BY <2>2 DEF QueryFails, AnswerIsNoMatrix
  <2>3. CASE TurnPage
    <3>1. pc = "write" /\ pc' = "query" /\ metric' = metric /\ from' = from + size /\ ~LastPage
      BY <2>3 DEF TurnPage
    <3>2. from < from' /\ from' <= Length(metric)
      BY <3>1, PageTyped, TypedNumbers DEF Typed
    <3> QED
      BY <3>1, <3>2
  <2>4. CASE EndMetric
    BY <2>4 DEF EndMetric
  <2> QED
    BY <2>1, <2>2, <2>3, <2>4 DEF Next
<1> QED
  BY InitTyped, NextTyped, <1>1, PTL DEF Spec, CollectMovesOn
=============================================================================
