------------------------ MODULE EdgeValidationProofs ------------------------
(***************************************************************************)
(* Proofs about EdgeValidation for every set of nodes and all reports.     *)
(*                                                                         *)
(* The argument: a counter tells how often its edge was reported, and with *)
(* the invalid edges whether the first two reports agreed.  Only edges     *)
(* that have a counter become invalid, each of them once, so the array of  *)
(* invalid edges, as large as that of the counters, is never too small.    *)
(***************************************************************************)
EXTENDS EdgeValidation, FiniteSetTheorems, TLAPS

\* The reports in s of the edge e, up to but not including the n-th.
Seen(s, n, e) == {k \in 1 .. n - 1 : Edge(s[k]) = e}

\* Two reports of one edge that make it valid if there is no third.
Agree(s, k, l) == s[k].from # s[l].from /\ s[k].weight = s[l].weight

\* What a counter c says of the reports K of its edge.
ReportedOnce(c, s, K) ==
    /\ c.encounters = 1
    /\ \E k \in K : K = {k} /\ c.first = s[k].from /\ c.weight = s[k].weight

ReportedTwice(c, s, K) ==
    /\ c.encounters = 2
    /\ \E k, l \in K : K = {k, l} /\ Agree(s, k, l)

ReportedWrongly(c, s, K) ==
    /\ c.encounters >= 2
    /\ \E k, l \in K : k # l
    /\ \A k, l \in K : Agree(s, k, l) => K # {k, l}

\* The same when the edges M are marked invalid.
Counts(c, s, n, M) ==
    LET K == Seen(s, n, c.edge)
    IN  \/ ReportedOnce(c, s, K)
        \/ ReportedTwice(c, s, K) /\ c.edge \notin M
        \/ ReportedWrongly(c, s, K) /\ c.edge \in M

Counted ==
    \A i \in DOMAIN counters :
        Counts(counters[i], reports, next, Range(invalidEdges))

\* Every edge that was looked at has one counter, within the array.
CountersOfEdges ==
    /\ Len(counters) <= maxEdges
    /\ \A i, j \in DOMAIN counters : counters[i].edge = counters[j].edge => i = j
    /\ \A k \in 1 .. next - 1 : \E i \in DOMAIN counters : counters[i].edge = Edge(reports[k])

\* Invalid edges have counters and are marked once.
InvalidCounted ==
    /\ \A i, j \in DOMAIN invalidEdges : invalidEdges[i] = invalidEdges[j] => i = j
    /\ \A i \in DOMAIN invalidEdges :
         \E j \in DOMAIN counters : counters[j].edge = invalidEdges[i]

\* How far the loops are in each phase.
Progress ==
    /\ checked <= Len(counters)
    /\ phase = "reports" =>
         /\ checked = 0
         /\ \A i \in DOMAIN counters :
              counters[i].encounters = 1 => counters[i].edge \notin Range(invalidEdges)
    /\ phase \in {"dual", "matrix", "success"} => next = Len(reports) + 1
    /\ phase \in {"matrix", "success"} => checked = Len(counters)
    /\ \A i \in 1 .. checked : counters[i].encounters = 1 => counters[i].edge \in Range(invalidEdges)

\* The inductive invariant.
IInv ==
    /\ TypeOK
    /\ Counted
    /\ CountersOfEdges
    /\ InvalidCounted
    /\ Progress
    /\ FailsOnlyForAReason
    /\ MatrixIsTheGraph

-----------------------------------------------------------------------------
(***************************************************************************)
(* The arrays have room.                                                   *)
(***************************************************************************)

\* The number of edge counters is a number.
LEMMA MaxEdgesNat == maxEdges \in Nat
<1>1. N \in Nat
  BY EdgeAddrAssumption, FS_CardinalityType DEF N
<1>2. CASE N = 0
  BY <1>2 DEF maxEdges
<1>3. CASE N # 0
  <2>1. N - 1 \in Nat
    BY <1>1, <1>3
  <2>2. N * (N - 1) \in Nat
    BY <1>1, <2>1
  <2> QED
    BY <2>2 DEF maxEdges
<1> QED
  BY <1>2, <1>3

\* A sequence without repetition of values of another one is shorter than the
\* other if it lacks one of its values.
LEMMA ShorterSequence ==
  ASSUME NEW S, NEW s \in Seq(S), NEW t \in Seq(S),
         \A i, j \in DOMAIN s : s[i] = s[j] => i = j,
         \A i \in DOMAIN s : \E j \in DOMAIN t : t[j] = s[i],
         NEW m \in DOMAIN t, \A i \in DOMAIN s : s[i] # t[m]
  PROVE  Len(s) < Len(t)
<1> DEFINE n == Len(s) + 1
           f == [i \in 1 .. n |-> IF i = n THEN m
                                  ELSE CHOOSE j \in DOMAIN t : t[j] = s[i]]
<1>1. /\ Len(s) \in Nat /\ Len(t) \in Nat
      /\ DOMAIN s = 1 .. Len(s) /\ DOMAIN t = 1 .. Len(t)
  OBVIOUS
<1>2. \A i \in 1 .. Len(s) : f[i] \in DOMAIN t /\ t[f[i]] = s[i]
  <2>1. SUFFICES ASSUME NEW i \in 1 .. Len(s)
                 PROVE  f[i] \in DOMAIN t /\ t[f[i]] = s[i]
    OBVIOUS
  <2>2. i \in 1 .. n /\ i # n
    BY <1>1
  <2>3. f[i] = CHOOSE j \in DOMAIN t : t[j] = s[i]
    BY <2>2
  <2>4. \E j \in DOMAIN t : t[j] = s[i]
    BY <1>1
  <2> QED
    BY <2>3, <2>4
<1>3. f[n] = m /\ n \in 1 .. n
  BY <1>1
<1>4. \A i \in 1 .. n : i = n \/ i \in 1 .. Len(s)
  BY <1>1
<1>5. f \in [1 .. n -> DOMAIN t]
  BY <1>2, <1>3, <1>4
<1>6. \A i, j \in 1 .. n : f[i] = f[j] => i = j
  <2>1. SUFFICES ASSUME NEW i \in 1 .. n, NEW j \in 1 .. n, f[i] = f[j]
                 PROVE  i = j
    OBVIOUS
  <2>2. CASE i = n /\ j = n
    BY <2>2
  <2>3. CASE i = n /\ j \in 1 .. Len(s)
    BY <2>1, <2>3, <1>1, <1>2, <1>3
  <2>4. CASE i \in 1 .. Len(s) /\ j = n
    BY <2>1, <2>4, <1>1, <1>2, <1>3
  <2>5. CASE i \in 1 .. Len(s) /\ j \in 1 .. Len(s)
    BY <2>1, <2>5, <1>1, <1>2
  <2> QED
    BY <1>4, <2>2, <2>3, <2>4, <2>5
<1>7. f \in Injection(1 .. n, DOMAIN t)
  BY <1>5, <1>6 DEF Injection, IsInjective
<1>8. \A k \in Nat : IsFiniteSet(1 .. k) /\ Cardinality(1 .. k) = k
  <2>1. TAKE k \in Nat
  <2>2. 1 > k <=> k = 0
    OBVIOUS
  <2> QED
    BY <2>2, FS_Interval
<1> QED
  <2> HIDE DEF f
  <2>1. Cardinality(1 .. n) <= Cardinality(1 .. Len(t))
    BY <1>1, <1>7, <1>8, FS_Injection
  <2>2. n \in Nat
    BY <1>1
  <2> QED
    BY <1>1, <1>8, <2>1, <2>2

\* What the counters are.
LEMMA CounterTypes ==
  ASSUME TypeOK
  PROVE  /\ Len(counters) \in Nat
         /\ DOMAIN counters = 1 .. Len(counters)
         /\ \A i \in DOMAIN counters :
              /\ counters[i].edge \in Edges
              /\ counters[i].encounters \in Nat \ {0}
              /\ counters[i].first \in Addr
              /\ counters[i].weight \in Nat
<1>1. counters \in Seq(Counter)
  BY DEF TypeOK
<1>2. /\ Len(counters) \in Nat
      /\ DOMAIN counters = 1 .. Len(counters)
      /\ \A i \in DOMAIN counters : counters[i] \in Counter
  BY <1>1
<1> QED
  BY <1>2 DEF Counter

\* There is room for an invalid edge that has a counter.
LEMMA RoomForInvalid ==
  ASSUME TypeOK, CountersOfEdges, InvalidCounted,
         NEW i \in DOMAIN counters, ~IsInvalid(counters[i].edge)
  PROVE  Len(invalidEdges) # maxEdges
<1> DEFINE t == [j \in 1 .. Len(counters) |-> counters[j].edge]
<1>1. /\ Len(counters) \in Nat
      /\ DOMAIN counters = 1 .. Len(counters)
      /\ \A j \in DOMAIN counters : counters[j].edge \in Edges
  BY CounterTypes
<1>2. t \in Seq(Edges) /\ Len(t) = Len(counters) /\ DOMAIN t = DOMAIN counters
  BY <1>1
<1>3. \A j \in DOMAIN counters : t[j] = counters[j].edge
  BY <1>1
<1>4. invalidEdges \in Seq(Edges)
  BY DEF TypeOK
<1>5. \A j \in DOMAIN invalidEdges : \E k \in DOMAIN t : t[k] = invalidEdges[j]
  BY <1>2, <1>3 DEF InvalidCounted
<1>6. \A j \in DOMAIN invalidEdges : invalidEdges[j] # t[i]
  BY <1>3 DEF IsInvalid
<1>7. Len(invalidEdges) < Len(t)
  <2> HIDE DEF t
  <2> QED
    BY <1>2, <1>4, <1>5, <1>6, ShorterSequence DEF InvalidCounted
<1> QED
  BY <1>1, <1>2, <1>4, <1>7, MaxEdgesNat DEF CountersOfEdges

\* What is marked invalid.
LEMMA Marked ==
  ASSUME NEW e
  PROVE  IsInvalid(e) <=> e \in Range(invalidEdges)
BY DEF IsInvalid, Range

\* Hence marking an edge that has a counter does not fail, marks this edge and
\* no other, and keeps the array free of repetitions.
LEMMA AddInvalidEdgeWorks ==
  ASSUME TypeOK, CountersOfEdges, InvalidCounted,
         NEW i \in DOMAIN counters, AddInvalidEdge(counters[i].edge)
  PROVE  /\ phase' = phase
         /\ invalidEdges' \in Seq(Edges)
         /\ Range(invalidEdges)' = Range(invalidEdges) \cup {counters[i].edge}
         /\ \A j, k \in DOMAIN invalidEdges' : invalidEdges'[j] = invalidEdges'[k] => j = k
<1> DEFINE e == counters[i].edge
<1>1. invalidEdges \in Seq(Edges) /\ e \in Edges
  BY CounterTypes DEF TypeOK
<1>2. CASE IsInvalid(e)
  <2>1. UNCHANGED <<invalidEdges, phase>>
    BY <1>2 DEF AddInvalidEdge
  <2>2. e \in Range(invalidEdges)
    BY <1>2, Marked
  <2> QED
    BY <1>1, <2>1, <2>2 DEF InvalidCounted, Range
<1>3. CASE ~IsInvalid(e)
  <2>1. phase' = phase /\ invalidEdges' = Append(invalidEdges, e)
    BY <1>3, RoomForInvalid DEF AddInvalidEdge
  <2>2. \A j \in DOMAIN invalidEdges : invalidEdges[j] # e
    BY <1>3 DEF IsInvalid
  <2> HIDE DEF e
  <2>3. /\ invalidEdges' \in Seq(Edges)
        /\ DOMAIN invalidEdges' = DOMAIN invalidEdges \cup {Len(invalidEdges) + 1}
        /\ \A j \in DOMAIN invalidEdges : invalidEdges'[j] = invalidEdges[j]
        /\ invalidEdges'[Len(invalidEdges) + 1] = e
    BY <1>1, <2>1
  <2>4. Range(invalidEdges') = Range(invalidEdges) \cup {e}
    BY <2>3 DEF Range
  <2>5. \A j, k \in DOMAIN invalidEdges' : invalidEdges'[j] = invalidEdges'[k] => j = k
    BY <2>2, <2>3 DEF InvalidCounted
  <2> QED
    BY <2>1, <2>3, <2>4, <2>5 DEF e
<1> QED
  BY <1>2, <1>3

-----------------------------------------------------------------------------
(***************************************************************************)
(* A counter and one more report.                                          *)
(***************************************************************************)

\* A report belongs to its own edge only.
LEMMA SeenOneMore ==
  ASSUME NEW s, NEW n \in Nat \ {0}, NEW e
  PROVE  /\ Edge(s[n]) = e => Seen(s, n + 1, e) = Seen(s, n, e) \cup {n}
         /\ Edge(s[n]) # e => Seen(s, n + 1, e) = Seen(s, n, e)
         /\ n \notin Seen(s, n, e)
BY DEF Seen

\* The counters of other edges stay right when a report is counted.
LEMMA CountsOfOthers ==
  ASSUME NEW s, NEW n \in Nat \ {0}, NEW c, NEW M, NEW M2,
         Counts(c, s, n, M), Edge(s[n]) # c.edge, c.edge \in M <=> c.edge \in M2
  PROVE  Counts(c, s, n + 1, M2)
BY SeenOneMore DEF Counts

\* The counter of a new edge is right.
LEMMA CountsNew ==
  ASSUME NEW s, NEW n \in Nat \ {0}, NEW c, NEW M,
         Seen(s, n, c.edge) = {}, Edge(s[n]) = c.edge,
         c.encounters = 1, c.first = s[n].from, c.weight = s[n].weight
  PROVE  Counts(c, s, n + 1, M)
<1>1. Seen(s, n + 1, c.edge) = {n}
  BY SeenOneMore
<1> QED
  BY <1>1 DEF Counts, ReportedOnce

\* checkIfEdgeIsValid keeps a counter right: after a second report the edge is
\* unmarked exactly if the two agree, after more it is marked.
LEMMA CountsAgain ==
  ASSUME NEW s, NEW n \in Nat \ {0}, NEW c, NEW d, NEW M, NEW M2,
         c.encounters \in Nat, Counts(c, s, n, M), Edge(s[n]) = c.edge,
         c.encounters = 1 => c.edge \notin M,
         d.edge = c.edge, d.encounters = c.encounters + 1,
         RepeatedIsValid(c, s[n]) => M2 = M,
         ~RepeatedIsValid(c, s[n]) => M2 = M \cup {c.edge}
  PROVE  Counts(d, s, n + 1, M2)
<1> DEFINE K == Seen(s, n, c.edge)
           L == Seen(s, n + 1, d.edge)
<1>1. L = K \cup {n} /\ n \notin K
  BY SeenOneMore
<1>2. Counts(c, s, n, M) <=> \/ ReportedOnce(c, s, K)
                             \/ ReportedTwice(c, s, K) /\ c.edge \notin M
                             \/ ReportedWrongly(c, s, K) /\ c.edge \in M
  BY DEF Counts
<1>3. SUFFICES \/ ReportedTwice(d, s, L) /\ d.edge \notin M2
               \/ ReportedWrongly(d, s, L) /\ d.edge \in M2
  BY DEF Counts
<1> HIDE DEF K, L
<1>4. CASE ReportedOnce(c, s, K)
  <2>1. PICK k \in K : K = {k} /\ c.first = s[k].from /\ c.weight = s[k].weight
    BY <1>4 DEF ReportedOnce
  <2>2. L = {k, n} /\ k # n /\ d.encounters = 2
    BY <1>1, <1>4, <2>1 DEF ReportedOnce
  <2>3. RepeatedIsValid(c, s[n]) <=> Agree(s, k, n)
    BY <1>4, <2>1 DEF RepeatedIsValid, Agree, ReportedOnce
  <2>4. CASE Agree(s, k, n)
    BY <1>4, <2>2, <2>3, <2>4 DEF ReportedTwice, ReportedOnce
  <2>5. CASE ~Agree(s, k, n)
    <3>1. \A x, y \in L : ~Agree(s, x, y)
      BY <2>2, <2>5 DEF Agree
    <3> QED
      BY <2>2, <2>3, <2>5, <3>1 DEF ReportedWrongly
  <2> QED
    BY <2>4, <2>5
<1>5. CASE c.encounters >= 2 /\ \E k, l \in K : k # l
  <2>1. ~RepeatedIsValid(c, s[n])
    BY <1>5 DEF RepeatedIsValid
  <2>2. \A x, y \in L : L # {x, y}
    BY <1>1, <1>5
  <2>3. \E k, l \in L : k # l
    BY <1>1, <1>5
  <2> QED
    BY <1>5, <2>1, <2>2, <2>3 DEF ReportedWrongly
<1>6. ReportedTwice(c, s, K) => c.encounters >= 2 /\ \E k, l \in K : k # l
  BY DEF ReportedTwice, Agree
<1>7. ReportedWrongly(c, s, K) => c.encounters >= 2 /\ \E k, l \in K : k # l
  BY DEF ReportedWrongly
<1> QED
  BY <1>2, <1>4, <1>5, <1>6, <1>7

-----------------------------------------------------------------------------
(***************************************************************************)
(* The actions.                                                            *)
(***************************************************************************)

\* What the report is that is looked at.
LEMMA NextReport ==
  ASSUME TypeOK, next <= Len(reports)
  PROVE  /\ next \in Nat \ {0} /\ next + 1 \in 1 .. Len(reports) + 1
         /\ next \in DOMAIN reports
         /\ reports[next] \in Report
         /\ Edge(reports[next]) \in Edges
<1>1. /\ next \in Nat \ {0} /\ next + 1 \in 1 .. Len(reports) + 1
      /\ next \in DOMAIN reports
      /\ reports[next] \in Report
  BY DEF TypeOK
<1>2. reports[next].from \in Addr /\ reports[next].to \in Addr \cup Strangers
  BY <1>1 DEF Report
<1> QED
  BY <1>1, <1>2 DEF Edge, Edges

LEMMA InitCorrect ==
  ASSUME Init
  PROVE  IInv
<1>1. TypeOK
  <2>1. reports \in Seq(Report) /\ next \in 1 .. Len(reports) + 1
    BY ReportsAssumption DEF Init
  <2> QED
    BY <2>1 DEF Init, TypeOK, NoEdges
<1>2. Counted /\ InvalidCounted
  BY DEF Init, Counted, InvalidCounted
<1>3. CountersOfEdges
  BY MaxEdgesNat DEF Init, CountersOfEdges
<1>4. Progress
  BY DEF Init, Progress
<1>5. FailsOnlyForAReason /\ MatrixIsTheGraph
  BY DEF Init, FailsOnlyForAReason, MatrixIsTheGraph
<1> QED
  BY <1>1, <1>2, <1>3, <1>4, <1>5 DEF IInv

LEMMA FailSearchCorrect ==
  ASSUME IInv, FailSearch
  PROVE  IInv'
<1> USE DEF IInv, FailSearch
<1>1. TypeOK'
  BY DEF TypeOK
<1>2. Counted' /\ InvalidCounted' /\ CountersOfEdges'
  BY DEF Counted, InvalidCounted, CountersOfEdges
<1>3. Progress'
  BY DEF Progress
<1>4. FailsOnlyForAReason' /\ MatrixIsTheGraph'
  BY DEF FailsOnlyForAReason, MatrixIsTheGraph, SearchOutOfBounds
<1> QED
  BY <1>1, <1>2, <1>3, <1>4

LEMMA CountReportCorrect ==
  ASSUME IInv, CountReport
  PROVE  IInv'
<1> DEFINE r == reports[next]
<1> USE DEF IInv
<1>1. /\ phase = "reports" /\ next <= Len(reports)
      /\ next' = next + 1
      /\ UNCHANGED <<reports, checked, matrix>>
  BY DEF CountReport
<1>2. PICK i \in DOMAIN counters :
        /\ counters[i].edge = Edge(r)
        /\ counters' = [counters EXCEPT ![i].encounters = @ + 1]
        /\ IF RepeatedIsValid(counters[i], r)
           THEN UNCHANGED <<invalidEdges, phase>>
           ELSE AddInvalidEdge(Edge(r))
  BY DEF CountReport
<1>3. /\ next \in Nat \ {0} /\ next + 1 \in 1 .. Len(reports) + 1
      /\ next \in DOMAIN reports
  BY <1>1, NextReport
<1>4. /\ phase' = phase
      /\ invalidEdges' \in Seq(Edges)
      /\ Range(invalidEdges)' = IF RepeatedIsValid(counters[i], r)
                                THEN Range(invalidEdges)
                                ELSE Range(invalidEdges) \cup {counters[i].edge}
      /\ \A j, k \in DOMAIN invalidEdges' : invalidEdges'[j] = invalidEdges'[k] => j = k
  <2>1. CASE RepeatedIsValid(counters[i], r)
    BY <1>2, <2>1 DEF InvalidCounted, TypeOK
  <2>2. CASE ~RepeatedIsValid(counters[i], r)
    BY <1>2, <2>2, AddInvalidEdgeWorks
  <2> QED
    BY <2>1, <2>2
<1>5. /\ counters' \in Seq(Counter)
      /\ Len(counters') = Len(counters) /\ DOMAIN counters' = DOMAIN counters
      /\ \A j \in DOMAIN counters : counters'[j].edge = counters[j].edge
      /\ \A j \in DOMAIN counters : j # i => counters'[j] = counters[j]
      /\ counters'[i].encounters = counters[i].encounters + 1
  <2>1. counters \in Seq(Counter) /\ counters[i] \in Counter
    BY DEF TypeOK
  <2>2. [counters[i] EXCEPT !.encounters = @ + 1] \in Counter
    <3>1. counters[i].encounters + 1 \in Nat \ {0}
      BY CounterTypes
    <3> QED
      BY <2>1, <3>1, Zenon DEF Counter
  <2>3. counters' = [counters EXCEPT ![i] = [counters[i] EXCEPT !.encounters = @ + 1]]
    BY <1>2
  <2>4. \A j \in DOMAIN counters : j # i => counters'[j] = counters[j]
    BY <2>3
  <2>5. counters'[i] = [counters[i] EXCEPT !.encounters = @ + 1]
    BY <2>1, <2>3
  <2>6. /\ counters'[i].edge = counters[i].edge
        /\ counters'[i].encounters = counters[i].encounters + 1
    BY <2>1, <2>5 DEF Counter
  <2>7. counters' \in Seq(Counter) /\ Len(counters') = Len(counters)
    BY <2>1, <2>2, <2>3
  <2> QED
    BY <2>1, <2>4, <2>6, <2>7
<1>6. \A j \in DOMAIN counters : j # i => counters[j].edge # Edge(r)
  BY <1>2 DEF CountersOfEdges
<1>7. TypeOK'
  BY <1>1, <1>3, <1>4, <1>5 DEF TypeOK
<1>8. Counted'
  <2>1. SUFFICES ASSUME NEW j \in DOMAIN counters
                 PROVE  Counts(counters'[j], reports, next + 1, Range(invalidEdges)')
    BY <1>1, <1>5 DEF Counted
  <2>2. Counts(counters[j], reports, next, Range(invalidEdges))
    BY DEF Counted
  <2>3. CASE j = i
    <3>1. counters[i].encounters = 1 => counters[i].edge \notin Range(invalidEdges)
      BY <1>1 DEF Progress
    <3>2. counters[i].encounters \in Nat
      BY CounterTypes
    <3> QED
      BY <1>2, <1>3, <1>4, <1>5, <2>2, <2>3, <3>1, <3>2, CountsAgain
  <2>4. CASE j # i
    <3>1. counters[j].edge \in Range(invalidEdges)
            <=> counters[j].edge \in Range(invalidEdges)'
      BY <1>2, <1>4, <1>6, <2>4
    <3> QED
      BY <1>3, <1>5, <1>6, <2>2, <2>4, <3>1, CountsOfOthers
  <2> QED
    BY <2>3, <2>4
<1>9. CountersOfEdges'
  <2>1. \A k \in 1 .. next : \E j \in DOMAIN counters : counters[j].edge = Edge(reports[k])
    BY <1>2, <1>3 DEF CountersOfEdges
  <2>2. next' - 1 = next
    BY <1>1, <1>3
  <2> QED
    BY <1>1, <1>5, <2>1, <2>2 DEF CountersOfEdges
<1>10. InvalidCounted'
  <2>1. \A e \in Range(invalidEdges) : \E j \in DOMAIN counters : counters[j].edge = e
    BY DEF InvalidCounted, Range
  <2>2. \A e \in Range(invalidEdges)' : \E j \in DOMAIN counters : counters'[j].edge = e
    BY <1>4, <1>5, <2>1
  <2> QED
    BY <1>4, <1>5, <2>2 DEF InvalidCounted, Range
<1>11. Progress'
  <2>1. \A j \in DOMAIN counters :
          counters'[j].encounters = 1 => counters'[j].edge \notin Range(invalidEdges)'
    <3>1. SUFFICES ASSUME NEW j \in DOMAIN counters, counters'[j].encounters = 1
                   PROVE  counters'[j].edge \notin Range(invalidEdges)'
      OBVIOUS
    <3>2. j # i
      <4>1. counters[i].encounters \in Nat \ {0}
        BY CounterTypes
      <4> QED
        BY <1>5, <3>1, <4>1
    <3> QED
      BY <1>1, <1>2, <1>4, <1>5, <1>6, <3>1, <3>2 DEF Progress
  <2>2. checked = 0
    BY <1>1 DEF Progress
  <2> QED
    BY <1>1, <1>4, <1>5, <2>1, <2>2 DEF Progress
<1>12. FailsOnlyForAReason' /\ MatrixIsTheGraph'
  BY <1>1, <1>4 DEF FailsOnlyForAReason, MatrixIsTheGraph
<1> QED
  BY <1>7, <1>8, <1>9, <1>10, <1>11, <1>12

LEMMA AddCounterCorrect ==
  ASSUME IInv, AddCounter
  PROVE  IInv'
<1> DEFINE r == reports[next]
           c == [edge |-> Edge(r), encounters |-> 1, first |-> r.from, weight |-> r.weight]
           m == Len(counters) + 1
<1> USE DEF IInv
<1>1. /\ phase = "reports" /\ next <= Len(reports)
      /\ ~SearchOutOfBounds(r)
      /\ \A i \in DOMAIN counters : counters[i].edge # Edge(r)
      /\ counters' = Append(counters, c)
      /\ next' = next + 1
      /\ UNCHANGED <<reports, invalidEdges, checked, phase, matrix>>
  BY DEF AddCounter
<1>2. /\ next \in Nat \ {0} /\ next + 1 \in 1 .. Len(reports) + 1
      /\ next \in DOMAIN reports /\ r \in Report /\ Edge(r) \in Edges
  BY <1>1, NextReport
<1>3. c \in Counter
  BY <1>2 DEF Report, Counter
<1>4. /\ counters' \in Seq(Counter)
      /\ Len(counters) \in Nat /\ Len(counters') = m
      /\ DOMAIN counters' = DOMAIN counters \cup {m} /\ m \notin DOMAIN counters
      /\ \A i \in DOMAIN counters : counters'[i] = counters[i]
      /\ counters'[m] = c
  <2> HIDE DEF c
  <2> QED
    BY <1>1, <1>3 DEF TypeOK
<1>5. TypeOK'
  BY <1>1, <1>2, <1>4 DEF TypeOK
<1>6. Counted'
  <2>1. SUFFICES ASSUME NEW i \in DOMAIN counters'
                 PROVE  Counts(counters'[i], reports, next + 1, Range(invalidEdges))
    BY <1>1 DEF Counted
  <2>2. CASE i = m
    <3>1. Seen(reports, next, Edge(r)) = {}
      BY <1>1 DEF Seen, CountersOfEdges
    <3> QED
      BY <1>2, <1>4, <2>2, <3>1, CountsNew
  <2>3. CASE i \in DOMAIN counters
    <3>1. Counts(counters[i], reports, next, Range(invalidEdges))
      BY <2>3 DEF Counted
    <3> QED
      BY <1>1, <1>2, <1>4, <2>3, <3>1, CountsOfOthers
  <2> QED
    BY <1>4, <2>2, <2>3
<1>7. CountersOfEdges'
  <2>1. Len(counters) # maxEdges
    BY <1>1 DEF SearchOutOfBounds
  <2>2. Len(counters') <= maxEdges
    BY <1>4, <2>1, MaxEdgesNat DEF CountersOfEdges
  <2>3. \A i, j \in DOMAIN counters' : counters'[i].edge = counters'[j].edge => i = j
    BY <1>1, <1>4 DEF CountersOfEdges
  <2>4. \A k \in 1 .. next : k = next \/ k \in 1 .. next - 1
    BY <1>2
  <2>5. \A k \in 1 .. next : \E i \in DOMAIN counters' : counters'[i].edge = Edge(reports[k])
    BY <1>4, <2>4 DEF CountersOfEdges
  <2>6. next' - 1 = next
    BY <1>1, <1>2
  <2> QED
    BY <1>1, <2>2, <2>3, <2>5, <2>6 DEF CountersOfEdges
<1>8. InvalidCounted'
  BY <1>1, <1>4 DEF InvalidCounted
<1>9. Progress'
  <2>1. c.edge \notin Range(invalidEdges)
    BY <1>1 DEF InvalidCounted, Range
  <2>2. checked = 0
    BY <1>1 DEF Progress
  <2>3. \A i \in DOMAIN counters' :
          counters'[i].encounters = 1 => counters'[i].edge \notin Range(invalidEdges)
    BY <1>1, <1>4, <2>1 DEF Progress
  <2> QED
    BY <1>1, <1>4, <2>2, <2>3 DEF Progress
<1>10. FailsOnlyForAReason' /\ MatrixIsTheGraph'
  BY <1>1 DEF FailsOnlyForAReason, MatrixIsTheGraph
<1> QED
  BY <1>5, <1>6, <1>7, <1>8, <1>9, <1>10

LEMMA AllReportsReadCorrect ==
  ASSUME IInv, AllReportsRead
  PROVE  IInv'
<1> USE DEF IInv, AllReportsRead
<1>1. TypeOK'
  BY DEF TypeOK
<1>2. Counted' /\ InvalidCounted' /\ CountersOfEdges'
  BY DEF Counted, InvalidCounted, CountersOfEdges
<1>3. Progress'
  BY DEF TypeOK, Progress
<1>4. FailsOnlyForAReason' /\ MatrixIsTheGraph'
  BY DEF FailsOnlyForAReason, MatrixIsTheGraph
<1> QED
  BY <1>1, <1>2, <1>3, <1>4

LEMMA CheckDualReportCorrect ==
  ASSUME IInv, CheckDualReport
  PROVE  IInv'
<1> DEFINE m == checked + 1
           e == counters[m].edge
<1> USE DEF IInv
<1>1. /\ phase = "dual" /\ checked < Len(counters)
      /\ checked' = m
      /\ IF counters[m].encounters < 2
         THEN AddInvalidEdge(e) ELSE UNCHANGED <<invalidEdges, phase>>
      /\ UNCHANGED <<reports, next, counters, matrix>>
  BY DEF CheckDualReport
<1>2. checked \in Nat /\ m \in DOMAIN counters /\ counters[m].encounters \in Nat \ {0}
  BY <1>1, CounterTypes DEF TypeOK
<1>3. /\ phase' = phase
      /\ invalidEdges' \in Seq(Edges)
      /\ Range(invalidEdges)' = IF counters[m].encounters = 1
                                THEN Range(invalidEdges) \cup {e} ELSE Range(invalidEdges)
      /\ \A j, k \in DOMAIN invalidEdges' : invalidEdges'[j] = invalidEdges'[k] => j = k
  <2>1. CASE counters[m].encounters < 2
    BY <1>1, <1>2, <2>1, AddInvalidEdgeWorks
  <2>2. CASE ~(counters[m].encounters < 2)
    BY <1>1, <2>2 DEF InvalidCounted, TypeOK
  <2> QED
    BY <1>2, <2>1, <2>2
<1>4. TypeOK'
  BY <1>1, <1>2, <1>3 DEF TypeOK
<1>5. Counted'
  <2>1. SUFFICES ASSUME NEW i \in DOMAIN counters
                 PROVE  Counts(counters[i], reports, next, Range(invalidEdges)')
    BY <1>1 DEF Counted
  <2>2. Counts(counters[i], reports, next, Range(invalidEdges))
    BY DEF Counted
  <2>3. CASE i = m /\ counters[m].encounters = 1
    BY <2>2, <2>3 DEF Counts, ReportedTwice, ReportedWrongly
  <2>4. CASE ~(i = m /\ counters[m].encounters = 1)
    <3>1. i # m => counters[i].edge # e
      BY <1>2 DEF CountersOfEdges
    <3>2. counters[i].edge \in Range(invalidEdges)
            <=> counters[i].edge \in Range(invalidEdges)'
      BY <1>3, <2>4, <3>1
    <3> QED
      BY <2>2, <3>2 DEF Counts
  <2> QED
    BY <2>3, <2>4
<1>6. CountersOfEdges'
  BY <1>1 DEF CountersOfEdges
<1>7. InvalidCounted'
  <2>1. \A x \in Range(invalidEdges) : \E j \in DOMAIN counters : counters[j].edge = x
    BY DEF InvalidCounted, Range
  <2>2. \A x \in Range(invalidEdges)' : \E j \in DOMAIN counters : counters[j].edge = x
    BY <1>2, <1>3, <2>1
  <2> QED
    BY <1>1, <1>3, <2>2 DEF InvalidCounted, Range
<1>8. Progress'
  <2>1. \A i \in 1 .. m : i = m \/ i \in 1 .. checked
    BY <1>2
  <2>2. \A i \in 1 .. m : counters[i].encounters = 1
                            => counters[i].edge \in Range(invalidEdges)'
    BY <1>3, <2>1 DEF Progress
  <2>3. m <= Len(counters)
    BY <1>1, <1>2, CounterTypes
  <2> QED
    BY <1>1, <1>3, <2>2, <2>3 DEF Progress
<1>9. FailsOnlyForAReason' /\ MatrixIsTheGraph'
  BY <1>1, <1>3 DEF FailsOnlyForAReason, MatrixIsTheGraph
<1> QED
  BY <1>4, <1>5, <1>6, <1>7, <1>8, <1>9

LEMMA AllCountersCheckedCorrect ==
  ASSUME IInv, AllCountersChecked
  PROVE  IInv'
<1> USE DEF IInv, AllCountersChecked
<1>1. TypeOK'
  BY DEF TypeOK
<1>2. Counted' /\ InvalidCounted' /\ CountersOfEdges'
  BY DEF Counted, InvalidCounted, CountersOfEdges
<1>3. Progress'
  BY DEF Progress
<1>4. FailsOnlyForAReason' /\ MatrixIsTheGraph'
  BY DEF FailsOnlyForAReason, MatrixIsTheGraph
<1> QED
  BY <1>1, <1>2, <1>3, <1>4

-----------------------------------------------------------------------------
(***************************************************************************)
(* The invalid edges and the matrix.                                       *)
(***************************************************************************)

\* When all counters are checked, the counter of an edge tells whether its
\* ends agree.
LEMMA InvalidIffNotDual ==
  ASSUME IInv
  PROVE  InvalidAreThoseNotDual
<1> USE DEF IInv
<1>1. SUFFICES ASSUME phase \in {"matrix", "success"}, NEW i \in DOMAIN reports
               PROVE  IsInvalid(Edge(reports[i]))
                        <=> ~DualReported(Edge(reports[i]), reports[i].weight)
  BY DEF InvalidAreThoseNotDual, InvalidCounted
<1> DEFINE e == Edge(reports[i])
           K == Seen(reports, next, e)
<1>2. next = Len(reports) + 1 /\ checked = Len(counters)
  BY <1>1 DEF Progress
<1>3. 1 .. next - 1 = DOMAIN reports
  BY <1>2 DEF TypeOK
<1>4. K = {k \in DOMAIN reports : Edge(reports[k]) = e} /\ i \in K
  BY <1>3 DEF Seen
<1>5. PICK j \in DOMAIN counters : counters[j].edge = e
  BY <1>3 DEF CountersOfEdges
<1> DEFINE c == counters[j]
<1>6. \/ ReportedOnce(c, reports, K)
      \/ ReportedTwice(c, reports, K) /\ e \notin Range(invalidEdges)
      \/ ReportedWrongly(c, reports, K) /\ e \in Range(invalidEdges)
  BY <1>5 DEF Counted, Counts
<1> HIDE DEF K
<1>7. CASE ReportedOnce(c, reports, K)
  <2>1. e \in Range(invalidEdges)
    <3>1. j \in 1 .. checked
      BY <1>2, CounterTypes
    <3> QED
      BY <1>5, <1>7, <3>1 DEF Progress, ReportedOnce
  <2>2. \A x, y \in K : x = y
    BY <1>7 DEF ReportedOnce
  <2>3. ~DualReported(e, reports[i].weight)
    BY <1>4, <2>2 DEF DualReported
  <2> QED
    BY <2>1, <2>3, Marked
<1>8. CASE ReportedTwice(c, reports, K) /\ e \notin Range(invalidEdges)
  <2>1. PICK x, y \in K : K = {x, y} /\ Agree(reports, x, y)
    BY <1>8 DEF ReportedTwice
  <2>2. reports[x].weight = reports[i].weight /\ reports[y].weight = reports[i].weight
    BY <1>4, <2>1 DEF Agree
  <2>3. DualReported(e, reports[i].weight)
    BY <1>4, <2>1, <2>2 DEF DualReported, Agree
  <2> QED
    BY <1>8, <2>3, Marked
<1>9. CASE ReportedWrongly(c, reports, K) /\ e \in Range(invalidEdges)
  <2>1. SUFFICES ASSUME DualReported(e, reports[i].weight) PROVE FALSE
    BY <1>9, Marked
  <2>2. PICK x, y \in DOMAIN reports :
          /\ Edge(reports[x]) = e /\ Edge(reports[y]) = e
          /\ reports[x].from # reports[y].from
          /\ reports[x].weight = reports[y].weight
          /\ \A k \in DOMAIN reports : Edge(reports[k]) = e => k \in {x, y}
    BY <2>1 DEF DualReported
  <2>3. K = {x, y} /\ Agree(reports, x, y)
    BY <1>4, <2>2 DEF Agree
  <2> QED
    BY <1>9, <2>3 DEF ReportedWrongly
<1> QED
  BY <1>6, <1>7, <1>8, <1>9

\* a reported an edge to b with weight w.
ReportedBy(a, b, w) ==
    \E i \in DOMAIN reports :
        reports[i].from = a /\ reports[i].to = b /\ reports[i].weight = w

\* Two agreeing reports of an edge are one from either end.
LEMMA DualEnds ==
  ASSUME NEW a, NEW b, NEW e, e = {a, b}, NEW w, DualReported(e, w)
  PROVE  ReportedBy(a, b, w)
<1>1. PICK x, y \in DOMAIN reports :
        /\ Edge(reports[x]) = {a, b} /\ Edge(reports[y]) = {a, b}
        /\ reports[x].from # reports[y].from
        /\ reports[x].weight = w /\ reports[y].weight = w
  BY DEF DualReported
<1>2. /\ {reports[x].from, reports[x].to} = {a, b}
      /\ {reports[y].from, reports[y].to} = {a, b}
  BY <1>1 DEF Edge
<1>3. CASE reports[x].from = a
  BY <1>1, <1>2, <1>3 DEF ReportedBy
<1>4. CASE reports[y].from = a
  BY <1>1, <1>2, <1>4 DEF ReportedBy
<1> QED
  BY <1>1, <1>2, <1>3, <1>4

\* If an edge is not invalid, each end reported it at most once, and the entry
\* is what it reported.
LEMMA EntryIsReported ==
  ASSUME IInv, phase = "matrix", NEW a \in Addr, NEW b \in Addr, ~IsInvalid({a, b}),
         NEW i \in DOMAIN reports, reports[i].from = a, reports[i].to = b
  PROVE  Entry(a, b) = reports[i].weight /\ DualReported({a, b}, reports[i].weight)
<1> DEFINE S == {k \in DOMAIN reports : reports[k].from = a /\ reports[k].to = b}
<1>1. Edge(reports[i]) = {a, b}
  BY DEF Edge
<1>2. DualReported({a, b}, reports[i].weight)
  BY <1>1, InvalidIffNotDual DEF InvalidAreThoseNotDual
<1>3. PICK x, y \in DOMAIN reports :
        /\ reports[x].from # reports[y].from
        /\ \A k \in DOMAIN reports : Edge(reports[k]) = {a, b} => k \in {x, y}
  BY <1>2 DEF DualReported
<1>4. \A k \in S : k = i
  BY <1>3 DEF Edge
<1>5. S = {i} /\ i \in Nat
  BY <1>4 DEF IInv, TypeOK
<1>6. (CHOOSE k \in S : \A j \in S : j <= k) = i
  <2> HIDE DEF S
  <2>1. i \in S /\ \A j \in S : j <= i
    BY <1>5
  <2>2. \A k \in S : k = i
    BY <1>5
  <2> QED
    BY <2>1, <2>2
<1>7. Entry(a, b) = reports[CHOOSE k \in S : \A j \in S : j <= k].weight
  BY DEF Entry
<1> QED
  <2> HIDE DEF S
  <2> QED
    BY <1>2, <1>6, <1>7

\* MatrixIsTheGraph for the edge e of a and b.
IsGraphAt(a, b, e) ==
    /\ matrix[a][b] = matrix[b][a]
    /\ matrix[a][b] # 0 => DualReported(e, matrix[a][b])
    /\ \A i \in DOMAIN reports :
         Edge(reports[i]) = e /\ DualReported(e, reports[i].weight)
           => matrix[a][b] = reports[i].weight

LEMMA GraphAtAll ==
  MatrixIsTheGraph <=> (phase = "success" =>
    \A a, b \in Addr : \A e : e = {a, b} => IsGraphAt(a, b, e))
<1>1. ASSUME MatrixIsTheGraph, phase = "success",
             NEW a \in Addr, NEW b \in Addr, NEW e, e = {a, b}
      PROVE  IsGraphAt(a, b, e)
  BY <1>1, Zenon DEF MatrixIsTheGraph, IsGraphAt
<1>2. ASSUME \A a, b \in Addr : \A e : e = {a, b} => IsGraphAt(a, b, e)
      PROVE  MatrixIsTheGraph
  <2>1. \A a, b \in Addr : IsGraphAt(a, b, {a, b})
    BY <1>2, Zenon
  <2> QED
    BY <2>1, Zenon DEF MatrixIsTheGraph, IsGraphAt
<1>3. phase # "success" => MatrixIsTheGraph
  BY DEF MatrixIsTheGraph
<1> QED
  BY <1>1, <1>2, <1>3, Zenon

\* The entry is not 0 only for an edge whose ends agree, and then what they
\* agree on.
LEMMA EntryIsAgreed ==
  ASSUME IInv, phase = "matrix", NEW a \in Addr, NEW b \in Addr, NEW e, e = {a, b}
  PROVE  /\ Entry(a, b) \in Nat
         /\ Entry(a, b) # 0 => DualReported(e, Entry(a, b))
         /\ \A w : DualReported(e, w) => Entry(a, b) = w
<1> DEFINE S == {k \in DOMAIN reports : reports[k].from = a /\ reports[k].to = b}
<1>1. ASSUME NEW w, DualReported(e, w)
      PROVE  \E k \in S : reports[k].weight = w
  <2>1. e = {a, b}
    OBVIOUS
  <2>2. ReportedBy(a, b, w)
    BY <1>1, <2>1, DualEnds
  <2> QED
    BY <2>2 DEF ReportedBy
<1>2. CASE S = {} \/ IsInvalid(e)
  <2>1. Entry(a, b) = 0
    BY <1>2 DEF Entry
  <2>2. SUFFICES ASSUME NEW w, DualReported(e, w) PROVE FALSE
    BY <2>1
  <2>3. PICK i \in S : reports[i].weight = w
    BY <1>1, <2>2
  <2>4. Edge(reports[i]) = e /\ i \in DOMAIN reports
    BY <2>3 DEF Edge
  <2>5. ~IsInvalid(e)
    BY <2>2, <2>3, <2>4, InvalidIffNotDual DEF InvalidAreThoseNotDual
  <2> QED
    BY <1>2, <2>3, <2>5
<1>3. CASE S # {} /\ ~IsInvalid(e)
  <2>1. PICK i \in S : TRUE
    BY <1>3
  <2>2. ASSUME NEW k \in S
        PROVE  Entry(a, b) = reports[k].weight /\ DualReported(e, reports[k].weight)
    <3>1. ~IsInvalid({a, b})
      BY <1>3, Zenon
    <3>2. /\ Entry(a, b) = reports[k].weight
          /\ DualReported({a, b}, reports[k].weight)
      BY <3>1, EntryIsReported
    <3> QED
      BY <3>2, Zenon
  <2>3. reports[i].weight \in Nat
    <3>1. reports[i] \in Report
      BY <2>1 DEF IInv, TypeOK
    <3> QED
      BY <3>1 DEF Report
  <2> HIDE DEF S
  <2> QED
    BY <1>1, <2>1, <2>2, <2>3
<1> QED
  BY <1>2, <1>3

LEMMA CreateAdjacencyMatrixCorrect ==
  ASSUME IInv, CreateAdjacencyMatrix
  PROVE  IInv'
<1>1. /\ phase = "matrix"
      /\ UNCHANGED <<reports, next, counters, invalidEdges, checked>>
      /\ phase' \in {"success", "failed"}
  BY DEF CreateAdjacencyMatrix
<1>2. \/ /\ phase' = "failed" /\ matrix' = matrix
         /\ \E i \in DOMAIN reports : reports[i].to \notin Addr
      \/ /\ phase' = "success"
         /\ matrix' = [a \in Addr |-> [b \in Addr |-> Entry(a, b)]]
  BY DEF CreateAdjacencyMatrix
<1>3. TypeOK'
  <2>1. \A a, b \in Addr : Entry(a, b) \in Nat
    BY <1>1, EntryIsAgreed
  <2>2. matrix' \in [Addr -> [Addr -> Nat]]
    <3>1. CASE matrix' = matrix
      BY <3>1 DEF IInv, TypeOK
    <3>2. CASE matrix' = [a \in Addr |-> [b \in Addr |-> Entry(a, b)]]
      BY <2>1, <3>2, Zenon
    <3> QED
      BY <1>2, <3>1, <3>2
  <2> QED
    BY <1>1, <2>2 DEF IInv, TypeOK
<1>4. Counted' /\ InvalidCounted' /\ CountersOfEdges'
  BY <1>1 DEF IInv, Counted, InvalidCounted, CountersOfEdges
<1>5. Progress'
  BY <1>1 DEF IInv, Progress
<1>6. FailsOnlyForAReason'
  <2>1. \A i \in DOMAIN reports : reports[i] \in Report
    BY DEF IInv, TypeOK
  <2>2. \A i \in DOMAIN reports : reports[i].to \in Addr \cup Strangers
    BY <2>1 DEF Report
  <2> QED
    BY <1>1, <1>2, <2>2 DEF FailsOnlyForAReason
<1>7. MatrixIsTheGraph'
  <2>1. ASSUME NEW a \in Addr, NEW b \in Addr, NEW e, e = {a, b}
        PROVE  /\ Entry(a, b) = Entry(b, a)
               /\ Entry(a, b) # 0 => DualReported(e, Entry(a, b))
               /\ \A w : DualReported(e, w) => Entry(a, b) = w
    <3>1. e = {b, a}
      BY <2>1
    <3>2. /\ Entry(a, b) # 0 => DualReported(e, Entry(a, b))
          /\ \A w : DualReported(e, w) => Entry(a, b) = w
      BY <1>1, <2>1, EntryIsAgreed
    <3>3. /\ Entry(b, a) # 0 => DualReported(e, Entry(b, a))
          /\ \A w : DualReported(e, w) => Entry(b, a) = w
      BY <1>1, <3>1, EntryIsAgreed
    <3> QED
      BY <3>2, <3>3
  <2>2. ASSUME phase' = "success", NEW a \in Addr, NEW b \in Addr
        PROVE  matrix'[a][b] = Entry(a, b)
    BY <1>2, <2>2
  <2>3. ASSUME phase' = "success", NEW a \in Addr, NEW b \in Addr, NEW e, e = {a, b}
        PROVE  IsGraphAt(a, b, e)'
    <3>1. \A w : DualReported(e, w)' <=> DualReported(e, w)
      BY <1>1 DEF DualReported
    <3>2. matrix'[a][b] = Entry(a, b) /\ matrix'[b][a] = Entry(b, a)
      BY <2>2, <2>3
    <3> QED
      BY <2>1, <2>3, <3>1, <3>2 DEF IsGraphAt
  <2>4. (phase = "success" =>
           \A a, b \in Addr : \A e : e = {a, b} => IsGraphAt(a, b, e))'
    BY <2>3
  <2> QED
    BY <2>4, GraphAtAll, PTL
<1> QED
  BY <1>3, <1>4, <1>5, <1>6, <1>7 DEF IInv

-----------------------------------------------------------------------------
(***************************************************************************)
(* The theorems.                                                           *)
(***************************************************************************)

\* The inductive invariant holds of the validation of any reports by any nodes.
THEOREM Invariance == Spec => []IInv
<1>1. Init => IInv
  BY InitCorrect
<1>2. IInv /\ [Next]_vars => IInv'
  <2>1. SUFFICES ASSUME IInv, [Next]_vars PROVE IInv'
    OBVIOUS
  <2>2. CASE UNCHANGED vars
    <3>1. /\ UNCHANGED <<reports, next, counters, invalidEdges>>
          /\ UNCHANGED <<checked, phase, matrix>>
      BY <2>2 DEF vars
    <3>2. TypeOK' /\ Progress'
      BY <2>1, <3>1 DEF IInv, TypeOK, Progress
    <3>3. Counted' /\ InvalidCounted' /\ CountersOfEdges'
      BY <2>1, <3>1 DEF IInv, Counted, InvalidCounted, CountersOfEdges
    <3>4. FailsOnlyForAReason'
      BY <2>1, <3>1 DEF IInv, FailsOnlyForAReason
    <3>5. MatrixIsTheGraph'
      <4>1. ASSUME NEW a, NEW b, NEW e, IsGraphAt(a, b, e)
            PROVE  IsGraphAt(a, b, e)'
        BY <3>1, <4>1 DEF IsGraphAt, DualReported
      <4>2. phase = "success" =>
              \A a, b \in Addr : \A e : e = {a, b} => IsGraphAt(a, b, e)
        BY <2>1, GraphAtAll DEF IInv
      <4>3. (phase = "success" =>
               \A a, b \in Addr : \A e : e = {a, b} => IsGraphAt(a, b, e))'
        BY <3>1, <4>1, <4>2
      <4> QED
        BY <4>3, GraphAtAll, PTL
    <3> QED
      BY <3>2, <3>3, <3>4, <3>5 DEF IInv
  <2> QED
    BY <2>1, <2>2, FailSearchCorrect, CountReportCorrect, AddCounterCorrect,
       AllReportsReadCorrect, CheckDualReportCorrect, AllCountersCheckedCorrect,
       CreateAdjacencyMatrixCorrect DEF Next
<1> QED
  BY <1>1, <1>2, PTL DEF Spec

\* Type correctness of the validation.
THEOREM TypeCorrect == Spec => []TypeOK
<1>1. IInv => TypeOK
  BY DEF IInv
<1> QED
  BY <1>1, Invariance, PTL

\* checkAllNodesReceived marks exactly the edges whose two ends do not agree,
\* each once, whatever was reported in whatever order.
THEOREM ExactlyDisagreements == Spec => []InvalidAreThoseNotDual
<1>1. IInv => InvalidAreThoseNotDual
  BY InvalidIffNotDual
<1> QED
  BY <1>1, Invariance, PTL

\* createAdjacencyMatrix makes the symmetric matrix of the agreed edges.
THEOREM MatrixCorrect == Spec => []MatrixIsTheGraph
<1>1. IInv => MatrixIsTheGraph
  BY DEF IInv
<1> QED
  BY <1>1, Invariance, PTL

\* The array of invalid edges never overflows: the server gives up for a full
\* array of counters or an unknown neighbor only.
THEOREM InvalidEdgesFit == Spec => []FailsOnlyForAReason
<1>1. IInv => FailsOnlyForAReason
  BY DEF IInv
<1> QED
  BY <1>1, Invariance, PTL

=============================================================================
