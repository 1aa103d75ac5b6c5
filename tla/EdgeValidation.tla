--------------------------- MODULE EdgeValidation ---------------------------
(***************************************************************************)
(* checkAllNodesReceived and createAdjacencyMatrix: what the server makes  *)
(* of the edges the N nodes reported.  Every report is counted in an array *)
(* of N*(N-1)/2 edge counters, edges that were not reported exactly once   *)
(* by either end with one weight are marked invalid, and the rest become   *)
(* the adjacency matrix.                                                   *)
(*                                                                         *)
(* An edge (low address, high address) is the set of its ends.  The matrix *)
(* is indexed by addresses, entry 0 means no edge.                         *)
(***************************************************************************)
EXTENDS Integers, Sequences, FiniteSets

CONSTANTS
    Addr,       \* the addresses of the nodes
    Strangers,  \* addresses a node may name that no node has
    Reports     \* the possible inputs: all edges reported, node after node

N == Cardinality(Addr)
maxEdges == (N * (N - 1)) \div 2

Report == [from : Addr, to : Addr \cup Strangers, weight : Nat]

ASSUME EdgeAddrAssumption ==
    IsFiniteSet(Addr) /\ Addr \cap Strangers = {}

ASSUME ReportsAssumption == Reports \subseteq Seq(Report)

VARIABLES
    reports,       \* the input
    next,          \* the report that is looked at next
    counters,      \* edgeCounterArray, up to its first available position
    invalidEdges,  \* invalidEdgesArray, likewise
    checked,       \* the number of counters checkDualReport has looked at
    phase,         \* the loop the server is in
    matrix         \* the adjacency matrix

vars == <<reports, next, counters, invalidEdges, checked, phase, matrix>>

\* The two addresses of a report, whichever is the lower.
Edge(r) == {r.from, r.to}
Edges == {{a, b} : a \in Addr, b \in Addr \cup Strangers}
Counter == [edge : Edges, encounters : Nat \ {0}, first : Addr, weight : Nat]
NoEdges == [a \in Addr |-> [b \in Addr |-> 0]]

TypeOK ==
    /\ reports \in Seq(Report)
    /\ next \in 1 .. Len(reports) + 1
    /\ counters \in Seq(Counter)
    /\ invalidEdges \in Seq(Edges)
    /\ checked \in Nat
    /\ phase \in {"reports", "dual", "matrix", "success", "failed"}
    /\ matrix \in [Addr -> [Addr -> Nat]]

Init ==
    /\ reports \in Reports
    /\ next = 1
    /\ counters = <<>>
    /\ invalidEdges = <<>>
    /\ checked = 0
    /\ phase = "reports"
    /\ matrix = NoEdges

-----------------------------------------------------------------------------
IsInvalid(e) == \E i \in DOMAIN invalidEdges : invalidEdges[i] = e

\* addInvalidEdge: an edge is added once, and the array must have room for it.
AddInvalidEdge(e) ==
    /\ invalidEdges' = IF IsInvalid(e) \/ Len(invalidEdges) = maxEdges
                       THEN invalidEdges ELSE Append(invalidEdges, e)
    /\ phase' = IF ~IsInvalid(e) /\ Len(invalidEdges) = maxEdges
                THEN "failed" ELSE phase

\* (Slip: who reported the edge is not compared.)
RepeatedIsValidFromAnyone(c, r) == c.encounters < 2 /\ c.weight = r.weight

\* checkIfEdgeIsValid for a report r of an edge with counter c (before c is
\* incremented): the second report, from the other end, of the same weight.
RepeatedIsValid(c, r) ==
    c.encounters < 2 /\ c.first # r.from /\ c.weight = r.weight

\* (Slip: the bounds check is reached one position earlier.)
SearchOutOfBoundsEarly(r) ==
    /\ Len(counters) >= maxEdges - 1
    /\ \A i \in DOMAIN counters : counters[i].edge = Edge(r) => i >= maxEdges - 1

\* The search runs into its bounds check: it stops at the last position of a
\* full counter array before it compares that position.
SearchOutOfBounds(r) ==
    /\ Len(counters) = maxEdges
    /\ \A i \in DOMAIN counters : counters[i].edge = Edge(r) => i = maxEdges

\* checkAllNodesReceived, one report: it cannot be looked up ...
FailSearch ==
    /\ phase = "reports" /\ next <= Len(reports)
    /\ SearchOutOfBounds(reports[next])
    /\ phase' = "failed"
    /\ UNCHANGED <<reports, next, counters, invalidEdges, checked, matrix>>

\* ... or its edge has a counter ...
CountReport ==
    /\ phase = "reports" /\ next <= Len(reports)
    /\ LET r == reports[next]
       IN  /\ ~SearchOutOfBounds(r)
           /\ \E i \in DOMAIN counters :
                /\ counters[i].edge = Edge(r)
                /\ counters' = [counters EXCEPT ![i].encounters = @ + 1]
                /\ IF RepeatedIsValid(counters[i], r)
                   THEN UNCHANGED <<invalidEdges, phase>>
                   ELSE AddInvalidEdge(Edge(r))
    /\ next' = next + 1
    /\ UNCHANGED <<reports, checked, matrix>>

\* ... or the edge is new (addEdgeToEdgeCounterArray).
AddCounter ==
    /\ phase = "reports" /\ next <= Len(reports)
    /\ LET r == reports[next]
       IN  /\ ~SearchOutOfBounds(r)
           /\ \A i \in DOMAIN counters : counters[i].edge # Edge(r)
           /\ counters' = Append(counters, [edge |-> Edge(r), encounters |-> 1,
                                            first |-> r.from, weight |-> r.weight])
    /\ next' = next + 1
    /\ UNCHANGED <<reports, invalidEdges, checked, phase, matrix>>

AllReportsRead ==
    /\ phase = "reports" /\ next > Len(reports)
    /\ phase' = "dual"
    /\ UNCHANGED <<reports, next, counters, invalidEdges, checked, matrix>>

\* checkDualReport, one counter.
CheckDualReport ==
    /\ phase = "dual" /\ checked < Len(counters)
    /\ checked' = checked + 1
    /\ LET c == counters[checked + 1]
       IN  IF c.encounters < 2
           THEN AddInvalidEdge(c.edge)
           ELSE UNCHANGED <<invalidEdges, phase>>
    /\ UNCHANGED <<reports, next, counters, matrix>>

AllCountersChecked ==
    /\ phase = "dual" /\ checked = Len(counters)
    /\ phase' = "matrix"
    /\ UNCHANGED <<reports, next, counters, invalidEdges, checked, matrix>>

\* (Slip: an entry that is not set is -1, like an unset index elsewhere.)
EntryUnset(a, b) ==
    LET S == {i \in DOMAIN reports : reports[i].from = a /\ reports[i].to = b}
    IN  IF S = {} \/ IsInvalid({a, b})
        THEN -1
        ELSE reports[CHOOSE i \in S : \A j \in S : j <= i].weight

\* (Slip: the entries of invalid edges are kept.)
EntryKeepingInvalid(a, b) ==
    LET S == {i \in DOMAIN reports : reports[i].from = a /\ reports[i].to = b}
    IN  IF S = {}
        THEN 0
        ELSE reports[CHOOSE i \in S : \A j \in S : j <= i].weight

\* The entry of a's row for b: the last weight a reported, unless the edge is
\* invalid.
Entry(a, b) ==
    LET S == {i \in DOMAIN reports : reports[i].from = a /\ reports[i].to = b}
    IN  IF S = {} \/ IsInvalid({a, b})
        THEN 0
        ELSE reports[CHOOSE i \in S : \A j \in S : j <= i].weight

\* createAdjacencyMatrix fails if there is no index for a reported neighbor.
CreateAdjacencyMatrix ==
    /\ phase = "matrix"
    /\ IF \E i \in DOMAIN reports : reports[i].to \notin Addr
       THEN phase' = "failed" /\ UNCHANGED matrix
       ELSE /\ matrix' = [a \in Addr |-> [b \in Addr |-> Entry(a, b)]]
            /\ phase' = "success"
    /\ UNCHANGED <<reports, next, counters, invalidEdges, checked>>

Next ==
    \/ FailSearch
    \/ CountReport
    \/ AddCounter
    \/ AllReportsRead
    \/ CheckDualReport
    \/ AllCountersChecked
    \/ CreateAdjacencyMatrix

Spec == Init /\ [][Next]_vars

-----------------------------------------------------------------------------
(***************************************************************************)
(* Correctness.                                                            *)
(***************************************************************************)

\* The reports of the two ends agree: e is reported exactly twice, by
\* different nodes and with the same weight w.
DualReported(e, w) ==
    \E i \in DOMAIN reports :
        /\ Edge(reports[i]) = e /\ reports[i].weight = w
        /\ \E j \in DOMAIN reports :
             /\ Edge(reports[j]) = e /\ reports[j].weight = w
             /\ reports[i].from # reports[j].from
             /\ \A k \in DOMAIN reports : Edge(reports[k]) = e => k \in {i, j}

\* The edges marked invalid when all is checked are those whose ends do not
\* agree, each marked once.
InvalidAreThoseNotDual ==
    phase \in {"matrix", "success"} =>
        /\ \A i \in DOMAIN reports :
              IsInvalid(Edge(reports[i]))
                <=> ~DualReported(Edge(reports[i]), reports[i].weight)
        /\ \A i, j \in DOMAIN invalidEdges : invalidEdges[i] = invalidEdges[j] => i = j

\* The matrix Dijkstra works on is symmetric and has the agreed edges only.
MatrixIsTheGraph ==
    phase = "success" =>
        \A a, b \in Addr :
            /\ matrix[a][b] = matrix[b][a]
            /\ matrix[a][b] # 0 => DualReported({a, b}, matrix[a][b])
            /\ \A i \in DOMAIN reports :
                 Edge(reports[i]) = {a, b} /\ DualReported({a, b}, reports[i].weight)
                   => matrix[a][b] = reports[i].weight

\* Invalid edges are ignored, they never make the server give up: it does so
\* only when the counter array is full or a reported neighbor does not exist.
FailsOnlyForAReason ==
    phase = "failed" =>
        \/ next <= Len(reports) /\ Len(counters) = maxEdges
        \/ \E i \in DOMAIN reports : reports[i].to \in Strangers

\* Reports of an undirected graph, which has at most N*(N-1)/2 edges, pass.
GraphsPass ==
    phase = "failed" =>
        \E i \in DOMAIN reports : ~DualReported(Edge(reports[i]), reports[i].weight)

=============================================================================
