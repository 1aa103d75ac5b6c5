-------------------------- MODULE MCEdgeValidation --------------------------
(***************************************************************************)
(* Instances of EdgeValidation: four nodes, six edge counters.             *)
(***************************************************************************)
EXTENDS EdgeValidation, SequencesExt

CONSTANTS A, B, C, D, U  \* four nodes and a stranger

FourNodes == {A, B, C, D}
OneStranger == {U}

MCWeights == {1, 2}

\* What node a can report: up to two of the entries, in any order, repeated too.
ReportsOf(a, neighbors, weights) ==
    BoundedSeq([from : {a}, to : neighbors, weight : weights], 2)

\* Three of the nodes report up to two edges each: A to anyone, itself and a
\* stranger included, with either weight; B to A and C with either weight; C to
\* A and B.
AllSmallReports ==
    {x \o y \o z : x \in ReportsOf(A, {A, B, C} \cup OneStranger, MCWeights),
                   y \in ReportsOf(B, {A, C}, MCWeights),
                   z \in ReportsOf(C, {A, B}, {1})}

\* The reports of an undirected graph with the given edges, all of weight 1.
ReportOf(a, edges) ==
    SetToSeq({[from |-> a, to |-> b, weight |-> 1] :
                b \in {c \in FourNodes \ {a} : {a, c} \in edges}})

GraphReports(edges) ==
    ReportOf(A, edges) \o ReportOf(B, edges) \o ReportOf(C, edges) \o ReportOf(D, edges)

Pairs(S) == {{a, b} : a, b \in S} \ {{a} : a \in S}

\* The correct reports of every graph of four nodes, and each of them with one
\* report replaced by any other, or dropped.
AllGraphReports == {GraphReports(E) : E \in SUBSET Pairs(FourNodes)}

Corrupted(s) ==
    {[s EXCEPT ![i].to = b, ![i].weight = w] :
        i \in DOMAIN s, b \in FourNodes \cup OneStranger, w \in MCWeights}
      \cup {SubSeq(s, 1, i - 1) \o SubSeq(s, i + 1, Len(s)) : i \in DOMAIN s}

CorruptedGraphReports ==
    AllGraphReports \cup UNION {Corrupted(s) : s \in AllGraphReports}

AllReports == AllSmallReports \cup CorruptedGraphReports

=============================================================================
