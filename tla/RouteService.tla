---------------------------- MODULE RouteService ----------------------------
(***************************************************************************)
(* What the routing_server promises, without counters, matrices, indices   *)
(* or Dijkstra: from the edges the nodes report it either announces tables *)
(* that lead from the source to every node along shortest paths, or gives  *)
(* up for a reason that is in the reports.                                 *)
(***************************************************************************)
EXTENDS Naturals, FiniteSets, SequencesExt

CONSTANTS
    Addr,      \* the addresses of the nodes
    Strangers  \* addresses a node may name that no node has

VARIABLES
    reports,  \* the edges reported: a sequence of [from, to, weight] records
    source,   \* the node packets are sent from, a stranger if it is missing
    answer,   \* "pending", "tables" or "none"
    tables    \* per node, its rows [destination, nextHop]

vars == <<reports, source, answer, tables>>

Row == [destination : Addr, nextHop : Addr]
NoTables == [a \in Addr |-> {}]

Init ==
    /\ answer = "pending"
    /\ tables = NoTables

-----------------------------------------------------------------------------
Ends(i) == {reports[i].from, reports[i].to}

\* Report i is of a link: two reports name its ends, one of each end, and they
\* agree on a weight.
IsOfLink(i) ==
    LET same == {k \in DOMAIN reports : Ends(k) = Ends(i)}
    IN  /\ reports[i].weight > 0
        /\ \E j \in same :
             /\ same = {i, j}
             /\ reports[j].from # reports[i].from
             /\ reports[j].weight = reports[i].weight

Links == {reports[i] : i \in {k \in DOMAIN reports : IsOfLink(k)}}

\* The paths from the source to d along the links L.  No path that visits a
\* node twice is a shortest one.
Paths(L, d) ==
    LET Linked(a, b) == \E l \in L : l.from = a /\ l.to = b
    IN  IF d = source THEN {<<source>>}
        ELSE {p \in {<<source>> \o q \o <<d>> :
                        q \in BoundedSeq(Addr \ {source, d}, Cardinality(Addr) - 2)} :
                \A k \in 1 .. Len(p) - 1 : Linked(p[k], p[k + 1])}

\* The weight of the link from a to b, and the length of a path.
WeightOf(L, a, b) == (CHOOSE l \in L : l.from = a /\ l.to = b).weight

Length(L, p) ==
    LET upTo[k \in 1 .. Len(p)] ==
          IF k = 1 THEN 0 ELSE upTo[k - 1] + WeightOf(L, p[k - 1], p[k])
    IN  upTo[Len(p)]

ShortestTo(L, d) ==
    LET paths == {[path |-> p, length |-> Length(L, p)] : p \in Paths(L, d)}
    IN  {x.path : x \in {y \in paths : \A z \in paths : y.length <= z.length}}

\* The rows for d of all tables t are those of one shortest path to d: the nodes
\* on it have one row each, for the next hop, and no other node has a row.
LeadTo(t, L, d) ==
    \E p \in ShortestTo(L, d) : \A a \in Addr :
        {row \in t[a] : row.destination = d}
          = {[destination |-> d, nextHop |-> p[k + 1]] :
                k \in {i \in 1 .. Len(p) - 1 : p[i] = a}}

-----------------------------------------------------------------------------
StrangerNamed == \E i \in DOMAIN reports : reports[i].to \notin Addr

\* As many edges are named as a graph of these nodes can have.
Crowded ==
    Cardinality({Ends(i) : i \in DOMAIN reports})
      >= (Cardinality(Addr) * (Cardinality(Addr) - 1)) \div 2

Unreachable == LET L == Links IN \E d \in Addr : Paths(L, d) = {}

Announce ==
    /\ answer = "pending"
    /\ source \in Addr
    /\ ~StrangerNamed
    /\ answer' = "tables"
    /\ tables' \in [Addr -> SUBSET Row]
    /\ LET L == Links IN \A d \in Addr : LeadTo(tables', L, d)
    /\ UNCHANGED <<reports, source>>

GiveUp ==
    /\ answer = "pending"
    /\ answer' = "none"
    /\ source \notin Addr \/ StrangerNamed \/ Crowded \/ Unreachable
    /\ UNCHANGED <<reports, source, tables>>

Next == Announce \/ GiveUp

Spec == Init /\ [][Next]_vars

\* The nodes wait for an answer, so there must be one in the end.
Answers == <>(answer # "pending")

=============================================================================
