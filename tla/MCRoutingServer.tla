--------------------------- MODULE MCRoutingServer ---------------------------
(***************************************************************************)
(* Instances of RoutingServer: four nodes that report correct, corrupted   *)
(* or arbitrary edges, with any of them as node 1 or none.                 *)
(***************************************************************************)
EXTENDS RoutingServer, MCEdgeValidation

MCIndexToAddress == 0 :> A @@ 1 :> B @@ 2 :> C @@ 3 :> D

\* The correct reports of all graphs whose edge e weighs w[e] (0: no edge).
WeightedReportOf(a, w) ==
    SetToSeq({[from |-> a, to |-> b, weight |-> w[{a, b}]] :
                b \in {c \in FourNodes \ {a} : w[{a, c}] > 0}})

WeightedGraphReports(weights) ==
    {WeightedReportOf(A, w) \o WeightedReportOf(B, w)
       \o WeightedReportOf(C, w) \o WeightedReportOf(D, w) :
          w \in [Pairs(FourNodes) -> {0} \cup weights]}

MCReports == AllReports \cup WeightedGraphReports({1, 2, 3})

\* With the weights 1 and 3 there are ties (1 + 1 + 1 = 3) and shortcuts
\* (1 + 1 < 3).
TwoWeightReports == WeightedGraphReports({1, 3})

\* The matrices dijkstra may get.
MCMatrices ==
    {[i \in Idx |-> [j \in Idx |-> IF i = j THEN 0 ELSE w[{i, j}]]] :
        w \in [Pairs(Idx) -> 0..3]}

\* Bound: where node 1 is not A, or missing, the reports are correct ones of two
\* weights.
MCInit ==
    /\ ServerInit
    /\ source # A => reports \in TwoWeightReports

MCSpec == MCInit /\ [][ServerNext]_serverVars /\ WF_serverVars(ServerNext)

=============================================================================
