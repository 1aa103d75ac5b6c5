----------------------------- MODULE MCRouteSearch -----------------------------
(***************************************************************************)
(* Instances of RouteSearch: all arrays of MCLength routers, their links   *)
(* to any ids, known or not, duplicates and self-links included.           *)
(***************************************************************************)
EXTENDS RouteSearch

CONSTANT MCLength   \* the number of routers in the array

\* The slots of a router with k links.
Neighbors(k) == {nb \in [Slots -> RouterId \cup {free}] :
                   \A i \in Slots : nb[i] = free <=> i >= k}
AnyNeighbors == UNION {Neighbors(k) : k \in 0 .. MAX_NEIGHBORS}

\* Routers 0, 1, ... in this order.
AllRegisters ==
    {[r \in 1 .. MCLength |-> [routerId |-> r - 1, neighbors |-> nbs[r]]] :
        nbs \in [1 .. MCLength -> AnyNeighbors]}

=============================================================================
