---------------------------- MODULE ShortestPaths ----------------------------
(***************************************************************************)
(* dijkstra: from the adjacency matrix of the server (indices in order of  *)
(* arrival) the distance of every node from src and the route to it.  A    *)
(* route is built when its node is visited, not when a distance is         *)
(* improved, so distances and routes agree only because of the order of    *)
(* visits.                                                                 *)
(***************************************************************************)
EXTENDS Integers, Sequences, FiniteSets

CONSTANTS
    n,         \* the number of nodes
    Matrices,  \* the possible adjacency matrices, 0 where there is no edge
    INT_MAX    \* the distance of a node that has not been reached

Idx == 0 .. n - 1

ASSUME SizeAssumption == n \in Nat \ {0} /\ INT_MAX \in Nat \ {0}

\* Symmetric, without self loops, and no sum of n weights overflows.
IsMatrix(m) ==
    \A i, j \in Idx :
        /\ m[i][j] = m[j][i]
        /\ m[i][i] = 0
        /\ n * m[i][j] < INT_MAX

\* Validation and createAdjacencyMatrix see to it (see RoutingServer).
ASSUME MatricesAssumption ==
    /\ Matrices \subseteq [Idx -> [Idx -> Nat]]
    /\ \A m \in Matrices : IsMatrix(m)

VARIABLES
    adjacencyMatrix,
    src,            \* the index of address 1
    distanceArray,
    visitedArray,   \* the set of visited nodes
    routeArray,     \* the routes registered so far, <<>> if none
    iteration,
    outcome         \* "running", or what dijkstra returned

dijkstraVars == <<adjacencyMatrix, src, distanceArray, visitedArray, routeArray,
                  iteration, outcome>>

DijkstraTypeOK ==
    /\ adjacencyMatrix \in [Idx -> [Idx -> Nat]]
    /\ src \in Idx
    /\ distanceArray \in [Idx -> 0..INT_MAX]
    /\ visitedArray \subseteq Idx
    /\ routeArray \in [Idx -> Seq(Idx)]
    /\ iteration \in 0..n
    /\ outcome \in {"running", "success", "failure"}

DijkstraInit ==
    /\ adjacencyMatrix \in Matrices
    /\ src \in Idx
    /\ distanceArray = [i \in Idx |-> IF i = src THEN 0 ELSE INT_MAX]
    /\ visitedArray = {}
    /\ routeArray = [i \in Idx |-> <<>>]
    /\ iteration = 0
    /\ outcome = "running"

-----------------------------------------------------------------------------
Weight(i, j) == adjacencyMatrix[i][j]
Unvisited == Idx \ visitedArray

\* (Slip: any node is taken that has been reached.)
IsMinDistanceIdxIfReached(i) ==
    /\ i \in Unvisited
    /\ \A j \in Unvisited : distanceArray[i] < INT_MAX \/ distanceArray[j] = INT_MAX
    /\ \A j \in Unvisited : distanceArray[j] < INT_MAX => j <= i

\* getMinDistanceIdx: the last of the unvisited nodes of minimal distance.
IsMinDistanceIdx(i) ==
    /\ i \in Unvisited
    /\ \A j \in Unvisited :
         /\ distanceArray[i] <= distanceArray[j]
         /\ distanceArray[i] = distanceArray[j] => j <= i

\* The visited neighbors of i through which it can be reached.
VisitedNeighbors(i) ==
    {v \in visitedArray : Weight(i, v) # 0 /\ distanceArray[v] + Weight(i, v) < INT_MAX}

\* (Slip: the weight of the last edge is forgotten.)
IsClosestByDistance(p, i) ==
    /\ p \in VisitedNeighbors(i)
    /\ \A v \in VisitedNeighbors(i) :
         /\ distanceArray[p] <= distanceArray[v]
         /\ distanceArray[p] = distanceArray[v] => p <= v

\* The one registerRoute picks: the first on a shortest way to i.
IsClosest(p, i) ==
    /\ p \in VisitedNeighbors(i)
    /\ \A v \in VisitedNeighbors(i) :
         LET dp == distanceArray[p] + Weight(i, p)
             dv == distanceArray[v] + Weight(i, v)
         IN  dp <= dv /\ (dp = dv => p <= v)

\* The distance of i after cur is visited.
Relaxed(cur, i) ==
    IF /\ i \in Unvisited \ {cur}
       /\ Weight(cur, i) # 0
       /\ distanceArray[cur] # INT_MAX
       /\ distanceArray[cur] + Weight(cur, i) < distanceArray[i]
    THEN distanceArray[cur] + Weight(cur, i)
    ELSE distanceArray[i]

\* (Slip: the route ends one index too far.)
RegisterRouteOffByOne(cur) ==
    \E p \in Idx :
        /\ IsClosest(p, cur) \/ p = cur
        /\ routeArray' = [routeArray EXCEPT ![cur] = Append(routeArray[p], cur + 1)]

\* registerRoute for the visited node cur.
RegisterRoute(cur) ==
    \/ cur = src /\ routeArray' = [routeArray EXCEPT ![cur] = <<src>>]
    \/ /\ cur # src
       /\ \E p \in Idx :
            /\ IsClosest(p, cur)
            /\ routeArray' = [routeArray EXCEPT ![cur] = Append(routeArray[p], cur)]

\* One iteration of dijkstra: visit a node, register its route and relax its
\* edges (in the last iteration there is nothing left to relax).
Visit ==
    /\ outcome = "running"
    /\ \E cur \in Idx :
         /\ IsMinDistanceIdx(cur)
         /\ visitedArray' = visitedArray \cup {cur}
         /\ RegisterRoute(cur)
         /\ distanceArray' = IF iteration < n - 1
                             THEN [i \in Idx |-> Relaxed(cur, i)]
                             ELSE distanceArray
    /\ iteration' = iteration + 1
    /\ outcome' = IF iteration' = n THEN "success" ELSE "running"
    /\ UNCHANGED <<adjacencyMatrix, src>>

\* The node to visit has no visited neighbor: dijkstra gives up.
VisitFails ==
    /\ outcome = "running"
    /\ \E cur \in Idx \ {src} : IsMinDistanceIdx(cur) /\ VisitedNeighbors(cur) = {}
    /\ outcome' = "failure"
    /\ UNCHANGED <<adjacencyMatrix, src, distanceArray, visitedArray, routeArray, iteration>>

DijkstraNext == Visit \/ VisitFails

DijkstraSpec == DijkstraInit /\ [][DijkstraNext]_dijkstraVars

-----------------------------------------------------------------------------
(***************************************************************************)
(* Correctness.                                                            *)
(***************************************************************************)

\* The routes are a tree of edges, and distances are the lengths of the routes,
\* although registerRoute looks for the predecessor anew.
RoutesFormTree ==
    \A v \in visitedArray :
        IF v = src THEN routeArray[v] = <<src>> /\ distanceArray[v] = 0
        ELSE \E p \in visitedArray :
               /\ p # v /\ Weight(p, v) # 0
               /\ routeArray[v] = Append(routeArray[p], v)
               /\ distanceArray[v] = distanceArray[p] + Weight(p, v)

\* No edge offers a shorter way: with RoutesFormTree, the routes are shortest.
NoShortcut ==
    outcome = "success" =>
        \A u, v \in Idx :
            Weight(u, v) # 0 => distanceArray[v] <= distanceArray[u] + Weight(u, v)

=============================================================================
