---------------------------- MODULE RoutingTables ----------------------------
(***************************************************************************)
(* createRoutingTableArray, run on the routes dijkstra found: every node   *)
(* on a route gets a row for every later node of the route, once.          *)
(*                                                                         *)
(* Positions in a route are counted from 1; the code counts from 0, and    *)
(* its nHops is the length of the route minus one.                         *)
(***************************************************************************)
EXTENDS ShortestPaths

VARIABLES
    routeIdx,        \* the route that is read
    sourceIdx,       \* the position in it whose rows are written, 0 at the end
    destinationIdx,  \* the position in it the next row is for
    visited,         \* the pairs of a source and a destination with a row
    routingTables    \* per node, the rows written: [destination, nextHop]

tableVars == <<routeIdx, sourceIdx, destinationIdx, visited, routingTables>>

TablesTypeOK ==
    /\ routeIdx \in 0..n
    /\ sourceIdx \in 0..n
    /\ destinationIdx \in 0..n
    /\ visited \subseteq Idx \X Idx
    /\ routingTables \in [Idx -> Seq([destination : Idx, nextHop : Idx])]

TablesInit ==
    /\ DijkstraInit
    /\ routeIdx = 0
    /\ sourceIdx = 0
    /\ destinationIdx = 0
    /\ visited = {}
    /\ routingTables = [i \in Idx |-> <<>>]

Route == routeArray[routeIdx]
Source == Route[sourceIdx]
Destination == Route[destinationIdx]

\* The last position of a route (0 if there is no route), and the last one that
\* has a next hop.
LastDestination(r) == IF r \in Idx THEN Len(routeArray[r]) ELSE 0
LastSource(r) == IF r \in Idx THEN Len(routeArray[r]) - 1 ELSE 0

\* dijkstra is done; its result is the input of createRoutingTableArray.
Dijkstra ==
    /\ DijkstraNext
    /\ sourceIdx' = IF outcome' = "success" THEN Len(routeArray'[0]) - 1 ELSE 0
    /\ destinationIdx' = IF outcome' = "success" THEN Len(routeArray'[0]) ELSE 0
    /\ UNCHANGED <<routeIdx, visited, routingTables>>

Writing == outcome = "success" /\ routeIdx < n /\ sourceIdx > 0

\* The next round of the inner loop, or else of the one around it.
Onward ==
    IF destinationIdx - 1 > sourceIdx
    THEN destinationIdx' = destinationIdx - 1 /\ UNCHANGED sourceIdx
    ELSE destinationIdx' = Len(Route) /\ sourceIdx' = sourceIdx - 1

\* (Slip: a pair that was seen before counts as new.)
AnyPair(s, d) == s \in Idx /\ d \in Idx

IsNewPair(s, d) == <<s, d>> \notin visited

\* A pair that has no row yet gets one, for the node behind the source ...
WriteRow ==
    /\ Writing
    /\ IsNewPair(Source, Destination)
    /\ routingTables' = [routingTables EXCEPT ![Source] =
         Append(@, [destination |-> Destination, nextHop |-> Route[sourceIdx + 1]])]
    /\ visited' = visited \cup {<<Source, Destination>>}
    /\ Onward
    /\ UNCHANGED <<dijkstraVars, routeIdx>>

\* (Slip: continue without decrementing destinationIdx.)
SkipPairForEver ==
    /\ Writing
    /\ ~IsNewPair(Source, Destination)
    /\ UNCHANGED <<dijkstraVars, tableVars>>

\* ... any other is passed over.
SkipPair ==
    /\ Writing
    /\ ~IsNewPair(Source, Destination)
    /\ Onward
    /\ UNCHANGED <<dijkstraVars, routeIdx, visited, routingTables>>

\* The next round of the outer loop.
NextRoute ==
    /\ outcome = "success"
    /\ routeIdx < n
    /\ sourceIdx = 0
    /\ routeIdx' = routeIdx + 1
    /\ sourceIdx' = LastSource(routeIdx + 1)
    /\ destinationIdx' = LastDestination(routeIdx + 1)
    /\ UNCHANGED <<dijkstraVars, visited, routingTables>>

TablesNext == Dijkstra \/ WriteRow \/ SkipPair \/ NextRoute

TablesSpec == TablesInit /\ [][TablesNext]_<<dijkstraVars, tableVars>>

-----------------------------------------------------------------------------
(***************************************************************************)
(* Correctness.                                                            *)
(***************************************************************************)

Done == outcome = "success" /\ routeIdx = n

Rows(i) == {routingTables[i][k] : k \in DOMAIN routingTables[i]}
Destinations(i) == {row.destination : row \in Rows(i)}

\* Every table has room for its rows: there are at most n - 1 of them, and the
\* malloc is for n, however often a pair of nodes occurs in the routes.
RowsFit ==
    \A i \in Idx :
        /\ Len(routingTables[i]) <= n - 1
        /\ Len(routingTables[i]) = Cardinality(Destinations(i))

\* (Slip: the distance of the other node is printed.)
PathLenToDestination(from, to) ==
    IF \E k \in DOMAIN routeArray[to] : routeArray[to][k] = from
    THEN distanceArray[to] ELSE -1

\* printEdges: the path length it prints for a pair of nodes.
PathLen(from, to) ==
    IF \E k \in DOMAIN routeArray[to] : routeArray[to][k] = from
    THEN distanceArray[from] ELSE -1

\* The server's printout and the tables it sends tell the same: a path length
\* is printed for exactly the pairs with a row, and along a row it grows by the
\* weight of the edge to the next hop.
PrintoutAgreesWithTables ==
    Done => \A i, j \in Idx :
        /\ (i # j /\ PathLen(i, j) # -1) <=> j \in Destinations(i)
        /\ \A row \in Rows(i) : row.destination = j =>
             PathLen(row.nextHop, j) = PathLen(i, j) + Weight(i, row.nextHop)

=============================================================================
