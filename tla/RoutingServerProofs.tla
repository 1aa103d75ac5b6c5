------------------------- MODULE RoutingServerProofs -------------------------
(***************************************************************************)
(* Proofs about dijkstra and createRoutingTableArray, for every number of  *)
(* nodes and every matrix, and about the server as a whole: what the       *)
(* validation leaves is what dijkstra needs, for every order of arrival    *)
(* and whatever is reported.                                               *)
(*                                                                         *)
(* The argument for dijkstra: no unvisited node is nearer than a visited   *)
(* one, every edge of a visited node has been relaxed, and the distance of *)
(* an unvisited node is INT_MAX or was set through a visited neighbor.  So *)
(* the neighbor that registerRoute looks for anew, the closest one, gives  *)
(* exactly the distance that was recorded, whichever of several it takes.  *)
(*                                                                         *)
(* The argument for the tables: the part of a route up to a node is that   *)
(* node's own route.  So the row written for a pair of nodes is the same   *)
(* on whichever route the pair is seen first, and those written are known  *)
(* from the positions of the three loops.                                  *)
(***************************************************************************)
EXTENDS RoutingServer, EdgeValidationProofs, FiniteSetTheorems, WellFoundedInduction, TLAPS

\* The source is at distance 0 and the first to be visited.
SourceFirst ==
    /\ distanceArray[src] = 0
    /\ visitedArray # {} => src \in visitedArray

\* Nodes are visited in the order of their distances.
Ordered ==
    \A v \in visitedArray, u \in Unvisited : distanceArray[v] <= distanceArray[u]

\* No edge of a visited node offers a shorter way.
EdgesRelaxed ==
    \A v \in visitedArray, u \in Idx :
        Weight(v, u) # 0 => distanceArray[u] <= distanceArray[v] + Weight(v, u)

\* u was reached through v.
ReachedThrough(v, u) ==
    Weight(v, u) # 0 /\ distanceArray[u] = distanceArray[v] + Weight(v, u)

\* The distance of an unvisited node has an edge to show for it.
DistancesHaveEdges ==
    \A u \in Unvisited \ {src} :
        distanceArray[u] = INT_MAX \/ \E v \in visitedArray : ReachedThrough(v, u)

\* One more node is visited in every iteration.
OnePerIteration ==
    /\ IsFiniteSet(visitedArray)
    /\ iteration = Cardinality(visitedArray)
    /\ outcome = "running" => iteration < n
    /\ outcome = "success" => iteration = n

\* The route of v leads from src to v, over nodes of S, and each part of it that
\* starts at src is the route of the node it leads to.
LeadsTo(routes, S, v) ==
    /\ Len(routes[v]) \in Nat \ {0}
    /\ routes[v][1] = src
    /\ routes[v][Len(routes[v])] = v
    /\ \A k \in 1 .. Len(routes[v]) :
         /\ routes[v][k] \in S
         /\ Len(routes[routes[v][k]]) = k
         /\ \A l \in 1 .. k : routes[routes[v][k]][l] = routes[v][l]

RoutesLead == \A v \in visitedArray : LeadsTo(routeArray, visitedArray, v)

\* A distance is the sum of fewer edges than nodes are visited, and no n of them
\* add up to INT_MAX.
DistancesBounded ==
    \A v \in visitedArray : n * distanceArray[v] <= (iteration - 1) * (INT_MAX - 1)

\* The inductive invariant.
DijkstraInv ==
    /\ DijkstraTypeOK
    /\ IsMatrix(adjacencyMatrix)
    /\ SourceFirst
    /\ Ordered
    /\ EdgesRelaxed
    /\ DistancesHaveEdges
    /\ OnePerIteration
    /\ RoutesFormTree
    /\ RoutesLead
    /\ DistancesBounded

-----------------------------------------------------------------------------
\* There are n indices.
LEMMA IdxFinite == IsFiniteSet(Idx) /\ Cardinality(Idx) = n
<1>1. n \in Nat \ {0} /\ 0 \in Int /\ n - 1 \in Int /\ ~(0 > n - 1) /\ (n - 1) - 0 + 1 = n
  BY SizeAssumption
<1>2. IsFiniteSet(0 .. n - 1) /\ Cardinality(0 .. n - 1) = (n - 1) - 0 + 1
  BY <1>1, FS_Interval
<1> QED
  BY <1>1, <1>2 DEF Idx

\* A set of n indices is all of them.
LEMMA AllVisited ==
  ASSUME NEW S \in SUBSET Idx, Cardinality(S) = n
  PROVE  S = Idx
BY IdxFinite, FS_Subset

\* What the types and the matrix say about two nodes.
LEMMA Arithmetic ==
  ASSUME DijkstraTypeOK, IsMatrix(adjacencyMatrix), NEW i \in Idx, NEW j \in Idx
  PROVE  /\ Weight(i, j) \in Nat
         /\ Weight(i, j) = Weight(j, i)
         /\ distanceArray[i] \in Nat
         /\ distanceArray[i] <= INT_MAX
         /\ INT_MAX \in Nat
         /\ INT_MAX > 0
<1>1. adjacencyMatrix[i][j] \in Nat /\ adjacencyMatrix[i][i] = 0
  BY DEF DijkstraTypeOK, IsMatrix
<1>2. n * adjacencyMatrix[i][i] < INT_MAX
  BY DEF IsMatrix
<1>3. INT_MAX \in Nat /\ n \in Nat
  BY SizeAssumption
<1>4. n * adjacencyMatrix[i][i] = 0
  BY <1>1, <1>3
<1>5. INT_MAX > 0
  BY <1>2, <1>3, <1>4
<1>6. distanceArray[i] \in 0..INT_MAX
  BY DEF DijkstraTypeOK
<1> QED
  BY <1>1, <1>3, <1>5, <1>6 DEF Weight, IsMatrix

\* The node visited is nearest, and the first one is src.
LEMMA SourceIsFirst ==
  ASSUME DijkstraInv, NEW cur \in Idx, IsMinDistanceIdx(cur), cur # src
  PROVE  src \in visitedArray
<1>1. SUFFICES ASSUME visitedArray = {} PROVE FALSE
  BY DEF DijkstraInv, SourceFirst
<1>2. src \in Idx /\ src \in Unvisited /\ cur \in Unvisited \ {src}
  BY <1>1 DEF DijkstraInv, DijkstraTypeOK, Unvisited
<1>3. distanceArray[cur] = INT_MAX
  BY <1>1, <1>2 DEF DijkstraInv, DistancesHaveEdges
<1>4. distanceArray[cur] <= distanceArray[src] /\ distanceArray[src] = 0
  BY <1>2 DEF IsMinDistanceIdx, DijkstraInv, SourceFirst
<1> QED
  BY <1>2, <1>3, <1>4, Arithmetic DEF DijkstraInv

\* The closest visited neighbor gives the distance of the node.
LEMMA ClosestReaches ==
  ASSUME DijkstraInv, NEW cur \in Idx, IsMinDistanceIdx(cur), cur # src,
         NEW p \in Idx, IsClosest(p, cur)
  PROVE  /\ p \in visitedArray /\ p # cur
         /\ Weight(p, cur) # 0
         /\ distanceArray[cur] = distanceArray[p] + Weight(p, cur)
<1>1. /\ p \in visitedArray /\ cur \notin visitedArray
      /\ Weight(cur, p) # 0 /\ distanceArray[p] + Weight(cur, p) < INT_MAX
  BY DEF IsClosest, VisitedNeighbors, IsMinDistanceIdx, Unvisited
<1>2. /\ Weight(p, cur) = Weight(cur, p) /\ Weight(p, cur) \in Nat
      /\ distanceArray[p] \in Nat /\ distanceArray[cur] \in Nat /\ INT_MAX \in Nat
  BY Arithmetic DEF DijkstraInv
<1>3. distanceArray[cur] <= distanceArray[p] + Weight(p, cur)
  BY <1>1, <1>2 DEF DijkstraInv, EdgesRelaxed
<1>4. distanceArray[cur] < INT_MAX
  BY <1>1, <1>2, <1>3
<1>5. PICK v \in visitedArray : ReachedThrough(v, cur)
  <2>1. cur \in Unvisited \ {src}
    BY <1>1 DEF Unvisited
  <2>2. distanceArray[cur] = INT_MAX \/ \E v \in visitedArray : ReachedThrough(v, cur)
    BY <2>1 DEF DijkstraInv, DistancesHaveEdges
  <2> QED
    BY <1>2, <1>4, <2>2
<1>6. v \in Idx
  BY DEF DijkstraInv, DijkstraTypeOK
<1>7. Weight(v, cur) = Weight(cur, v) /\ Weight(v, cur) \in Nat /\ distanceArray[v] \in Nat
  BY <1>6, Arithmetic DEF DijkstraInv
<1>8. v \in VisitedNeighbors(cur)
  BY <1>2, <1>4, <1>5, <1>7 DEF VisitedNeighbors, ReachedThrough
<1>9. distanceArray[p] + Weight(cur, p) <= distanceArray[v] + Weight(cur, v)
  BY <1>8 DEF IsClosest
<1> QED
  BY <1>1, <1>2, <1>3, <1>5, <1>7, <1>9 DEF ReachedThrough

\* What dijkstra has set up before its loop, for a matrix like this.
Started ==
    /\ adjacencyMatrix \in [Idx -> [Idx -> Nat]]
    /\ IsMatrix(adjacencyMatrix)
    /\ src \in Idx
    /\ distanceArray = [i \in Idx |-> IF i = src THEN 0 ELSE INT_MAX]
    /\ visitedArray = {}
    /\ routeArray = [i \in Idx |-> <<>>]
    /\ iteration = 0
    /\ outcome = "running"

\* The invariant holds before the first iteration.
LEMMA DijkstraStarts == Started => DijkstraInv
<1> SUFFICES ASSUME Started PROVE DijkstraInv
  OBVIOUS
<1> USE DEF Started
<1>1. n \in Nat /\ n > 0 /\ INT_MAX \in Nat
  BY SizeAssumption
<1>2. DijkstraTypeOK
  <2>1. distanceArray \in [Idx -> 0..INT_MAX]
    BY <1>1
  <2>2. routeArray \in [Idx -> Seq(Idx)]
    OBVIOUS
  <2> QED
    BY <1>1, <2>1, <2>2 DEF DijkstraTypeOK
<1>3. /\ SourceFirst /\ Ordered /\ EdgesRelaxed /\ RoutesFormTree
      /\ RoutesLead /\ DistancesBounded
  BY DEF SourceFirst, Ordered, EdgesRelaxed, RoutesFormTree, RoutesLead, DistancesBounded
<1>4. DistancesHaveEdges
  BY DEF DistancesHaveEdges, Unvisited
<1>5. OnePerIteration
  BY <1>1, FS_EmptySet DEF OnePerIteration
<1> QED
  BY <1>2, <1>3, <1>4, <1>5 DEF DijkstraInv

-----------------------------------------------------------------------------
(***************************************************************************)
(* One iteration: the node cur is visited.                                 *)
(***************************************************************************)
VisitOf(cur) ==
    /\ outcome = "running"
    /\ IsMinDistanceIdx(cur)
    /\ visitedArray' = visitedArray \cup {cur}
    /\ RegisterRoute(cur)
    /\ distanceArray' = IF iteration < n - 1
                        THEN [i \in Idx |-> Relaxed(cur, i)]
                        ELSE distanceArray
    /\ iteration' = iteration + 1
    /\ outcome' = IF iteration' = n THEN "success" ELSE "running"
    /\ UNCHANGED <<adjacencyMatrix, src>>

\* The distances after it: those of visited nodes stay, the others are relaxed.
LEMMA NewDistances ==
  ASSUME DijkstraInv, NEW cur \in Idx, VisitOf(cur)
  PROVE  /\ visitedArray' \in SUBSET Idx
         /\ \A v \in visitedArray' : distanceArray'[v] = distanceArray[v]
         /\ \A u \in Idx \ visitedArray' : distanceArray'[u] = Relaxed(cur, u)
<1>1. visitedArray' = visitedArray \cup {cur} /\ visitedArray \subseteq Idx
  BY DEF VisitOf, DijkstraInv, DijkstraTypeOK
<1>2. CASE iteration < n - 1
  <2>1. \A i \in Idx : distanceArray'[i] = Relaxed(cur, i)
    BY <1>2 DEF VisitOf
  <2>2. \A v \in visitedArray' : Relaxed(cur, v) = distanceArray[v]
    BY <1>1 DEF Relaxed, Unvisited
  <2> QED
    BY <1>1, <2>1, <2>2
<1>3. CASE ~(iteration < n - 1)
  <2>1. distanceArray' = distanceArray
    BY <1>3 DEF VisitOf
  <2>2. cur \notin visitedArray /\ IsFiniteSet(visitedArray)
        /\ iteration = Cardinality(visitedArray) /\ iteration < n
    BY DEF VisitOf, IsMinDistanceIdx, Unvisited, DijkstraInv, OnePerIteration
  <2>3. Cardinality(visitedArray') = iteration + 1
    BY <1>1, <2>2, FS_AddElement
  <2>4. iteration \in Nat /\ n \in Nat
    BY SizeAssumption, <2>2, FS_CardinalityType
  <2>5. Cardinality(visitedArray') = n
    BY <1>3, <2>2, <2>3, <2>4
  <2>6. visitedArray' = Idx
    BY <1>1, <2>5, AllVisited
  <2> QED
    BY <2>1, <2>6
<1> QED
  BY <1>2, <1>3

\* What relaxing does to the distance of a node u that is still unvisited.
LEMMA RelaxedDistance ==
  ASSUME DijkstraInv, NEW cur \in Idx, VisitOf(cur), NEW u \in Idx \ visitedArray'
  PROVE  /\ distanceArray'[u] \in Nat
         /\ distanceArray'[u] <= distanceArray[u]
         /\ distanceArray[cur] <= distanceArray'[u]
         /\ Weight(cur, u) # 0 => distanceArray'[u] <= distanceArray[cur] + Weight(cur, u)
         /\ \/ distanceArray'[u] = distanceArray[u]
            \/ Weight(cur, u) # 0 /\ distanceArray'[u] = distanceArray[cur] + Weight(cur, u)
<1>1. u \in Unvisited \ {cur} /\ cur \in Unvisited
  BY DEF VisitOf, IsMinDistanceIdx, Unvisited
<1>2. distanceArray'[u] = Relaxed(cur, u)
  BY NewDistances
<1>3. /\ Weight(cur, u) \in Nat /\ distanceArray[cur] \in Nat /\ distanceArray[u] \in Nat
      /\ distanceArray[u] <= INT_MAX /\ INT_MAX \in Nat
  BY Arithmetic DEF DijkstraInv
<1>4. distanceArray[cur] <= distanceArray[u]
  BY <1>1 DEF VisitOf, IsMinDistanceIdx
<1> QED
  BY <1>1, <1>2, <1>3, <1>4 DEF Relaxed

\* The types.
LEMMA VisitType ==
  ASSUME DijkstraInv, NEW cur \in Idx, VisitOf(cur)
  PROVE  DijkstraTypeOK'
<1>1. /\ adjacencyMatrix' \in [Idx -> [Idx -> Nat]]
      /\ src' \in Idx
      /\ visitedArray' \subseteq Idx
  BY NewDistances DEF VisitOf, DijkstraInv, DijkstraTypeOK
<1>2. distanceArray' \in [Idx -> 0..INT_MAX]
  <2>1. \A i \in Idx : Relaxed(cur, i) \in 0..INT_MAX
    <3>1. SUFFICES ASSUME NEW i \in Idx PROVE Relaxed(cur, i) \in 0..INT_MAX
      OBVIOUS
    <3>2. /\ Weight(cur, i) \in Nat /\ distanceArray[cur] \in Nat /\ distanceArray[i] \in Nat
          /\ distanceArray[i] <= INT_MAX /\ INT_MAX \in Nat
      BY Arithmetic DEF DijkstraInv
    <3> QED
      BY <3>2 DEF Relaxed
  <2> QED
    BY <2>1 DEF VisitOf, DijkstraInv, DijkstraTypeOK
<1>3. routeArray' \in [Idx -> Seq(Idx)]
  <2>1. routeArray \in [Idx -> Seq(Idx)] /\ src \in Idx
    BY DEF DijkstraInv, DijkstraTypeOK
  <2>2. CASE routeArray' = [routeArray EXCEPT ![cur] = <<src>>]
    BY <2>1, <2>2
  <2>3. CASE \E p \in Idx : routeArray' = [routeArray EXCEPT ![cur] = Append(routeArray[p], cur)]
    BY <2>1, <2>3
  <2> QED
    BY <2>2, <2>3 DEF VisitOf, RegisterRoute
<1>4. iteration' \in 0..n /\ outcome' \in {"running", "success", "failure"}
  <2>1. iteration < n /\ iteration \in 0..n /\ n \in Nat
    BY SizeAssumption DEF VisitOf, DijkstraInv, OnePerIteration, DijkstraTypeOK
  <2> QED
    BY <2>1 DEF VisitOf
<1> QED
  BY <1>1, <1>2, <1>3, <1>4 DEF DijkstraTypeOK

\* The source, the order of visits and the count.
LEMMA VisitOrder ==
  ASSUME DijkstraInv, NEW cur \in Idx, VisitOf(cur)
  PROVE  SourceFirst' /\ Ordered' /\ OnePerIteration'
<1>1. visitedArray' = visitedArray \cup {cur} /\ src' = src /\ cur \notin visitedArray
  BY DEF VisitOf, IsMinDistanceIdx, Unvisited
<1>2. src \in Idx /\ distanceArray[src] = 0
  BY DEF DijkstraInv, DijkstraTypeOK, SourceFirst
<1>3. src \in visitedArray'
  BY <1>1, SourceIsFirst DEF VisitOf
<1>4. SourceFirst'
  BY <1>1, <1>2, <1>3, NewDistances DEF SourceFirst
<1>5. Ordered'
  <2>1. SUFFICES ASSUME NEW v \in visitedArray', NEW u \in Idx \ visitedArray'
                 PROVE  distanceArray'[v] <= distanceArray'[u]
    BY DEF Ordered, Unvisited
  <2>2. distanceArray'[v] = distanceArray[v] /\ v \in Idx
    BY NewDistances
  <2>3. distanceArray[v] \in Nat /\ distanceArray[cur] \in Nat
    BY <2>2, Arithmetic DEF DijkstraInv
  <2>4. distanceArray[v] <= distanceArray[cur]
    <3>1. CASE v = cur
      BY <2>3, <3>1
    <3>2. CASE v \in visitedArray
      <4>1. cur \in Unvisited
        BY DEF VisitOf, IsMinDistanceIdx
      <4> QED
        BY <3>2, <4>1 DEF DijkstraInv, Ordered
    <3> QED
      BY <1>1, <3>1, <3>2
  <2>5. distanceArray'[u] \in Nat /\ distanceArray[cur] <= distanceArray'[u]
    BY RelaxedDistance
  <2> QED
    BY <2>2, <2>3, <2>4, <2>5
<1>6. OnePerIteration'
  <2>1. /\ IsFiniteSet(visitedArray) /\ iteration = Cardinality(visitedArray)
        /\ iteration < n /\ outcome = "running"
    BY DEF VisitOf, DijkstraInv, OnePerIteration
  <2>2. IsFiniteSet(visitedArray') /\ Cardinality(visitedArray') = Cardinality(visitedArray) + 1
    BY <1>1, <2>1, FS_AddElement
  <2>3. iteration \in Nat /\ n \in Nat
    BY SizeAssumption, <2>1, FS_CardinalityType
  <2>4. iteration' = iteration + 1 /\ outcome' = IF iteration' = n THEN "success" ELSE "running"
    BY DEF VisitOf
  <2> QED
    BY <2>1, <2>2, <2>3, <2>4 DEF OnePerIteration
<1> QED
  BY <1>4, <1>5, <1>6

\* The edges of visited nodes are relaxed.
LEMMA VisitRelaxes ==
  ASSUME DijkstraInv, NEW cur \in Idx, VisitOf(cur)
  PROVE  EdgesRelaxed'
<1>1. visitedArray' = visitedArray \cup {cur} /\ adjacencyMatrix' = adjacencyMatrix
  BY DEF VisitOf
<1>2. SUFFICES ASSUME NEW v \in visitedArray', NEW u \in Idx, Weight(v, u) # 0
               PROVE  distanceArray'[u] <= distanceArray'[v] + Weight(v, u)
  BY <1>1 DEF EdgesRelaxed, Weight
<1>3. distanceArray'[v] = distanceArray[v] /\ v \in Idx
  BY NewDistances
<1>4. /\ Weight(v, u) \in Nat /\ distanceArray[v] \in Nat /\ distanceArray[u] \in Nat
      /\ distanceArray[cur] \in Nat
  BY <1>3, Arithmetic DEF DijkstraInv
<1>5. CASE u \in visitedArray'
  <2>1. distanceArray'[u] = distanceArray[u]
    BY <1>5, NewDistances
  <2>2. CASE v \in visitedArray
    BY <1>2, <1>3, <2>1, <2>2 DEF DijkstraInv, EdgesRelaxed
  <2>3. CASE v = cur
    <3>1. distanceArray[u] <= distanceArray[cur]
      <4>1. CASE u = cur
        BY <1>4, <4>1
      <4>2. CASE u \in visitedArray
        BY <4>2 DEF VisitOf, IsMinDistanceIdx, DijkstraInv, Ordered
      <4> QED
        BY <1>1, <1>5, <4>1, <4>2
    <3> QED
      BY <1>3, <1>4, <2>1, <2>3, <3>1
  <2> QED
    BY <1>1, <2>2, <2>3
<1>6. CASE u \notin visitedArray'
  <2>1. /\ distanceArray'[u] \in Nat /\ distanceArray'[u] <= distanceArray[u]
        /\ Weight(cur, u) # 0 => distanceArray'[u] <= distanceArray[cur] + Weight(cur, u)
    BY <1>6, RelaxedDistance
  <2>2. CASE v \in visitedArray
    <3>1. distanceArray[u] <= distanceArray[v] + Weight(v, u)
      BY <1>2, <2>2 DEF DijkstraInv, EdgesRelaxed
    <3> QED
      BY <1>3, <1>4, <2>1, <3>1
  <2>3. CASE v = cur
    BY <1>2, <1>3, <2>1, <2>3
  <2> QED
    BY <1>1, <2>2, <2>3
<1> QED
  BY <1>5, <1>6

\* A distance that was set has an edge to show for it.
LEMMA VisitHasEdges ==
  ASSUME DijkstraInv, NEW cur \in Idx, VisitOf(cur)
  PROVE  DistancesHaveEdges'
<1>1. visitedArray' = visitedArray \cup {cur} /\ adjacencyMatrix' = adjacencyMatrix /\ src' = src
  BY DEF VisitOf
<1>2. SUFFICES ASSUME NEW u \in (Idx \ visitedArray') \ {src}
               PROVE  \/ distanceArray'[u] = INT_MAX
                      \/ \E v \in visitedArray' :
                           Weight(v, u) # 0 /\ distanceArray'[u] = distanceArray'[v] + Weight(v, u)
  BY <1>1 DEF DistancesHaveEdges, Unvisited, ReachedThrough, Weight
<1>3. \/ distanceArray'[u] = distanceArray[u]
      \/ Weight(cur, u) # 0 /\ distanceArray'[u] = distanceArray[cur] + Weight(cur, u)
  BY RelaxedDistance
<1>4. \A v \in visitedArray' : distanceArray'[v] = distanceArray[v]
  BY NewDistances
<1>5. CASE distanceArray'[u] = distanceArray[u]
  <2>1. u \in Unvisited \ {src}
    BY <1>1 DEF Unvisited
  <2>2. distanceArray[u] = INT_MAX \/ \E v \in visitedArray : ReachedThrough(v, u)
    BY <2>1 DEF DijkstraInv, DistancesHaveEdges
  <2> QED
    BY <1>1, <1>4, <1>5, <2>2 DEF ReachedThrough
<1>6. CASE Weight(cur, u) # 0 /\ distanceArray'[u] = distanceArray[cur] + Weight(cur, u)
  <2>1. cur \in visitedArray'
    BY <1>1
  <2> QED
    BY <1>4, <1>6, <2>1
<1> QED
  BY <1>3, <1>5, <1>6

\* The route that is registered is a branch of the tree.
LEMMA VisitKeepsTree ==
  ASSUME DijkstraInv, NEW cur \in Idx, VisitOf(cur)
  PROVE  RoutesFormTree'
<1> DEFINE Branch(route, v) ==
      IF v = src THEN route[v] = <<src>> /\ distanceArray[v] = 0
      ELSE \E p \in visitedArray' :
             /\ p # v /\ Weight(p, v) # 0
             /\ route[v] = Append(route[p], v)
             /\ distanceArray[v] = distanceArray[p] + Weight(p, v)
<1>1. /\ visitedArray' = visitedArray \cup {cur} /\ src' = src
      /\ adjacencyMatrix' = adjacencyMatrix /\ cur \notin visitedArray
  BY DEF VisitOf, IsMinDistanceIdx, Unvisited
<1>2. routeArray \in [Idx -> Seq(Idx)] /\ visitedArray \subseteq Idx /\ src \in Idx
  BY DEF DijkstraInv, DijkstraTypeOK
<1>3. /\ \A v \in Idx \ {cur} : routeArray'[v] = routeArray[v]
      /\ \/ cur = src /\ routeArray'[cur] = <<src>>
         \/ /\ cur # src
            /\ \E p \in Idx : IsClosest(p, cur) /\ routeArray'[cur] = Append(routeArray[p], cur)
  BY <1>2 DEF VisitOf, RegisterRoute
<1>4. Branch(routeArray', cur)
  <2>1. CASE cur = src
    BY <1>3, <2>1 DEF DijkstraInv, SourceFirst
  <2>2. CASE cur # src
    <3>1. PICK p \in Idx : IsClosest(p, cur) /\ routeArray'[cur] = Append(routeArray[p], cur)
      BY <1>3, <2>2
    <3>2. /\ p \in visitedArray /\ p # cur /\ Weight(p, cur) # 0
          /\ distanceArray[cur] = distanceArray[p] + Weight(p, cur)
      BY <2>2, <3>1, ClosestReaches DEF VisitOf
    <3>3. routeArray'[p] = routeArray[p]
      BY <1>3, <3>2
    <3> QED
      BY <1>1, <2>2, <3>1, <3>2, <3>3
  <2> QED
    BY <2>1, <2>2
<1>5. ASSUME NEW v \in visitedArray PROVE Branch(routeArray', v)
  <2>1. v \in Idx \ {cur} /\ routeArray'[v] = routeArray[v]
    BY <1>1, <1>2, <1>3
  <2>2. CASE v = src
    BY <2>1, <2>2 DEF DijkstraInv, RoutesFormTree
  <2>3. CASE v # src
    <3>1. PICK p \in visitedArray :
            /\ p # v /\ Weight(p, v) # 0
            /\ routeArray[v] = Append(routeArray[p], v)
            /\ distanceArray[v] = distanceArray[p] + Weight(p, v)
      BY <2>3 DEF DijkstraInv, RoutesFormTree
    <3>2. routeArray'[p] = routeArray[p]
      BY <1>1, <1>2, <1>3
    <3> QED
      BY <1>1, <2>1, <2>3, <3>1, <3>2
  <2> QED
    BY <2>2, <2>3
<1>6. \A v \in visitedArray' : distanceArray'[v] = distanceArray[v]
  BY NewDistances
<1>7. \A v \in visitedArray' : Branch(routeArray', v)
  BY <1>1, <1>4, <1>5
<1> QED
  BY <1>1, <1>6, <1>7 DEF RoutesFormTree, Weight

\* The route that is registered prolongs one of a visited node.
LEMMA VisitLeads ==
  ASSUME DijkstraInv, NEW cur \in Idx, VisitOf(cur)
  PROVE  RoutesLead'
<1>1. /\ visitedArray' = visitedArray \cup {cur} /\ src' = src /\ cur \notin visitedArray
  BY DEF VisitOf, IsMinDistanceIdx, Unvisited
<1>2. routeArray \in [Idx -> Seq(Idx)] /\ visitedArray \subseteq Idx /\ src \in Idx
  BY DEF DijkstraInv, DijkstraTypeOK
<1>3. /\ \A v \in Idx \ {cur} : routeArray'[v] = routeArray[v]
      /\ \/ cur = src /\ routeArray'[cur] = <<src>>
         \/ /\ cur # src
            /\ \E p \in Idx : IsClosest(p, cur) /\ routeArray'[cur] = Append(routeArray[p], cur)
  BY <1>2 DEF VisitOf, RegisterRoute
<1>4. ASSUME NEW v \in visitedArray PROVE LeadsTo(routeArray', visitedArray', v)
  <2>1. LeadsTo(routeArray, visitedArray, v)
    BY DEF DijkstraInv, RoutesLead
  <2>2. \A w \in visitedArray : routeArray'[w] = routeArray[w] /\ w \in visitedArray'
    BY <1>1, <1>2, <1>3
  <2>3. \A k \in 1 .. Len(routeArray[v]) :
          routeArray[v][k] \in visitedArray
            /\ routeArray'[routeArray[v][k]] = routeArray[routeArray[v][k]]
    BY <2>1, <2>2 DEF LeadsTo
  <2> QED
    BY <2>1, <2>2, <2>3 DEF LeadsTo
<1>5. LeadsTo(routeArray', visitedArray', cur)
  <2>1. CASE cur = src
    <3>1. routeArray'[cur] = <<src>> /\ src' = src /\ cur \in visitedArray'
      BY <1>1, <1>3, <2>1 DEF IsClosest, VisitedNeighbors
    <3>2. Len(routeArray'[cur]) = 1 /\ routeArray'[cur][1] = cur
      BY <2>1, <3>1
    <3>3. \A k \in 1 .. 1 : k = 1
      OBVIOUS
    <3>4. src = cur /\ cur \in visitedArray' /\ 1 \in Nat \ {0}
      BY <2>1, <3>1
    <3> QED
      BY <3>2, <3>3, <3>4 DEF LeadsTo
  <2>2. CASE cur # src
    <3>1. PICK p \in Idx : IsClosest(p, cur) /\ routeArray'[cur] = Append(routeArray[p], cur)
      BY <1>3, <2>2
    <3>2. p \in visitedArray
      BY <3>1 DEF IsClosest, VisitedNeighbors
    <3> DEFINE P == routeArray[p]
               R == routeArray'[cur]
    <3>3. /\ Len(P) \in Nat \ {0} /\ P[1] = src /\ P \in Seq(Idx)
          /\ \A k \in 1 .. Len(P) :
               /\ P[k] \in visitedArray
               /\ Len(routeArray[P[k]]) = k
               /\ \A l \in 1 .. k : routeArray[P[k]][l] = P[l]
      BY <1>2, <3>2 DEF DijkstraInv, RoutesLead, LeadsTo
    <3>4. /\ Len(R) = Len(P) + 1 /\ R[Len(P) + 1] = cur
          /\ \A k \in 1 .. Len(P) : R[k] = P[k]
      BY <3>1, <3>3
    <3>5. ASSUME NEW k \in 1 .. Len(R)
          PROVE  /\ R[k] \in visitedArray'
                 /\ Len(routeArray'[R[k]]) = k
                 /\ \A l \in 1 .. k : routeArray'[R[k]][l] = R[l]
      <4>1. CASE k = Len(P) + 1
        BY <1>1, <3>4, <4>1
      <4>2. CASE k \in 1 .. Len(P)
        <5>1. R[k] \in visitedArray /\ R[k] = P[k]
          BY <3>3, <3>4, <4>2
        <5>2. routeArray'[R[k]] = routeArray[P[k]]
          BY <1>1, <1>2, <1>3, <5>1
        <5> HIDE DEF P, R
        <5> QED
          BY <1>1, <3>3, <3>4, <4>2, <5>1, <5>2
      <4> HIDE DEF P, R
      <4> QED
        BY <3>3, <3>4, <4>1, <4>2
    <3> HIDE DEF P
    <3>6. Len(R) \in Nat \ {0} /\ R[1] = src /\ R[Len(R)] = cur
      BY <3>3, <3>4
    <3> QED
      BY <3>5, <3>6 DEF LeadsTo
  <2> QED
    BY <2>1, <2>2
<1> QED
  BY <1>1, <1>4, <1>5 DEF RoutesLead, LeadsTo

\* The distance of the visited node is bounded as that of its predecessor.
LEMMA VisitBounded ==
  ASSUME DijkstraInv, NEW cur \in Idx, VisitOf(cur)
  PROVE  DistancesBounded'
<1>1. visitedArray' = visitedArray \cup {cur} /\ iteration' = iteration + 1
  BY DEF VisitOf
<1>2. n \in Nat /\ INT_MAX - 1 \in Nat /\ iteration \in Nat
  BY SizeAssumption DEF DijkstraInv, DijkstraTypeOK
<1>3. SUFFICES ASSUME NEW v \in visitedArray'
               PROVE  n * distanceArray'[v] <= iteration * (INT_MAX - 1)
  BY <1>1, <1>2 DEF DistancesBounded
<1>4. distanceArray'[v] = distanceArray[v] /\ v \in Idx
  BY NewDistances
<1>5. distanceArray[v] \in Nat
  BY <1>4, Arithmetic DEF DijkstraInv
<1>6. iteration * (INT_MAX - 1) = (iteration - 1) * (INT_MAX - 1) + (INT_MAX - 1)
  BY <1>2
<1>7. CASE v \in visitedArray
  <2>1. n * distanceArray[v] <= (iteration - 1) * (INT_MAX - 1)
    BY <1>7 DEF DijkstraInv, DistancesBounded
  <2> QED
    BY <1>2, <1>4, <1>5, <1>6, <2>1
<1>8. CASE v = cur /\ cur = src
  <2>1. distanceArray[v] = 0
    BY <1>8 DEF DijkstraInv, SourceFirst
  <2> QED
    BY <1>2, <1>4, <2>1
<1>9. CASE v = cur /\ cur # src
  <2>1. PICK p \in Idx : IsClosest(p, cur)
    BY <1>9 DEF VisitOf, RegisterRoute
  <2>2. p \in visitedArray /\ distanceArray[cur] = distanceArray[p] + Weight(p, cur)
    BY <1>9, <2>1, ClosestReaches DEF VisitOf
  <2>3. n * distanceArray[p] <= (iteration - 1) * (INT_MAX - 1)
    BY <2>2 DEF DijkstraInv, DistancesBounded
  <2>4. n * Weight(p, cur) <= INT_MAX - 1
    <3>1. n * Weight(p, cur) < INT_MAX /\ Weight(p, cur) \in Nat
      BY Arithmetic DEF DijkstraInv, IsMatrix, Weight
    <3>2. n * Weight(p, cur) \in Nat /\ INT_MAX \in Nat
      BY <1>2, <3>1, SizeAssumption
    <3> QED
      BY <3>1, <3>2
  <2>5. distanceArray[p] \in Nat /\ Weight(p, cur) \in Nat
    BY Arithmetic DEF DijkstraInv
  <2>6. n * distanceArray[cur] = n * distanceArray[p] + n * Weight(p, cur)
    BY <1>2, <2>2, <2>5
  <2> QED
    BY <1>2, <1>4, <1>5, <1>6, <1>9, <2>3, <2>4, <2>5, <2>6
<1> QED
  BY <1>1, <1>7, <1>8, <1>9

\* What the routes are stays with the variables.
LEMMA RoutesStay ==
  ASSUME RoutesLead, DistancesBounded,
         UNCHANGED <<src, distanceArray, visitedArray, routeArray, iteration>>
  PROVE  RoutesLead' /\ DistancesBounded'
BY DEF RoutesLead, LeadsTo, DistancesBounded

\* Every step keeps the invariant.
LEMMA DijkstraGoesOn == DijkstraInv /\ [DijkstraNext]_dijkstraVars => DijkstraInv'
<1>1. ASSUME DijkstraInv, Visit PROVE DijkstraInv'
  <2>1. PICK cur \in Idx : VisitOf(cur)
    BY <1>1 DEF Visit, VisitOf
  <2>2. IsMatrix(adjacencyMatrix)'
    BY <1>1, <2>1 DEF DijkstraInv, IsMatrix, VisitOf
  <2> QED
    BY <1>1, <2>1, <2>2, VisitType, VisitOrder, VisitRelaxes, VisitHasEdges, VisitKeepsTree,
       VisitLeads, VisitBounded DEF DijkstraInv
<1>2. ASSUME DijkstraInv, VisitFails PROVE DijkstraInv'
  BY <1>2, RoutesStay DEF DijkstraInv, VisitFails, DijkstraTypeOK, IsMatrix, SourceFirst, Ordered,
     EdgesRelaxed, DistancesHaveEdges, ReachedThrough, OnePerIteration, RoutesFormTree, Weight,
     Unvisited
<1>3. ASSUME DijkstraInv, UNCHANGED dijkstraVars PROVE DijkstraInv'
  BY <1>3, RoutesStay DEF DijkstraInv, dijkstraVars, DijkstraTypeOK, IsMatrix, SourceFirst, Ordered,
     EdgesRelaxed, DistancesHaveEdges, ReachedThrough, OnePerIteration, RoutesFormTree, Weight,
     Unvisited
<1> QED
  BY <1>1, <1>2, <1>3 DEF DijkstraNext

-----------------------------------------------------------------------------
\* The inductive invariant holds for every graph and every source.
THEOREM DijkstraInvariance == DijkstraSpec => []DijkstraInv
<1>1. DijkstraInit => Started
  BY MatricesAssumption DEF DijkstraInit, Started
<1> QED
  BY <1>1, DijkstraStarts, DijkstraGoesOn, PTL DEF DijkstraSpec

\* Distances never leave the range of int, routes are sequences of indices.
THEOREM DijkstraTypeCorrect == DijkstraSpec => []DijkstraTypeOK
<1>1. DijkstraInv => DijkstraTypeOK
  BY DEF DijkstraInv
<1> QED
  BY <1>1, DijkstraInvariance, PTL

\* At every moment the routes of the visited nodes are a tree of edges rooted
\* at the source, and the distances are the lengths of the routes.
THEOREM TreeOfRoutes == DijkstraSpec => []RoutesFormTree
<1>1. DijkstraInv => RoutesFormTree
  BY DEF DijkstraInv
<1> QED
  BY <1>1, DijkstraInvariance, PTL

\* When all are visited no edge offers a shorter way.
LEMMA AllRelaxed == DijkstraInv => NoShortcut
<1>1. SUFFICES ASSUME DijkstraInv, outcome = "success" PROVE NoShortcut
  BY DEF NoShortcut
<1>2. visitedArray \in SUBSET Idx /\ Cardinality(visitedArray) = n
  BY <1>1 DEF DijkstraInv, DijkstraTypeOK, OnePerIteration
<1>3. visitedArray = Idx
  BY <1>2, AllVisited
<1> QED
  BY <1>1, <1>3 DEF DijkstraInv, EdgesRelaxed, NoShortcut

\* When dijkstra succeeds no edge offers a shorter way to any node.
THEOREM NoShorterWay == DijkstraSpec => []NoShortcut
BY AllRelaxed, DijkstraInvariance, PTL


-----------------------------------------------------------------------------
(***************************************************************************)
(* The routes that createRoutingTableArray is given.                       *)
(***************************************************************************)

\* When dijkstra has succeeded every node has a route.
LEMMA AllHaveRoutes ==
  ASSUME DijkstraInv, outcome = "success"
  PROVE  visitedArray = Idx
<1>1. visitedArray \in SUBSET Idx /\ Cardinality(visitedArray) = n
  BY DEF DijkstraInv, DijkstraTypeOK, OnePerIteration
<1> QED
  BY <1>1, AllVisited

\* A sequence of indices without repetition is not longer than n.
LEMMA NoRepetition ==
  ASSUME NEW s \in Seq(Idx), \A k, l \in 1 .. Len(s) : s[k] = s[l] => k = l
  PROVE  Len(s) <= n
<1>1. s \in Injection(1 .. Len(s), Idx)
  <2>1. s \in [1 .. Len(s) -> Idx]
    OBVIOUS
  <2> QED
    BY <2>1 DEF Injection, IsInjective
<1>2. IsFiniteSet(1 .. Len(s)) /\ Cardinality(1 .. Len(s)) = Len(s)
  <2>1. Len(s) \in Nat
    OBVIOUS
  <2>2. CASE Len(s) = 0
    <3>1. 1 .. Len(s) = {}
      BY <2>2
    <3> QED
      BY <2>2, <3>1, FS_EmptySet
  <2>3. CASE Len(s) > 0
    BY <2>1, <2>3, FS_Interval
  <2> QED
    BY <2>1, <2>2, <2>3
<1> HIDE DEF Idx
<1>3. Cardinality(1 .. Len(s)) <= Cardinality(Idx)
  BY <1>1, IdxFinite, FS_Injection
<1> QED
  BY <1>2, <1>3, IdxFinite

\* A route to j starts at src, ends at j, and visits no node twice.
LEMMA RouteTo ==
  ASSUME DijkstraInv, outcome = "success", NEW j \in Idx
  PROVE  /\ routeArray[j] \in Seq(Idx)
         /\ Len(routeArray[j]) \in 1 .. n
         /\ routeArray[j][1] = src
         /\ routeArray[j][Len(routeArray[j])] = j
         /\ \A k \in 1 .. Len(routeArray[j]) : routeArray[j][k] \in Idx
         /\ \A k, l \in 1 .. Len(routeArray[j]) : routeArray[j][k] = routeArray[j][l] => k = l
<1>1. routeArray[j] \in Seq(Idx) /\ LeadsTo(routeArray, Idx, j)
  BY AllHaveRoutes DEF DijkstraInv, DijkstraTypeOK, RoutesLead
<1>2. \A k, l \in 1 .. Len(routeArray[j]) : routeArray[j][k] = routeArray[j][l] => k = l
  BY <1>1 DEF LeadsTo
<1>3. Len(routeArray[j]) <= n
  BY <1>1, <1>2, NoRepetition
<1> QED
  BY <1>1, <1>2, <1>3, SizeAssumption DEF LeadsTo

LEMMA RouteLengths ==
  DijkstraInv /\ outcome = "success" => \A j \in Idx : Len(routeArray[j]) \in 1 .. n
BY RouteTo

\* The route to a node on it is the part of it up to that node.
LEMMA RouteToPart ==
  ASSUME DijkstraInv, outcome = "success", NEW j \in Idx, NEW k \in 1 .. Len(routeArray[j])
  PROVE  /\ Len(routeArray[routeArray[j][k]]) = k
         /\ \A l \in 1 .. k : routeArray[routeArray[j][k]][l] = routeArray[j][l]
BY AllHaveRoutes DEF DijkstraInv, RoutesLead, LeadsTo

\* A step of a route is an edge, and the distance grows by its weight.
LEMMA RouteStep ==
  ASSUME DijkstraInv, outcome = "success", NEW j \in Idx,
         NEW k \in 1 .. Len(routeArray[j]) - 1
  PROVE  LET a == routeArray[j][k]
             b == routeArray[j][k + 1]
         IN  Weight(a, b) # 0 /\ distanceArray[b] = distanceArray[a] + Weight(a, b)
<1> DEFINE R == routeArray[j]
           a == R[k]
           b == R[k + 1]
<1>1. /\ R \in Seq(Idx) /\ Len(R) \in 1 .. n /\ n \in Nat
      /\ k \in 1 .. Len(R) /\ k + 1 \in 1 .. Len(R)
      /\ \A l, m \in 1 .. Len(R) : R[l] = R[m] => l = m
      /\ R[1] = src
  BY RouteTo, SizeAssumption
<1>2. a \in Idx /\ b \in Idx
  BY <1>1, RouteTo
<1>3. Len(routeArray[b]) = k + 1 /\ \A l \in 1 .. k + 1 : routeArray[b][l] = R[l]
  BY <1>1, RouteToPart
<1> HIDE DEF R
<1>4. b # src
  BY <1>1
<1>5. PICK p \in Idx : /\ p # b /\ Weight(p, b) # 0
                       /\ routeArray[b] = Append(routeArray[p], b)
                       /\ distanceArray[b] = distanceArray[p] + Weight(p, b)
  BY <1>2, <1>4, AllHaveRoutes DEF DijkstraInv, RoutesFormTree
<1>6. routeArray[p] \in Seq(Idx) /\ routeArray[p][Len(routeArray[p])] = p
  BY RouteTo
<1>7. Len(routeArray[p]) = k /\ routeArray[b][k] = routeArray[p][k]
  BY <1>1, <1>3, <1>5, <1>6
<1>8. p = a
  BY <1>1, <1>3, <1>6, <1>7
<1> QED
  BY <1>5, <1>8 DEF R

-----------------------------------------------------------------------------
(***************************************************************************)
(* The tables.                                                             *)
(***************************************************************************)

\* Where the loops are.
Positions ==
    /\ routeIdx < n => sourceIdx \in 0 .. Len(Route) - 1
    /\ routeIdx < n /\ sourceIdx > 0 => destinationIdx \in sourceIdx + 1 .. Len(Route)
    /\ routeIdx = n => sourceIdx = 0

\* The pairs the loops have passed have rows.
PairsWritten ==
    \A r \in Idx : \A k, l \in 1 .. Len(routeArray[r]) :
        /\ k < l
        /\ \/ r < routeIdx
           \/ r = routeIdx /\ k > sourceIdx
           \/ r = routeIdx /\ k = sourceIdx /\ l > destinationIdx
        => <<routeArray[r][k], routeArray[r][l]>> \in visited

\* The row is one of the table of i: its next hop is the node behind i on the
\* route to its destination.
RowFor(i, row) ==
    LET R == routeArray[row.destination]
    IN  \E k \in 1 .. Len(R) - 1 : R[k] = i /\ row.nextHop = R[k + 1]

\* There is one such row for each pair seen (those of V), and no other.
RowsOf(i, t, V) ==
    /\ \A a, b \in DOMAIN t : t[a].destination = t[b].destination => a = b
    /\ \A j \in Idx : <<i, j>> \in V <=> \E a \in DOMAIN t : t[a].destination = j
    /\ \A a \in DOMAIN t : RowFor(i, t[a])

\* Before dijkstra has succeeded nothing is written.
Untouched ==
    /\ routeIdx = 0 /\ sourceIdx = 0 /\ destinationIdx = 0 /\ visited = {}
    /\ routingTables = [i \in Idx |-> <<>>]

\* The inductive invariant, next to that of dijkstra.
TablesInv ==
    /\ TablesTypeOK
    /\ outcome # "success" => Untouched
    /\ outcome = "success" => Positions /\ PairsWritten
    /\ \A i \in Idx : RowsOf(i, routingTables[i], visited)

\* Nothing written is a good start.
LEMMA TablesStart ==
  ASSUME Untouched, outcome # "success"
  PROVE  TablesInv
<1>1. TablesTypeOK
  BY SizeAssumption DEF TablesTypeOK, Untouched
<1>2. \A i \in Idx : RowsOf(i, routingTables[i], visited)
  BY DEF RowsOf, Untouched
<1> QED
  BY <1>1, <1>2 DEF TablesInv

\* The variables of dijkstra and of the tables stay.
LEMMA TablesStutter ==
  ASSUME TablesInv, UNCHANGED tableVars, outcome' # "success", outcome # "success"
  PROVE  TablesInv'
<1>1. Untouched'
  BY DEF TablesInv, tableVars, Untouched
<1>2. (Untouched /\ outcome # "success" => TablesInv)'
  BY TablesStart, PTL
<1> QED
  BY <1>1, <1>2

\* A step of dijkstra: the loops start when it succeeds.
LEMMA DijkstraStartsTables ==
  ASSUME TablesInv, DijkstraInv', Dijkstra
  PROVE  TablesInv'
<1>1. /\ outcome # "success" /\ outcome' \in {"running", "success", "failure"}
      /\ UNCHANGED <<routeIdx, visited, routingTables>>
      /\ Untouched
  BY DEF Dijkstra, DijkstraNext, Visit, VisitFails, DijkstraInv, DijkstraTypeOK, TablesInv
<1>2. CASE outcome' # "success"
  <2>1. Untouched'
    BY <1>1, <1>2 DEF Dijkstra, Untouched
  <2>2. (Untouched /\ outcome # "success" => TablesInv)'
    BY TablesStart, PTL
  <2> QED
    BY <1>2, <2>1, <2>2
<1>3. CASE outcome' = "success"
  <2>1. (DijkstraInv /\ outcome = "success" => \A j \in Idx : Len(routeArray[j]) \in 1 .. n)'
    BY RouteLengths, PTL
  <2>2. 0 \in Idx /\ n \in Nat
    BY SizeAssumption DEF Idx
  <2>3. Len(routeArray'[0]) \in 1 .. n
    BY <1>3, <2>1, <2>2
  <2>4. /\ routeIdx' = 0 /\ visited' = {} /\ routingTables' = [i \in Idx |-> <<>>]
        /\ sourceIdx' = Len(routeArray'[0]) - 1 /\ destinationIdx' = Len(routeArray'[0])
    BY <1>1, <1>3 DEF Untouched, Dijkstra
  <2>5. TablesTypeOK'
    BY <2>2, <2>3, <2>4 DEF TablesTypeOK
  <2>6. Positions'
    BY <2>2, <2>3, <2>4, SizeAssumption DEF Positions, Route
  <2>7. PairsWritten'
    <3>1. SUFFICES ASSUME NEW r \in Idx, NEW k \in 1 .. Len(routeArray'[r]),
                          NEW l \in 1 .. Len(routeArray'[r]), k < l,
                          \/ r < 0
                          \/ r = 0 /\ k > Len(routeArray'[0]) - 1
                          \/ r = 0 /\ k = Len(routeArray'[0]) - 1 /\ l > Len(routeArray'[0])
                   PROVE  FALSE
      BY <2>4 DEF PairsWritten
    <3> QED
      BY <2>2, <2>3, <3>1 DEF Idx
  <2>8. (\A i \in Idx : RowsOf(i, routingTables[i], visited))'
    BY <2>4 DEF RowsOf
  <2> QED
    BY <1>3, <2>5, <2>6, <2>7, <2>8 DEF TablesInv
<1> QED
  BY <1>2, <1>3

\* What is known when the loops are at a pair of nodes.
LEMMA AtPair ==
  ASSUME DijkstraInv, TablesInv, Writing
  PROVE  /\ routeIdx \in Idx
         /\ Len(Route) \in 1 .. n
         /\ sourceIdx \in 1 .. Len(Route) - 1
         /\ destinationIdx \in sourceIdx + 1 .. Len(Route)
         /\ Source \in Idx /\ Destination \in Idx /\ Route[sourceIdx + 1] \in Idx
         /\ RowFor(Source, [destination |-> Destination, nextHop |-> Route[sourceIdx + 1]])
<1>1. outcome = "success" /\ routeIdx < n /\ sourceIdx > 0 /\ n \in Nat
  BY SizeAssumption DEF Writing
<1>2. routeIdx \in Idx
  BY <1>1 DEF TablesInv, TablesTypeOK, Idx
<1>3. /\ Len(Route) \in 1 .. n
      /\ \A k \in 1 .. Len(Route) : Route[k] \in Idx
  BY <1>1, <1>2, RouteTo DEF Route
<1>4. /\ sourceIdx \in 1 .. Len(Route) - 1
      /\ destinationIdx \in sourceIdx + 1 .. Len(Route)
  BY <1>1, <1>3 DEF TablesInv, Positions
<1>5. /\ destinationIdx \in 1 .. Len(Route) /\ sourceIdx \in 1 .. destinationIdx - 1
      /\ sourceIdx \in 1 .. destinationIdx /\ sourceIdx + 1 \in 1 .. destinationIdx
      /\ sourceIdx \in 1 .. Len(Route) /\ sourceIdx + 1 \in 1 .. Len(Route)
  BY <1>3, <1>4
<1>6. /\ Len(routeArray[Destination]) = destinationIdx
      /\ \A l \in 1 .. destinationIdx : routeArray[Destination][l] = Route[l]
  BY <1>1, <1>2, <1>5, RouteToPart DEF Route, Destination
<1>7. RowFor(Source, [destination |-> Destination, nextHop |-> Route[sourceIdx + 1]])
  BY <1>5, <1>6 DEF RowFor, Source
<1> QED
  BY <1>2, <1>3, <1>4, <1>5, <1>7 DEF Source, Destination

\* The loops go on: their positions are right again, and if the pair they leave
\* has a row, all pairs passed have.
LEMMA OnwardWorks ==
  ASSUME DijkstraInv, TablesInv, Writing, Onward, UNCHANGED <<dijkstraVars, routeIdx>>,
         visited \subseteq visited', <<Source, Destination>> \in visited'
  PROVE  /\ sourceIdx' \in 0 .. n /\ destinationIdx' \in 0 .. n
         /\ Positions' /\ PairsWritten'
<1>1. /\ routeIdx \in Idx /\ n \in Nat
      /\ Len(Route) \in 1 .. n
      /\ sourceIdx \in 1 .. Len(Route) - 1
      /\ destinationIdx \in sourceIdx + 1 .. Len(Route)
  BY AtPair, SizeAssumption
<1>2. /\ routeIdx' = routeIdx /\ routeArray' = routeArray /\ Route' = Route
      /\ PairsWritten
  BY DEF dijkstraVars, Route, TablesInv, Writing
<1>3. /\ sourceIdx' \in 0 .. n /\ destinationIdx' \in 0 .. n
      /\ sourceIdx' \in 0 .. Len(Route) - 1
      /\ sourceIdx' > 0 => destinationIdx' \in sourceIdx' + 1 .. Len(Route)
  BY <1>1 DEF Onward
<1>4. Positions'
  <2>1. routeIdx \in Nat /\ routeIdx < n
    BY <1>1 DEF Idx
  <2>2. sourceIdx' \in 0 .. Len(Route') - 1
    BY <1>2, <1>3
  <2>3. sourceIdx' > 0 => destinationIdx' \in sourceIdx' + 1 .. Len(Route')
    BY <1>2, <1>3
  <2> QED
    BY <1>1, <1>2, <2>1, <2>2, <2>3 DEF Positions
<1>5. PairsWritten'
  <2>1. SUFFICES ASSUME NEW r \in Idx, NEW k \in 1 .. Len(routeArray[r]),
                        NEW l \in 1 .. Len(routeArray[r]), k < l,
                        \/ r < routeIdx
                        \/ r = routeIdx /\ k > sourceIdx'
                        \/ r = routeIdx /\ k = sourceIdx' /\ l > destinationIdx'
                 PROVE  <<routeArray[r][k], routeArray[r][l]>> \in visited'
    BY <1>2 DEF PairsWritten
  <2>2. CASE r = routeIdx /\ k = sourceIdx /\ l = destinationIdx
    BY <2>2 DEF Source, Destination, Route
  <2>3. CASE \/ r < routeIdx
             \/ r = routeIdx /\ k > sourceIdx
             \/ r = routeIdx /\ k = sourceIdx /\ l > destinationIdx
    BY <1>2, <2>1, <2>3 DEF PairsWritten
  <2>4. Len(routeArray[r]) \in Nat
    BY RouteTo DEF Writing
  <2> QED
    BY <1>1, <2>1, <2>2, <2>3, <2>4 DEF Onward, Route
<1> QED
  BY <1>3, <1>4, <1>5

\* A new row keeps the tables in order.
LEMMA NewRow ==
  ASSUME DijkstraInv, TablesInv, WriteRow
  PROVE  /\ visited' \subseteq Idx \X Idx
         /\ routingTables' \in [Idx -> Seq([destination : Idx, nextHop : Idx])]
         /\ (\A i \in Idx : RowsOf(i, routingTables[i], visited))'
<1> DEFINE row == [destination |-> Destination, nextHop |-> Route[sourceIdx + 1]]
           old == routingTables[Source]
           new == Append(old, row)
<1>1. /\ Source \in Idx /\ Destination \in Idx /\ Route[sourceIdx + 1] \in Idx
      /\ RowFor(Source, row)
  BY AtPair DEF WriteRow
<1>2. /\ visited \subseteq Idx \X Idx
      /\ routingTables \in [Idx -> Seq([destination : Idx, nextHop : Idx])]
      /\ \A i \in Idx : RowsOf(i, routingTables[i], visited)
  BY DEF TablesInv, TablesTypeOK
<1>3. /\ <<Source, Destination>> \notin visited
      /\ visited' = visited \cup {<<Source, Destination>>}
      /\ routingTables' = [routingTables EXCEPT ![Source] = new]
      /\ routeArray' = routeArray
  BY DEF WriteRow, IsNewPair, dijkstraVars
<1>4. row \in [destination : Idx, nextHop : Idx] /\ row.destination = Destination
  BY <1>1
<1> HIDE DEF row
<1>5. /\ old \in Seq([destination : Idx, nextHop : Idx])
      /\ new \in Seq([destination : Idx, nextHop : Idx])
      /\ DOMAIN new = 1 .. Len(old) + 1 /\ DOMAIN old = 1 .. Len(old) /\ Len(old) \in Nat
      /\ new[Len(old) + 1] = row
      /\ \A a \in DOMAIN old : new[a] = old[a]
  <2>1. old \in Seq([destination : Idx, nextHop : Idx])
    BY <1>1, <1>2
  <2> HIDE DEF old
  <2> QED
    BY <1>4, <2>1
<1>6. \A a \in DOMAIN old : old[a].destination \in Idx
  <2> DEFINE Row == [destination : Idx, nextHop : Idx]
  <2>1. \A x \in Row : x.destination \in Idx
    OBVIOUS
  <2>2. old \in Seq(Row)
    BY <1>5
  <2> HIDE DEF Row, old
  <2>3. \A a \in DOMAIN old : old[a] \in Row
    BY <2>2
  <2> QED
    BY <2>1, <2>3
<1>7. RowsOf(Source, old, visited)
  BY <1>1, <1>2
<1> HIDE DEF old, new
<1>8. ASSUME NEW i \in Idx \ {Source}
      PROVE  RowsOf(i, routingTables'[i], visited')
  <2>1. routingTables'[i] = routingTables[i]
    BY <1>2, <1>3, <1>8
  <2>2. \A j \in Idx : <<i, j>> \in visited' <=> <<i, j>> \in visited
    BY <1>3, <1>8
  <2> QED
    BY <1>2, <2>1, <2>2 DEF RowsOf
<1>9. RowsOf(Source, new, visited')
  <2>1. \A a \in DOMAIN old : new[a].destination # Destination
    BY <1>1, <1>3, <1>5, <1>7 DEF RowsOf
  <2>2. \A a, b \in DOMAIN new : new[a].destination = new[b].destination => a = b
    BY <1>4, <1>5, <1>7, <2>1 DEF RowsOf
  <2>3. ASSUME NEW j \in Idx
        PROVE  <<Source, j>> \in visited' <=> \E a \in DOMAIN new : new[a].destination = j
    <3>1. (\E a \in DOMAIN new : new[a].destination = j)
            <=> (j = Destination \/ \E a \in DOMAIN old : old[a].destination = j)
      BY <1>4, <1>5
    <3>2. <<Source, j>> \in visited' <=> (j = Destination \/ <<Source, j>> \in visited)
      BY <1>3
    <3> QED
      BY <1>7, <3>1, <3>2 DEF RowsOf
  <2>4. \A a \in DOMAIN new : RowFor(Source, new[a])
    BY <1>1, <1>5, <1>7 DEF RowsOf
  <2> QED
    BY <2>2, <2>3, <2>4 DEF RowsOf
<1>11. ASSUME NEW i \in Idx PROVE RowsOf(i, routingTables'[i], visited')
  BY <1>1, <1>2, <1>3, <1>8, <1>9
<1>12. (\A i \in Idx : RowsOf(i, routingTables[i], visited))'
  BY <1>3, <1>11 DEF RowsOf, RowFor
<1>10. routingTables' \in [Idx -> Seq([destination : Idx, nextHop : Idx])]
  BY <1>1, <1>2, <1>3, <1>5
<1>13. visited' \subseteq Idx \X Idx
  <2> HIDE DEF Idx
  <2> QED
    BY <1>1, <1>2, <1>3
<1> QED
  BY <1>10, <1>12, <1>13

\* Every step keeps the invariant.
LEMMA TablesGoOn ==
  ASSUME TablesInv, DijkstraInv, DijkstraInv', TablesNext
  PROVE  TablesInv'
<1>1. CASE Dijkstra
  BY <1>1, DijkstraStartsTables
<1>2. CASE WriteRow
  <2>1. /\ Writing /\ Onward /\ UNCHANGED <<dijkstraVars, routeIdx>>
        /\ visited \subseteq visited' /\ <<Source, Destination>> \in visited'
    BY <1>2 DEF WriteRow
  <2>2. /\ sourceIdx' \in 0 .. n /\ destinationIdx' \in 0 .. n
        /\ Positions' /\ PairsWritten'
    BY <2>1, OnwardWorks
  <2>3. routeIdx' \in 0 .. n /\ outcome' = "success"
    BY <2>1 DEF Writing, dijkstraVars, TablesInv, TablesTypeOK
  <2> QED
    BY <1>2, <2>2, <2>3, NewRow DEF TablesInv, TablesTypeOK
<1>3. CASE SkipPair
  <2>1. /\ Writing /\ Onward /\ UNCHANGED <<dijkstraVars, routeIdx>>
        /\ visited \subseteq visited' /\ <<Source, Destination>> \in visited'
        /\ visited' = visited /\ routingTables' = routingTables /\ routeArray' = routeArray
    BY <1>3 DEF SkipPair, IsNewPair, dijkstraVars
  <2>2. /\ sourceIdx' \in 0 .. n /\ destinationIdx' \in 0 .. n
        /\ Positions' /\ PairsWritten'
    BY <2>1, OnwardWorks
  <2>3. TablesTypeOK' /\ outcome' = "success"
    BY <2>1, <2>2 DEF Writing, dijkstraVars, TablesInv, TablesTypeOK
  <2>4. (\A i \in Idx : RowsOf(i, routingTables[i], visited))'
    BY <2>1 DEF TablesInv, RowsOf, RowFor
  <2> QED
    BY <2>2, <2>3, <2>4 DEF TablesInv
<1>4. CASE NextRoute
  <2>1. /\ outcome = "success" /\ outcome' = "success" /\ routeArray' = routeArray
        /\ routeIdx < n /\ sourceIdx = 0 /\ routeIdx' = routeIdx + 1
        /\ sourceIdx' = LastSource(routeIdx + 1)
        /\ destinationIdx' = LastDestination(routeIdx + 1)
        /\ visited' = visited /\ routingTables' = routingTables
    BY <1>4 DEF NextRoute, dijkstraVars
  <2>2. n \in Nat /\ routeIdx \in Idx /\ routeIdx + 1 \in 0 .. n
    BY <2>1, SizeAssumption DEF TablesInv, TablesTypeOK, Idx
  <2>3. \A j \in Idx : Len(routeArray[j]) \in 1 .. n
    BY <2>1, RouteTo
  <2>4. ASSUME routeIdx + 1 \in Idx
        PROVE  sourceIdx' \in 0 .. n /\ destinationIdx' \in 0 .. n /\ Positions'
    <3>1. /\ sourceIdx' = Len(routeArray[routeIdx + 1]) - 1
          /\ destinationIdx' = Len(routeArray[routeIdx + 1])
          /\ Len(routeArray[routeIdx + 1]) \in 1 .. n
          /\ routeIdx + 1 # n
      BY <2>1, <2>2, <2>3, <2>4 DEF LastSource, LastDestination, Idx
    <3>2. Route' = routeArray[routeIdx + 1]
      BY <2>1 DEF Route
    <3>3. Positions'
      BY <2>1, <2>2, <3>1, <3>2 DEF Positions
    <3> QED
      BY <2>2, <3>1, <3>3
  <2>5. ASSUME routeIdx + 1 \notin Idx
        PROVE  sourceIdx' \in 0 .. n /\ destinationIdx' \in 0 .. n /\ Positions'
    <3>1. sourceIdx' = 0 /\ destinationIdx' = 0 /\ routeIdx' = n
      BY <2>1, <2>2, <2>5 DEF LastSource, LastDestination, Idx
    <3> QED
      BY <2>2, <3>1 DEF Positions
  <2>6. sourceIdx' \in 0 .. n /\ destinationIdx' \in 0 .. n /\ Positions'
    BY <2>4, <2>5
  <2>7. TablesTypeOK'
    BY <2>1, <2>2, <2>6 DEF TablesInv, TablesTypeOK
  <2>8. PairsWritten'
    <3>1. SUFFICES ASSUME NEW r \in Idx, NEW k \in 1 .. Len(routeArray[r]),
                          NEW l \in 1 .. Len(routeArray[r]), k < l,
                          \/ r < routeIdx + 1
                          \/ r = routeIdx + 1 /\ k > sourceIdx'
                          \/ r = routeIdx + 1 /\ k = sourceIdx' /\ l > destinationIdx'
                   PROVE  <<routeArray[r][k], routeArray[r][l]>> \in visited
      BY <2>1 DEF PairsWritten
    <3>2. Len(routeArray[r]) \in 1 .. n
      BY <2>3
    <3>3. r \in Nat /\ r < routeIdx + 1
      BY <2>1, <2>2, <3>1, <3>2 DEF LastSource, LastDestination, Idx
    <3>4. r < routeIdx \/ (r = routeIdx /\ k > sourceIdx)
      BY <2>1, <2>2, <3>2, <3>3 DEF Idx
    <3> QED
      BY <2>1, <3>1, <3>4 DEF TablesInv, PairsWritten
  <2>9. (\A i \in Idx : RowsOf(i, routingTables[i], visited))'
    BY <2>1 DEF TablesInv, RowsOf, RowFor
  <2> QED
    BY <2>1, <2>6, <2>7, <2>8, <2>9 DEF TablesInv
<1> QED
  BY <1>1, <1>2, <1>3, <1>4 DEF TablesNext

-----------------------------------------------------------------------------
(***************************************************************************)
(* What the invariant says of the tables.                                  *)
(***************************************************************************)

\* A row of i leads to another node, over a route that passes i.
LEMMA RowLeads ==
  ASSUME DijkstraInv, outcome = "success", NEW i \in Idx, NEW d \in Idx, NEW h,
         RowFor(i, [destination |-> d, nextHop |-> h])
  PROVE  /\ d # i
         /\ \E k \in 1 .. Len(routeArray[d]) - 1 :
              routeArray[d][k] = i /\ h = routeArray[d][k + 1]
<1>1. PICK k \in 1 .. Len(routeArray[d]) - 1 :
        routeArray[d][k] = i /\ h = routeArray[d][k + 1]
  BY DEF RowFor
<1>2. /\ Len(routeArray[d]) \in 1 .. n
      /\ routeArray[d][Len(routeArray[d])] = d
      /\ \A l, m \in 1 .. Len(routeArray[d]) : routeArray[d][l] = routeArray[d][m] => l = m
  BY RouteTo
<1>3. /\ k \in 1 .. Len(routeArray[d]) /\ Len(routeArray[d]) \in 1 .. Len(routeArray[d])
      /\ k # Len(routeArray[d])
  BY <1>2
<1> QED
  BY <1>1, <1>2, <1>3

\* The rows of a table by their number.
LEMMA TableTypes ==
  ASSUME TablesInv, NEW i \in Idx
  PROVE  /\ Len(routingTables[i]) \in Nat
         /\ DOMAIN routingTables[i] = 1 .. Len(routingTables[i])
         /\ \A a \in DOMAIN routingTables[i] :
              LET row == routingTables[i][a]
              IN  /\ row.destination \in Idx /\ row.nextHop \in Idx
                  /\ row = [destination |-> row.destination, nextHop |-> row.nextHop]
<1> DEFINE t == routingTables[i]
           Row == [destination : Idx, nextHop : Idx]
<1>1. t \in Seq(Row)
  BY DEF TablesInv, TablesTypeOK
<1>2. \A x \in Row : /\ x.destination \in Idx /\ x.nextHop \in Idx
                     /\ x = [destination |-> x.destination, nextHop |-> x.nextHop]
  OBVIOUS
<1> HIDE DEF t, Row
<1>3. Len(t) \in Nat /\ DOMAIN t = 1 .. Len(t) /\ \A a \in DOMAIN t : t[a] \in Row
  BY <1>1
<1> QED
  BY <1>2, <1>3 DEF t

\* No table has more rows than it has room for.
LEMMA TablesFit == TablesInv /\ (outcome = "success" => DijkstraInv) => RowsFit
<1> SUFFICES ASSUME TablesInv, outcome = "success" => DijkstraInv, NEW i \in Idx
             PROVE  /\ Len(routingTables[i]) <= n - 1
                    /\ Len(routingTables[i]) = Cardinality(Destinations(i))
  BY DEF RowsFit
<1> DEFINE t == routingTables[i]
           D == Destinations(i)
           f == [a \in 1 .. Len(t) |-> t[a].destination]
<1>1. /\ Len(t) \in Nat /\ DOMAIN t = 1 .. Len(t)
      /\ \A a \in 1 .. Len(t) :
           /\ t[a].destination \in Idx
           /\ t[a] = [destination |-> t[a].destination, nextHop |-> t[a].nextHop]
  BY TableTypes
<1>2. RowsOf(i, t, visited)
  BY DEF TablesInv
<1>3. D = {t[a].destination : a \in 1 .. Len(t)}
  BY <1>1 DEF Destinations, Rows
<1>4. D \subseteq Idx \ {i}
  <2>1. SUFFICES ASSUME NEW a \in 1 .. Len(t) PROVE t[a].destination # i
    BY <1>1, <1>3
  <2>2. CASE outcome = "success"
    <3>1. RowFor(i, [destination |-> t[a].destination, nextHop |-> t[a].nextHop])
      BY <1>1, <1>2 DEF RowsOf
    <3> QED
      BY <1>1, <2>2, <3>1, RowLeads
  <2>3. CASE outcome # "success"
    BY <2>3 DEF TablesInv, Untouched
  <2> QED
    BY <2>2, <2>3
<1>5. ExistsBijection(1 .. Len(t), D)
  <2>1. f \in [1 .. Len(t) -> D] /\ \A y \in D : \E a \in 1 .. Len(t) : f[a] = y
    BY <1>3
  <2>2. IsInjective(f)
    BY <1>1, <1>2 DEF RowsOf, IsInjective
  <2> HIDE DEF f, D
  <2>3. f \in Bijection(1 .. Len(t), D)
    BY <2>1, <2>2 DEF Bijection, Injection, Surjection
  <2> QED
    BY <2>3 DEF ExistsBijection
<1> HIDE DEF t, D
<1>6. Cardinality(D) = Len(t)
  BY <1>1, <1>5, FS_CountingElements
<1>7. IsFiniteSet(Idx \ {i}) /\ Cardinality(Idx \ {i}) = n - 1
  <2> HIDE DEF Idx
  <2> QED
    BY IdxFinite, FS_RemoveElement
<1>8. Cardinality(D) <= n - 1
  BY <1>4, <1>7, FS_Subset
<1> QED
  BY <1>6, <1>8 DEF t, D

\* When all is written the rows of i are those of the routes that pass i.
LEMMA RowsAreRoutes ==
  ASSUME DijkstraInv, TablesInv, Done, NEW i \in Idx, NEW j \in Idx, NEW h
  PROVE  (\E row \in Rows(i) : row.destination = j /\ row.nextHop = h)
           <=> \E k \in 1 .. Len(routeArray[j]) - 1 :
                 routeArray[j][k] = i /\ routeArray[j][k + 1] = h
<1> DEFINE t == routingTables[i]
           R == routeArray[j]
<1>1. outcome = "success" /\ routeIdx = n /\ n \in Nat /\ RowsOf(i, t, visited) /\ PairsWritten
  BY SizeAssumption DEF Done, TablesInv
<1>2. /\ DOMAIN t = 1 .. Len(t)
      /\ \A a \in DOMAIN t : t[a] = [destination |-> t[a].destination, nextHop |-> t[a].nextHop]
  BY TableTypes
<1>3. /\ Len(R) \in 1 .. n /\ R[Len(R)] = j
      /\ \A k, l \in 1 .. Len(R) : R[k] = R[l] => k = l
  BY <1>1, RouteTo
<1>4. ASSUME NEW a \in DOMAIN t, t[a].destination = j
      PROVE  \E k \in 1 .. Len(R) - 1 : R[k] = i /\ R[k + 1] = t[a].nextHop
  <2>1. RowFor(i, t[a])
    BY <1>1 DEF RowsOf
  <2> QED
    BY <1>4, <2>1 DEF RowFor
<1>5. ASSUME NEW k \in 1 .. Len(R) - 1, R[k] = i
      PROVE  \E a \in DOMAIN t : t[a].destination = j /\ t[a].nextHop = R[k + 1]
  <2>1. j < routeIdx /\ k \in 1 .. Len(R) /\ Len(R) \in 1 .. Len(R) /\ k < Len(R)
    BY <1>1, <1>3 DEF Idx
  <2>2. <<R[k], R[Len(R)]>> \in visited
    BY <1>1, <2>1 DEF PairsWritten
  <2>3. PICK a \in DOMAIN t : t[a].destination = j
    BY <1>1, <1>3, <1>5, <2>2 DEF RowsOf
  <2>4. PICK l \in 1 .. Len(R) - 1 : R[l] = i /\ R[l + 1] = t[a].nextHop
    BY <1>4, <2>3
  <2>5. l = k
    BY <1>3, <1>5, <2>4
  <2> QED
    BY <2>3, <2>4, <2>5
<1>6. (\E row \in Rows(i) : row.destination = j /\ row.nextHop = h)
        <=> \E a \in DOMAIN t : t[a].destination = j /\ t[a].nextHop = h
  BY DEF Rows
<1>7. ASSUME NEW k \in 1 .. Len(R) - 1, R[k] = i, R[k + 1] = h
      PROVE  \E a \in DOMAIN t : t[a].destination = j /\ t[a].nextHop = h
  BY <1>5, <1>7
<1>8. ASSUME NEW a \in DOMAIN t, t[a].destination = j, t[a].nextHop = h
      PROVE  \E k \in 1 .. Len(R) - 1 : R[k] = i /\ R[k + 1] = h
  BY <1>4, <1>8
<1> HIDE DEF t, R
<1> QED
  BY <1>6, <1>7, <1>8 DEF R

\* The printout tells the same as the tables.
LEMMA PrintoutAgrees ==
  TablesInv /\ (outcome = "success" => DijkstraInv) => PrintoutAgreesWithTables
<1> SUFFICES ASSUME TablesInv, DijkstraInv, Done, NEW i \in Idx, NEW j \in Idx
             PROVE  /\ (i # j /\ PathLen(i, j) # -1) <=> j \in Destinations(i)
                    /\ \A row \in Rows(i) : row.destination = j =>
                         PathLen(row.nextHop, j) = PathLen(i, j) + Weight(i, row.nextHop)
  BY DEF PrintoutAgreesWithTables, Done
<1> DEFINE R == routeArray[j]
<1>1. outcome = "success"
  BY DEF Done
<1>2. /\ Len(R) \in 1 .. n /\ R[Len(R)] = j /\ DOMAIN R = 1 .. Len(R)
      /\ \A k \in 1 .. Len(R) : R[k] \in Idx
      /\ \A k, l \in 1 .. Len(R) : R[k] = R[l] => k = l
  BY <1>1, RouteTo
<1>3. ASSUME NEW a \in Idx
      PROVE  /\ distanceArray[a] \in Nat /\ distanceArray[a] # -1
             /\ PathLen(a, j) # -1 <=> \E k \in 1 .. Len(R) : R[k] = a
             /\ (\E k \in 1 .. Len(R) : R[k] = a) => PathLen(a, j) = distanceArray[a]
  <2>1. distanceArray[a] \in Nat
    BY Arithmetic DEF DijkstraInv
  <2> QED
    BY <1>2, <2>1 DEF PathLen
<1>4. (i # j /\ \E k \in 1 .. Len(R) : R[k] = i) <=> \E k \in 1 .. Len(R) - 1 : R[k] = i
  BY <1>2
<1>5. j \in Destinations(i) <=> \E k \in 1 .. Len(R) - 1 : R[k] = i
  <2>1. j \in Destinations(i) <=> \E row \in Rows(i) : row.destination = j
    BY DEF Destinations
  <2>2. ASSUME NEW h
        PROVE  (\E row \in Rows(i) : row.destination = j /\ row.nextHop = h)
                 <=> \E k \in 1 .. Len(R) - 1 : R[k] = i /\ R[k + 1] = h
    BY RowsAreRoutes
  <2>3. ASSUME NEW row \in Rows(i), row.destination = j
        PROVE  \E k \in 1 .. Len(R) - 1 : R[k] = i
    BY <2>2, <2>3
  <2>4. ASSUME NEW k \in 1 .. Len(R) - 1, R[k] = i
        PROVE  \E row \in Rows(i) : row.destination = j
    BY <2>2, <2>4
  <2> QED
    BY <2>1, <2>3, <2>4
<1>6. ASSUME NEW row \in Rows(i), row.destination = j
      PROVE  PathLen(row.nextHop, j) = PathLen(i, j) + Weight(i, row.nextHop)
  <2>1. PICK k \in 1 .. Len(R) - 1 : R[k] = i /\ R[k + 1] = row.nextHop
    BY <1>6, RowsAreRoutes
  <2>2. k \in 1 .. Len(R) /\ k + 1 \in 1 .. Len(R)
    BY <1>2
  <2>3. PathLen(i, j) = distanceArray[i] /\ PathLen(row.nextHop, j) = distanceArray[row.nextHop]
    BY <1>2, <1>3, <2>1, <2>2
  <2>4. distanceArray[R[k + 1]] = distanceArray[R[k]] + Weight(R[k], R[k + 1])
    BY <1>1, RouteStep
  <2> QED
    BY <2>1, <2>3, <2>4
<1> QED
  BY <1>3, <1>4, <1>5, <1>6

-----------------------------------------------------------------------------
(***************************************************************************)
(* Validation and dijkstra put together.                                   *)
(***************************************************************************)

\* What the nodes reported, and that the validation is done before dijkstra is
\* called.
Handover ==
    /\ \A k \in DOMAIN reports : n * reports[k].weight < INT_MAX
    /\ phase = "success" => \A k \in DOMAIN reports : reports[k].to \in Addr
    /\ ~Waiting => phase = "success"

\* The adjacency matrix of the reports, by index.
MatrixOf(m) == [i \in Idx |-> [j \in Idx |-> m[indexToAddress[i]][indexToAddress[j]]]]

\* Nothing of dijkstra is set before it is called, it works on the matrix of the
\* reports, and it is not called without a source.
Computed ==
    /\ Waiting => /\ visitedArray = {} /\ iteration = 0
                  /\ routeArray = [i \in Idx |-> <<>>]
    /\ ~Waiting /\ source \in Addr => /\ DijkstraInv
                                      /\ indexToAddress[src] = source
                                      /\ adjacencyMatrix = MatrixOf(matrix)
    /\ source \notin Addr => outcome \in {"waiting", "failure"} /\ visitedArray = {}

\* The inductive invariant, next to that of the validation.
ServerInv == Handover /\ Computed /\ TablesInv

-----------------------------------------------------------------------------
\* A matrix of the agreed edges, by index, is one that dijkstra can work on.
LEMMA MatrixByIndex ==
  ASSUME IInv, Handover, phase = "success",
         NEW m, m = MatrixOf(matrix)
  PROVE  m \in [Idx -> [Idx -> Nat]] /\ IsMatrix(m)
<1>1. /\ indexToAddress \in [Idx -> Addr] /\ matrix \in [Addr -> [Addr -> Nat]]
      /\ MatrixIsTheGraph
  BY IndexAssumption DEF IInv, TypeOK
<1>2. m \in [Idx -> [Idx -> Nat]]
  BY <1>1 DEF MatrixOf
<1>3. ASSUME NEW a \in Addr, NEW b \in Addr, matrix[a][b] # 0
      PROVE  a # b /\ \E k \in DOMAIN reports : reports[k].weight = matrix[a][b]
  <2>1. DualReported({a, b}, matrix[a][b])
    BY <1>1, <1>3 DEF MatrixIsTheGraph
  <2>2. PICK i \in DOMAIN reports, j \in DOMAIN reports :
          /\ Edge(reports[i]) = {a, b} /\ reports[i].weight = matrix[a][b]
          /\ Edge(reports[j]) = {a, b} /\ reports[i].from # reports[j].from
    BY <2>1 DEF DualReported
  <2>3. reports[i].from \in {a, b} /\ reports[j].from \in {a, b}
    BY <2>2 DEF Edge
  <2>4. a # b
    BY <2>2, <2>3
  <2> QED
    BY <2>2, <2>4
<1>4. SUFFICES ASSUME NEW i \in Idx, NEW j \in Idx
               PROVE  m[i][j] = m[j][i] /\ m[i][i] = 0 /\ n * m[i][j] < INT_MAX
  BY <1>2 DEF IsMatrix
<1> DEFINE a == indexToAddress[i]
           b == indexToAddress[j]
<1>5. /\ a \in Addr /\ b \in Addr
      /\ m[i][j] = matrix[a][b] /\ m[j][i] = matrix[b][a] /\ m[i][i] = matrix[a][a]
  BY <1>1 DEF MatrixOf
<1>6. m[i][j] = m[j][i]
  BY <1>1, <1>5 DEF MatrixIsTheGraph
<1>7. m[i][i] = 0
  BY <1>3, <1>5
<1>8. n * m[i][j] < INT_MAX
  <2>1. CASE m[i][j] = 0
    BY <2>1, SizeAssumption
  <2>2. CASE m[i][j] # 0
    <3>1. PICK k \in DOMAIN reports : reports[k].weight = matrix[a][b]
      BY <1>3, <1>5, <2>2
    <3>2. n * reports[k].weight < INT_MAX
      BY DEF Handover
    <3> QED
      BY <1>5, <3>1, <3>2
  <2> QED
    BY <2>1, <2>2
<1> QED
  BY <1>6, <1>7, <1>8

\* The initial state.
LEMMA ServerStarts == ServerInit => ServerInv
<1> SUFFICES ASSUME ServerInit PROVE ServerInv
  OBVIOUS
<1>1. \A k \in DOMAIN reports : n * reports[k].weight < INT_MAX
  BY WeightsAssumption DEF ServerInit, Init
<1>2. Untouched /\ outcome # "success"
  BY DEF ServerInit, Untouched
<1>3. TablesInv
  BY <1>2, TablesStart
<1> QED
  BY <1>1, <1>3 DEF ServerInit, Init, ServerInv, Handover, Computed, Waiting

\* The server makes the steps of the validation and no other on its variables.
LEMMA ServerValidates == [ServerNext]_serverVars => [Next]_vars
BY DEF ServerNext, serverVars, Validation, NoSource, StartDijkstra, Computation

\* The reports stay, and so does a validation that is done; it is done only if
\* all neighbors exist.
LEMMA ValidationStays ==
  ASSUME [Next]_vars
  PROVE  /\ reports' = reports
         /\ phase = "success" => phase' = "success" /\ matrix' = matrix
         /\ phase # "success" /\ phase' = "success" =>
              \A k \in DOMAIN reports : reports[k].to \in Addr
BY DEF Next, vars, FailSearch, CountReport, AddCounter, AddInvalidEdge, AllReportsRead,
   CheckDualReport, AllCountersChecked, CreateAdjacencyMatrix

\* What the invariants of dijkstra and the tables are about stays when their
\* variables do.
LEMMA DijkstraStutters == DijkstraInv /\ UNCHANGED dijkstraVars => DijkstraInv'
BY DijkstraGoesOn

LEMMA TablesStay ==
  ASSUME TablesInv, UNCHANGED <<dijkstraVars, tableVars>>
  PROVE  TablesInv'
<1>1. /\ outcome' = outcome /\ routeArray' = routeArray
      /\ UNCHANGED tableVars
  BY DEF dijkstraVars
<1>2. TablesTypeOK' /\ (outcome # "success" => Untouched)'
  BY <1>1 DEF TablesInv, tableVars, TablesTypeOK, Untouched
<1>3. (outcome = "success" => Positions /\ PairsWritten)'
  BY <1>1 DEF TablesInv, tableVars, Positions, PairsWritten, Route
<1>4. (\A i \in Idx : RowsOf(i, routingTables[i], visited))'
  BY <1>1 DEF TablesInv, tableVars, RowsOf, RowFor
<1> QED
  BY <1>2, <1>3, <1>4 DEF TablesInv

\* Dijkstra is called.
LEMMA CallStartsDijkstra ==
  ASSUME IInv, ServerInv, StartDijkstra
  PROVE  /\ DijkstraInv'
         /\ indexToAddress[src'] = source
         /\ adjacencyMatrix' = MatrixOf(matrix)
<1>1. adjacencyMatrix' = MatrixOf(matrix)
  BY DEF StartDijkstra, MatrixOf
<1>2. adjacencyMatrix' \in [Idx -> [Idx -> Nat]] /\ IsMatrix(adjacencyMatrix')
  BY <1>1, MatrixByIndex DEF StartDijkstra, ServerInv
<1>3. Started'
  BY <1>2 DEF Started, StartDijkstra, ServerInv, Computed, IsMatrix
<1>4. (Started => DijkstraInv)'
  BY DijkstraStarts, PTL
<1> QED
  BY <1>1, <1>3, <1>4 DEF StartDijkstra, IsSource

\* Every step keeps the invariant.
LEMMA ServerGoesOn ==
  ASSUME IInv, ServerInv, [ServerNext]_serverVars
  PROVE  ServerInv'
<1>1. [Next]_vars
  BY ServerValidates
<1>2. Handover'
  <2>1. ~Waiting => phase = "success"
    BY DEF ServerInv, Handover
  <2>2. Waiting /\ ~Waiting' => phase = "success"
    BY DEF ServerNext, serverVars, dijkstraVars, Validation, NoSource, StartDijkstra,
       Computation, TablesNext, Dijkstra, WriteRow, SkipPair, NextRoute, DijkstraNext, Visit,
       VisitFails, Waiting
  <2> QED
    BY <1>1, <2>1, <2>2, ValidationStays DEF ServerInv, Handover
<1>3. CASE StartDijkstra
  <2>1. TablesInv'
    BY <1>3, TablesStutter DEF StartDijkstra, ServerInv, Waiting
  <2> QED
    BY <1>2, <1>3, <2>1, CallStartsDijkstra DEF StartDijkstra, ServerInv, Computed, Waiting,
       vars, MatrixOf
<1>4. CASE NoSource
  <2>1. TablesInv'
    BY <1>4, TablesStutter DEF NoSource, ServerInv, Waiting
  <2> QED
    BY <1>2, <1>4, <2>1 DEF NoSource, ServerInv, Computed, Waiting
<1>5. CASE Computation
  <2>1. ~Waiting /\ source \in Addr /\ source' = source /\ matrix' = matrix
    BY <1>5 DEF Computation, TablesNext, Dijkstra, WriteRow, SkipPair, NextRoute, Writing,
       DijkstraNext, Visit, VisitFails, ServerInv, Computed, Waiting, vars
  <2>2. DijkstraInv
    BY <2>1 DEF ServerInv, Computed
  <2>3. [DijkstraNext]_dijkstraVars
    BY <1>5 DEF Computation, TablesNext, Dijkstra, WriteRow, SkipPair, NextRoute
  <2>4. DijkstraInv'
    BY <2>2, <2>3, DijkstraGoesOn
  <2>5. TablesInv'
    BY <1>5, <2>2, <2>4, TablesGoOn DEF Computation, ServerInv
  <2>6. ~Waiting' /\ src' = src /\ adjacencyMatrix' = adjacencyMatrix
    BY <2>1, <2>3 DEF DijkstraNext, Visit, VisitFails, dijkstraVars, Waiting
  <2> QED
    BY <1>2, <2>1, <2>4, <2>5, <2>6 DEF ServerInv, Computed, MatrixOf
<1>6. CASE Validation \/ UNCHANGED serverVars
  <2>1. UNCHANGED <<dijkstraVars, tableVars, source>>
    BY <1>6 DEF Validation, serverVars
  <2>2. DijkstraInv => DijkstraInv'
    BY <2>1, DijkstraStutters
  <2>3. TablesInv'
    BY <2>1, TablesStay DEF ServerInv
  <2>4. ~Waiting => matrix' = matrix
    BY <1>1, ValidationStays DEF ServerInv, Handover
  <2> QED
    BY <1>2, <2>1, <2>2, <2>3, <2>4 DEF ServerInv, Computed, Waiting, dijkstraVars, MatrixOf
<1> QED
  BY <1>3, <1>4, <1>5, <1>6 DEF ServerNext

-----------------------------------------------------------------------------
\* What is proved of the validation alone holds of it in the server.
THEOREM ServerImplementsValidation == ServerSpec => Spec
<1>1. ServerInit => Init
  BY DEF ServerInit
<1> QED
  BY <1>1, ServerValidates, PTL DEF ServerSpec, Spec

\* Validation, handover and Dijkstra, from any reports in any order.
THEOREM ServerInvariance == ServerSpec => [](IInv /\ ServerInv)
<1>1. ServerSpec => []IInv
  BY ServerImplementsValidation, Invariance, PTL
<1>2. IInv /\ ServerInv /\ [ServerNext]_serverVars => ServerInv'
  BY ServerGoesOn
<1> QED
  BY <1>1, <1>2, ServerStarts, PTL DEF ServerSpec

\* Whatever the nodes report, dijkstra is run on a symmetric matrix without self
\* loops, by index, and its arrays never leave their types.
THEOREM DijkstraAlwaysFed == ServerSpec => []DijkstraIsFed
<1>1. ServerInv => DijkstraIsFed
  BY DEF ServerInv, Computed, DijkstraInv, DijkstraIsFed
<1> QED
  BY <1>1, ServerInvariance, PTL

\* All arrays keep to their types, from the first report to the last row.
THEOREM ServerTypeCorrect == ServerSpec => []ServerTypeOK
<1>1. IInv /\ ServerInv => ServerTypeOK
  BY DEF IInv, ServerInv, Computed, DijkstraInv, TablesInv, ServerTypeOK, DijkstraIsFed
<1> QED
  BY <1>1, ServerInvariance, PTL

\* The matrix is that of the agreed edges.
THEOREM ServerMatrixCorrect == ServerSpec => []MatrixIsTheGraph
BY ServerImplementsValidation, MatrixCorrect, PTL

\* The routes the server computes from any reports are a tree of edges.
THEOREM ServerRoutesFormTree == ServerSpec => []RoutesFormTree
<1>1. ServerInv => RoutesFormTree
  BY DEF ServerInv, Computed, DijkstraInv, RoutesFormTree
<1> QED
  BY <1>1, ServerInvariance, PTL

\* And they are shortest: no edge offers a shorter way.
THEOREM ServerRoutesShortest == ServerSpec => []NoShortcut
<1>1. ServerInv => NoShortcut
  BY AllRelaxed DEF ServerInv, Computed, Waiting, NoShortcut
<1> QED
  BY <1>1, ServerInvariance, PTL

\* No routing table has more rows than malloc made room for, and none has two
\* for one destination.
THEOREM ServerRowsFit == ServerSpec => []RowsFit
<1>1. ServerInv => RowsFit
  BY TablesFit DEF ServerInv, Computed, Waiting
<1> QED
  BY <1>1, ServerInvariance, PTL

\* What the server prints is what it sends.
THEOREM ServerPrintsItsTables == ServerSpec => []PrintoutAgreesWithTables
<1>1. ServerInv => PrintoutAgreesWithTables
  BY PrintoutAgrees DEF ServerInv, Computed, Waiting
<1> QED
  BY <1>1, ServerInvariance, PTL

-----------------------------------------------------------------------------
(***************************************************************************)
(* Sums along a path.                                                      *)
(***************************************************************************)

\* Every set of natural numbers has a least one.
LEMMA LeastNumber ==
  ASSUME NEW S, S \subseteq Nat, S # {}
  PROVE  \E m \in S : \A q \in S : m <= q
<1> DEFINE R == OpToRel(<, Nat)
<1>1. IsWellFoundedOn(R, Nat)
  BY NatLessThanWellFounded
<1>2. R = {ss \in Nat \X Nat : ss[1] < ss[2]}
  BY DEF OpToRel
<1> HIDE DEF R
<1>3. PICK m \in S : \A y \in S : <<y, m>> \notin R
  BY <1>1, WFMin
<1>4. \A y \in S : ~ (y < m)
  BY <1>2, <1>3
<1> QED
  BY <1>4

\* A set with 1 that has with every k below m also k + 1 has them all.
LEMMA Upwards ==
  ASSUME NEW m \in Nat, NEW P, 1 \in P,
         \A k \in 1 .. m - 1 : k \in P => k + 1 \in P
  PROVE  \A k \in 1 .. m : k \in P
<1> DEFINE S == {k \in 1 .. m : k \notin P}
<1>1. SUFFICES ASSUME S # {} PROVE FALSE
  OBVIOUS
<1>2. S \subseteq Nat /\ 1 \notin S
  OBVIOUS
<1> HIDE DEF S
<1>3. PICK q \in S : \A r \in S : q <= r
  BY <1>1, <1>2, LeastNumber
<1> USE DEF S
<1>4. q \in 2 .. m
  OBVIOUS
<1>5. q - 1 \in 1 .. m - 1 /\ q - 1 < q /\ (q - 1) + 1 = q
  BY <1>4
<1>6. q - 1 \in P
  BY <1>3, <1>5
<1> QED
  BY <1>4, <1>5, <1>6

\* f sums the weights w up to each position.
SumsUpTo(f, w, m) == f = [k \in 1 .. m |-> IF k = 1 THEN 0 ELSE f[k - 1] + w[k]]

\* There is such a function.
LEMMA SumsExist ==
  ASSUME NEW m \in Nat \ {0}, NEW w, \A k \in 2 .. m : w[k] \in Nat
  PROVE  \E f : SumsUpTo(f, w, m)
<1> DEFINE P == {q \in Nat : \E f \in [1 .. q -> Nat] : SumsUpTo(f, w, q)}
<1>1. 1 \in P
  <2> DEFINE f == [k \in 1 .. 1 |-> 0]
  <2>1. f \in [1 .. 1 -> Nat] /\ SumsUpTo(f, w, 1)
    BY DEF SumsUpTo
  <2> QED
    BY <2>1
<1>2. ASSUME NEW q \in 1 .. m - 1, q \in P
      PROVE  q + 1 \in P
  <2>1. PICK f \in [1 .. q -> Nat] : SumsUpTo(f, w, q)
    BY <1>2
  <2> DEFINE g == [k \in 1 .. q + 1 |-> IF k = q + 1 THEN f[q] + w[k] ELSE f[k]]
  <2>2. w[q + 1] \in Nat /\ f[q] \in Nat
    OBVIOUS
  <2>3. g \in [1 .. q + 1 -> Nat]
    BY <2>2
  <2>4. ASSUME NEW k \in 1 .. q + 1
        PROVE  g[k] = IF k = 1 THEN 0 ELSE g[k - 1] + w[k]
    <3>1. CASE k = q + 1
      BY <3>1
    <3>2. CASE k # q + 1
      <4>1. k \in 1 .. q /\ (k # 1 => k - 1 \in 1 .. q /\ k - 1 # q + 1 /\ k - 1 \in 1 .. q + 1)
        BY <3>2
      <4>2. f[k] = IF k = 1 THEN 0 ELSE f[k - 1] + w[k]
        BY <2>1, <4>1 DEF SumsUpTo
      <4> QED
        BY <3>2, <4>1, <4>2
    <3> QED
      BY <3>1, <3>2
  <2>5. SumsUpTo(g, w, q + 1)
    BY <2>4 DEF SumsUpTo
  <2> QED
    BY <2>3, <2>5
<1> HIDE DEF P
<1>3. \A k \in 1 .. m : k \in P
  BY <1>1, <1>2, Upwards
<1> QED
  BY <1>3 DEF P

\* A function that grows by no more than the weights stays below the sums.
LEMMA SumsAbove ==
  ASSUME NEW m \in Nat \ {0}, NEW w, \A k \in 2 .. m : w[k] \in Nat,
         NEW f, SumsUpTo(f, w, m),
         NEW g, \A k \in 1 .. m : g[k] \in Nat,
         g[1] = 0, \A k \in 2 .. m : g[k] <= g[k - 1] + w[k]
  PROVE  f[m] \in Nat /\ g[m] <= f[m]
<1> DEFINE P == {k \in 1 .. m : f[k] \in Nat /\ g[k] <= f[k]}
<1>1. 1 \in P
  BY DEF SumsUpTo
<1>2. ASSUME NEW q \in 1 .. m - 1, q \in P
      PROVE  q + 1 \in P
  <2>1. q + 1 \in 2 .. m /\ q \in 1 .. m /\ (q + 1) - 1 = q
    OBVIOUS
  <2>2. f[q + 1] = f[q] + w[q + 1]
    BY <2>1 DEF SumsUpTo
  <2>3. g[q + 1] <= g[q] + w[q + 1] /\ g[q] \in Nat /\ g[q + 1] \in Nat /\ w[q + 1] \in Nat
    BY <2>1
  <2> QED
    BY <1>2, <2>1, <2>2, <2>3
<1> HIDE DEF P
<1>3. \A k \in 1 .. m : k \in P
  BY <1>1, <1>2, Upwards
<1> QED
  BY <1>3 DEF P

\* One that grows by the weights is the sums.
LEMMA SumsAre ==
  ASSUME NEW m \in Nat \ {0}, NEW w,
         NEW f, SumsUpTo(f, w, m),
         NEW g, g[1] = 0, \A k \in 2 .. m : g[k] = g[k - 1] + w[k]
  PROVE  f[m] = g[m]
<1> DEFINE P == {k \in 1 .. m : f[k] = g[k]}
<1>1. 1 \in P
  BY DEF SumsUpTo
<1>2. ASSUME NEW q \in 1 .. m - 1, q \in P
      PROVE  q + 1 \in P
  <2>1. q + 1 \in 2 .. m /\ q \in 1 .. m /\ (q + 1) - 1 = q
    OBVIOUS
  <2>2. f[q + 1] = f[q] + w[q + 1]
    BY <2>1 DEF SumsUpTo
  <2> QED
    BY <1>2, <2>1, <2>2
<1> HIDE DEF P
<1>3. \A k \in 1 .. m : k \in P
  BY <1>1, <1>2, Upwards
<1> QED
  BY <1>3 DEF P

-----------------------------------------------------------------------------
(***************************************************************************)
(* The graph of the reports and the matrix by index.                       *)
(***************************************************************************)

\* Addresses and indices are one to one.
LEMMA Indices ==
  /\ \A i \in Idx : indexToAddress[i] \in Addr
  /\ \A a \in Addr : IndexOf(a) \in Idx /\ indexToAddress[IndexOf(a)] = a
  /\ \A i \in Idx : IndexOf(indexToAddress[i]) = i
  /\ IsFiniteSet(Addr) /\ Cardinality(Addr) = n
<1>1. \A a \in Addr : IndexOf(a) \in Idx /\ indexToAddress[IndexOf(a)] = a
  BY IndexAssumption DEF IndexOf
<1>2. \A i \in Idx : indexToAddress[i] \in Addr
  BY IndexAssumption
<1>3. \A i \in Idx : IndexOf(indexToAddress[i]) = i
  BY <1>1, <1>2, IndexAssumption
<1>4. indexToAddress \in Bijection(Idx, Addr)
  <2>1. indexToAddress \in [Idx -> Addr] /\ \A a \in Addr : \E i \in Idx : indexToAddress[i] = a
    BY IndexAssumption
  <2>2. IsInjective(indexToAddress)
    BY IndexAssumption DEF IsInjective
  <2> QED
    BY <2>1, <2>2 DEF Bijection, Injection, Surjection
<1>5. IsFiniteSet(Addr) /\ Cardinality(Addr) = Cardinality(Idx)
  <2> HIDE DEF Idx
  <2>1. ExistsBijection(Idx, Addr)
    BY <1>4 DEF ExistsBijection
  <2> QED
    BY <2>1, IdxFinite, FS_Bijection
<1> QED
  BY <1>1, <1>2, <1>3, <1>5, IdxFinite

\* The links L are the entries of the matrix m.
LinksOf(L, m) ==
    /\ \A l \in L : /\ l.from \in Addr /\ l.to \in Addr
                    /\ l.weight = m[l.from][l.to] /\ l.weight # 0
    /\ \A a, b \in Addr : m[a][b] # 0 => \E l \in L : l.from = a /\ l.to = b

\* What a report of a link says.
LEMMA LinkIsAgreed ==
  ASSUME IInv, Handover, phase = "success",
         NEW i \in DOMAIN reports, Service!IsOfLink(i)
  PROVE  LET r == reports[i]
         IN  /\ r.from \in Addr /\ r.to \in Addr
             /\ r.weight = matrix[r.from][r.to] /\ r.weight # 0
<1> DEFINE r == reports[i]
<1>1. r.from \in Addr /\ r.to \in Addr /\ r.weight \in Nat
  <2>1. r \in Report
    BY DEF IInv, TypeOK
  <2> QED
    BY <2>1 DEF Report, Handover
<1>2. r.weight > 0
  BY DEF Service!IsOfLink
<1>3. PICK j \in DOMAIN reports :
        /\ {k \in DOMAIN reports : Edge(reports[k]) = Edge(r)} = {i, j}
        /\ reports[j].from # r.from
        /\ reports[j].weight = r.weight
  BY DEF Service!IsOfLink, Service!Ends, Edge
<1>4. Edge(reports[j]) = Edge(r) /\ \A k \in DOMAIN reports : Edge(reports[k]) = Edge(r) => k \in {i, j}
  BY <1>3
<1>5. DualReported(Edge(r), r.weight)
  BY <1>3, <1>4 DEF DualReported
<1>6. matrix[r.from][r.to] = r.weight
  <2> DEFINE a == r.from
             b == r.to
             e == Edge(r)
  <2>1. e = {a, b} /\ a \in Addr /\ b \in Addr
    BY <1>1 DEF Edge
  <2>2. IsGraphAt(a, b, e)
    BY <2>1, GraphAtAll DEF IInv
  <2> HIDE DEF e
  <2> QED
    BY <1>5, <2>2 DEF IsGraphAt, e
<1> QED
  BY <1>1, <1>2, <1>6

\* The links of the service are the entries of the matrix.
LEMMA LinksAreTheMatrix ==
  ASSUME IInv, Handover, phase = "success"
  PROVE  LinksOf(Service!Links, matrix)
<1>1. ASSUME NEW l \in Service!Links
      PROVE  /\ l.from \in Addr /\ l.to \in Addr
             /\ l.weight = matrix[l.from][l.to] /\ l.weight # 0
  <2>1. PICK i \in DOMAIN reports : Service!IsOfLink(i) /\ l = reports[i]
    BY DEF Service!Links
  <2> QED
    BY <2>1, LinkIsAgreed
<1>2. ASSUME NEW a \in Addr, NEW b \in Addr, matrix[a][b] # 0
      PROVE  \E l \in Service!Links : l.from = a /\ l.to = b
  <2> DEFINE w == matrix[a][b]
  <2>1. w \in Nat /\ DualReported({a, b}, w)
    BY <1>2 DEF IInv, TypeOK, MatrixIsTheGraph
  <2>2. PICK i \in DOMAIN reports, j \in DOMAIN reports :
          /\ Edge(reports[i]) = {a, b} /\ reports[i].weight = w
          /\ Edge(reports[j]) = {a, b} /\ reports[j].weight = w
          /\ reports[i].from # reports[j].from
          /\ \A k \in DOMAIN reports : Edge(reports[k]) = {a, b} => k \in {i, j}
    BY <2>1 DEF DualReported
  <2>3. PICK k \in {i, j} : reports[k].from = a
    BY <2>2 DEF Edge
  <2>4. reports[k].to = b
    BY <2>2, <2>3 DEF Edge
  <2>5. Service!IsOfLink(k)
    <3>1. {q \in DOMAIN reports : Service!Ends(q) = Service!Ends(k)} = {i, j}
      BY <2>2, <2>3 DEF Service!Ends, Edge
    <3>2. PICK h \in {i, j} : {i, j} = {k, h} /\ reports[h].from # reports[k].from
                              /\ reports[h].weight = reports[k].weight
      BY <2>2, <2>3
    <3>3. reports[k].weight > 0
      BY <1>2, <2>1, <2>2
    <3> QED
      BY <3>1, <3>2, <3>3 DEF Service!IsOfLink
  <2> QED
    BY <2>3, <2>4, <2>5 DEF Service!Links
<1> QED
  BY <1>1, <1>2 DEF LinksOf

\* The weight of a link is that of the matrix.
LEMMA LinkWeight ==
  ASSUME NEW L, NEW m, LinksOf(L, m), NEW a, NEW b,
         \E l \in L : l.from = a /\ l.to = b
  PROVE  /\ a \in Addr /\ b \in Addr /\ m[a][b] # 0
         /\ Service!WeightOf(L, a, b) = m[a][b]
BY DEF LinksOf, Service!WeightOf

-----------------------------------------------------------------------------
(***************************************************************************)
(* Paths and routes.                                                       *)
(***************************************************************************)

\* The weights w of the links along a path, each at the node it leads to.
WeightsAlong(w, L, p) ==
    \A k \in 2 .. Len(p) : w[k] \in Nat /\ w[k] = Service!WeightOf(L, p[k - 1], p[k])

\* The length of a path is their sum.
LengthIsTheSumOf(w, L, p) ==
    \E f : SumsUpTo(f, w, Len(p)) /\ Service!Length(L, p) = f[Len(p)]

LEMMA LengthIsASum ==
  ASSUME NEW L, NEW p, Len(p) \in Nat \ {0}, NEW w, WeightsAlong(w, L, p)
  PROVE  LengthIsTheSumOf(w, L, p)
<1> DEFINE m == Len(p)
           IsUpTo(f) ==
             f = [k \in 1 .. m |->
                    IF k = 1 THEN 0 ELSE f[k - 1] + Service!WeightOf(L, p[k - 1], p[k])]
<1>1. ASSUME NEW f
      PROVE  [k \in 1 .. m |->
                IF k = 1 THEN 0 ELSE f[k - 1] + Service!WeightOf(L, p[k - 1], p[k])]
               = [k \in 1 .. m |-> IF k = 1 THEN 0 ELSE f[k - 1] + w[k]]
  BY DEF WeightsAlong
<1>2. \A f : IsUpTo(f) <=> SumsUpTo(f, w, m)
  BY <1>1 DEF SumsUpTo
<1>3. \E f : IsUpTo(f)
  BY <1>2, SumsExist DEF WeightsAlong
<1>4. Service!Length(L, p) = (CHOOSE f : IsUpTo(f))[m]
  BY DEF Service!Length
<1> HIDE DEF IsUpTo
<1>5. IsUpTo(CHOOSE f : IsUpTo(f))
  BY <1>3
<1> QED
  BY <1>2, <1>4, <1>5 DEF LengthIsTheSumOf

\* The service counts with the cardinality of its own instance of FiniteSets.
LEMMA SameCardinality == \A S : Service!Cardinality(S) = Cardinality(S)
BY DEF Service!Cardinality, Cardinality

\* A path leads from the source to d along links.
LEMMA PathsLead ==
  ASSUME NEW L, NEW d \in Addr, NEW p \in Service!Paths(L, d)
  PROVE  /\ Len(p) \in Nat \ {0} /\ p[1] = source /\ p[Len(p)] = d
         /\ \A k \in 1 .. Len(p) - 1 : \E l \in L : l.from = p[k] /\ l.to = p[k + 1]
<1>1. CASE d = source
  <2>1. p = <<source>>
    BY <1>1 DEF Service!Paths
  <2> QED
    BY <1>1, <2>1
<1>2. CASE d # source
  <2> DEFINE Q == Service!BoundedSeq(Addr \ {source, d}, Cardinality(Addr) - 2)
             U == Addr \cup {source}
  <2>0. p \in {x \in {<<source>> \o q \o <<d>> : q \in Q} :
                 \A k \in 1 .. Len(x) - 1 : \E l \in L : l.from = x[k] /\ l.to = x[k + 1]}
    BY <1>2, SameCardinality DEF Service!Paths
  <2>1. /\ p \in {<<source>> \o q \o <<d>> : q \in Q}
        /\ \A k \in 1 .. Len(p) - 1 : \E l \in L : l.from = p[k] /\ l.to = p[k + 1]
    BY <2>0, Zenon
  <2>2. PICK q \in Q : p = <<source>> \o q \o <<d>>
    BY <2>1
  <2>3. PICK m \in 0 .. Cardinality(Addr) - 2 : q \in [1 .. m -> Addr \ {source, d}]
    BY <2>2 DEF Service!BoundedSeq, Service!SeqOf
  <2>4. m \in Nat /\ q \in [1 .. m -> U]
    BY <2>3, Indices, SizeAssumption
  <2>5. q \in Seq(U) /\ source \in U /\ d \in U
    BY <2>4
  <2> HIDE DEF U, Q
  <2>6. Len(p) = Len(q) + 2 /\ Len(q) \in Nat /\ p[1] = source /\ p[Len(q) + 2] = d
    BY <2>2, <2>5
  <2> QED
    BY <2>1, <2>6
<1> QED
  BY <1>1, <1>2

\* dijkstra worked on the links and is done.
RoutesFound(L) ==
    /\ DijkstraInv
    /\ outcome = "success"
    /\ LinksOf(L, matrix)
    /\ matrix \in [Addr -> [Addr -> Nat]]
    /\ adjacencyMatrix = MatrixOf(matrix)
    /\ source \in Addr
    /\ indexToAddress[src] = source

\* The entries of dijkstra's matrix.
LEMMA EntriesByIndex ==
  ASSUME adjacencyMatrix = MatrixOf(matrix)
  PROVE  /\ \A i, j \in Idx : Weight(i, j) = matrix[indexToAddress[i]][indexToAddress[j]]
         /\ \A a, b \in Addr : matrix[a][b] = Weight(IndexOf(a), IndexOf(b))
BY Indices DEF MatrixOf, Weight

\* No path is shorter than the distance of its end.
LEMMA NotShorter ==
  ASSUME NEW L, RoutesFound(L), NEW d \in Addr, NEW p \in Service!Paths(L, d)
  PROVE  Service!Length(L, p) \in Nat /\ distanceArray[IndexOf(d)] <= Service!Length(L, p)
<1> DEFINE m == Len(p)
           w == [k \in 2 .. m |-> Service!WeightOf(L, p[k - 1], p[k])]
           g == [k \in 1 .. m |-> distanceArray[IndexOf(p[k])]]
<1>1. /\ m \in Nat \ {0} /\ p[1] = source /\ p[m] = d
      /\ \A k \in 1 .. m - 1 : \E l \in L : l.from = p[k] /\ l.to = p[k + 1]
  BY PathsLead
<1>2. ASSUME NEW k \in 1 .. m - 1
      PROVE  /\ p[k] \in Addr /\ p[k + 1] \in Addr
             /\ Service!WeightOf(L, p[k], p[k + 1]) = matrix[p[k]][p[k + 1]]
             /\ matrix[p[k]][p[k + 1]] # 0
  <2>1. \E l \in L : l.from = p[k] /\ l.to = p[k + 1]
    BY <1>1
  <2>2. LinksOf(L, matrix)
    BY DEF RoutesFound
  <2> HIDE DEF m
  <2> QED
    BY <2>1, <2>2, LinkWeight
<1>3. \A k \in 1 .. m : p[k] \in Addr
  <2>1. SUFFICES ASSUME NEW k \in 1 .. m PROVE p[k] \in Addr
    OBVIOUS
  <2>2. CASE k = m
    BY <1>1, <2>2
  <2>3. CASE k # m
    <3>1. k \in 1 .. m - 1
      BY <1>1, <2>3
    <3> QED
      BY <1>2, <3>1
  <2> QED
    BY <2>2, <2>3
<1>4. \A k \in 1 .. m : g[k] \in Nat
  BY <1>3, Indices, Arithmetic DEF RoutesFound, DijkstraInv
<1>5. ASSUME NEW k \in 2 .. m
      PROVE  w[k] \in Nat /\ g[k] <= g[k - 1] + w[k]
  <2>1. k - 1 \in 1 .. m - 1 /\ k \in 1 .. m /\ k - 1 \in 1 .. m /\ (k - 1) + 1 = k
    BY <1>1
  <2> DEFINE a == p[k - 1]
             b == p[k]
  <2>2. /\ a \in Addr /\ b \in Addr
        /\ w[k] = matrix[a][b] /\ matrix[a][b] # 0
    BY <1>2, <2>1
  <2>3. matrix[a][b] = Weight(IndexOf(a), IndexOf(b)) /\ matrix[a][b] \in Nat
    BY <2>2, EntriesByIndex DEF RoutesFound
  <2>4. NoShortcut
    BY AllRelaxed DEF RoutesFound
  <2>5. distanceArray[IndexOf(b)] <= distanceArray[IndexOf(a)] + Weight(IndexOf(a), IndexOf(b))
    BY <2>2, <2>3, <2>4, Indices DEF NoShortcut, RoutesFound
  <2> QED
    BY <2>1, <2>2, <2>3, <2>5
<1>6. g[1] = 0
  <2>1. IndexOf(source) = src
    BY Indices DEF RoutesFound, DijkstraInv, DijkstraTypeOK
  <2> QED
    BY <1>1, <2>1 DEF RoutesFound, DijkstraInv, SourceFirst
<1>7. PICK f : SumsUpTo(f, w, m) /\ Service!Length(L, p) = f[m]
  <2>1. WeightsAlong(w, L, p)
    BY <1>5 DEF WeightsAlong
  <2> HIDE DEF w
  <2> QED
    BY <1>1, <2>1, LengthIsASum DEF LengthIsTheSumOf
<1>8. g[m] = distanceArray[IndexOf(d)]
  BY <1>1
<1> HIDE DEF w, g
<1>9. f[m] \in Nat /\ g[m] <= f[m]
  BY <1>1, <1>4, <1>5, <1>6, <1>7, SumsAbove
<1> QED
  BY <1>7, <1>8, <1>9

\* The route to the node with address d, by address.
RouteByAddress(d) ==
    [k \in 1 .. Len(routeArray[IndexOf(d)]) |-> indexToAddress[routeArray[IndexOf(d)][k]]]

\* It starts at the source, ends at d and visits no node twice.
LEMMA RouteAddresses ==
  ASSUME NEW L, RoutesFound(L), NEW d \in Addr, NEW p, p = RouteByAddress(d)
  PROVE  /\ p \in Seq(Addr) /\ Len(p) \in 1 .. n
         /\ p[1] = source /\ p[Len(p)] = d
         /\ \A k, l \in 1 .. Len(p) : p[k] = p[l] => k = l
<1> DEFINE j == IndexOf(d)
           R == routeArray[j]
<1>1. j \in Idx /\ indexToAddress[j] = d
  BY Indices
<1>2. /\ Len(R) \in 1 .. n /\ R[1] = src /\ R[Len(R)] = j
      /\ \A k \in 1 .. Len(R) : R[k] \in Idx
      /\ \A k, l \in 1 .. Len(R) : R[k] = R[l] => k = l
  BY <1>1, RouteTo DEF RoutesFound
<1>3. p = [k \in 1 .. Len(R) |-> indexToAddress[R[k]]]
  BY DEF RouteByAddress
<1> HIDE DEF R
<1>4. p \in [1 .. Len(R) -> Addr] /\ Len(R) \in Nat
  BY <1>2, <1>3, Indices, SizeAssumption
<1>5. p \in Seq(Addr) /\ Len(p) = Len(R)
  BY <1>3, <1>4
<1>6. \A k, l \in 1 .. Len(p) : p[k] = p[l] => k = l
  BY <1>2, <1>3, <1>5, IndexAssumption
<1>7. p[1] = source /\ p[Len(p)] = d
  <2>1. 1 \in 1 .. Len(R) /\ Len(R) \in 1 .. Len(R)
    BY <1>2, <1>4
  <2>2. indexToAddress[src] = source
    BY DEF RoutesFound
  <2> QED
    BY <1>1, <1>2, <1>3, <1>5, <2>1, <2>2
<1> QED
  BY <1>2, <1>5, <1>6, <1>7

\* Each step of it is a link, whose weight is added to the distance.
LEMMA RouteLinks ==
  ASSUME NEW L, RoutesFound(L), NEW d \in Addr, NEW p, p = RouteByAddress(d),
         NEW k \in 1 .. Len(p) - 1
  PROVE  /\ \E l \in L : l.from = p[k] /\ l.to = p[k + 1]
         /\ Service!WeightOf(L, p[k], p[k + 1]) \in Nat
         /\ distanceArray[IndexOf(p[k + 1])]
              = distanceArray[IndexOf(p[k])] + Service!WeightOf(L, p[k], p[k + 1])
<1> DEFINE R == routeArray[IndexOf(d)]
           a == R[k]
           b == R[k + 1]
<1>1. IndexOf(d) \in Idx
  BY Indices
<1>2. /\ Len(R) \in 1 .. n /\ n \in Nat
      /\ \A l \in 1 .. Len(R) : R[l] \in Idx
  BY <1>1, RouteTo, SizeAssumption DEF RoutesFound
<1>3. p = [l \in 1 .. Len(R) |-> indexToAddress[R[l]]] /\ Len(p) = Len(R)
  BY <1>2, RouteAddresses DEF RouteByAddress
<1>4. k \in 1 .. Len(R) - 1 /\ k \in 1 .. Len(R) /\ k + 1 \in 1 .. Len(R)
  BY <1>2, <1>3
<1>5. Weight(a, b) # 0 /\ distanceArray[b] = distanceArray[a] + Weight(a, b)
  BY <1>1, <1>4, RouteStep DEF RoutesFound
<1>6. a \in Idx /\ b \in Idx /\ p[k] = indexToAddress[a] /\ p[k + 1] = indexToAddress[b]
  BY <1>2, <1>3, <1>4
<1>7. /\ p[k] \in Addr /\ p[k + 1] \in Addr
      /\ IndexOf(p[k]) = a /\ IndexOf(p[k + 1]) = b
      /\ matrix[p[k]][p[k + 1]] = Weight(a, b)
  <2>1. adjacencyMatrix = MatrixOf(matrix)
    BY DEF RoutesFound
  <2>2. \A i, j \in Idx : Weight(i, j) = matrix[indexToAddress[i]][indexToAddress[j]]
    BY <2>1, EntriesByIndex
  <2> HIDE DEF R, a, b
  <2> QED
    BY <1>6, <2>2, Indices
<1>8. \E l \in L : l.from = p[k] /\ l.to = p[k + 1]
  BY <1>5, <1>7 DEF RoutesFound, LinksOf
<1>9. Service!WeightOf(L, p[k], p[k + 1]) = matrix[p[k]][p[k + 1]]
  <2>1. LinksOf(L, matrix)
    BY DEF RoutesFound
  <2> QED
    BY <1>8, <2>1, LinkWeight
<1>10. matrix[p[k]][p[k + 1]] \in Nat
  BY <1>7 DEF RoutesFound
<1> QED
  BY <1>5, <1>7, <1>8, <1>9, <1>10

\* The route is a path ...
LEMMA RouteIsAPath ==
  ASSUME NEW L, RoutesFound(L), NEW d \in Addr, NEW p, p = RouteByAddress(d)
  PROVE  p \in Service!Paths(L, d)
<1>1. /\ p \in Seq(Addr) /\ Len(p) \in 1 .. n /\ n \in Nat
      /\ p[1] = source /\ p[Len(p)] = d
      /\ \A k, l \in 1 .. Len(p) : p[k] = p[l] => k = l
  <2>1. n \in Nat
    BY SizeAssumption
  <2>2. p \in Seq(Addr) /\ Len(p) \in 1 .. n
    BY RouteAddresses
  <2>3. p[1] = source /\ p[Len(p)] = d
    BY RouteAddresses
  <2>4. \A k, l \in 1 .. Len(p) : p[k] = p[l] => k = l
    BY RouteAddresses
  <2> QED
    BY <2>1, <2>2, <2>3, <2>4, Zenon
<1>2. CASE d = source
  <2>1. 1 \in 1 .. Len(p) /\ Len(p) \in 1 .. Len(p)
    BY <1>1
  <2>2. Len(p) = 1
    BY <1>1, <1>2, <2>1
  <2>3. p = <<source>>
    BY <1>1, <2>2
  <2> QED
    BY <1>2, <2>3 DEF Service!Paths
<1>3. CASE d # source
  <2> DEFINE S == Addr \ {source, d}
             m == Len(p) - 2
             q == [k \in 1 .. m |-> p[k + 1]]
  <2>1. m \in 0 .. n - 2 /\ m \in Nat
    BY <1>1, <1>3
  <2>2. ASSUME NEW k \in 1 .. m
        PROVE  q[k] \in S
    <3>1. k + 1 \in 1 .. Len(p) /\ 1 \in 1 .. Len(p) /\ Len(p) \in 1 .. Len(p)
          /\ k + 1 # 1 /\ k + 1 # Len(p)
      BY <1>1
    <3>2. p[k + 1] \in Addr /\ p[k + 1] # p[1] /\ p[k + 1] # p[Len(p)]
      BY <1>1, <3>1
    <3> QED
      BY <1>1, <3>2
  <2>3. q \in [1 .. m -> S]
    BY <2>2
  <2>4. q \in Service!BoundedSeq(S, Cardinality(Addr) - 2)
    <3> HIDE DEF S, m, q
    <3>1. Cardinality(Addr) - 2 = n - 2
      BY Indices
    <3> QED
      BY <2>1, <2>3, <3>1 DEF Service!BoundedSeq, Service!SeqOf
  <2>5. p = <<source>> \o q \o <<d>>
    <3>1. q \in Seq(Addr) /\ Len(q) = m /\ Len(p) = m + 2
      <4>1. q \in [1 .. m -> Addr] /\ m \in Nat /\ Len(p) = m + 2
        BY <1>1, <2>1, <2>3
      <4> HIDE DEF m, q
      <4> QED
        BY <4>1
    <3>2. source \in Addr /\ <<source>> \in Seq(Addr) /\ <<d>> \in Seq(Addr)
      BY DEF RoutesFound
    <3> DEFINE r == <<source>> \o q \o <<d>>
    <3>3. r \in Seq(Addr) /\ Len(r) = Len(p)
      <4> HIDE DEF q
      <4> QED
        BY <1>1, <3>1, <3>2
    <3>4. ASSUME NEW k \in 1 .. Len(p) PROVE r[k] = p[k]
      <4>1. CASE k = 1
        <5> HIDE DEF q
        <5> QED
          BY <1>1, <3>1, <3>2, <4>1
      <4>2. CASE k = Len(p)
        <5> HIDE DEF q, m
        <5>1. r[Len(q) + 2] = d
          BY <3>1, <3>2
        <5> QED
          BY <1>1, <3>1, <4>2, <5>1
      <4>3. CASE k \in 2 .. Len(p) - 1
        <5>1. k - 1 \in 1 .. m /\ q[k - 1] = p[k]
          BY <1>1, <4>3
        <5> HIDE DEF q
        <5>2. r[k] = q[k - 1]
          BY <1>1, <3>1, <3>2, <4>3, <5>1
        <5> QED
          BY <5>1, <5>2
      <4> HIDE DEF r, q
      <4> QED
        BY <1>1, <4>1, <4>2, <4>3
    <3> HIDE DEF r
    <3>5. r = p
      BY <1>1, <3>3, <3>4
    <3> QED
      BY <3>5 DEF r
  <2>6. \A k \in 1 .. Len(p) - 1 : \E l \in L : l.from = p[k] /\ l.to = p[k + 1]
    BY RouteLinks
  <2> HIDE DEF q
  <2>7. p \in {x \in {<<source>> \o y \o <<d>> : y \in Service!BoundedSeq(S, Cardinality(Addr) - 2)} :
                 \A k \in 1 .. Len(x) - 1 : \E l \in L : l.from = x[k] /\ l.to = x[k + 1]}
    BY <2>4, <2>5, <2>6
  <2> QED
    BY <1>3, <2>7, SameCardinality DEF Service!Paths
<1> QED
  BY <1>2, <1>3

\* ... and its length is the distance.
LEMMA RouteLength ==
  ASSUME NEW L, RoutesFound(L), NEW d \in Addr, NEW p, p = RouteByAddress(d)
  PROVE  Service!Length(L, p) = distanceArray[IndexOf(d)]
<1> DEFINE m == Len(p)
           w == [k \in 2 .. m |-> Service!WeightOf(L, p[k - 1], p[k])]
           g == [k \in 1 .. m |-> distanceArray[IndexOf(p[k])]]
<1>1. m \in Nat \ {0} /\ p[1] = source /\ p[m] = d
  BY RouteAddresses
<1>2. g[1] = 0 /\ g[m] = distanceArray[IndexOf(d)]
  <2>1. IndexOf(source) = src
    BY Indices DEF RoutesFound, DijkstraInv, DijkstraTypeOK
  <2> QED
    BY <1>1, <2>1 DEF RoutesFound, DijkstraInv, SourceFirst
<1>3. ASSUME NEW k \in 2 .. m
      PROVE  /\ w[k] \in Nat /\ w[k] = Service!WeightOf(L, p[k - 1], p[k])
             /\ g[k] = g[k - 1] + w[k]
  <2>1. k - 1 \in 1 .. m - 1 /\ (k - 1) + 1 = k /\ k \in 1 .. m /\ k - 1 \in 1 .. m
    BY <1>1
  <2>2. /\ Service!WeightOf(L, p[k - 1], p[k]) \in Nat
        /\ distanceArray[IndexOf(p[k])]
             = distanceArray[IndexOf(p[k - 1])] + Service!WeightOf(L, p[k - 1], p[k])
    BY <2>1, RouteLinks
  <2> QED
    BY <2>1, <2>2
<1>4. WeightsAlong(w, L, p)
  BY <1>3 DEF WeightsAlong
<1> HIDE DEF w, g
<1>5. PICK f : SumsUpTo(f, w, m) /\ Service!Length(L, p) = f[m]
  BY <1>1, <1>4, LengthIsASum DEF LengthIsTheSumOf
<1>6. f[m] = g[m]
  BY <1>1, <1>2, <1>3, <1>5, SumsAre
<1> QED
  BY <1>2, <1>5, <1>6

\* So it is a shortest path.
LEMMA RouteIsShortest ==
  ASSUME NEW L, RoutesFound(L), NEW d \in Addr
  PROVE  RouteByAddress(d) \in Service!ShortestTo(L, d)
<1> DEFINE p == RouteByAddress(d)
           paths == {[path |-> x, length |-> Service!Length(L, x)] : x \in Service!Paths(L, d)}
           y == [path |-> p, length |-> Service!Length(L, p)]
<1>1. p \in Service!Paths(L, d) /\ Service!Length(L, p) = distanceArray[IndexOf(d)]
  BY RouteIsAPath, RouteLength
<1>2. \A x \in Service!Paths(L, d) : Service!Length(L, p) <= Service!Length(L, x)
  BY <1>1, NotShorter
<1> HIDE DEF p
<1>3. y \in paths /\ y.path = p
  BY <1>1
<1>4. \A z \in paths : y.length <= z.length
  BY <1>2
<1> HIDE DEF y, paths
<1>5. p \in {x.path : x \in {v \in paths : \A z \in paths : v.length <= z.length}}
  BY <1>3, <1>4
<1> QED
  BY <1>5 DEF p, paths, Service!ShortestTo

-----------------------------------------------------------------------------
(***************************************************************************)
(* What the nodes are sent.                                                *)
(***************************************************************************)

\* A node is sent the rows of its index, by address.
LEMMA SentByIndex ==
  ASSUME TablesInv, NEW a \in Addr
  PROVE  /\ SentTo(a) = {[destination |-> indexToAddress[row.destination],
                          nextHop |-> indexToAddress[row.nextHop]] : row \in Rows(IndexOf(a))}
         /\ \A row \in Rows(IndexOf(a)) : row.destination \in Idx /\ row.nextHop \in Idx
<1>1. IndexOf(a) \in Idx /\ {j \in Idx : indexToAddress[j] = a} = {IndexOf(a)}
  BY Indices
<1>2. UNION {Rows(i) : i \in {j \in Idx : indexToAddress[j] = a}} = Rows(IndexOf(a))
  BY <1>1
<1>3. \A row \in Rows(IndexOf(a)) : row.destination \in Idx /\ row.nextHop \in Idx
  BY <1>1, TableTypes DEF Rows
<1> QED
  BY <1>2, <1>3 DEF SentTo

\* The rows for d that a is sent are those of the route to d.
LEMMA SentAlongRoute ==
  ASSUME DijkstraInv, TablesInv, Done, NEW a \in Addr, NEW d \in Addr
  PROVE  LET p == RouteByAddress(d)
         IN  {row \in SentTo(a) : row.destination = d}
               = {[destination |-> d, nextHop |-> p[k + 1]] :
                    k \in {i \in 1 .. Len(p) - 1 : p[i] = a}}
<1> DEFINE p == RouteByAddress(d)
           i == IndexOf(a)
           j == IndexOf(d)
           R == routeArray[j]
<1>1. i \in Idx /\ j \in Idx /\ indexToAddress[i] = a /\ indexToAddress[j] = d
  BY Indices
<1>2. /\ Len(R) \in 1 .. n /\ n \in Nat
      /\ \A k \in 1 .. Len(R) : R[k] \in Idx
  BY <1>1, RouteTo, SizeAssumption DEF Done
<1>3. p = [k \in 1 .. Len(R) |-> indexToAddress[R[k]]] /\ Len(p) = Len(R)
  <2>1. p = [k \in 1 .. Len(R) |-> indexToAddress[R[k]]]
    BY DEF RouteByAddress
  <2>2. p \in [1 .. Len(R) -> Addr] /\ Len(R) \in Nat
    BY <1>2, <2>1, Indices
  <2> HIDE DEF p, R
  <2> QED
    BY <2>1, <2>2
<1>4. ASSUME NEW k \in 1 .. Len(R) - 1
      PROVE  /\ R[k] \in Idx /\ R[k + 1] \in Idx
             /\ p[k] = indexToAddress[R[k]] /\ p[k + 1] = indexToAddress[R[k + 1]]
  <2>1. k \in 1 .. Len(R) /\ k + 1 \in 1 .. Len(R)
    BY <1>2
  <2> HIDE DEF p, R
  <2> QED
    BY <1>2, <1>3, <2>1
<1> HIDE DEF p, R, i, j
<1>5. \A h : (\E row \in Rows(i) : row.destination = j /\ row.nextHop = h)
               <=> \E k \in 1 .. Len(R) - 1 : R[k] = i /\ R[k + 1] = h
  BY <1>1, RowsAreRoutes DEF R
<1> DEFINE Sent(h) == [destination |-> d, nextHop |-> h]
<1>6. ASSUME NEW x \in SentTo(a), x.destination = d
      PROVE  \E k \in 1 .. Len(p) - 1 : p[k] = a /\ x = Sent(p[k + 1])
  <2>1. PICK row \in Rows(i) :
          /\ x = [destination |-> indexToAddress[row.destination],
                  nextHop |-> indexToAddress[row.nextHop]]
          /\ row.destination \in Idx /\ row.nextHop \in Idx
    BY SentByIndex DEF i
  <2>2. indexToAddress[row.destination] = d
    BY <1>6, <2>1
  <2>3. row.destination = j
    BY <1>1, <2>1, <2>2, IndexAssumption
  <2>4. PICK k \in 1 .. Len(R) - 1 : R[k] = i /\ R[k + 1] = row.nextHop
    BY <1>5, <2>3
  <2>5. p[k] = a /\ p[k + 1] = indexToAddress[row.nextHop]
    BY <1>1, <1>4, <2>4
  <2> QED
    BY <1>3, <2>1, <2>2, <2>5
<1>7. ASSUME NEW k \in 1 .. Len(p) - 1, p[k] = a
      PROVE  Sent(p[k + 1]) \in SentTo(a)
  <2>1. k \in 1 .. Len(R) - 1
    BY <1>3
  <2>2. R[k] = i
    BY <1>1, <1>4, <1>7, <2>1, IndexAssumption
  <2>3. PICK row \in Rows(i) : row.destination = j /\ row.nextHop = R[k + 1]
    BY <1>5, <2>1, <2>2
  <2>4. Sent(p[k + 1]) = [destination |-> indexToAddress[row.destination],
                          nextHop |-> indexToAddress[row.nextHop]]
    BY <1>1, <1>4, <2>1, <2>3
  <2> QED
    BY <2>3, <2>4, SentByIndex DEF i
<1>8. \A h : Sent(h).destination = d
  OBVIOUS
<1> HIDE DEF Sent
<1>9. {row \in SentTo(a) : row.destination = d}
        = {Sent(p[k + 1]) : k \in {l \in 1 .. Len(p) - 1 : p[l] = a}}
  BY <1>6, <1>7, <1>8
<1> QED
  BY <1>9 DEF Sent, p

\* When all is done dijkstra has worked on the links of the reports.
LEMMA DoneFindsRoutes ==
  ASSUME IInv, ServerInv, Done
  PROVE  RoutesFound(Service!Links)
<1>1. ~Waiting /\ outcome = "success"
  BY DEF Waiting, Done
<1>2. source \in Addr /\ phase = "success"
  BY <1>1 DEF ServerInv, Handover, Computed
<1>3. LinksOf(Service!Links, matrix)
  BY <1>2, LinksAreTheMatrix DEF ServerInv
<1> QED
  BY <1>1, <1>2, <1>3 DEF RoutesFound, ServerInv, Computed, IInv, TypeOK

\* The tables lead to every node along a shortest path.
TablesLead ==
    /\ SentTables \in [Addr -> SUBSET Service!Row]
    /\ \A d \in Addr : Service!LeadTo(SentTables, Service!Links, d)

LEMMA SentTablesLead == IInv /\ ServerInv /\ Done => TablesLead
<1> SUFFICES ASSUME IInv, ServerInv, Done PROVE TablesLead
  OBVIOUS
<1>1. RoutesFound(Service!Links)
  BY DoneFindsRoutes
<1>2. ASSUME NEW a \in Addr PROVE SentTo(a) \subseteq Service!Row
  BY SentByIndex, Indices DEF ServerInv, Service!Row
<1>3. ASSUME NEW d \in Addr PROVE Service!LeadTo(SentTables, Service!Links, d)
  <2> DEFINE p == RouteByAddress(d)
  <2>1. p \in Service!ShortestTo(Service!Links, d)
    BY <1>1, RouteIsShortest
  <2>2. ASSUME NEW a \in Addr
        PROVE  {row \in SentTables[a] : row.destination = d}
                 = {[destination |-> d, nextHop |-> p[k + 1]] :
                      k \in {i \in 1 .. Len(p) - 1 : p[i] = a}}
    BY <1>1, SentAlongRoute DEF SentTables, RoutesFound, ServerInv
  <2> HIDE DEF p
  <2> QED
    BY <2>1, <2>2 DEF Service!LeadTo
<1> QED
  BY <1>2, <1>3 DEF SentTables, TablesLead

-----------------------------------------------------------------------------
(***************************************************************************)
(* Why the server gives up.                                                *)
(***************************************************************************)

\* A counter array is full only when that many edges were named.
LEMMA FullIsCrowded ==
  ASSUME IInv, Len(counters) = maxEdges
  PROVE  Service!Crowded
<1> DEFINE S == {Edge(reports[i]) : i \in DOMAIN reports}
           m == Len(counters)
           f == [i \in 1 .. m |-> counters[i].edge]
<1>1. /\ m \in Nat /\ DOMAIN counters = 1 .. m
      /\ Len(reports) \in Nat /\ DOMAIN reports = 1 .. Len(reports)
      /\ next - 1 <= Len(reports) /\ next \in Nat
  BY DEF IInv, TypeOK
<1>2. ASSUME NEW i \in 1 .. m
      PROVE  f[i] \in S
  <2> DEFINE c == counters[i]
             K == Seen(reports, next, c.edge)
  <2>1. Counts(c, reports, next, Range(invalidEdges))
    BY <1>1 DEF IInv, Counted
  <2>2. \E k : k \in K
    BY <2>1 DEF Counts, ReportedOnce, ReportedTwice, ReportedWrongly
  <2>3. PICK k \in 1 .. next - 1 : Edge(reports[k]) = c.edge
    BY <2>2 DEF Seen
  <2>4. k \in DOMAIN reports
    BY <1>1
  <2> QED
    BY <2>3, <2>4
<1>3. f \in Injection(1 .. m, S)
  <2>1. \A i, j \in 1 .. m : f[i] = f[j] => i = j
    BY <1>1 DEF IInv, CountersOfEdges
  <2> HIDE DEF S
  <2>2. f \in [1 .. m -> S]
    BY <1>2
  <2> HIDE DEF f
  <2> QED
    BY <2>1, <2>2 DEF Injection, IsInjective
<1>4. IsFiniteSet(S)
  <2> DEFINE g == [i \in DOMAIN reports |-> Edge(reports[i])]
  <2>1. IsFiniteSet(DOMAIN reports)
    <3>1. CASE Len(reports) = 0
      BY <1>1, <3>1, FS_EmptySet
    <3>2. CASE Len(reports) # 0
      BY <1>1, <3>2, FS_Interval
    <3> QED
      BY <3>1, <3>2
  <2>2. g \in Surjection(DOMAIN reports, S)
    BY DEF Surjection
  <2> HIDE DEF g, S
  <2> QED
    BY <2>1, <2>2, FS_Surjection
<1>5. Cardinality(1 .. m) = m
  <2>1. CASE m = 0
    BY <1>1, <2>1, FS_EmptySet
  <2>2. CASE m # 0
    BY <1>1, <2>2, FS_Interval
  <2> QED
    BY <2>1, <2>2
<1>6. m <= Cardinality(S)
  <2> HIDE DEF S, m, f
  <2> QED
    BY <1>3, <1>4, <1>5, FS_Injection
<1>7. S = {Service!Ends(i) : i \in DOMAIN reports}
  BY DEF Edge, Service!Ends
<1>8. maxEdges \in Nat /\ Cardinality(S) \in Nat
  <2> HIDE DEF S
  <2> QED
    BY <1>4, MaxEdgesNat, FS_CardinalityType
<1>9. maxEdges <= Cardinality({Service!Ends(i) : i \in DOMAIN reports})
  BY <1>6, <1>7
<1> QED
  BY <1>8, <1>9, <1>7, SameCardinality DEF Service!Crowded, maxEdges, N

\* The validation fails because of a stranger or too many edges.
LEMMA ValidationGivesUp ==
  IInv /\ phase = "failed" => Service!StrangerNamed \/ Service!Crowded
<1> SUFFICES ASSUME IInv, phase = "failed" PROVE Service!StrangerNamed \/ Service!Crowded
  OBVIOUS
<1>1. CASE Len(counters) = maxEdges
  BY <1>1, FullIsCrowded
<1>2. CASE \E i \in DOMAIN reports : reports[i].to \in Strangers
  BY <1>2, EdgeAddrAssumption DEF Service!StrangerNamed
<1> QED
  BY <1>1, <1>2 DEF IInv, FailsOnlyForAReason

\* No edge leads out of the nodes dijkstra has visited when it gives up.
LEMMA NoWayOut ==
  ASSUME DijkstraInv, VisitFails
  PROVE  /\ src \in visitedArray
         /\ Unvisited # {}
         /\ \A v \in visitedArray, u \in Unvisited : Weight(v, u) = 0
<1>1. PICK cur \in Idx \ {src} : IsMinDistanceIdx(cur) /\ VisitedNeighbors(cur) = {}
  BY DEF VisitFails
<1>2. cur \in Unvisited /\ \A j \in Unvisited : distanceArray[cur] <= distanceArray[j]
  BY <1>1 DEF IsMinDistanceIdx
<1>3. distanceArray[cur] = INT_MAX
  <2>1. SUFFICES ASSUME NEW v \in visitedArray, ReachedThrough(v, cur),
                        distanceArray[cur] # INT_MAX
                 PROVE  FALSE
    BY <1>1, <1>2 DEF DijkstraInv, DistancesHaveEdges
  <2>2. v \in Idx /\ cur \in Idx
    BY <1>1 DEF DijkstraInv, DijkstraTypeOK
  <2>3. /\ Weight(cur, v) = Weight(v, cur)
        /\ distanceArray[cur] \in Nat /\ distanceArray[cur] <= INT_MAX /\ INT_MAX \in Nat
    BY <2>2, Arithmetic DEF DijkstraInv
  <2>4. v \in VisitedNeighbors(cur)
    BY <2>1, <2>3 DEF ReachedThrough, VisitedNeighbors
  <2> QED
    BY <1>1, <2>4
<1>4. src \in visitedArray
  <2>1. SUFFICES ASSUME src \in Unvisited PROVE FALSE
    BY DEF DijkstraInv, DijkstraTypeOK, Unvisited
  <2>2. distanceArray[cur] <= 0
    BY <1>2, <2>1 DEF DijkstraInv, SourceFirst
  <2> QED
    BY <1>3, <2>2, SizeAssumption
<1>5. ASSUME NEW v \in visitedArray, NEW u \in Unvisited, Weight(v, u) # 0
      PROVE  FALSE
  <2>1. v \in Idx /\ u \in Idx
    BY DEF DijkstraInv, DijkstraTypeOK, Unvisited
  <2> DEFINE dv == distanceArray[v]
             du == distanceArray[u]
             w == Weight(v, u)
  <2>2. dv \in Nat /\ du \in Nat /\ w \in Nat /\ du <= INT_MAX /\ INT_MAX \in Nat /\ n \in Nat
    BY <2>1, Arithmetic, SizeAssumption DEF DijkstraInv
  <2>3. du = INT_MAX
    BY <1>2, <1>3, <2>2
  <2>4. du <= dv + w
    BY <1>5, <2>1 DEF DijkstraInv, EdgesRelaxed
  <2>5. n * w <= INT_MAX - 1
    <3>1. n * w < INT_MAX
      BY <2>1 DEF DijkstraInv, IsMatrix, Weight
    <3>2. n * w \in Nat
      BY <2>2
    <3> QED
      BY <2>2, <3>1, <3>2
  <2>6. n * dv <= (iteration - 1) * (INT_MAX - 1)
    BY DEF DijkstraInv, DistancesBounded
  <2>7. iteration \in Nat /\ iteration < n
    BY DEF VisitFails, DijkstraInv, OnePerIteration, DijkstraTypeOK
  <2> HIDE DEF dv, du, w
  <2> DEFINE x == INT_MAX - 1
  <2>8. x \in Nat
    BY SizeAssumption
  <2>9. n * INT_MAX <= n * dv + n * w
    <3>1. INT_MAX <= dv + w
      BY <2>3, <2>4
    <3>2. n * INT_MAX <= n * (dv + w)
      BY <2>2, <3>1
    <3> QED
      BY <2>2, <3>2
  <2>10. n * dv + n * w <= iteration * x
    <3>1. (iteration - 1) * x + x = iteration * x
      BY <2>7, <2>8
    <3>2. n * dv \in Nat /\ n * w \in Nat /\ (iteration - 1) * x \in Int /\ iteration * x \in Int
      BY <2>2, <2>7, <2>8
    <3>3. n * w <= x /\ n * dv <= (iteration - 1) * x
      BY <2>5, <2>6
    <3> HIDE DEF x
    <3> QED
      BY <2>8, <3>1, <3>2, <3>3
  <2>11. iteration * x <= n * x
    BY <2>2, <2>7, <2>8
  <2>12. n * x < n * INT_MAX
    <3>1. n * INT_MAX = n * x + n
      BY <2>2, <2>8
    <3>2. n > 0 /\ n * x \in Nat
      BY <2>2, <2>7, <2>8
    <3> HIDE DEF x
    <3> QED
      BY <2>2, <3>1, <3>2
  <2> QED
    <3>1. n * INT_MAX \in Int /\ n * x \in Int /\ iteration * x \in Int /\ n * dv + n * w \in Int
      BY <2>2, <2>7, <2>8
    <3> HIDE DEF x
    <3> QED
      BY <2>9, <2>10, <2>11, <2>12, <3>1
<1> QED
  BY <1>2, <1>4, <1>5

\* So no path leads from the source to the others.
LEMMA DijkstraGivesUp ==
  ASSUME IInv, ServerInv, VisitFails
  PROVE  Service!Unreachable
<1>1. ~Waiting /\ source \in Addr
  BY DEF VisitFails, ServerInv, Computed, Waiting
<1>2. /\ DijkstraInv /\ indexToAddress[src] = source
      /\ adjacencyMatrix = MatrixOf(matrix) /\ phase = "success"
  BY <1>1 DEF ServerInv, Computed, Handover
<1>3. /\ src \in visitedArray /\ Unvisited # {}
      /\ \A v \in visitedArray, u \in Unvisited : Weight(v, u) = 0
  BY <1>2, NoWayOut
<1>4. PICK u \in Unvisited : TRUE
  BY <1>3
<1> DEFINE d == indexToAddress[u]
           L == Service!Links
<1>5. u \in Idx /\ d \in Addr /\ IndexOf(d) = u
  BY Indices DEF Unvisited
<1>6. LinksOf(L, matrix)
  BY <1>2, LinksAreTheMatrix DEF ServerInv
<1> HIDE DEF L
<1>7. ASSUME NEW p \in Service!Paths(L, d)
      PROVE  FALSE
  <2> DEFINE m == Len(p)
             P == {k \in 1 .. m : p[k] \in Addr /\ IndexOf(p[k]) \in visitedArray}
  <2>1. /\ m \in Nat \ {0} /\ p[1] = source /\ p[m] = d
        /\ \A k \in 1 .. m - 1 : \E l \in L : l.from = p[k] /\ l.to = p[k + 1]
    BY <1>5, PathsLead
  <2>2. 1 \in P
    <3>1. src \in Idx /\ IndexOf(source) = src
      BY <1>2, Indices DEF DijkstraInv, DijkstraTypeOK
    <3> QED
      BY <1>1, <1>3, <2>1, <3>1
  <2>3. ASSUME NEW k \in 1 .. m - 1, k \in P
        PROVE  k + 1 \in P
    <3> DEFINE a == p[k]
               b == p[k + 1]
    <3>1. \E l \in L : l.from = a /\ l.to = b
      BY <2>1
    <3>2. a \in Addr /\ b \in Addr /\ matrix[a][b] # 0
      BY <1>6, <3>1, LinkWeight
    <3>3. Weight(IndexOf(a), IndexOf(b)) # 0
      BY <1>2, <3>2, EntriesByIndex
    <3>4. IndexOf(a) \in visitedArray /\ IndexOf(b) \in Idx
      BY <2>3, <3>2, Indices
    <3>5. IndexOf(b) \in visitedArray
      BY <1>3, <3>3, <3>4 DEF Unvisited
    <3>6. k + 1 \in 1 .. m
      BY <2>1
    <3> QED
      BY <3>2, <3>5, <3>6
  <2> HIDE DEF P
  <2>4. \A k \in 1 .. m : k \in P
    BY <2>1, <2>2, <2>3, Upwards
  <2>5. m \in P
    BY <2>1, <2>4
  <2>6. u \in visitedArray
    BY <1>5, <2>1, <2>5 DEF P
  <2> QED
    BY <2>6 DEF Unvisited
<1> QED
  BY <1>5, <1>7 DEF Service!Unreachable, L

-----------------------------------------------------------------------------
(***************************************************************************)
(* The server implements the service.                                      *)
(***************************************************************************)

\* What the service sees of the state.
LEMMA SeenByService ==
  /\ (phase = "failed" \/ outcome = "failure") /\ ~Done => Answer = "none"
  /\ phase # "failed" /\ outcome # "failure" /\ ~Done => Answer = "pending"
  /\ phase # "failed" /\ Done => Answer = "tables"
  /\ ~Done => SentTables = Service!NoTables
<1>1. (phase = "failed" \/ outcome = "failure") /\ ~Done => Answer = "none"
  BY DEF Answer
<1>2. Done => outcome # "failure"
  BY DEF Done
<1>3. phase # "failed" /\ Done => Answer = "tables"
  BY <1>2 DEF Answer
<1>4. phase # "failed" /\ outcome # "failure" /\ ~Done => Answer = "pending"
  BY DEF Answer
<1>5. ~Done => SentTables = Service!NoTables
  BY DEF SentTables, Service!NoTables
<1> QED
  BY <1>1, <1>3, <1>4, <1>5

LEMMA ServiceStarts == ServerInit => Service!Init
<1> SUFFICES ASSUME ServerInit PROVE Service!Init
  OBVIOUS
<1>1. phase # "failed" /\ outcome # "failure" /\ ~Done
  BY DEF ServerInit, Init, Done
<1> QED
  BY <1>1, SeenByService DEF Service!Init

\* A step the service does not see.
LEMMA ServiceStutters ==
  ASSUME UNCHANGED <<reports, source>>, ~Done, ~Done',
         (phase = "failed" \/ outcome = "failure") <=> (phase = "failed" \/ outcome = "failure")'
  PROVE  UNCHANGED Service!vars
<1>1. (/\ (phase = "failed" \/ outcome = "failure") /\ ~Done => Answer = "none"
       /\ phase # "failed" /\ outcome # "failure" /\ ~Done => Answer = "pending"
       /\ phase # "failed" /\ Done => Answer = "tables"
       /\ ~Done => SentTables = Service!NoTables)'
  BY SeenByService, PTL
<1>2. Answer' = Answer
  BY <1>1, SeenByService
<1>3. SentTables' = SentTables
  BY <1>1, SeenByService DEF Service!NoTables
<1> QED
  BY <1>2, <1>3 DEF Service!vars

\* A step with which the server gives up, for a reason.
LEMMA ServiceGivesUp ==
  ASSUME UNCHANGED <<reports, source>>, ~Done, ~Done',
         phase # "failed", outcome # "failure", (phase = "failed" \/ outcome = "failure")',
         source \notin Addr \/ Service!StrangerNamed \/ Service!Crowded \/ Service!Unreachable
  PROVE  Service!GiveUp
<1>1. (/\ (phase = "failed" \/ outcome = "failure") /\ ~Done => Answer = "none"
       /\ phase # "failed" /\ outcome # "failure" /\ ~Done => Answer = "pending"
       /\ phase # "failed" /\ Done => Answer = "tables"
       /\ ~Done => SentTables = Service!NoTables)'
  BY SeenByService, PTL
<1>2. Answer = "pending" /\ Answer' = "none"
  BY <1>1, SeenByService
<1>3. SentTables' = SentTables
  BY <1>1, SeenByService DEF Service!NoTables
<1> QED
  BY <1>2, <1>3 DEF Service!GiveUp

\* The step that completes the tables announces them.
LEMMA ServiceAnnounces ==
  ASSUME IInv, ServerInv, IInv', ServerInv', NextRoute, UNCHANGED <<vars, source>>, Done'
  PROVE  Service!Announce
<1>1. outcome = "success" /\ ~Done /\ ~Waiting
  BY SizeAssumption DEF NextRoute, Done, Waiting
<1>2. phase = "success" /\ source \in Addr /\ reports' = reports /\ source' = source
  BY <1>1 DEF ServerInv, Handover, Computed, vars
<1>3. Answer = "pending"
  BY <1>1, <1>2, SeenByService
<1>4. Answer' = "tables"
  <2>1. (phase # "failed" /\ Done => Answer = "tables")'
    BY SeenByService, PTL
  <2>2. phase' # "failed"
    BY <1>2 DEF vars
  <2> QED
    BY <2>1, <2>2
<1>5. ~Service!StrangerNamed
  BY <1>2 DEF ServerInv, Handover, Service!StrangerNamed
<1>6. TablesLead'
  <2>1. (IInv /\ ServerInv /\ Done => TablesLead)'
    BY SentTablesLead, PTL
  <2> QED
    BY <2>1
<1>7. SentTables' \in [Addr -> SUBSET Service!Row]
  BY <1>6 DEF TablesLead, Service!Row
<1>8. \A d \in Addr : Service!LeadTo(SentTables', Service!Links, d)
  <2>1. Service!Links' = Service!Links
    BY <1>2 DEF Service!Links, Service!IsOfLink, Service!Ends
  <2>2. \A L, d : Service!Paths(L, d)' = Service!Paths(L, d)
    BY <1>2 DEF Service!Paths
  <2>3. \A L, d : Service!ShortestTo(L, d)' = Service!ShortestTo(L, d)
    BY <2>2 DEF Service!ShortestTo, Service!Length, Service!WeightOf
  <2>4. \A L, d : Service!LeadTo(SentTables, L, d)' = Service!LeadTo(SentTables', L, d)
    BY <2>3 DEF Service!LeadTo
  <2>5. ASSUME NEW d \in Addr PROVE Service!LeadTo(SentTables', Service!Links, d)
    <3>1. Service!LeadTo(SentTables, Service!Links, d)'
      BY <1>6 DEF TablesLead
    <3> QED
      BY <2>1, <2>3, <3>1 DEF Service!LeadTo
  <2> QED
    BY <2>5
<1> QED
  BY <1>2, <1>3, <1>4, <1>5, <1>7, <1>8 DEF Service!Announce

\* Every step of the server is one of the service or none.
LEMMA ServiceGoesOn ==
  ASSUME IInv, ServerInv, IInv', ServerInv', [ServerNext]_serverVars
  PROVE  [Service!Next]_(Service!vars)
<1>1. [Next]_vars /\ reports' = reports
  BY ServerValidates, ValidationStays
<1>2. ~Waiting => phase = "success"
  BY DEF ServerInv, Handover
<1>3. CASE Validation
  <2>1. /\ UNCHANGED <<dijkstraVars, tableVars, source>>
        /\ Next
    BY <1>3 DEF Validation
  <2>2. phase # "failed" /\ phase # "success"
    BY <2>1 DEF Next, FailSearch, CountReport, AddCounter, AllReportsRead, CheckDualReport,
       AllCountersChecked, CreateAdjacencyMatrix
  <2>3. outcome = "waiting" /\ outcome' = "waiting"
    BY <1>2, <2>1, <2>2 DEF Waiting, dijkstraVars
  <2>4. ~Done /\ ~Done'
    BY <2>3 DEF Done
  <2>5. CASE phase' = "failed"
    <3>1. (IInv /\ phase = "failed" => Service!StrangerNamed \/ Service!Crowded)'
      BY ValidationGivesUp, PTL
    <3>2. Service!StrangerNamed' => Service!StrangerNamed
      BY <1>1 DEF Service!StrangerNamed
    <3>3. Service!Crowded' => Service!Crowded
      BY <1>1 DEF Service!Crowded, Service!Ends
    <3> QED
      BY <1>1, <2>1, <2>2, <2>3, <2>4, <2>5, <3>1, <3>2, <3>3, ServiceGivesUp
         DEF Service!Next
  <2>6. CASE phase' # "failed"
    BY <1>1, <2>1, <2>2, <2>3, <2>4, <2>6, ServiceStutters
  <2> QED
    BY <2>5, <2>6
<1>4. CASE NoSource
  <2>1. /\ UNCHANGED <<reports, source>> /\ source \notin Addr
        /\ phase # "failed" /\ outcome # "failure" /\ outcome' = "failure"
    BY <1>4 DEF NoSource, Waiting, vars
  <2>2. ~Done /\ ~Done'
    BY <1>4, <2>1 DEF NoSource, Waiting, Done
  <2> QED
    BY <2>1, <2>2, ServiceGivesUp DEF Service!Next
<1>5. CASE StartDijkstra
  <2>1. /\ UNCHANGED <<reports, source, phase>> /\ ~Done /\ ~Done'
        /\ outcome # "failure" /\ outcome' # "failure"
    BY <1>5 DEF StartDijkstra, Waiting, vars, Done
  <2> QED
    BY <2>1, ServiceStutters
<1>6. CASE Computation
  <2>1. TablesNext /\ UNCHANGED <<reports, source, phase>> /\ UNCHANGED <<vars, source>>
    BY <1>6 DEF Computation, vars
  <2>2. outcome \in {"running", "success"} /\ phase = "success" /\ ~Done
    <3>1. outcome \in {"running", "success"} /\ ~Done
      BY <2>1, SizeAssumption DEF TablesNext, Dijkstra, DijkstraNext, Visit, VisitFails,
         WriteRow, SkipPair, NextRoute, Writing, Done
    <3> QED
      BY <1>2, <3>1 DEF Waiting
  <2>3. CASE Dijkstra
    <3>1. ~Done'
      <4>1. routeIdx = 0 /\ routeIdx' = routeIdx
        BY <2>3 DEF Dijkstra, DijkstraNext, Visit, VisitFails, ServerInv, TablesInv, Untouched
      <4> QED
        BY <4>1, SizeAssumption DEF Done
    <3>2. CASE VisitFails
      <4>1. outcome' = "failure" /\ Service!Unreachable
        BY <3>2, DijkstraGivesUp DEF VisitFails
      <4> QED
        BY <2>1, <2>2, <3>1, <4>1, ServiceGivesUp DEF Service!Next
    <3>3. CASE Visit
      <4>1. outcome' # "failure"
        BY <3>3 DEF Visit
      <4> QED
        BY <2>1, <2>2, <3>1, <4>1, ServiceStutters
    <3> QED
      BY <2>3, <3>2, <3>3 DEF Dijkstra, DijkstraNext
  <2>4. CASE WriteRow \/ SkipPair \/ NextRoute
    <3>1. outcome' = outcome
      BY <2>4 DEF WriteRow, SkipPair, NextRoute, dijkstraVars
    <3>2. CASE Done'
      <4>1. NextRoute
        BY <2>2, <2>4, <3>1, <3>2 DEF WriteRow, SkipPair, Done
      <4> QED
        BY <2>1, <3>2, <4>1, ServiceAnnounces DEF Service!Next
    <3>3. CASE ~Done'
      BY <2>1, <2>2, <3>1, <3>3, ServiceStutters
    <3> QED
      BY <3>2, <3>3
  <2> QED
    BY <2>1, <2>3, <2>4 DEF TablesNext
<1>7. CASE UNCHANGED serverVars
  <2>1. /\ reports' = reports /\ source' = source
        /\ phase' = phase /\ outcome' = outcome
        /\ routeIdx' = routeIdx /\ routingTables' = routingTables
    BY <1>7 DEF serverVars, vars, dijkstraVars, tableVars
  <2>2. Done' = Done
    BY <2>1 DEF Done
  <2>3. Answer' = Answer
    BY <2>1, <2>2 DEF Answer
  <2>4. SentTables' = SentTables
    BY <2>1, <2>2 DEF SentTables, SentTo, Rows
  <2> QED
    BY <2>1, <2>3, <2>4 DEF Service!vars
<1> QED
  BY <1>3, <1>4, <1>5, <1>6, <1>7 DEF ServerNext

\* From whatever the nodes report, in whatever order they came, the server
\* announces nothing but tables along shortest paths of the agreed edges, and
\* gives up only for a reason that is in the reports.
THEOREM ServerImplementsService == ServerSpec => ImplementsService
<1>1. IInv /\ ServerInv /\ (IInv /\ ServerInv)' /\ [ServerNext]_serverVars
        => [Service!Next]_(Service!vars)
  BY ServiceGoesOn
<1> QED
  BY <1>1, ServiceStarts, ServerInvariance, PTL DEF ServerSpec, ImplementsService, Service!Spec

=============================================================================
