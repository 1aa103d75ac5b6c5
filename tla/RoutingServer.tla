---------------------------- MODULE RoutingServer ----------------------------
(***************************************************************************)
(* main of the routing_server between the last report and the first table  *)
(* sent: checkAllNodesReceived and createAdjacencyMatrix (EdgeValidation,  *)
(* by address), dijkstra (ShortestPaths, by index) and                     *)
(* createRoutingTableArray (RoutingTables), run one after the other, each  *)
(* on what the one before has left.                                        *)
(***************************************************************************)
EXTENDS EdgeValidation, RoutingTables

CONSTANT indexToAddress  \* the address of the node that came as number i

IndexOf(a) == CHOOSE i \in Idx : indexToAddress[i] = a

\* Every node has an index, and the reports come node after node in this order.
ASSUME IndexAssumption ==
    /\ indexToAddress \in [Idx -> Addr]
    /\ \A a \in Addr : \E i \in Idx : indexToAddress[i] = a
    /\ \A i, j \in Idx : indexToAddress[i] = indexToAddress[j] => i = j
    /\ \A s \in Reports : \A k \in 1 .. Len(s) - 1 :
         IndexOf(s[k].from) <= IndexOf(s[k + 1].from)

\* No sum of n weights overflows.
ASSUME WeightsAssumption ==
    \A s \in Reports : \A k \in DOMAIN s : n * s[k].weight < INT_MAX

VARIABLE source  \* the node that has address 1, a stranger if there is none

serverVars == <<vars, dijkstraVars, tableVars, source>>

Waiting == outcome = "waiting"

ServerInit ==
    /\ Init
    /\ source \in Addr \cup Strangers
    /\ adjacencyMatrix = [i \in Idx |-> [j \in Idx |-> 0]]
    /\ src = 0
    /\ distanceArray = [i \in Idx |-> 0]
    /\ visitedArray = {}
    /\ routeArray = [i \in Idx |-> <<>>]
    /\ iteration = 0
    /\ outcome = "waiting"
    /\ routeIdx = 0
    /\ sourceIdx = 0
    /\ destinationIdx = 0
    /\ visited = {}
    /\ routingTables = [i \in Idx |-> <<>>]

-----------------------------------------------------------------------------
Validation ==
    /\ Next
    /\ UNCHANGED <<dijkstraVars, tableVars, source>>

\* There is no index of address 1.
NoSource ==
    /\ phase = "success" /\ Waiting
    /\ source \notin Addr
    /\ outcome' = "failure"
    /\ UNCHANGED <<vars, adjacencyMatrix, src, distanceArray, visitedArray,
                   routeArray, iteration, tableVars, source>>

\* (Slip: the node that came first is taken for node 1.)
IsSourceIfFirst(i) == i = 0

\* The index dijkstra is called with.
IsSource(i) == indexToAddress[i] = source

\* dijkstra is called: its matrix is the one by index, and all arrays are set.
StartDijkstra ==
    /\ phase = "success" /\ Waiting
    /\ source \in Addr
    /\ \E i \in Idx : IsSource(i) /\ src' = i
    /\ adjacencyMatrix' =
         [i \in Idx |-> [j \in Idx |-> matrix[indexToAddress[i]][indexToAddress[j]]]]
    /\ distanceArray' = [i \in Idx |-> IF i = src' THEN 0 ELSE INT_MAX]
    /\ outcome' = "running"
    /\ UNCHANGED <<vars, visitedArray, routeArray, iteration, tableVars, source>>

Computation ==
    /\ TablesNext
    /\ UNCHANGED <<vars, source>>

ServerNext ==
    \/ Validation
    \/ NoSource
    \/ StartDijkstra
    \/ Computation

\* The server is one thread, and nothing in this part of it blocks.
ServerSpec ==
    ServerInit /\ [][ServerNext]_serverVars /\ WF_serverVars(ServerNext)

-----------------------------------------------------------------------------
(***************************************************************************)
(* Correctness.                                                            *)
(***************************************************************************)

\* What ShortestPaths assumes of its input holds of what it gets here: whatever
\* was reported, a symmetric matrix without self loops.
DijkstraIsFed ==
    ~Waiting /\ source \in Addr => DijkstraTypeOK /\ IsMatrix(adjacencyMatrix)

\* The types of all arrays, once the function that fills them has started.
ServerTypeOK ==
    /\ TypeOK
    /\ DijkstraIsFed
    /\ ~Waiting => TablesTypeOK

\* The rows of the table that the node with address a is sent.
SentTo(a) ==
    {[destination |-> indexToAddress[row.destination],
      nextHop |-> indexToAddress[row.nextHop]] :
        row \in UNION {Rows(i) : i \in {j \in Idx : indexToAddress[j] = a}}}

\* What the nodes are told, and their tables.
Answer ==
    CASE phase = "failed" \/ outcome = "failure" -> "none"
      [] Done -> "tables"
      [] OTHER -> "pending"

SentTables == [a \in Addr |-> IF Done THEN SentTo(a) ELSE {}]

Service == INSTANCE RouteService WITH answer <- Answer, tables <- SentTables

\* From whatever the nodes report, in whatever order they came, the server
\* announces nothing but tables along shortest paths of the edges both ends
\* agree on, and gives up only because of a stranger, too many edges, a node it
\* cannot reach or a missing node 1.
ImplementsService == Service!Spec

\* It arrives at one of them: every loop of the three computations ends.
EndsInAnAnswer == Service!Answers

=============================================================================
