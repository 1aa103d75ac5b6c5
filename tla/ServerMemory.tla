----------------------------- MODULE ServerMemory -----------------------------
(***************************************************************************)
(* What the routing_server allocates, opens, frees and closes, from the    *)
(* start of main to its end, when any allocation and any call may fail.    *)
(*                                                                         *)
(* A block is named after the place in the code that allocates it; row 0   *)
(* is the array itself, rows 1..n are the arrays its elements point to.    *)
(* The contents of the arrays are modelled elsewhere (EdgeValidation,      *)
(* ShortestPaths, RoutingTables).                                          *)
(***************************************************************************)
EXTENDS Naturals, FiniteSets

CONSTANT n  \* the number of nodes

ASSUME SizeAssumption == n \in Nat \ {0}

\* The pointers of main ...
Initialised   == {"nodeArray", "adjacencyMatrix", "distanceArray", "routeArray"}
Uninitialised == {"invalidEdgesArray", "indexToAddress", "routingTableArray"}
\* ... and those local to the functions it calls.
Local == {"edgeCounterArray", "visitedArray", "routeArrayTmp",
          "visitedAndNeighbourArray", "visited", "routingTableArrayTmp"}
Pointers == Initialised \cup Uninitialised \cup Local

\* The order of allocateRoutingServer.
AllocationOrder ==
    <<"nodeArray", "invalidEdgesArray", "indexToAddress", "adjacencyMatrix",
      "distanceArray", "routeArray", "routingTableArray">>

Matrices == {"adjacencyMatrix", "newMatrix", "visited"}
\* Arrays whose allocation function frees them again when a row fails.
SelfFreeing == {"routeArray", "routeArrayTmp", "routingTableArray", "routingTableArrayTmp"}
WithRows == Matrices \cup SelfFreeing

\* createAdjacencyMatrix allocates a second matrix, "newMatrix".
Places == Pointers \cup {"newMatrix"}
NodeRows == {"neighborAddresses", "edgeWeights"}
Blocks == (Places \cup NodeRows \cup {"addressRows"}) \X (0..n)

VARIABLES
    pc,      \* the call of main that is made next, or how the process ended
    round,   \* the round of that call's loop
    leaves,  \* the nodes that turn out to have no row in their table
    mem      \* memory and sockets, see Memory

vars == <<pc, round, leaves, mem>>

Memory ==
    [ptr  : [Pointers -> Places \cup {"NULL", "garbage"}],
     rows : 0..n,           \* addressRoutingTable.routingTableRows: NULL (0),
                            \* or the block of that round
     heap : SUBSET Blocks,  \* the blocks that are allocated
     open : SUBSET (0..n),  \* open sockets: 0 listens, i is connected to node i
     bad  : BOOLEAN]        \* a pointer was freed that owns no block

Ended == {"success", "failure", "crashed"}

TypeOK ==
    /\ pc \in {"allocate", "listen", "populate", "validate", "validating",
               "matrix", "dijkstra", "searching", "tables", "filling", "send"} \cup Ended
    /\ round \in 1 .. 7 + n
    /\ leaves \in SUBSET (1..n)
    /\ mem \in Memory

\* What the stack holds in an uninitialised struct may happen to be NULL.
Init ==
    /\ pc = "allocate"
    /\ round = 1
    /\ leaves \in SUBSET (1..n) \ {{}}
    /\ n > 1 => leaves # 1..n
    /\ \E uninit \in [Uninitialised -> {"NULL", "garbage"}] :
         mem = [ptr  |-> [p \in Pointers |->
                            IF p \in Uninitialised THEN uninit[p] ELSE "NULL"],
                rows |-> 0, heap |-> {}, open |-> {}, bad |-> FALSE]

-----------------------------------------------------------------------------
(***************************************************************************)
(* dynamic_memory.c, as operators on the memory m.                         *)
(***************************************************************************)

\* An allocation at a place succeeds with the given rows; p leads to it.
Allocated(m, p, place, rows) ==
    [m EXCEPT !.ptr[p] = place, !.heap = @ \cup ({place} \X ({0} \cup rows))]

\* It fails, for the array itself or after some of its rows.
FailedAllocations(m, p, place) ==
    {[m EXCEPT !.ptr[p] = "NULL"]}
      \cup (IF place \in Matrices
            THEN {Allocated(m, p, place, 1 .. k) : k \in 0 .. n - 1}
            ELSE {})

\* The rows of a complete allocation.
RowsOf(place) == IF place \in WithRows THEN 1..n ELSE {}

OwnsBlock(m, p) == <<m.ptr[p], 0>> \in m.heap

\* (Slip: the rows are forgotten.)
FreedWithoutRows(m, p) ==
    [m EXCEPT !.ptr[p] = "NULL", !.heap = @ \ {<<m.ptr[p], 0>>}]

\* (Slip: the pointer is not reset.)
FreedKeepingPointer(m, p) == [m EXCEPT !.heap = @ \ ({m.ptr[p]} \X (0..n))]

\* The rows of the block p leads to, then the array; the pointer is reset.
FreedAt(m, p) ==
    [m EXCEPT !.ptr[p] = "NULL", !.heap = @ \ ({m.ptr[p]} \X (0..n))]

\* What is freed is no block.
Misfreed(m) == [m EXCEPT !.bad = TRUE]

\* The free functions for one pointer.
FreePointer(m, p) ==
    IF m.ptr[p] = "NULL" THEN m
    ELSE IF OwnsBlock(m, p) THEN FreedAt(m, p) ELSE Misfreed(m)

\* freeNeighborAddressesAndEdgeWeights of the nodes in S.
FreeNeighbors(m, S) == [m EXCEPT !.heap = @ \ (NodeRows \X S)]

\* freeNodeArray: close the connections and free what belongs to the nodes, but
\* not the array itself.
FreeNodeArray(m) ==
    IF m.ptr["nodeArray"] = "NULL" THEN m
    ELSE [FreeNeighbors(m, 1..n) EXCEPT !.ptr["nodeArray"] = "NULL",
                                        !.open = @ \ (1..n)]

FreeRoutingServer(m) ==
    FreePointer(FreePointer(FreePointer(FreePointer(FreePointer(FreePointer(FreeNodeArray(m),
      "invalidEdgesArray"), "indexToAddress"), "adjacencyMatrix"),
      "distanceArray"), "routeArray"), "routingTableArray")

\* The free of addressRoutingTable.routingTableRows.
FreeRows(m) == [m EXCEPT !.rows = 0, !.heap = @ \ {<<"addressRows", m.rows>>}]

-----------------------------------------------------------------------------
(***************************************************************************)
(* The calls of main.                                                      *)
(***************************************************************************)

\* (Slip: the listening socket stays open.)
ReturnWithSocket(m, how) ==
    /\ mem' = FreeRoutingServer(m)
    /\ pc' = IF FreeRoutingServer(m).bad THEN "crashed" ELSE how
    /\ UNCHANGED <<round, leaves>>

\* Every return of main after the allocation: free all, close the socket.
Return(m, how) ==
    /\ mem' = [FreeRoutingServer(m) EXCEPT !.open = @ \ {0}]
    /\ pc' = IF FreeRoutingServer(m).bad THEN "crashed" ELSE how
    /\ UNCHANGED <<round, leaves>>

GoOn(where, m) ==
    /\ pc' = where
    /\ mem' = m
    /\ round' = 1
    /\ UNCHANGED leaves

\* allocateRoutingServer, one allocation.
Allocate ==
    LET p == AllocationOrder[round]
    IN  /\ pc = "allocate"
        /\ mem' = Allocated(mem, p, p, RowsOf(p))
        /\ IF round = 7 THEN pc' = "listen" /\ round' = 1
                        ELSE pc' = pc /\ round' = round + 1
        /\ UNCHANGED leaves

\* A failing allocation: everything is freed, by allocateRoutingServer unless it
\* was the first, and then by main, the structs that were not reached included.
AllocateFails ==
    /\ pc = "allocate"
    /\ \E m \in FailedAllocations(mem, AllocationOrder[round], AllocationOrder[round]) :
         Return(IF round = 1 THEN m ELSE FreeRoutingServer(m), "failure")

\* getTCPServerSocket; it may fail with the socket open.
Listen ==
    /\ pc = "listen"
    /\ \/ GoOn("populate", [mem EXCEPT !.open = @ \cup {0}])
       \/ \E S \in SUBSET {0} : Return([mem EXCEPT !.open = @ \cup S], "failure")

\* (Slip: one round too many, i <= n.)
PopulateOneTooMany ==
    /\ pc = "populate"
    /\ LET arrays  == NodeRows \X {round}
           With(B) == [mem EXCEPT !.open = @ \cup {round}, !.heap = @ \cup B]
       IN  \/ /\ round < n + 1 /\ round' = round + 1
              /\ mem' = With(arrays) /\ UNCHANGED <<pc, leaves>>
           \/ round = n + 1 /\ GoOn("validate", With(arrays))

\* populateNodeArray, one round: accept, and receive and allocate what the node
\* reports; on a failure what was allocated for this node is freed.
Populate ==
    /\ pc = "populate"
    /\ LET arrays  == NodeRows \X {round}
           With(B) == [mem EXCEPT !.open = @ \cup {round}, !.heap = @ \cup B]
       IN  \/ /\ round < n /\ round' = round + 1
              /\ mem' = With(arrays) /\ UNCHANGED <<pc, leaves>>
           \/ round = n /\ GoOn("validate", With(arrays))
           \/ Return(mem, "failure")
           \/ \E B \in {{}, {<<"neighborAddresses", round>>}, arrays} :
                Return(FreeNeighbors(With(B), {round}), "failure")

\* checkAllNodesReceived: the counters are allocated ...
Validate ==
    /\ pc = "validate"
    /\ \/ GoOn("validating", Allocated(mem, "edgeCounterArray", "edgeCounterArray", {}))
       \/ Return(mem, "failure")

\* ... and freed on every return.
Validated ==
    /\ pc = "validating"
    /\ LET m == FreePointer(mem, "edgeCounterArray")
       IN  GoOn("matrix", m) \/ Return(m, "failure")

\* createAdjacencyMatrix: a second matrix takes the place of the first one,
\* complete or not.  The lookup of address 1 may fail too.
CreateMatrix ==
    /\ pc = "matrix"
    /\ LET m == Allocated(mem, "adjacencyMatrix", "newMatrix", 1..n)
       IN  \/ GoOn("dijkstra", m)
           \/ Return(m, "failure")
           \/ \E f \in FailedAllocations(mem, "adjacencyMatrix", "newMatrix") :
                Return(f, "failure")

\* dijkstra: three local arrays ...
EnterDijkstra ==
    /\ pc = "dijkstra"
    /\ LET m1 == Allocated(mem, "visitedArray", "visitedArray", {})
           m2 == Allocated(m1, "routeArrayTmp", "routeArrayTmp", 1..n)
           m3 == Allocated(m2, "visitedAndNeighbourArray", "visitedAndNeighbourArray", {})
       IN  \/ GoOn("searching", m3)
           \/ Return(mem, "failure")
           \/ Return(FreePointer(m1, "visitedArray"), "failure")
           \/ Return(FreePointer(FreePointer(m2, "visitedArray"), "routeArrayTmp"), "failure")

\* (Slip: the local routes are freed although main got them.)
LeaveDijkstraFreeing ==
    /\ pc = "searching"
    /\ LET m  == FreePointer(FreePointer(mem, "visitedArray"), "visitedAndNeighbourArray")
           m2 == [m EXCEPT !.ptr["routeArray"] = m.ptr["routeArrayTmp"]]
       IN  \/ GoOn("tables", FreePointer(m2, "routeArrayTmp"))
           \/ Return(FreePointer(m, "routeArrayTmp"), "failure")

\* ... of which the routes replace those of main when it succeeds.
LeaveDijkstra ==
    /\ pc = "searching"
    /\ LET m == FreePointer(FreePointer(mem, "visitedArray"), "visitedAndNeighbourArray")
       IN  \/ GoOn("tables", [m EXCEPT !.ptr["routeArray"] = m.ptr["routeArrayTmp"],
                                       !.ptr["routeArrayTmp"] = "NULL"])
           \/ Return(FreePointer(m, "routeArrayTmp"), "failure")

\* createRoutingTableArray: a matrix that was allocated in part is not freed.
EnterTables ==
    /\ pc = "tables"
    /\ LET m1 == Allocated(mem, "visited", "visited", 1..n)
       IN  \/ GoOn("filling", Allocated(m1, "routingTableArrayTmp", "routingTableArrayTmp", 1..n))
           \/ \E f \in FailedAllocations(mem, "visited", "visited") :
                Return([f EXCEPT !.ptr["visited"] = "NULL"], "failure")
           \/ Return(FreePointer(m1, "visited"), "failure")

\* The tables replace those of main.
LeaveTables ==
    /\ pc = "filling"
    /\ LET m == FreePointer(mem, "visited")
       IN  GoOn("send", [m EXCEPT !.ptr["routingTableArray"] = m.ptr["routingTableArrayTmp"],
                                  !.ptr["routingTableArrayTmp"] = "NULL"])

\* translateTableFromIdxToAddress: a leaf's table resets the pointer, any other
\* is translated into the memory of the one before, reallocated.
Translated(m, i) ==
    IF i \in leaves THEN [m EXCEPT !.rows = 0]
    ELSE [m EXCEPT !.rows = i,
                   !.heap = (@ \ {<<"addressRows", m.rows>>}) \cup {<<"addressRows", i>>}]

\* sendRoutingTables, one round, and after the last one the end of main.  A
\* failing realloc leaves the old block; a failing send frees the rows.
Send ==
    /\ pc = "send"
    /\ \/ /\ round < n /\ round' = round + 1
          /\ mem' = Translated(mem, round) /\ UNCHANGED <<pc, leaves>>
       \/ round = n /\ Return(FreeRows(Translated(mem, round)), "success")
       \/ Return(FreeRows(Translated(mem, round)), "failure")
       \/ round \notin leaves /\ Return([mem EXCEPT !.rows = 0], "failure")

Next ==
    \/ Allocate
    \/ AllocateFails
    \/ Listen
    \/ Populate
    \/ Validate
    \/ Validated
    \/ CreateMatrix
    \/ EnterDijkstra
    \/ LeaveDijkstra
    \/ EnterTables
    \/ LeaveTables
    \/ Send

Spec == Init /\ [][Next]_vars

-----------------------------------------------------------------------------
(***************************************************************************)
(* Correctness.                                                            *)
(***************************************************************************)

\* A pointer is NULL, a struct's that was not reached yet, or the only one that
\* leads to its block, which is allocated with all its rows: arrays that change
\* hands between a function and main are neither shared nor freed too early.
PointersOwnBlocks ==
    pc \notin Ended =>
        \A p \in Pointers : mem.ptr[p] # "NULL" =>
            \/ mem.ptr[p] = "garbage" /\ p \in Uninitialised /\ pc = "allocate"
            \/ /\ {<<mem.ptr[p], r>> : r \in {0} \cup RowsOf(mem.ptr[p])} \subseteq mem.heap
               /\ \A q \in Pointers \ {p} : mem.ptr[q] # mem.ptr[p]

\* Nothing is freed twice, although a failing allocation has everything freed
\* twice.  What may be freed without being allocated is one of the structs that
\* main does not initialise, after an allocation before theirs has failed.
OnlyGarbageIsFreedWrongly ==
    mem.bad => \E p \in Uninitialised : mem.ptr[p] = "garbage"

\* The blocks nobody frees: the node array, the arrays of main whose pointers
\* were overwritten, and translated rows when the next table is a leaf's.
Overwritten == {"adjacencyMatrix", "routeArray", "routingTableArray"}
LostOnSuccess ==
    {<<"nodeArray", 0>>}
      \cup {<<p, r>> : p \in Overwritten, r \in 0..n}
      \cup {<<"addressRows", i>> : i \in {j \in (1 .. n - 1) \ leaves : j + 1 \in leaves}}

\* A run that succeeds loses these blocks and no other.  A run that fails loses
\* at most these, the rows it could not reallocate, and a matrix that was
\* allocated in part.
LeaksAccountedFor ==
    /\ pc = "success" => mem.heap = LostOnSuccess
    /\ pc = "failure" => mem.heap \subseteq
         LostOnSuccess \cup ({"addressRows"} \X (1..n)) \cup ({"visited"} \X (0 .. n - 1))

\* Every return closes all sockets, the listening one and those of the nodes
\* accepted so far, wherever the run failed.
SocketsAreClosed == pc \in {"success", "failure"} => mem.open = {}

\* A run that succeeds has released all memory.
ReleasesAllMemory == pc = "success" => mem.heap = {}

=============================================================================
