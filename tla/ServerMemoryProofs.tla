-------------------------- MODULE ServerMemoryProofs --------------------------
(***************************************************************************)
(* Proofs about the memory of the routing_server, for any number of nodes, *)
(* any leaves and any failing call.                                        *)
(*                                                                         *)
(* The argument: no two pointers lead to one block, so that a free takes a *)
(* block from nobody else.  What is allocated while main runs is what the  *)
(* pointers lead to, the arrays of main that functions have replaced by    *)
(* their own, the rows of the nodes that were read, and the translated     *)
(* rows a leaf let go (MemInv).  From such a memory every way to a failing *)
(* end frees all but what LeaksAccountedFor lists (Releasable): also half  *)
(* way through a call, where an allocation was not completed.              *)
(***************************************************************************)
EXTENDS ServerMemory, FiniteSetTheorems, TLAPS

Names == Places \cup NodeRows \cup {"addressRows"}
Main == Initialised \cup Uninitialised

\* The arrays freeRoutingServer frees.
FreedByMain == Main \ {"nodeArray"}

\* No two pointers lead to one block, and garbage is where nothing was set.
Unshared(m) ==
    /\ \A p, q \in Pointers : p # q /\ m.ptr[p] = m.ptr[q] => m.ptr[p] \in {"NULL", "garbage"}
    /\ \A p \in Pointers : m.ptr[p] = "garbage" => p \in Uninitialised

\* What is allocated in m: the blocks pointers lead to and those of the places
\* lost, complete, the rows of k nodes, and translated rows T.
HeapIs(m, lost, k, T) ==
    \A b \in Names, i \in 0..n : <<b, i>> \in m.heap <=>
        \/ /\ b \in Places /\ i \in {0} \cup RowsOf(b)
           /\ b \in lost \/ \E p \in Pointers : m.ptr[p] = b
        \/ b \in NodeRows /\ i \in 1..k
        \/ b = "addressRows" /\ i \in T

Fine(m, lost, k, T) ==
    /\ m \in Memory
    /\ ~m.bad
    /\ Unshared(m)
    /\ lost \subseteq Places
    /\ \A p \in Pointers : m.ptr[p] \notin lost
    /\ HeapIs(m, lost, k, T)

\* Where the calls of main are.
AfterMatrix == {"dijkstra", "searching", "tables", "filling", "send"}
AfterSearch == {"tables", "filling", "send"}

LocalsAt(at) ==
    CASE at = "validating" -> {"edgeCounterArray"}
      [] at = "searching"  -> {"visitedArray", "routeArrayTmp", "visitedAndNeighbourArray"}
      [] at = "filling"    -> {"visited", "routingTableArrayTmp"}
      [] OTHER             -> {}

LostAt(at) ==
    {p \in Overwritten : \/ p = "adjacencyMatrix" /\ at \in AfterMatrix
                         \/ p = "routeArray" /\ at \in AfterSearch
                         \/ p = "routingTableArray" /\ at = "send"}

\* The array that takes the place of one of main's.
Successor(p) ==
    CASE p = "adjacencyMatrix"   -> "newMatrix"
      [] p = "routeArray"        -> "routeArrayTmp"
      [] p = "routingTableArray" -> "routingTableArrayTmp"

\* Where a pointer leads once all is allocated.
Target(p, at) ==
    IF p \in Local THEN IF p \in LocalsAt(at) THEN p ELSE "NULL"
    ELSE IF p \in LostAt(at) THEN Successor(p) ELSE p

\* The structs that are allocated before the given round.
AllocatedBefore(r) == {AllocationOrder[k] : k \in 1 .. r - 1}

PointersAreSet ==
    \A p \in Pointers :
        IF pc = "allocate"
        THEN IF p \in AllocatedBefore(round) THEN mem.ptr[p] = p
             ELSE mem.ptr[p] \in IF p \in Uninitialised THEN {"NULL", "garbage"} ELSE {"NULL"}
        ELSE mem.ptr[p] = Target(p, pc)

\* The nodes that have reported, and the rounds whose rows are allocated.
NodesRead == IF pc \in {"allocate", "listen"} THEN 0
             ELSE IF pc = "populate" THEN round - 1 ELSE n

RowsBefore(r) == {j \in 1 .. r - 1 : j \notin leaves /\ (j = r - 1 \/ j + 1 \in leaves)}
RowsTranslated == IF pc = "send" THEN RowsBefore(round) ELSE {}

SocketsOpen ==
    mem.open = IF pc \in {"allocate", "listen"} THEN {}
               ELSE IF pc = "populate" THEN 0 .. round - 1 ELSE 0 .. n

Rounds ==
    /\ pc = "allocate" => round \in 1..7
    /\ pc \in {"populate", "send"} => round \in 1..n
    /\ pc \notin {"allocate", "populate", "send"} \cup Ended => round = 1
    /\ mem.rows = IF pc = "send" /\ round - 1 \notin leaves THEN round - 1 ELSE 0

Running ==
    /\ Fine(mem, LostAt(pc), NodesRead, RowsTranslated)
    /\ PointersAreSet
    /\ SocketsOpen
    /\ Rounds

MemInv ==
    /\ TypeOK
    /\ pc \notin Ended => Running
    /\ OnlyGarbageIsFreedWrongly
    /\ LeaksAccountedFor
    /\ SocketsAreClosed

\* What a run that fails may leave behind.
Allowed == LostOnSuccess \cup ({"addressRows"} \X (1..n)) \cup ({"visited"} \X (0 .. n - 1))

\* With the pointers in S still to be freed: nothing is left behind that is not
\* allowed.
Leftovers(m, S) ==
    \A b \in m.heap :
        \/ b \in Allowed
        \/ \E p \in S : m.ptr[p] = b[1]
        \/ m.ptr["nodeArray"] # "NULL" /\ b \in NodeRows \X (1..n)

\* The memory can be freed, complete or not.
Releasable(m, S) ==
    /\ m \in Memory
    /\ Unshared(m)
    /\ \A p \in Pointers : m.ptr[p] \in Places => <<m.ptr[p], 0>> \in m.heap
    /\ m.bad => \E p \in Uninitialised : m.ptr[p] = "garbage"
    /\ m.ptr["nodeArray"] \in {"NULL", "nodeArray"}
    /\ m.ptr["nodeArray"] = "NULL" => m.open \subseteq {0}
    /\ Leftovers(m, S)

-----------------------------------------------------------------------------

LEMMA NamesApart ==
    /\ Pointers \subseteq Places
    /\ "NULL" \notin Places /\ "garbage" \notin Places
    /\ Places \cap NodeRows = {} /\ "addressRows" \notin Places \cup NodeRows
    /\ Uninitialised \subseteq Pointers /\ Initialised \subseteq Pointers
    /\ Local \subseteq Pointers /\ "nodeArray" \in Pointers
    /\ Pointers = Main \cup Local
    /\ Blocks = Names \X (0..n)
BY DEF Pointers, Places, NodeRows, Uninitialised, Initialised, Local, Blocks, Names, Main

LEMMA RowsFew == \A place : RowsOf(place) \subseteq 1..n
BY DEF RowsOf

LEMMA MemoryFields ==
    ASSUME NEW m \in Memory
    PROVE  /\ m.ptr \in [Pointers -> Places \cup {"NULL", "garbage"}]
           /\ m.rows \in 0..n
           /\ m.heap \subseteq Names \X (0..n)
           /\ m.open \subseteq 0..n
           /\ m.bad \in BOOLEAN
           /\ m = [ptr |-> m.ptr, rows |-> m.rows, heap |-> m.heap, open |-> m.open, bad |-> m.bad]
BY NamesApart DEF Memory

-----------------------------------------------------------------------------
(***************************************************************************)
(* Memory that can be freed.                                               *)
(***************************************************************************)

\* The cases of FreePointer.
LEMMA FreeCases ==
    ASSUME NEW m, NEW p
    PROVE  \/ m.ptr[p] = "NULL" /\ FreePointer(m, p) = m
           \/ m.ptr[p] # "NULL" /\ <<m.ptr[p], 0>> \in m.heap /\ FreePointer(m, p) = FreedAt(m, p)
           \/ m.ptr[p] # "NULL" /\ <<m.ptr[p], 0>> \notin m.heap /\ FreePointer(m, p) = Misfreed(m)
<1>1. CASE m.ptr[p] = "NULL"
  BY <1>1 DEF FreePointer
<1>2. CASE m.ptr[p] # "NULL" /\ OwnsBlock(m, p)
  BY <1>2 DEF FreePointer, OwnsBlock
<1>3. CASE m.ptr[p] # "NULL" /\ ~OwnsBlock(m, p)
  BY <1>3 DEF FreePointer, OwnsBlock
<1> QED
  BY <1>1, <1>2, <1>3

LEMMA FreedAtFields ==
    ASSUME NEW m \in Memory, NEW p \in Pointers
    PROVE  /\ FreedAt(m, p).ptr = [m.ptr EXCEPT ![p] = "NULL"]
           /\ FreedAt(m, p).heap = m.heap \ ({m.ptr[p]} \X (0..n))
           /\ FreedAt(m, p).rows = m.rows /\ FreedAt(m, p).open = m.open /\ FreedAt(m, p).bad = m.bad
           /\ FreedAt(m, p) \in Memory
  BY DEF FreedAt, Memory

LEMMA MisfreedFields ==
    ASSUME NEW m \in Memory
    PROVE  /\ Misfreed(m).ptr = m.ptr /\ Misfreed(m).heap = m.heap
           /\ Misfreed(m).rows = m.rows /\ Misfreed(m).open = m.open /\ Misfreed(m).bad = TRUE
           /\ Misfreed(m) \in Memory
  BY DEF Misfreed, Memory

\* Freeing a pointer takes it from those that are still to be freed.
LEMMA FreeReleases ==
    ASSUME NEW m, NEW S \in SUBSET Pointers, Releasable(m, S), NEW p \in Pointers \ {"nodeArray"}
    PROVE  /\ Releasable(FreePointer(m, p), S \ {p})
           /\ FreePointer(m, p).ptr["nodeArray"] = m.ptr["nodeArray"]
           /\ FreePointer(m, p).open = m.open
<1> DEFINE f == FreePointer(m, p)
<1>1. m \in Memory
  BY DEF Releasable
<1>2. CASE m.ptr[p] = "NULL" /\ f = m
  <2>1. \A b \in m.heap : b[1] # "NULL"
    BY <1>1, MemoryFields, NamesApart, "NULL" \notin Names DEF Names, NodeRows
  <2>2. Leftovers(f, S \ {p})
    BY <1>2, <2>1 DEF Releasable, Leftovers
  <2> QED
    BY <1>2, <2>2 DEF Releasable
<1>3. CASE m.ptr[p] # "NULL" /\ <<m.ptr[p], 0>> \in m.heap /\ f = FreedAt(m, p)
  <2>1. /\ f.ptr = [m.ptr EXCEPT ![p] = "NULL"]
        /\ f.heap = m.heap \ ({m.ptr[p]} \X (0..n))
        /\ f.open = m.open /\ f.bad = m.bad /\ f \in Memory
    BY <1>1, <1>3, FreedAtFields
  <2> HIDE DEF f
  <2>2. \A q \in Pointers : f.ptr[q] = IF q = p THEN "NULL" ELSE m.ptr[q]
    BY <1>1, <2>1, MemoryFields
  <2>3. m.ptr[p] # "garbage"
    BY <1>1, <1>3, MemoryFields, NamesApart, "garbage" \notin Names DEF Names, NodeRows
  <2>4. Unshared(f)
    BY <2>2 DEF Releasable, Unshared
  <2>5. \A q \in Pointers : f.ptr[q] \in Places => <<f.ptr[q], 0>> \in f.heap
    <3> SUFFICES ASSUME NEW q \in Pointers, f.ptr[q] \in Places PROVE <<f.ptr[q], 0>> \in f.heap
      OBVIOUS
    <3>1. q # p /\ f.ptr[q] = m.ptr[q]
      BY <2>2, NamesApart
    <3>2. m.ptr[q] # m.ptr[p]
      BY <3>1, NamesApart DEF Releasable, Unshared
    <3> QED
      BY <3>1, <3>2, <2>1 DEF Releasable
  <2>6. f.bad => \E q \in Uninitialised : f.ptr[q] = "garbage"
    BY <2>1, <2>2, <2>3, NamesApart DEF Releasable
  <2>7. Leftovers(f, S \ {p})
    <3> SUFFICES ASSUME NEW b \in f.heap, b \notin Allowed, b \notin NodeRows \X (1..n)
                        \/ m.ptr["nodeArray"] = "NULL"
                 PROVE  \E q \in S \ {p} : f.ptr[q] = b[1]
      BY <2>2, NamesApart DEF Leftovers
    <3>1. b \in m.heap /\ b \notin {m.ptr[p]} \X (0..n)
      BY <2>1
    <3>2. PICK q \in S : m.ptr[q] = b[1]
      BY <3>1 DEF Releasable, Leftovers
    <3>3. b = <<b[1], b[2]>> /\ b[2] \in 0..n
      BY <3>1, <1>1, MemoryFields
    <3>4. q # p
      BY <3>1, <3>2, <3>3
    <3> QED
      BY <3>2, <3>4, <2>2
  <2>8. f.ptr["nodeArray"] = m.ptr["nodeArray"]
    BY <2>2, NamesApart
  <2>9. Releasable(f, S \ {p})
    BY <2>1, <2>4, <2>5, <2>6, <2>7, <2>8 DEF Releasable
  <2> QED
    BY <2>1, <2>8, <2>9 DEF f
<1>4. CASE m.ptr[p] # "NULL" /\ <<m.ptr[p], 0>> \notin m.heap /\ f = Misfreed(m)
  <2>1. /\ f.ptr = m.ptr /\ f.heap = m.heap /\ f.open = m.open /\ f \in Memory
    BY <1>1, <1>4, MisfreedFields
  <2>2. m.ptr[p] = "garbage" /\ p \in Uninitialised
    BY <1>1, <1>4, MemoryFields DEF Releasable, Unshared
  <2>3. \A b \in m.heap : b[1] # "garbage"
    BY <1>1, MemoryFields, NamesApart, "garbage" \notin Names DEF Names, NodeRows
  <2>4. Leftovers(f, S \ {p})
    BY <2>1, <2>2, <2>3 DEF Releasable, Leftovers
  <2> HIDE DEF f
  <2>5. Unshared(f)
    BY <2>1 DEF Releasable, Unshared
  <2>6. Releasable(f, S \ {p})
    BY <2>1, <2>2, <2>4, <2>5 DEF Releasable
  <2> QED
    BY <2>1, <2>6 DEF f
<1> QED
  BY <1>1, <1>2, <1>3, <1>4, FreeCases

LEMMA FreeNodeArrayFields ==
    ASSUME NEW m \in Memory
    PROVE  LET f == FreeNodeArray(m) IN
           /\ f \in Memory
           /\ f.rows = m.rows /\ f.bad = m.bad
           /\ IF m.ptr["nodeArray"] = "NULL" THEN f = m
              ELSE /\ f.ptr = [m.ptr EXCEPT !["nodeArray"] = "NULL"]
                   /\ f.heap = m.heap \ (NodeRows \X (1..n))
                   /\ f.open = m.open \ (1..n)
<1> DEFINE f == FreeNodeArray(m)
           g == FreeNeighbors(m, 1..n)
<1>1. CASE m.ptr["nodeArray"] = "NULL"
  BY <1>1 DEF FreeNodeArray
<1>2. CASE m.ptr["nodeArray"] # "NULL"
  <2>1. /\ g \in Memory
        /\ g.ptr = m.ptr /\ g.rows = m.rows /\ g.bad = m.bad /\ g.open = m.open
        /\ g.heap = m.heap \ (NodeRows \X (1..n))
    BY DEF FreeNeighbors, Memory
  <2>2. f = [g EXCEPT !.ptr["nodeArray"] = "NULL", !.open = @ \ (1..n)]
    BY <1>2 DEF FreeNodeArray
  <2> HIDE DEF f, g
  <2>3. /\ f \in Memory
        /\ f.ptr = [g.ptr EXCEPT !["nodeArray"] = "NULL"]
        /\ f.rows = g.rows /\ f.bad = g.bad /\ f.heap = g.heap
        /\ f.open = g.open \ (1..n)
    BY <2>1, <2>2, NamesApart DEF Memory
  <2> QED
    BY <1>2, <2>1, <2>3 DEF f
<1> QED
  BY <1>1, <1>2

\* freeNodeArray closes the connections and leaves no rows of nodes.
LEMMA FreeNodeArrayReleases ==
    ASSUME NEW m, NEW S \in SUBSET (Pointers \ {"nodeArray"}), Releasable(m, S)
    PROVE  /\ Releasable(FreeNodeArray(m), S)
           /\ FreeNodeArray(m).ptr["nodeArray"] = "NULL"
           /\ FreeNodeArray(m).open \subseteq {0}
<1> DEFINE f == FreeNodeArray(m)
<1>1. m \in Memory
  BY DEF Releasable
<1>2. CASE m.ptr["nodeArray"] = "NULL"
  BY <1>1, <1>2, FreeNodeArrayFields DEF Releasable
<1>3. CASE m.ptr["nodeArray"] # "NULL"
  <2>1. /\ f \in Memory /\ f.bad = m.bad
        /\ f.ptr = [m.ptr EXCEPT !["nodeArray"] = "NULL"]
        /\ f.heap = m.heap \ (NodeRows \X (1..n))
        /\ f.open = m.open \ (1..n)
    BY <1>1, <1>3, FreeNodeArrayFields
  <2> HIDE DEF f
  <2>2. \A q \in Pointers : f.ptr[q] = IF q = "nodeArray" THEN "NULL" ELSE m.ptr[q]
    BY <1>1, <2>1, MemoryFields
  <2>3. f.open \subseteq {0}
    BY <1>1, <2>1, MemoryFields
  <2>4. Unshared(f)
    BY <2>2 DEF Releasable, Unshared
  <2>5. \A q \in Pointers : f.ptr[q] \in Places => <<f.ptr[q], 0>> \in f.heap
    BY <2>1, <2>2, NamesApart DEF Releasable
  <2>6. f.bad => \E q \in Uninitialised : f.ptr[q] = "garbage"
    BY <2>1, <2>2, NamesApart, "nodeArray" \notin Uninitialised DEF Releasable, Uninitialised
  <2>7. Leftovers(f, S)
    BY <2>1, <2>2 DEF Releasable, Leftovers
  <2>8. f.ptr["nodeArray"] = "NULL"
    BY <2>2, NamesApart
  <2>9. Releasable(f, S)
    BY <2>1, <2>3, <2>4, <2>5, <2>6, <2>7, <2>8 DEF Releasable
  <2> QED
    BY <2>3, <2>8, <2>9 DEF f
<1> QED
  BY <1>2, <1>3

\* freeRoutingServer leaves nothing behind that is not allowed, and can be
\* called again.
LEMMA AllReleased ==
    ASSUME NEW m, Releasable(m, FreedByMain)
    PROVE  /\ Releasable(FreeRoutingServer(m), {})
           /\ FreeRoutingServer(m).ptr["nodeArray"] = "NULL"
           /\ FreeRoutingServer(m).open \subseteq {0}
<1> DEFINE m0 == FreeNodeArray(m)
           m1 == FreePointer(m0, "invalidEdgesArray")
           m2 == FreePointer(m1, "indexToAddress")
           m3 == FreePointer(m2, "adjacencyMatrix")
           m4 == FreePointer(m3, "distanceArray")
           m5 == FreePointer(m4, "routeArray")
           m6 == FreePointer(m5, "routingTableArray")
           Of(x, S) == Releasable(x, S) /\ x.ptr["nodeArray"] = "NULL" /\ x.open \subseteq {0}
           S1 == FreedByMain \ {"invalidEdgesArray"}
           S2 == S1 \ {"indexToAddress"}
           S3 == S2 \ {"adjacencyMatrix"}
           S4 == S3 \ {"distanceArray"}
           S5 == S4 \ {"routeArray"}
           S6 == S5 \ {"routingTableArray"}
<1>1. FreedByMain \in SUBSET (Pointers \ {"nodeArray"})
  BY NamesApart DEF FreedByMain
<1>2. /\ {"invalidEdgesArray", "indexToAddress", "adjacencyMatrix", "distanceArray",
           "routeArray", "routingTableArray"} \subseteq Pointers \ {"nodeArray"}
      /\ S6 = {}
  BY DEF Pointers, FreedByMain, Main, Initialised, Uninitialised
<1>3. ASSUME NEW x, NEW S \in SUBSET Pointers, Of(x, S), NEW p \in Pointers \ {"nodeArray"}
      PROVE  Of(FreePointer(x, p), S \ {p})
  BY <1>3, FreeReleases
<1>4. Of(m0, FreedByMain)
  BY <1>1, FreeNodeArrayReleases
<1> HIDE DEF m0, Of
<1>5. Of(m1, S1)
  BY <1>1, <1>2, <1>3, <1>4
<1> HIDE DEF m1
<1>6. Of(m2, S2)
  BY <1>1, <1>2, <1>3, <1>5
<1> HIDE DEF m2
<1>7. Of(m3, S3)
  BY <1>1, <1>2, <1>3, <1>6
<1> HIDE DEF m3
<1>8. Of(m4, S4)
  BY <1>1, <1>2, <1>3, <1>7
<1> HIDE DEF m4
<1>9. Of(m5, S5)
  BY <1>1, <1>2, <1>3, <1>8
<1> HIDE DEF m5
<1>10. Of(m6, {})
  BY <1>1, <1>2, <1>3, <1>9
<1>11. FreeRoutingServer(m) = m6
  BY DEF FreeRoutingServer, m0, m1, m2, m3, m4, m5
<1> HIDE DEF m6
<1> QED
  BY <1>10, <1>11 DEF Of

\* What is left without a pointer is what a failing run may leave.
LEMMA FailureLeaks ==
    ASSUME NEW m, Releasable(m, {}), m.ptr["nodeArray"] = "NULL"
    PROVE  m.heap \subseteq Allowed
BY DEF Releasable, Leftovers

\* A failing return of main, with memory that can be freed, keeps the invariant.
LEMMA ReturnFails ==
    ASSUME TypeOK, NEW m, Releasable(m, FreedByMain), Return(m, "failure")
    PROVE  MemInv'
<1> DEFINE f == FreeRoutingServer(m)
<1>1. Releasable(f, {}) /\ f.ptr["nodeArray"] = "NULL" /\ f.open \subseteq {0}
  BY AllReleased
<1>2. f \in Memory
  BY <1>1 DEF Releasable
<1>3. /\ mem' = [f EXCEPT !.open = @ \ {0}]
      /\ pc' = IF f.bad THEN "crashed" ELSE "failure"
      /\ UNCHANGED <<round, leaves>>
  BY DEF Return
<1> HIDE DEF f
<1>4. /\ mem' \in Memory
      /\ mem'.open = {} /\ mem'.heap = f.heap /\ mem'.bad = f.bad /\ mem'.ptr = f.ptr
  BY <1>1, <1>2, <1>3 DEF Memory
<1>5. Allowed' = Allowed
  BY <1>3 DEF Allowed, LostOnSuccess, Overwritten
<1>6. f.heap \subseteq Allowed
  BY <1>1, FailureLeaks
<1>7. pc' \in {"crashed", "failure"}
  BY <1>3
<1>8. TypeOK'
  BY <1>3, <1>4, <1>7 DEF TypeOK, Ended
<1>9. OnlyGarbageIsFreedWrongly'
  BY <1>1, <1>4 DEF OnlyGarbageIsFreedWrongly, Releasable
<1>10. LeaksAccountedFor'
  BY <1>4, <1>5, <1>6, <1>7 DEF LeaksAccountedFor, Allowed
<1>11. SocketsAreClosed'
  BY <1>4 DEF SocketsAreClosed
<1> QED
  BY <1>7, <1>8, <1>9, <1>10, <1>11 DEF MemInv, Ended

\* Nothing is lost for good when p is overwritten, but what may be.
Losable(m, p) == \A b \in m.heap : b[1] = m.ptr[p] => b \in Allowed

LEMMA NoBlockIsNull ==
    ASSUME NEW m \in Memory
    PROVE  \A b \in m.heap : b[1] \notin {"NULL", "garbage"}
BY MemoryFields, NamesApart, "NULL" \notin Names, "garbage" \notin Names DEF Names, NodeRows

LEMMA MayBeOverwritten ==
    ASSUME NEW m \in Memory, NEW p \in Pointers,
           m.ptr[p] \in {"NULL", "garbage"} \cup Overwritten
    PROVE  Losable(m, p)
<1> SUFFICES ASSUME NEW b \in m.heap, b[1] = m.ptr[p]
             PROVE  b \in Allowed
  BY DEF Losable
<1>1. b[1] \in Overwritten
  BY NoBlockIsNull
<1>2. b = <<b[1], b[2]>> /\ b[2] \in 0..n
  BY MemoryFields
<1> QED
  BY <1>1, <1>2 DEF Allowed, LostOnSuccess

LEMMA AllocatedFields ==
    ASSUME NEW m \in Memory, NEW p \in Pointers, NEW place \in Places,
           NEW rows \in SUBSET (1..n)
    PROVE  LET a == Allocated(m, p, place, rows) IN
           /\ a \in Memory
           /\ a.ptr = [m.ptr EXCEPT ![p] = place]
           /\ a.heap = m.heap \cup ({place} \X ({0} \cup rows))
           /\ a.rows = m.rows /\ a.open = m.open /\ a.bad = m.bad
<1> DEFINE a == Allocated(m, p, place, rows)
           B == {place} \X ({0} \cup rows)
<1>1. {0} \cup rows \subseteq 0..n
  BY SizeAssumption
<1>2. B \subseteq Blocks
  BY <1>1, NamesApart DEF Names
<1>3. a = [m EXCEPT !.ptr[p] = place, !.heap = @ \cup B]
  BY DEF Allocated
<1> HIDE DEF a, B
<1>4. /\ a.ptr = [m.ptr EXCEPT ![p] = place]
      /\ a.heap = m.heap \cup B
      /\ a.rows = m.rows /\ a.open = m.open /\ a.bad = m.bad
      /\ a \in Memory
  BY <1>2, <1>3 DEF Memory
<1> QED
  BY <1>4 DEF a, B

\* An allocation, complete or not, adds a pointer that is to be freed.
LEMMA AllocatedReleasable ==
    ASSUME NEW m, NEW S \in SUBSET Pointers, Releasable(m, S), ~m.bad,
           NEW p \in Pointers \ {"nodeArray"}, Losable(m, p),
           NEW place \in Places, \A q \in Pointers : m.ptr[q] # place,
           NEW rows \in SUBSET (1..n)
    PROVE  Releasable(Allocated(m, p, place, rows), S \cup {p})
<1> DEFINE a == Allocated(m, p, place, rows)
<1>1. m \in Memory
  BY DEF Releasable
<1>2. /\ a \in Memory
      /\ a.ptr = [m.ptr EXCEPT ![p] = place]
      /\ a.heap = m.heap \cup ({place} \X ({0} \cup rows))
      /\ a.open = m.open /\ a.bad = m.bad
  BY <1>1, AllocatedFields
<1> HIDE DEF a
<1>3. \A q \in Pointers : a.ptr[q] = IF q = p THEN place ELSE m.ptr[q]
  BY <1>1, <1>2, MemoryFields
<1>4. Unshared(a)
  BY <1>3, NamesApart DEF Releasable, Unshared
<1>5. \A q \in Pointers : a.ptr[q] \in Places => <<a.ptr[q], 0>> \in a.heap
  BY <1>2, <1>3 DEF Releasable
<1>6. a.ptr["nodeArray"] = m.ptr["nodeArray"]
  BY <1>3, NamesApart
<1>7. Leftovers(a, S \cup {p})
  <2> SUFFICES ASSUME NEW b \in a.heap, b \notin Allowed,
                      m.ptr["nodeArray"] = "NULL" \/ b \notin NodeRows \X (1..n)
               PROVE  \E q \in S \cup {p} : a.ptr[q] = b[1]
    BY <1>6 DEF Leftovers
  <2>1. CASE b \in m.heap
    <3>1. PICK q \in S : m.ptr[q] = b[1]
      BY <2>1 DEF Releasable, Leftovers
    <3>2. q # p
      BY <2>1, <3>1 DEF Losable
    <3> QED
      BY <1>3, <3>1, <3>2
  <2>2. CASE b \in {place} \X ({0} \cup rows)
    BY <1>3, <2>2
  <2> QED
    BY <1>2, <2>1, <2>2
<1>8. Releasable(a, S \cup {p})
  BY <1>2, <1>4, <1>5, <1>6, <1>7 DEF Releasable
<1> QED
  BY <1>8 DEF a

\* So does forgetting a pointer to what may be left behind.
LEMMA ForgottenReleasable ==
    ASSUME NEW m, NEW S \in SUBSET Pointers, Releasable(m, S), ~m.bad,
           NEW p \in Pointers, Losable(m, p),
           p = "nodeArray" => m.ptr[p] = "NULL"
    PROVE  Releasable([m EXCEPT !.ptr[p] = "NULL"], S \ {p})
<1> DEFINE a == [m EXCEPT !.ptr[p] = "NULL"]
<1>1. m \in Memory
  BY DEF Releasable
<1>2. /\ a \in Memory
      /\ a.ptr = [m.ptr EXCEPT ![p] = "NULL"]
      /\ a.heap = m.heap /\ a.open = m.open /\ a.bad = m.bad
  BY <1>1 DEF Memory
<1> HIDE DEF a
<1>3. \A q \in Pointers : a.ptr[q] = IF q = p THEN "NULL" ELSE m.ptr[q]
  BY <1>1, <1>2, MemoryFields
<1>4. Unshared(a)
  BY <1>3 DEF Releasable, Unshared
<1>5. \A q \in Pointers : a.ptr[q] \in Places => <<a.ptr[q], 0>> \in a.heap
  BY <1>2, <1>3, NamesApart DEF Releasable
<1>6. a.ptr["nodeArray"] = m.ptr["nodeArray"]
  BY <1>3, NamesApart
<1>7. Leftovers(a, S \ {p})
  BY <1>2, <1>3, <1>6 DEF Releasable, Leftovers, Losable
<1>8. Releasable(a, S \ {p})
  BY <1>2, <1>4, <1>5, <1>6, <1>7 DEF Releasable
<1> QED
  BY <1>8 DEF a

\* Other changes keep what the pointers lead to.
LEMMA OtherwiseReleasable ==
    ASSUME NEW m, NEW S, Releasable(m, S), NEW m2 \in Memory,
           m2.ptr = m.ptr, m2.bad = m.bad,
           m.ptr["nodeArray"] # "NULL" \/ m2.open \subseteq {0},
           \A b \in Places : <<b, 0>> \in m.heap => <<b, 0>> \in m2.heap,
           \A b \in m2.heap : \/ b \in m.heap \/ b \in Allowed
                              \/ m.ptr["nodeArray"] # "NULL" /\ b \in NodeRows \X (1..n)
    PROVE  Releasable(m2, S)
<1>1. Unshared(m2)
  BY DEF Releasable, Unshared
<1>2. Leftovers(m2, S)
  BY DEF Releasable, Leftovers
<1> QED
  BY <1>1, <1>2 DEF Releasable

-----------------------------------------------------------------------------
(***************************************************************************)
(* Memory in which all is accounted for.                                   *)
(***************************************************************************)

LEMMA FineFields ==
    ASSUME NEW m, NEW lost, NEW k, NEW T, Fine(m, lost, k, T)
    PROVE  /\ m \in Memory /\ ~m.bad /\ Unshared(m) /\ lost \subseteq Places
           /\ \A p \in Pointers : m.ptr[p] \notin lost
           /\ HeapIs(m, lost, k, T)
           /\ \A p \in Pointers : m.ptr[p] \in Places => <<m.ptr[p], 0>> \in m.heap
<1>1. \A p \in Pointers : m.ptr[p] \in Places => <<m.ptr[p], 0>> \in m.heap
  BY NamesApart, SizeAssumption DEF Fine, HeapIs, Names
<1> QED
  BY <1>1 DEF Fine

\* A complete allocation.  What the pointer led to before is lost.
LEMMA AllocatedFine ==
    ASSUME NEW m, NEW lost, NEW k, NEW T, Fine(m, lost, k, T),
           NEW p \in Pointers, NEW place \in Places \ lost,
           \A q \in Pointers : m.ptr[q] # place,
           NEW lost2, lost2 = lost \cup ({m.ptr[p]} \cap Places)
    PROVE  LET a == Allocated(m, p, place, RowsOf(place)) IN
           /\ Fine(a, lost2, k, T)
           /\ \A q \in Pointers : a.ptr[q] = IF q = p THEN place ELSE m.ptr[q]
           /\ a.open = m.open /\ a.rows = m.rows
<1> DEFINE a == Allocated(m, p, place, RowsOf(place))
<1>1. m \in Memory
  BY FineFields
<1>2. /\ a \in Memory
      /\ a.ptr = [m.ptr EXCEPT ![p] = place]
      /\ a.heap = m.heap \cup ({place} \X ({0} \cup RowsOf(place)))
      /\ a.rows = m.rows /\ a.open = m.open /\ a.bad = m.bad
  BY <1>1, AllocatedFields, RowsFew
<1> HIDE DEF a
<1>3. \A q \in Pointers : a.ptr[q] = IF q = p THEN place ELSE m.ptr[q]
  BY <1>1, <1>2, MemoryFields
<1>4. Unshared(a)
  BY <1>3, NamesApart DEF Fine, Unshared
<1>5. \A q \in Pointers : a.ptr[q] \notin lost2
  BY <1>3, NamesApart DEF Fine, Unshared
<1>6. HeapIs(a, lost2, k, T)
  <2> SUFFICES ASSUME NEW b \in Names, NEW i \in 0..n
               PROVE  <<b, i>> \in a.heap <=>
                        \/ /\ b \in Places /\ i \in {0} \cup RowsOf(b)
                           /\ b \in lost2 \/ \E q \in Pointers : a.ptr[q] = b
                        \/ b \in NodeRows /\ i \in 1..k
                        \/ b = "addressRows" /\ i \in T
    BY DEF HeapIs
  <2>1. <<b, i>> \in m.heap <=>
          \/ /\ b \in Places /\ i \in {0} \cup RowsOf(b)
             /\ b \in lost \/ \E q \in Pointers : m.ptr[q] = b
          \/ b \in NodeRows /\ i \in 1..k
          \/ b = "addressRows" /\ i \in T
    BY DEF Fine, HeapIs
  <2>2. CASE b = place
    <3>1. <<b, i>> \in a.heap <=> <<b, i>> \in m.heap \/ i \in {0} \cup RowsOf(b)
      BY <1>2, <2>2
    <3> QED
      BY <1>3, <2>1, <2>2, <3>1, NamesApart
  <2>3. CASE b # place
    <3>1. <<b, i>> \in a.heap <=> <<b, i>> \in m.heap
      BY <1>2, <2>3
    <3>2. b \in Places =>
            ((b \in lost2 \/ \E q \in Pointers : a.ptr[q] = b)
               <=> (b \in lost \/ \E q \in Pointers : m.ptr[q] = b))
      BY <1>3, <2>3
    <3> QED
      BY <2>1, <3>1, <3>2
  <2> QED
    BY <2>2, <2>3
<1>7. Fine(a, lost2, k, T)
  BY <1>2, <1>4, <1>5, <1>6 DEF Fine
<1> QED
  BY <1>2, <1>3, <1>7 DEF a

\* An array changes hands from q to p.
HandedOver(m, p, q) == [m EXCEPT !.ptr[p] = m.ptr[q], !.ptr[q] = "NULL"]

LEMMA HandedOverFine ==
    ASSUME NEW m, NEW lost, NEW k, NEW T, Fine(m, lost, k, T),
           NEW p \in Pointers, NEW q \in Pointers, p # q, m.ptr[q] \in Places,
           NEW lost2, lost2 = lost \cup ({m.ptr[p]} \cap Places)
    PROVE  LET a == HandedOver(m, p, q) IN
           /\ Fine(a, lost2, k, T)
           /\ \A r \in Pointers : a.ptr[r] = IF r = p THEN m.ptr[q]
                                             ELSE IF r = q THEN "NULL" ELSE m.ptr[r]
           /\ a.open = m.open /\ a.rows = m.rows
<1> DEFINE a == HandedOver(m, p, q)
<1>1. m \in Memory
  BY FineFields
<1>2. /\ a.ptr = [[m.ptr EXCEPT ![p] = m.ptr[q]] EXCEPT ![q] = "NULL"]
      /\ a.heap = m.heap /\ a.rows = m.rows /\ a.open = m.open /\ a.bad = m.bad
      /\ a \in Memory
  BY <1>1 DEF HandedOver, Memory
<1> HIDE DEF a
<1>3. \A r \in Pointers : a.ptr[r] = IF r = p THEN m.ptr[q]
                                     ELSE IF r = q THEN "NULL" ELSE m.ptr[r]
  BY <1>1, <1>2, MemoryFields
<1>4. Unshared(a)
  BY <1>3, NamesApart DEF Fine, Unshared
<1>5. \A r \in Pointers : a.ptr[r] \notin lost2
  BY <1>3, NamesApart DEF Fine, Unshared
<1>6. HeapIs(a, lost2, k, T)
  <2>1. \A b \in Places :
          (b \in lost2 \/ \E r \in Pointers : a.ptr[r] = b)
             <=> (b \in lost \/ \E r \in Pointers : m.ptr[r] = b)
    BY <1>3, NamesApart
  <2> QED
    BY <1>2, <2>1 DEF Fine, HeapIs
<1>7. Fine(a, lost2, k, T)
  BY <1>2, <1>4, <1>5, <1>6 DEF Fine
<1> QED
  BY <1>2, <1>3, <1>7 DEF a

\* Freeing a pointer that was set takes its block away.
LEMMA FreedFine ==
    ASSUME NEW m, NEW lost, NEW k, NEW T, Fine(m, lost, k, T),
           NEW p \in Pointers, m.ptr[p] # "garbage"
    PROVE  LET a == FreePointer(m, p) IN
           /\ Fine(a, lost, k, T)
           /\ \A q \in Pointers : a.ptr[q] = IF q = p THEN "NULL" ELSE m.ptr[q]
           /\ a.open = m.open /\ a.rows = m.rows
<1> DEFINE a == FreePointer(m, p)
<1>1. m \in Memory
  BY FineFields
<1>2. CASE m.ptr[p] = "NULL"
  BY <1>2, FreeCases
<1>3. CASE m.ptr[p] # "NULL"
  <2>1. m.ptr[p] \in Places /\ <<m.ptr[p], 0>> \in m.heap
    BY <1>1, <1>3, MemoryFields, FineFields
  <2>2. a = FreedAt(m, p)
    BY <1>3, <2>1, FreeCases
  <2>3. /\ a.ptr = [m.ptr EXCEPT ![p] = "NULL"]
        /\ a.heap = m.heap \ ({m.ptr[p]} \X (0..n))
        /\ a.rows = m.rows /\ a.open = m.open /\ a.bad = m.bad /\ a \in Memory
    BY <1>1, <2>2, FreedAtFields
  <2> HIDE DEF a
  <2>4. \A q \in Pointers : a.ptr[q] = IF q = p THEN "NULL" ELSE m.ptr[q]
    BY <1>1, <2>3, MemoryFields
  <2>5. Unshared(a)
    BY <2>4 DEF Fine, Unshared
  <2>6. \A q \in Pointers : a.ptr[q] \notin lost
    <3>1. "NULL" \notin lost
      BY NamesApart DEF Fine
    <3> QED
      BY <2>4, <3>1 DEF Fine
  <2>7. HeapIs(a, lost, k, T)
    <3> SUFFICES ASSUME NEW b \in Names, NEW i \in 0..n
                 PROVE  <<b, i>> \in a.heap <=>
                          \/ /\ b \in Places /\ i \in {0} \cup RowsOf(b)
                             /\ b \in lost \/ \E q \in Pointers : a.ptr[q] = b
                          \/ b \in NodeRows /\ i \in 1..k
                          \/ b = "addressRows" /\ i \in T
      BY DEF HeapIs
    <3>1. <<b, i>> \in m.heap <=>
            \/ /\ b \in Places /\ i \in {0} \cup RowsOf(b)
               /\ b \in lost \/ \E q \in Pointers : m.ptr[q] = b
            \/ b \in NodeRows /\ i \in 1..k
            \/ b = "addressRows" /\ i \in T
      BY DEF Fine, HeapIs
    <3>2. <<b, i>> \in a.heap <=> <<b, i>> \in m.heap /\ b # m.ptr[p]
      BY <2>3
    <3>3. CASE b = m.ptr[p]
      <4>1. b \notin lost /\ ~ \E q \in Pointers : a.ptr[q] = b
        BY <2>1, <2>4, <3>3, NamesApart DEF Fine, Unshared
      <4> QED
        BY <2>1, <3>2, <3>3, <4>1, NamesApart
    <3>4. CASE b # m.ptr[p]
      <4>1. b \in Places => ((\E q \in Pointers : a.ptr[q] = b) <=> \E q \in Pointers : m.ptr[q] = b)
        BY <2>4, <3>4, NamesApart
      <4> QED
        BY <3>1, <3>2, <3>4, <4>1
    <3> QED
      BY <3>3, <3>4
  <2>8. Fine(a, lost, k, T)
    BY <2>3, <2>5, <2>6, <2>7 DEF Fine
  <2> QED
    BY <2>3, <2>4, <2>8 DEF a
<1> QED
  BY <1>2, <1>3

\* freeNodeArray forgets the node array.
LEMMA FreeNodeArrayFine ==
    ASSUME NEW m, NEW lost, NEW T, Fine(m, lost, n, T), m.ptr["nodeArray"] = "nodeArray"
    PROVE  LET a == FreeNodeArray(m) IN
           /\ Fine(a, lost \cup {"nodeArray"}, 0, T)
           /\ \A q \in Pointers : a.ptr[q] = IF q = "nodeArray" THEN "NULL" ELSE m.ptr[q]
           /\ a.open = m.open \ (1..n) /\ a.rows = m.rows
<1> DEFINE a == FreeNodeArray(m)
<1>1. m \in Memory
  BY FineFields
<1>2. /\ a \in Memory /\ a.rows = m.rows /\ a.bad = m.bad
      /\ a.ptr = [m.ptr EXCEPT !["nodeArray"] = "NULL"]
      /\ a.heap = m.heap \ (NodeRows \X (1..n))
      /\ a.open = m.open \ (1..n)
  BY <1>1, FreeNodeArrayFields
<1> HIDE DEF a
<1>3. \A q \in Pointers : a.ptr[q] = IF q = "nodeArray" THEN "NULL" ELSE m.ptr[q]
  BY <1>1, <1>2, MemoryFields
<1>4. Unshared(a)
  BY <1>3 DEF Fine, Unshared
<1>5. "nodeArray" \in Pointers /\ "nodeArray" \in Places
  BY NamesApart
<1>6. \A q \in Pointers : a.ptr[q] \notin lost \cup {"nodeArray"}
  BY <1>3, <1>5, NamesApart DEF Fine, Unshared
<1>7. HeapIs(a, lost \cup {"nodeArray"}, 0, T)
  <2>1. \A b \in Places :
          (b \in lost \cup {"nodeArray"} \/ \E q \in Pointers : a.ptr[q] = b)
             <=> (b \in lost \/ \E q \in Pointers : m.ptr[q] = b)
    BY <1>3, <1>5, NamesApart
  <2>2. \A b \in Names, i \in 0..n :
          <<b, i>> \in a.heap <=> <<b, i>> \in m.heap /\ ~(b \in NodeRows /\ i \in 1..n)
    BY <1>2
  <2>3. \A i : i \notin 1..0
    OBVIOUS
  <2> SUFFICES ASSUME NEW b \in Names, NEW i \in 0..n
               PROVE  <<b, i>> \in a.heap <=>
                        \/ /\ b \in Places /\ i \in {0} \cup RowsOf(b)
                           /\ b \in lost \cup {"nodeArray"} \/ \E q \in Pointers : a.ptr[q] = b
                        \/ b \in NodeRows /\ i \in 1..0
                        \/ b = "addressRows" /\ i \in T
    BY DEF HeapIs
  <2>4. <<b, i>> \in m.heap <=>
          \/ /\ b \in Places /\ i \in {0} \cup RowsOf(b)
             /\ b \in lost \/ \E q \in Pointers : m.ptr[q] = b
          \/ b \in NodeRows /\ i \in 1..n
          \/ b = "addressRows" /\ i \in T
    BY DEF Fine, HeapIs
  <2>5. b \in Places \/ b = "addressRows" => b \notin NodeRows
    BY NamesApart
  <2> QED
    BY <2>1, <2>2, <2>3, <2>4, <2>5
<1>8. Fine(a, lost \cup {"nodeArray"}, 0, T)
  BY <1>2, <1>4, <1>5, <1>6, <1>7 DEF Fine
<1> QED
  BY <1>2, <1>3, <1>8 DEF a

\* Other changes of what is allocated.
LEMMA OtherwiseFine ==
    ASSUME NEW m, NEW lost, NEW k, NEW T, Fine(m, lost, k, T),
           NEW m2 \in Memory, m2.ptr = m.ptr, m2.bad = m.bad,
           NEW k2, NEW T2, HeapIs(m2, lost, k2, T2)
    PROVE  Fine(m2, lost, k2, T2)
BY DEF Fine, Unshared

-----------------------------------------------------------------------------
(***************************************************************************)
(* Where the pointers of main lead.                                        *)
(***************************************************************************)

LEMMA TheOrder ==
    /\ AllocationOrder[1] = "nodeArray"
    /\ AllocationOrder[2] = "invalidEdgesArray"
    /\ AllocationOrder[3] = "indexToAddress"
    /\ AllocationOrder[4] = "adjacencyMatrix"
    /\ AllocationOrder[5] = "distanceArray"
    /\ AllocationOrder[6] = "routeArray"
    /\ AllocationOrder[7] = "routingTableArray"
BY DEF AllocationOrder

LEMMA OrderOfMain ==
    /\ \A i \in 1..7 : AllocationOrder[i] \in Main
    /\ \A p \in Main : \E i \in 1..7 : AllocationOrder[i] = p
    /\ \A i, j \in 1..7 : AllocationOrder[i] = AllocationOrder[j] => i = j
    /\ \A i \in 1..7 : AllocationOrder[i] = "nodeArray" <=> i = 1
<1>1. \A i \in 1..7 : i = 1 \/ i = 2 \/ i = 3 \/ i = 4 \/ i = 5 \/ i = 6 \/ i = 7
  OBVIOUS
<1>2. \A i \in 1..7 : AllocationOrder[i] \in Main
  BY <1>1, TheOrder DEF Main, Initialised, Uninitialised
<1>3. \A p \in Main : \E i \in 1..7 : AllocationOrder[i] = p
  BY TheOrder DEF Main, Initialised, Uninitialised
<1>4. \A i, j \in 1..7 : AllocationOrder[i] = AllocationOrder[j] => i = j
  BY <1>1, TheOrder
<1> QED
  BY <1>2, <1>3, <1>4, TheOrder

LEMMA MainIsNotLocal ==
    /\ Main \cap Local = {} /\ Overwritten \subseteq Main /\ Overwritten \subseteq Places
    /\ "nodeArray" \in Main \ (Uninitialised \cup Overwritten)
BY DEF Main, Local, Overwritten, Initialised, Uninitialised, Places, Pointers

LEMMA LocalsAreLocal == \A at : LocalsAt(at) \subseteq Local /\ LostAt(at) \subseteq Overwritten
BY DEF LocalsAt, Local, LostAt

LEMMA Targets ==
    ASSUME NEW at
    PROVE  /\ Target("nodeArray", at) = "nodeArray"
           /\ \A p \in Local : Target(p, at) = IF p \in LocalsAt(at) THEN p ELSE "NULL"
           /\ \A p \in Main \ LostAt(at) : Target(p, at) = p
           /\ \A p \in LostAt(at) : Target(p, at) = Successor(p)
           /\ \A p \in Pointers : Target(p, at) \in Places \cup {"NULL"}
<1>1. Target("nodeArray", at) = "nodeArray"
  BY MainIsNotLocal, LocalsAreLocal DEF Target
<1>2. \A p \in Local : Target(p, at) = IF p \in LocalsAt(at) THEN p ELSE "NULL"
  BY DEF Target
<1>3. \A p \in Main \ LostAt(at) : Target(p, at) = p
  BY MainIsNotLocal DEF Target
<1>4. \A p \in LostAt(at) : Target(p, at) = Successor(p)
  BY MainIsNotLocal, LocalsAreLocal DEF Target
<1>5. \A p \in Overwritten : Successor(p) \in Places
  BY DEF Overwritten, Successor, Places, Pointers, Local
<1> QED
  BY <1>1, <1>2, <1>3, <1>4, <1>5, NamesApart, LocalsAreLocal

LEMMA RowsOfSome ==
    /\ RowsOf("nodeArray") = {}
    /\ \A p \in Overwritten : RowsOf(p) = 1..n
BY DEF RowsOf, WithRows, Matrices, SelfFreeing, Overwritten

\* What is allocated while main runs can be freed, with the locals of the
\* function it is in.
LEMMA RunningIsReleasable ==
    ASSUME TypeOK, Running, pc \notin Ended
    PROVE  Releasable(mem, FreedByMain \cup LocalsAt(pc)) /\ ~mem.bad
<1> DEFINE S == FreedByMain \cup LocalsAt(pc)
<1>1. Fine(mem, LostAt(pc), NodesRead, RowsTranslated) /\ PointersAreSet
  BY DEF Running
<1>2. /\ mem \in Memory /\ ~mem.bad /\ Unshared(mem)
      /\ HeapIs(mem, LostAt(pc), NodesRead, RowsTranslated)
      /\ \A p \in Pointers : mem.ptr[p] \in Places => <<mem.ptr[p], 0>> \in mem.heap
  BY <1>1, FineFields
<1>3. \A p \in Local : mem.ptr[p] = "NULL" \/ p \in LocalsAt(pc)
  <2>1. CASE pc = "allocate"
    <3>1. \A p \in Local : p \notin AllocatedBefore(round) /\ p \notin Uninitialised
      BY <2>1, OrderOfMain, MainIsNotLocal DEF AllocatedBefore, Main, Running, Rounds
    <3> QED
      BY <1>1, <2>1, <3>1, NamesApart DEF PointersAreSet
  <2>2. CASE pc # "allocate"
    BY <1>1, <2>2, Targets, NamesApart DEF PointersAreSet
  <2> QED
    BY <2>1, <2>2
<1>4. /\ mem.ptr["nodeArray"] \in {"NULL", "nodeArray"}
      /\ pc # "allocate" => mem.ptr["nodeArray"] = "nodeArray"
  BY <1>1, NamesApart, MainIsNotLocal, Targets DEF PointersAreSet
<1>5. mem.ptr["nodeArray"] = "NULL" => NodesRead = 0 /\ mem.open = {}
  BY <1>4 DEF NodesRead, Running, SocketsOpen
<1>6. NodesRead \in 0..n /\ RowsTranslated \subseteq 1..n
  BY SizeAssumption DEF NodesRead, RowsTranslated, RowsBefore, Running, Rounds, TypeOK, Ended
<1>7. Leftovers(mem, S)
  <2> SUFFICES ASSUME NEW b \in mem.heap, b \notin Allowed,
                      mem.ptr["nodeArray"] = "NULL" \/ b \notin NodeRows \X (1..n)
               PROVE  \E p \in S : mem.ptr[p] = b[1]
    BY DEF Leftovers
  <2>1. b = <<b[1], b[2]>> /\ b[1] \in Names /\ b[2] \in 0..n
    BY <1>2, MemoryFields
  <2>2. \/ /\ b[1] \in Places /\ b[2] \in {0} \cup RowsOf(b[1])
           /\ b[1] \in LostAt(pc) \/ \E p \in Pointers : mem.ptr[p] = b[1]
        \/ b[1] \in NodeRows /\ b[2] \in 1..NodesRead
        \/ b[1] = "addressRows" /\ b[2] \in RowsTranslated
    BY <1>2, <2>1 DEF HeapIs
  <2>3. b[1] \notin NodeRows \/ b[2] \notin 1..NodesRead
    BY <1>5, <1>6, <2>1
  <2>4. b[1] # "addressRows" \/ b[2] \notin RowsTranslated
    BY <1>6, <2>1 DEF Allowed
  <2>5. b[1] \notin Overwritten /\ b # <<"nodeArray", 0>>
    BY <2>1 DEF Allowed, LostOnSuccess
  <2>6. b[1] \in Places /\ b[2] \in {0} \cup RowsOf(b[1])
    BY <2>2, <2>3, <2>4
  <2>7. PICK p \in Pointers : mem.ptr[p] = b[1]
    BY <2>2, <2>3, <2>4, <2>5, LocalsAreLocal
  <2>8. b[1] # "nodeArray"
    BY <2>1, <2>5, <2>6, RowsOfSome
  <2>9. p # "nodeArray" /\ mem.ptr[p] # "NULL"
    BY <1>4, <2>6, <2>7, <2>8, NamesApart
  <2>10. p \in S
    BY <1>3, <2>9, NamesApart DEF FreedByMain
  <2> QED
    BY <2>7, <2>10
<1> QED
  BY <1>2, <1>4, <1>5, <1>7 DEF Releasable

-----------------------------------------------------------------------------
(***************************************************************************)
(* The calls of main.                                                      *)
(***************************************************************************)

LEMMA MoreToRelease ==
    ASSUME NEW m, NEW S, NEW U, S \subseteq U, Releasable(m, S)
    PROVE  Releasable(m, U)
BY DEF Releasable, Leftovers

Calls == {"allocate", "listen", "populate", "validate", "validating", "matrix",
          "dijkstra", "searching", "tables", "filling", "send"}

LEMMA StillRunning ==
    ASSUME TypeOK, leaves' = leaves, pc' \in Calls, round' \in 1 .. 7 + n, Running'
    PROVE  MemInv'
<1>1. mem' \in Memory /\ ~mem'.bad
  BY DEF Running, Fine
<1>2. TypeOK'
  BY <1>1 DEF TypeOK, Calls
<1>3. pc' \notin Ended
  BY DEF Calls, Ended
<1> QED
  BY <1>1, <1>2, <1>3
  DEF MemInv, OnlyGarbageIsFreedWrongly, LeaksAccountedFor, SocketsAreClosed, Ended

LEMMA Runs ==
    ASSUME MemInv, pc \in Calls
    PROVE  /\ TypeOK /\ Running /\ pc \notin Ended
           /\ Releasable(mem, FreedByMain \cup LocalsAt(pc)) /\ ~mem.bad
<1>1. pc \notin Ended
  BY DEF Calls, Ended
<1> QED
  BY <1>1, RunningIsReleasable DEF MemInv

\* Between populateNodeArray and sendRoutingTables.
Between == {"validate", "validating", "matrix", "dijkstra", "searching", "tables", "filling"}

\* The memory m when main makes the call at.
MemoryAt(m, at) ==
    /\ Fine(m, LostAt(at), n, {})
    /\ \A q \in Pointers : m.ptr[q] = Target(q, at)
    /\ m.open = 0..n
    /\ m.rows = 0

LEMMA RunsBetween ==
    ASSUME MemInv, pc \in Between
    PROVE  /\ TypeOK /\ MemoryAt(mem, pc)
           /\ Releasable(mem, FreedByMain \cup LocalsAt(pc)) /\ ~mem.bad
<1>1. pc \in Calls /\ pc \notin {"allocate", "listen", "populate", "send"}
  BY DEF Between, Calls
<1>2. TypeOK /\ Running
  BY <1>1, Runs
<1>3. NodesRead = n /\ RowsTranslated = {}
  BY <1>1 DEF NodesRead, RowsTranslated
<1>4. MemoryAt(mem, pc)
  BY <1>1, <1>2, <1>3 DEF Running, PointersAreSet, SocketsOpen, Rounds, MemoryAt
<1> QED
  BY <1>1, <1>2, <1>4, Runs

LEMMA GoesOn ==
    ASSUME TypeOK, NEW m, NEW at \in Between \cup {"send"}, GoOn(at, m), MemoryAt(m, at)
    PROVE  MemInv'
<1>1. pc' = at /\ mem' = m /\ round' = 1 /\ leaves' = leaves
  BY DEF GoOn
<1>2. at \notin {"allocate", "listen", "populate"} \cup Ended /\ at \in Calls
  BY DEF Between, Ended, Calls
<1>3. NodesRead' = n
  BY <1>1, <1>2 DEF NodesRead
<1>4. RowsTranslated' = {}
  BY <1>1 DEF RowsTranslated, RowsBefore
<1>5. Rounds'
  BY <1>1, <1>2, SizeAssumption DEF Rounds, MemoryAt
<1>6. Running'
  BY <1>1, <1>2, <1>3, <1>4, <1>5 DEF Running, PointersAreSet, SocketsOpen, MemoryAt
<1> QED
  BY <1>1, <1>2, <1>6, SizeAssumption, StillRunning

LEMMA AllocateKeeps ==
    ASSUME MemInv, Allocate
    PROVE  MemInv'
<1> DEFINE p == AllocationOrder[round]
<1>1. /\ pc = "allocate" /\ leaves' = leaves
      /\ mem' = Allocated(mem, p, p, RowsOf(p))
      /\ IF round = 7 THEN pc' = "listen" /\ round' = 1
                      ELSE pc' = pc /\ round' = round + 1
  BY DEF Allocate
<1>2. TypeOK /\ Running
  BY <1>1, Runs DEF Calls
<1>3. round \in 1..7
  BY <1>1, <1>2 DEF Running, Rounds
<1>4. Fine(mem, {}, 0, {})
  <2>1. LostAt(pc) = {} /\ NodesRead = 0 /\ RowsTranslated = {}
    BY <1>1 DEF LostAt, AfterMatrix, AfterSearch, NodesRead, RowsTranslated
  <2> QED
    BY <1>2, <2>1 DEF Running
<1>5. p \in Main /\ p \in Pointers /\ p \in Places /\ p \notin AllocatedBefore(round)
  BY <1>3, OrderOfMain, NamesApart DEF AllocatedBefore
<1> HIDE DEF p
<1>6. \A q \in Pointers :
        IF q \in AllocatedBefore(round) THEN mem.ptr[q] = q
        ELSE mem.ptr[q] \in IF q \in Uninitialised THEN {"NULL", "garbage"} ELSE {"NULL"}
  BY <1>1, <1>2 DEF Running, PointersAreSet
<1>7. /\ \A q \in Pointers : mem.ptr[q] # p
      /\ {} = {} \cup ({mem.ptr[p]} \cap Places)
  BY <1>5, <1>6, NamesApart
<1>8. /\ Fine(mem', {}, 0, {})
      /\ \A q \in Pointers : mem'.ptr[q] = IF q = p THEN p ELSE mem.ptr[q]
      /\ mem'.open = mem.open /\ mem'.rows = mem.rows
  BY <1>1, <1>4, <1>5, <1>7, AllocatedFine
<1>9. mem'.open = {} /\ mem'.rows = 0
  BY <1>1, <1>2, <1>8 DEF Running, SocketsOpen, Rounds
<1>10. CASE round = 7
  <2>1. pc' = "listen" /\ round' = 1
    BY <1>1, <1>10
  <2>2. \A q \in Main : mem'.ptr[q] = q
    <3>1. \A q \in Main : q = p \/ q \in AllocatedBefore(round)
      BY <1>10, OrderOfMain DEF AllocatedBefore, p
    <3> QED
      BY <3>1, <1>6, <1>8, NamesApart
  <2>3. \A q \in Local : mem'.ptr[q] = "NULL"
    <3>1. \A q \in Local : q # p /\ q \notin AllocatedBefore(round) /\ q \notin Uninitialised
      BY <1>3, <1>5, OrderOfMain, MainIsNotLocal DEF AllocatedBefore, Main
    <3> QED
      BY <3>1, <1>6, <1>8, NamesApart
  <2>4. LostAt(pc') = {} /\ LocalsAt(pc') = {}
    BY <2>1 DEF LostAt, AfterMatrix, AfterSearch, LocalsAt
  <2>5. PointersAreSet'
    BY <2>1, <2>2, <2>3, <2>4, Targets, NamesApart DEF PointersAreSet
  <2>6. NodesRead' = 0 /\ RowsTranslated' = {} /\ SocketsOpen' /\ Rounds'
    BY <1>9, <2>1 DEF NodesRead, RowsTranslated, SocketsOpen, Rounds, Ended
  <2>7. Running'
    BY <1>8, <2>4, <2>5, <2>6 DEF Running
  <2> QED
    BY <1>1, <1>2, <2>1, <2>7, SizeAssumption, StillRunning DEF Calls
<1>11. CASE round # 7
  <2>1. pc' = "allocate" /\ round' = round + 1 /\ round' \in 1..7
    BY <1>1, <1>3, <1>11
  <2>2. AllocatedBefore(round') = AllocatedBefore(round) \cup {p}
    <3>1. 1 .. round' - 1 = (1 .. round - 1) \cup {round}
      BY <1>3, <2>1
    <3> QED
      BY <3>1 DEF AllocatedBefore, p
  <2>3. PointersAreSet'
    BY <1>6, <1>8, <2>1, <2>2 DEF PointersAreSet
  <2>4. LostAt(pc') = {}
    BY <2>1 DEF LostAt, AfterMatrix, AfterSearch
  <2>5. NodesRead' = 0 /\ RowsTranslated' = {} /\ SocketsOpen' /\ Rounds'
    BY <1>9, <2>1 DEF NodesRead, RowsTranslated, SocketsOpen, Rounds, Ended
  <2>6. Running'
    BY <1>8, <2>3, <2>4, <2>5 DEF Running
  <2> QED
    BY <1>1, <1>2, <2>1, <2>6, SizeAssumption, StillRunning DEF Calls
<1> QED
  BY <1>10, <1>11

LEMMA AllocateFailsKeeps ==
    ASSUME MemInv, AllocateFails
    PROVE  MemInv'
<1> DEFINE p == AllocationOrder[round]
<1>1. pc = "allocate"
  BY DEF AllocateFails
<1>2. PICK m \in FailedAllocations(mem, p, p) :
        Return(IF round = 1 THEN m ELSE FreeRoutingServer(m), "failure")
  BY DEF AllocateFails
<1>3. TypeOK /\ Running /\ Releasable(mem, FreedByMain \cup LocalsAt(pc)) /\ ~mem.bad
  BY <1>1, Runs DEF Calls
<1>4. Releasable(mem, FreedByMain) /\ FreedByMain \in SUBSET Pointers
  BY <1>1, <1>3, NamesApart DEF LocalsAt, FreedByMain
<1>5. round \in 1..7 /\ mem \in Memory
  BY <1>1, <1>3 DEF Running, Rounds, TypeOK
<1>6. /\ p \in Main /\ p \in Pointers /\ p \in Places /\ p \notin AllocatedBefore(round)
      /\ p \in Matrices => p \in FreedByMain
  BY <1>5, OrderOfMain, NamesApart DEF AllocatedBefore, Matrices, FreedByMain
<1> HIDE DEF p
<1>7. \A q \in Pointers :
        IF q \in AllocatedBefore(round) THEN mem.ptr[q] = q
        ELSE mem.ptr[q] \in IF q \in Uninitialised THEN {"NULL", "garbage"} ELSE {"NULL"}
  BY <1>1, <1>3 DEF Running, PointersAreSet
<1>8. /\ \A q \in Pointers : mem.ptr[q] # p
      /\ mem.ptr[p] \in {"NULL", "garbage"}
      /\ p = "nodeArray" => mem.ptr[p] = "NULL"
  BY <1>6, <1>7, NamesApart, MainIsNotLocal
<1>9. Losable(mem, p)
  BY <1>5, <1>6, <1>8, MayBeOverwritten
<1>10. Releasable(m, FreedByMain)
  <2>1. CASE m = [mem EXCEPT !.ptr[p] = "NULL"]
    <3>1. Releasable(m, FreedByMain \ {p})
      BY <1>3, <1>4, <1>6, <1>8, <1>9, <2>1, ForgottenReleasable
    <3> QED
      BY <3>1, MoreToRelease
  <2>2. CASE p \in Matrices /\ \E k \in 0 .. n - 1 : m = Allocated(mem, p, p, 1..k)
    <3>1. PICK k \in 0 .. n - 1 : m = Allocated(mem, p, p, 1..k)
      BY <2>2
    <3>2. p \in Pointers \ {"nodeArray"} /\ FreedByMain \cup {p} = FreedByMain
      BY <1>6, <2>2 DEF FreedByMain
    <3>3. 1..k \in SUBSET (1..n)
      BY SizeAssumption
    <3>4. Releasable(m, FreedByMain \cup {p})
      BY <1>3, <1>4, <1>6, <1>8, <1>9, <3>1, <3>2, <3>3, AllocatedReleasable
    <3> QED
      BY <3>2, <3>4
  <2> QED
    BY <2>1, <2>2 DEF FailedAllocations
<1>11. Releasable(FreeRoutingServer(m), FreedByMain)
  BY <1>10, AllReleased, MoreToRelease
<1> QED
  BY <1>2, <1>3, <1>10, <1>11, ReturnFails

LEMMA Early ==
    \A at \in {"listen", "populate", "validate"} :
        LostAt(at) = {} /\ LocalsAt(at) = {} /\ \A q : Target(q, at) = Target(q, "listen")
BY DEF LostAt, AfterMatrix, AfterSearch, LocalsAt, Target

LEMMA ListenKeeps ==
    ASSUME MemInv, Listen
    PROVE  MemInv'
<1>1. pc = "listen"
  BY DEF Listen
<1>2. TypeOK /\ Running /\ Releasable(mem, FreedByMain \cup LocalsAt(pc)) /\ ~mem.bad
  BY <1>1, Runs DEF Calls
<1>3. /\ Fine(mem, {}, 0, {}) /\ Releasable(mem, FreedByMain) /\ mem \in Memory
      /\ \A q \in Pointers : mem.ptr[q] = Target(q, "listen")
      /\ mem.open = {} /\ mem.rows = 0
  BY <1>1, <1>2, Early
  DEF Running, NodesRead, RowsTranslated, PointersAreSet, SocketsOpen, Rounds, TypeOK, Ended
<1>4. CASE GoOn("populate", [mem EXCEPT !.open = @ \cup {0}])
  <2>1. pc' = "populate" /\ round' = 1 /\ leaves' = leaves
        /\ mem' = [mem EXCEPT !.open = @ \cup {0}]
    BY <1>4 DEF GoOn
  <2>2. /\ mem' \in Memory /\ mem'.ptr = mem.ptr /\ mem'.bad = mem.bad
        /\ mem'.heap = mem.heap /\ mem'.open = {0} /\ mem'.rows = 0
    BY <1>3, <2>1, SizeAssumption DEF Memory
  <2>3. HeapIs(mem', {}, 0, {})
    BY <1>3, <2>2 DEF Fine, HeapIs
  <2>4. Fine(mem', {}, 0, {})
    BY <1>3, <2>2, <2>3, OtherwiseFine
  <2>5. PointersAreSet'
    BY <1>3, <2>1, <2>2, Early DEF PointersAreSet
  <2>6. NodesRead' = 0 /\ RowsTranslated' = {} /\ LostAt(pc') = {}
    BY <2>1, Early DEF NodesRead, RowsTranslated
  <2>7. SocketsOpen' /\ Rounds'
    BY <2>1, <2>2, SizeAssumption DEF SocketsOpen, Rounds, Ended
  <2>8. Running'
    BY <2>4, <2>5, <2>6, <2>7 DEF Running
  <2> QED
    BY <1>2, <2>1, <2>8, SizeAssumption, StillRunning DEF Calls
<1>5. CASE \E S \in SUBSET {0} : Return([mem EXCEPT !.open = @ \cup S], "failure")
  <2>1. PICK S \in SUBSET {0} : Return([mem EXCEPT !.open = @ \cup S], "failure")
    BY <1>5
  <2> DEFINE m == [mem EXCEPT !.open = @ \cup S]
  <2>2. /\ m \in Memory /\ m.ptr = mem.ptr /\ m.bad = mem.bad
        /\ m.heap = mem.heap /\ m.open = S
    BY <1>3, SizeAssumption DEF Memory
  <2> HIDE DEF m
  <2>3. Releasable(m, FreedByMain)
    BY <1>3, <2>2, OtherwiseReleasable
  <2> QED
    BY <1>2, <2>1, <2>3, ReturnFails DEF m
<1> QED
  BY <1>4, <1>5 DEF Listen

LEMMA PopulateKeeps ==
    ASSUME MemInv, Populate
    PROVE  MemInv'
<1> DEFINE arrays  == NodeRows \X {round}
           With(B) == [mem EXCEPT !.open = @ \cup {round}, !.heap = @ \cup B]
<1>1. pc = "populate"
  BY DEF Populate
<1>2. TypeOK /\ Running /\ Releasable(mem, FreedByMain \cup LocalsAt(pc)) /\ ~mem.bad
  BY <1>1, Runs DEF Calls
<1>3. round \in 1..n
  BY <1>1, <1>2 DEF Running, Rounds
<1>4. /\ Fine(mem, {}, round - 1, {}) /\ Releasable(mem, FreedByMain) /\ mem \in Memory
      /\ \A q \in Pointers : mem.ptr[q] = Target(q, "listen")
      /\ mem.open = 0 .. round - 1 /\ mem.rows = 0
  BY <1>1, <1>2, Early
  DEF Running, NodesRead, RowsTranslated, PointersAreSet, SocketsOpen, Rounds, TypeOK, Ended
<1>5. mem.ptr["nodeArray"] # "NULL"
  BY <1>4, Targets, NamesApart
<1>6. NodeRows \subseteq Names /\ Blocks = Names \X (0..n)
  BY NamesApart DEF Names
<1>7. ASSUME NEW B \in SUBSET arrays
      PROVE  /\ With(B) \in Memory /\ With(B).ptr = mem.ptr /\ With(B).bad = mem.bad
             /\ With(B).heap = mem.heap \cup B /\ With(B).rows = mem.rows
             /\ With(B).open = mem.open \cup {round}
  <2>1. B \subseteq Blocks /\ round \in 0..n
    BY <1>3, <1>6
  <2> HIDE DEF arrays
  <2> QED
    BY <1>4, <2>1 DEF Memory
<1> DEFINE full == With(arrays)
<1>8. /\ full \in Memory /\ full.ptr = mem.ptr /\ full.bad = mem.bad
      /\ full.heap = mem.heap \cup arrays /\ full.rows = 0
      /\ full.open = 0 .. round
  <2>1. (0 .. round - 1) \cup {round} = 0 .. round
    BY <1>3
  <2> QED
    BY <1>4, <1>7, <2>1
<1> HIDE DEF With, full
<1>9. Fine(full, {}, round, {})
  <2>1. \A i : i \in 1..round <=> i \in 1 .. round - 1 \/ i = round
    BY <1>3
  <2>2. HeapIs(full, {}, round, {})
    BY <1>4, <1>8, <2>1, NamesApart DEF Fine, HeapIs
  <2> QED
    BY <1>4, <1>8, <2>2, OtherwiseFine
<1>10. CASE round < n /\ round' = round + 1 /\ mem' = full /\ UNCHANGED <<pc, leaves>>
  <2>1. round' \in 1..n
    BY <1>3, <1>10, SizeAssumption
  <2>2. NodesRead' = round /\ RowsTranslated' = {} /\ LostAt(pc') = {}
    BY <1>1, <1>3, <1>10, Early DEF NodesRead, RowsTranslated
  <2>3. PointersAreSet'
    BY <1>1, <1>4, <1>8, <1>10, Early DEF PointersAreSet
  <2>4. SocketsOpen' /\ Rounds'
    BY <1>1, <1>3, <1>8, <1>10, <2>1 DEF SocketsOpen, Rounds, Ended
  <2>5. Running'
    BY <1>9, <1>10, <2>2, <2>3, <2>4 DEF Running
  <2> QED
    BY <1>1, <1>2, <1>10, <2>1, <2>5, SizeAssumption, StillRunning DEF Calls
<1>11. CASE round = n /\ GoOn("validate", full)
  <2>1. MemoryAt(full, "validate")
    BY <1>4, <1>8, <1>9, <1>11, Early DEF MemoryAt
  <2> QED
    BY <1>2, <1>11, <2>1, GoesOn DEF Between
<1>12. CASE Return(mem, "failure")
  BY <1>2, <1>4, <1>12, ReturnFails
<1>13. CASE \E B \in {{}, {<<"neighborAddresses", round>>}, arrays} :
              Return(FreeNeighbors(With(B), {round}), "failure")
  <2>1. PICK B \in {{}, {<<"neighborAddresses", round>>}, arrays} :
          Return(FreeNeighbors(With(B), {round}), "failure")
    BY <1>13
  <2>2. B \in SUBSET arrays
    BY DEF NodeRows
  <2> DEFINE w == With(B)
             m == FreeNeighbors(w, {round})
  <2>3. /\ w \in Memory /\ w.ptr = mem.ptr /\ w.bad = mem.bad
        /\ w.heap = mem.heap \cup B
    BY <1>7, <2>2
  <2> HIDE DEF w
  <2>4. /\ m \in Memory /\ m.ptr = w.ptr /\ m.bad = w.bad
        /\ m.heap = w.heap \ (NodeRows \X {round})
    BY <2>3 DEF FreeNeighbors, Memory
  <2> HIDE DEF m
  <2>5. m.heap = mem.heap \ (NodeRows \X {round})
    BY <2>2, <2>3, <2>4
  <2>6. \A b \in Places : <<b, 0>> \in mem.heap => <<b, 0>> \in m.heap
    BY <2>5, NamesApart
  <2>7. Releasable(m, FreedByMain)
    BY <1>4, <1>5, <2>3, <2>4, <2>5, <2>6, OtherwiseReleasable
  <2> QED
    BY <1>2, <2>1, <2>7, ReturnFails DEF w, m
<1> QED
  BY <1>10, <1>11, <1>12, <1>13 DEF Populate, full, With

LEMMA ValidateKeeps ==
    ASSUME MemInv, Validate
    PROVE  MemInv'
<1> DEFINE p == "edgeCounterArray"
           m == Allocated(mem, p, p, RowsOf(p))
<1>1. pc = "validate" /\ pc \in Between
  BY DEF Validate, Between
<1>2. /\ TypeOK /\ Fine(mem, {}, n, {}) /\ mem.open = 0..n /\ mem.rows = 0
      /\ \A q \in Pointers : mem.ptr[q] = Target(q, "validate")
      /\ Releasable(mem, FreedByMain)
  BY <1>1, RunsBetween, Early DEF MemoryAt
<1>3. CASE GoOn("validating", Allocated(mem, p, p, {}))
  <2>1. RowsOf(p) = {}
    BY DEF RowsOf, WithRows, Matrices, SelfFreeing
  <2>2. p \in Pointers /\ p \in Places /\ Target(p, "validate") = "NULL"
    BY Targets, Early DEF Pointers, Places, Local
  <2>3. \A q \in Pointers : Target(q, "validate") # p
    BY Early DEF Target, Pointers, Initialised, Uninitialised, Local
  <2>8. /\ p \in Places \ {} /\ \A q \in Pointers : mem.ptr[q] # p
        /\ {} = {} \cup ({mem.ptr[p]} \cap Places)
    BY <1>2, <2>2, <2>3, NamesApart
  <2> HIDE DEF p
  <2>4. /\ Fine(m, {}, n, {}) /\ m.open = 0..n /\ m.rows = 0
        /\ \A q \in Pointers : m.ptr[q] = IF q = p THEN p ELSE mem.ptr[q]
    <3>1. Fine(mem, {}, n, {}) /\ mem.open = 0..n /\ mem.rows = 0
      BY <1>2
    <3>2. p \in Pointers /\ p \in Places \ {}
      BY <2>2
    <3> QED
      BY <2>8, <3>1, <3>2, AllocatedFine
  <2> USE DEF p
  <2> HIDE DEF m
  <2>5. LostAt("validating") = {}
    BY DEF LostAt, AfterMatrix, AfterSearch
  <2>6. \A q \in Pointers : Target(q, "validating") = IF q = p THEN p ELSE Target(q, "validate")
    BY <2>5, Early DEF Target, LocalsAt, Local
  <2>7. MemoryAt(m, "validating")
    BY <1>2, <2>4, <2>5, <2>6 DEF MemoryAt
  <2> QED
    BY <1>2, <1>3, <2>1, <2>7, GoesOn DEF m, Between
<1>4. CASE Return(mem, "failure")
  BY <1>2, <1>4, ReturnFails
<1> QED
  BY <1>3, <1>4 DEF Validate

LEMMA ValidatedKeeps ==
    ASSUME MemInv, Validated
    PROVE  MemInv'
<1> DEFINE p == "edgeCounterArray"
           m == FreePointer(mem, p)
<1>1. pc = "validating" /\ pc \in Between
  BY DEF Validated, Between
<1>2. LostAt("validating") = {} /\ LocalsAt("validating") = {p}
  BY DEF LostAt, LocalsAt, AfterMatrix, AfterSearch
<1>3. /\ TypeOK /\ Fine(mem, {}, n, {}) /\ mem.open = 0..n /\ mem.rows = 0
      /\ \A q \in Pointers : mem.ptr[q] = Target(q, "validating")
      /\ Releasable(mem, FreedByMain \cup {p})
  BY <1>1, <1>2, RunsBetween DEF MemoryAt
<1>4. p \in Pointers /\ p \in Local /\ p # "nodeArray"
  BY NamesApart DEF Local
<1>5. /\ Fine(m, {}, n, {}) /\ m.open = 0..n /\ m.rows = 0
      /\ \A q \in Pointers : m.ptr[q] = IF q = p THEN "NULL" ELSE mem.ptr[q]
  BY <1>3, <1>4, Targets, NamesApart, FreedFine
<1>6. Releasable(m, FreedByMain)
  <2>1. FreedByMain \cup {p} \in SUBSET Pointers
    BY <1>4, NamesApart DEF FreedByMain
  <2>2. Releasable(m, (FreedByMain \cup {p}) \ {p})
    BY <1>3, <1>4, <2>1, FreeReleases
  <2> QED
    BY <2>2, MoreToRelease
<1> HIDE DEF m
<1>7. MemoryAt(m, "matrix")
  <2>1. LostAt("matrix") = {} /\ LocalsAt("matrix") = {}
    BY DEF LostAt, LocalsAt, AfterMatrix, AfterSearch
  <2>2. \A q \in Pointers : Target(q, "matrix") = IF q = p THEN "NULL" ELSE Target(q, "validating")
    BY <1>2, <1>4, <2>1 DEF Target
  <2> QED
    BY <1>3, <1>5, <2>1, <2>2 DEF MemoryAt
<1>8. CASE GoOn("matrix", m)
  BY <1>3, <1>7, <1>8, GoesOn DEF Between
<1>9. CASE Return(m, "failure")
  BY <1>3, <1>6, <1>9, ReturnFails
<1> QED
  BY <1>8, <1>9 DEF Validated, m

LEMMA CreateMatrixKeeps ==
    ASSUME MemInv, CreateMatrix
    PROVE  MemInv'
<1> DEFINE p == "adjacencyMatrix"
           m == Allocated(mem, p, "newMatrix", RowsOf("newMatrix"))
<1>1. pc = "matrix" /\ pc \in Between
  BY DEF CreateMatrix, Between
<1>2. LostAt("matrix") = {} /\ LocalsAt("matrix") = {}
  BY DEF LostAt, LocalsAt, AfterMatrix, AfterSearch
<1>3. /\ TypeOK /\ Fine(mem, {}, n, {}) /\ mem.open = 0..n /\ mem.rows = 0
      /\ \A q \in Pointers : mem.ptr[q] = Target(q, "matrix")
      /\ Releasable(mem, FreedByMain) /\ ~mem.bad /\ mem \in Memory
  BY <1>1, <1>2, RunsBetween, FineFields DEF MemoryAt
<1>4. /\ p \in Pointers \ {"nodeArray"} /\ p \in Main /\ p \in Overwritten /\ p \in Places
      /\ "newMatrix" \in Places \ Pointers
      /\ RowsOf("newMatrix") = 1..n
  BY DEF Overwritten, Main, Initialised, Pointers, Local, Uninitialised, Places, RowsOf, WithRows,
         Matrices
<1>5. mem.ptr[p] = p /\ \A q \in Pointers : mem.ptr[q] # "newMatrix"
  <2>1. \A q \in Pointers : Target(q, "matrix") \in Pointers \cup {"NULL"}
    BY <1>2 DEF Target
  <2> QED
    BY <1>2, <1>3, <1>4, <2>1, Targets, NamesApart
<1>6. Losable(mem, p)
  BY <1>3, <1>4, <1>5, MayBeOverwritten
<1>7. FreedByMain \in SUBSET Pointers /\ FreedByMain \cup {p} = FreedByMain
  BY <1>4, NamesApart DEF FreedByMain
<1>8. ASSUME NEW rows \in SUBSET (1..n)
      PROVE  Releasable(Allocated(mem, p, "newMatrix", rows), FreedByMain)
  <2>1. Releasable(Allocated(mem, p, "newMatrix", rows), FreedByMain \cup {p})
    BY <1>3, <1>4, <1>5, <1>6, <1>7, AllocatedReleasable
  <2> QED
    BY <1>7, <2>1
<1>9. CASE GoOn("dijkstra", m)
  <2>1. {p} = {} \cup ({mem.ptr[p]} \cap Places) /\ "newMatrix" \in Places \ {}
    BY <1>4, <1>5
  <2> HIDE DEF p
  <2>2. /\ Fine(m, {p}, n, {}) /\ m.open = 0..n /\ m.rows = 0
        /\ \A q \in Pointers : m.ptr[q] = IF q = p THEN "newMatrix" ELSE mem.ptr[q]
    <3>1. Fine(mem, {}, n, {}) /\ mem.open = 0..n /\ mem.rows = 0
      BY <1>3
    <3>2. p \in Pointers /\ \A q \in Pointers : mem.ptr[q] # "newMatrix"
      BY <1>4, <1>5
    <3>3. Fine(m, {p}, n, {})
      BY <2>1, <3>1, <3>2, AllocatedFine
    <3> QED
      BY <2>1, <3>1, <3>2, AllocatedFine
  <2> USE DEF p
  <2> HIDE DEF m
  <2>3. LostAt("dijkstra") = {p} /\ LocalsAt("dijkstra") = {}
    BY DEF LostAt, LocalsAt, AfterMatrix, AfterSearch, Overwritten
  <2>4. \A q \in Pointers :
          Target(q, "dijkstra") = IF q = p THEN "newMatrix" ELSE Target(q, "matrix")
    BY <1>2, <1>4, <2>3, MainIsNotLocal DEF Target, Successor
  <2>5. MemoryAt(m, "dijkstra")
    BY <1>3, <2>2, <2>3, <2>4 DEF MemoryAt
  <2> QED
    BY <1>3, <1>9, <2>5, GoesOn DEF Between
<1>10. CASE Return(m, "failure")
  BY <1>3, <1>4, <1>8, <1>10, ReturnFails
<1>11. CASE \E f \in FailedAllocations(mem, p, "newMatrix") : Return(f, "failure")
  <2>1. PICK f \in FailedAllocations(mem, p, "newMatrix") : Return(f, "failure")
    BY <1>11
  <2>2. CASE f = [mem EXCEPT !.ptr[p] = "NULL"]
    <3>1. Releasable(f, FreedByMain \ {p})
      BY <1>3, <1>4, <1>6, <1>7, <2>2, ForgottenReleasable
    <3>2. Releasable(f, FreedByMain)
      BY <3>1, MoreToRelease
    <3> QED
      BY <1>3, <2>1, <3>2, ReturnFails
  <2>3. CASE \E k \in 0 .. n - 1 : f = Allocated(mem, p, "newMatrix", 1..k)
    <3>1. PICK k \in 0 .. n - 1 : f = Allocated(mem, p, "newMatrix", 1..k)
      BY <2>3
    <3>2. 1..k \in SUBSET (1..n)
      BY SizeAssumption
    <3> QED
      BY <1>3, <1>8, <2>1, <3>1, <3>2, ReturnFails
  <2> QED
    BY <2>1, <2>2, <2>3 DEF FailedAllocations
<1> QED
  BY <1>4, <1>9, <1>10, <1>11 DEF CreateMatrix, m

\* The memory of main between two of its calls, with the pointers in S to be freed.
Kept(m, lost, S) ==
    /\ Fine(m, lost, n, {})
    /\ S \subseteq Pointers /\ Releasable(m, S)
    /\ m.open = 0..n /\ m.rows = 0

\* A function allocates one of its arrays ...
LEMMA LocalAllocated ==
    ASSUME NEW m, NEW lost, NEW S, Kept(m, lost, S),
           NEW p \in Local, m.ptr[p] = "NULL", p \notin lost,
           \A q \in Pointers : m.ptr[q] # p,
           NEW rows, rows = RowsOf(p)
    PROVE  LET a == Allocated(m, p, p, rows) IN
           /\ Kept(a, lost, S \cup {p})
           /\ \A q \in Pointers : a.ptr[q] = IF q = p THEN p ELSE m.ptr[q]
<1> DEFINE a == Allocated(m, p, p, rows)
<1>1. p \in Pointers \ {"nodeArray"} /\ p \in Places
  BY NamesApart, MainIsNotLocal
<1>2. Fine(m, lost, n, {}) /\ m \in Memory /\ ~m.bad
  BY FineFields DEF Kept
<1>3. lost = lost \cup ({m.ptr[p]} \cap Places)
  BY NamesApart
<1>4. /\ Fine(a, lost, n, {})
      /\ \A q \in Pointers : a.ptr[q] = IF q = p THEN p ELSE m.ptr[q]
      /\ a.open = m.open /\ a.rows = m.rows
  BY <1>1, <1>2, <1>3, AllocatedFine
<1>5. Losable(m, p)
  BY <1>1, <1>2, MayBeOverwritten
<1>6. Releasable(a, S \cup {p})
  BY <1>1, <1>2, <1>5, RowsFew, AllocatedReleasable DEF Kept
<1> HIDE DEF a
<1>7. Kept(a, lost, S \cup {p})
  BY <1>1, <1>4, <1>6 DEF Kept
<1> QED
  BY <1>4, <1>7 DEF a

\* ... and frees it.
LEMMA LocalFreed ==
    ASSUME NEW m, NEW lost, NEW S, Kept(m, lost, S),
           NEW p \in Local, m.ptr[p] # "garbage"
    PROVE  LET a == FreePointer(m, p) IN
           /\ Kept(a, lost, S \ {p})
           /\ \A q \in Pointers : a.ptr[q] = IF q = p THEN "NULL" ELSE m.ptr[q]
<1> DEFINE a == FreePointer(m, p)
<1>1. p \in Pointers \ {"nodeArray"}
  BY NamesApart, MainIsNotLocal
<1>2. Fine(m, lost, n, {})
  BY DEF Kept
<1>3. /\ Fine(a, lost, n, {})
      /\ \A q \in Pointers : a.ptr[q] = IF q = p THEN "NULL" ELSE m.ptr[q]
      /\ a.open = m.open /\ a.rows = m.rows
  BY <1>1, <1>2, FreedFine
<1>4. Releasable(a, S \ {p})
  BY <1>1, FreeReleases DEF Kept
<1> HIDE DEF a
<1>5. Kept(a, lost, S \ {p})
  BY <1>3, <1>4 DEF Kept
<1> QED
  BY <1>3, <1>5 DEF a

LEMMA KeptAt ==
    ASSUME MemInv, pc \in Between
    PROVE  /\ TypeOK /\ Kept(mem, LostAt(pc), FreedByMain \cup LocalsAt(pc))
           /\ \A q \in Pointers : mem.ptr[q] = Target(q, pc)
<1>1. FreedByMain \cup LocalsAt(pc) \subseteq Pointers
  BY LocalsAreLocal, NamesApart DEF FreedByMain
<1> QED
  BY <1>1, RunsBetween DEF MemoryAt, Kept

LEMMA KeptReturns ==
    ASSUME TypeOK, NEW m, NEW lost, Kept(m, lost, FreedByMain), Return(m, "failure")
    PROVE  MemInv'
BY ReturnFails DEF Kept

LEMMA KeptGoesOn ==
    ASSUME TypeOK, NEW m, NEW S, NEW at \in Between \cup {"send"}, GoOn(at, m),
           Kept(m, LostAt(at), S), \A q \in Pointers : m.ptr[q] = Target(q, at)
    PROVE  MemInv'
BY GoesOn DEF Kept, MemoryAt

LEMMA NoLocalsOfMain ==
    ASSUME NEW S \in SUBSET Local
    PROVE  (FreedByMain \cup S) \ S = FreedByMain
BY MainIsNotLocal DEF FreedByMain

LEMMA SearchTargets ==
    /\ LostAt("dijkstra") = {"adjacencyMatrix"} /\ LocalsAt("dijkstra") = {}
    /\ LostAt("searching") = {"adjacencyMatrix"}
    /\ LocalsAt("searching") = {"visitedArray", "routeArrayTmp", "visitedAndNeighbourArray"}
    /\ LostAt("tables") = {"adjacencyMatrix", "routeArray"} /\ LocalsAt("tables") = {}
    /\ LostAt("filling") = {"adjacencyMatrix", "routeArray"}
    /\ LocalsAt("filling") = {"visited", "routingTableArrayTmp"}
    /\ LostAt("send") = {"adjacencyMatrix", "routeArray", "routingTableArray"}
    /\ LocalsAt("send") = {}
BY DEF LostAt, LocalsAt, AfterMatrix, AfterSearch, Overwritten

LEMMA NotLocal ==
    /\ \A p \in Local : p \notin Main /\ p # "newMatrix" /\ p \notin Overwritten
    /\ Successor("adjacencyMatrix") = "newMatrix"
    /\ Successor("routeArray") = "routeArrayTmp"
    /\ Successor("routingTableArray") = "routingTableArrayTmp"
BY DEF Local, Main, Initialised, Uninitialised, Overwritten, Successor

LEMMA LocalRows ==
    /\ RowsOf("visitedArray") = {} /\ RowsOf("visitedAndNeighbourArray") = {}
    /\ RowsOf("routeArrayTmp") = 1..n
    /\ RowsOf("visited") = 1..n /\ RowsOf("routingTableArrayTmp") = 1..n
BY DEF RowsOf, WithRows, Matrices, SelfFreeing

LEMMA EnterDijkstraKeeps ==
    ASSUME MemInv, EnterDijkstra
    PROVE  MemInv'
<1> DEFINE v == "visitedArray"
           r == "routeArrayTmp"
           w == "visitedAndNeighbourArray"
           m1 == Allocated(mem, v, v, {})
           m2 == Allocated(m1, r, r, 1..n)
           m3 == Allocated(m2, w, w, {})
           lost == {"adjacencyMatrix"}
<1>1. pc = "dijkstra" /\ pc \in Between
  BY DEF EnterDijkstra, Between
<1>2. /\ TypeOK /\ Kept(mem, lost, FreedByMain)
      /\ \A q \in Pointers : mem.ptr[q] = Target(q, "dijkstra")
  BY <1>1, KeptAt, SearchTargets
<1>3. v \in Local /\ r \in Local /\ w \in Local /\ v # r /\ v # w /\ r # w
  BY DEF Local
<1>4. v \notin lost /\ r \notin lost /\ w \notin lost
  OBVIOUS
<1>5. \A q \in Pointers : Target(q, "dijkstra") \notin Local
  BY SearchTargets, NotLocal, NamesApart DEF Target
<1>6. \A p \in Local : mem.ptr[p] = "NULL" /\ p \in Pointers
  BY <1>2, Targets, SearchTargets, NamesApart
<1>7. RowsOf(v) = {} /\ RowsOf(r) = 1..n /\ RowsOf(w) = {}
  BY LocalRows
<1>8. \A q \in Pointers : mem.ptr[q] \notin Local
  BY <1>2, <1>5
<1> HIDE DEF v, r, w, lost
<1>9. /\ Kept(m1, lost, FreedByMain \cup {v})
      /\ \A q \in Pointers : m1.ptr[q] = IF q = v THEN v ELSE mem.ptr[q]
  BY <1>2, <1>3, <1>4, <1>6, <1>7, <1>8, LocalAllocated
<1> HIDE DEF m1
<1>10. /\ Kept(m2, lost, FreedByMain \cup {v} \cup {r})
       /\ \A q \in Pointers : m2.ptr[q] = IF q = r THEN r ELSE m1.ptr[q]
  <2>1. m1.ptr[r] = "NULL" /\ \A q \in Pointers : m1.ptr[q] # r
    BY <1>3, <1>6, <1>8, <1>9
  <2> QED
    BY <1>3, <1>4, <1>7, <1>9, <2>1, LocalAllocated
<1> HIDE DEF m2
<1>11. /\ Kept(m3, lost, FreedByMain \cup {v} \cup {r} \cup {w})
       /\ \A q \in Pointers : m3.ptr[q] = IF q = w THEN w ELSE m2.ptr[q]
  <2>1. m2.ptr[w] = "NULL" /\ \A q \in Pointers : m2.ptr[q] # w
    BY <1>3, <1>6, <1>8, <1>9, <1>10
  <2> QED
    <3>1. /\ Kept(m2, lost, FreedByMain \cup {v} \cup {r})
          /\ w \in Local /\ w \notin lost /\ {} = RowsOf(w)
      BY <1>3, <1>4, <1>7, <1>10
    <3> QED
      BY <2>1, <3>1, LocalAllocated
<1> HIDE DEF m3
<1>12. CASE GoOn("searching", m3)
  <2>1. LostAt("searching") = lost /\ LocalsAt("searching") = {v, r, w}
        /\ LostAt("dijkstra") = lost /\ LocalsAt("dijkstra") = {}
    BY SearchTargets DEF lost, v, r, w
  <2>2. \A q \in Pointers :
          Target(q, "searching") = IF q \in {v, r, w} THEN q ELSE Target(q, "dijkstra")
    BY <1>3, <2>1 DEF Target
  <2>3. \A q \in Pointers : m3.ptr[q] = Target(q, "searching")
    BY <1>2, <1>9, <1>10, <1>11, <2>2
  <2> QED
    BY <1>2, <1>11, <1>12, <2>1, <2>3, KeptGoesOn DEF Between
<1>13. CASE Return(mem, "failure")
  BY <1>2, <1>13, KeptReturns
<1>14. CASE Return(FreePointer(m1, v), "failure")
  <2>1. m1.ptr[v] # "garbage"
    BY <1>3, <1>6, <1>9, NamesApart
  <2>2. Kept(FreePointer(m1, v), lost, (FreedByMain \cup {v}) \ {v})
    BY <1>3, <1>9, <2>1, LocalFreed
  <2>3. (FreedByMain \cup {v}) \ {v} = FreedByMain
    BY <1>3, NoLocalsOfMain
  <2> QED
    BY <1>2, <1>14, <2>2, <2>3, KeptReturns
<1>15. CASE Return(FreePointer(FreePointer(m2, v), r), "failure")
  <2> DEFINE f == FreePointer(m2, v)
  <2>1. m2.ptr[v] # "garbage" /\ m2.ptr[r] # "garbage"
    BY <1>3, <1>6, <1>9, <1>10, NamesApart
  <2>2. /\ Kept(f, lost, (FreedByMain \cup {v} \cup {r}) \ {v})
        /\ \A q \in Pointers : f.ptr[q] = IF q = v THEN "NULL" ELSE m2.ptr[q]
    BY <1>3, <1>10, <2>1, LocalFreed
  <2> HIDE DEF f
  <2>3. f.ptr[r] # "garbage"
    BY <1>3, <1>6, <2>1, <2>2
  <2>4. Kept(FreePointer(f, r), lost, ((FreedByMain \cup {v} \cup {r}) \ {v}) \ {r})
    BY <1>3, <2>2, <2>3, LocalFreed
  <2>5. ((FreedByMain \cup {v} \cup {r}) \ {v}) \ {r} = FreedByMain
    BY <1>3, NoLocalsOfMain
  <2> QED
    BY <1>2, <1>15, <2>4, <2>5, KeptReturns DEF f
<1> QED
  BY <1>12, <1>13, <1>14, <1>15 DEF EnterDijkstra, m3, m2, m1, v, r, w

LEMMA LeaveDijkstraKeeps ==
    ASSUME MemInv, LeaveDijkstra
    PROVE  MemInv'
<1> DEFINE v == "visitedArray"
           r == "routeArrayTmp"
           w == "visitedAndNeighbourArray"
           lost == {"adjacencyMatrix"}
           m1 == FreePointer(mem, v)
           m2 == FreePointer(m1, w)
           m3 == HandedOver(m2, "routeArray", r)
           S == FreedByMain \cup {v, r, w}
<1>1. pc = "searching" /\ pc \in Between
  BY DEF LeaveDijkstra, Between
<1>2. /\ TypeOK /\ Kept(mem, lost, S)
      /\ \A q \in Pointers : mem.ptr[q] = Target(q, "searching")
  BY <1>1, KeptAt, SearchTargets
<1>3. /\ v \in Local /\ r \in Local /\ w \in Local /\ v # r /\ v # w /\ r # w
      /\ r \in Places /\ \A p \in Local : p \in Pointers
      /\ "routeArray" \in Main \cap Overwritten /\ "routeArray" \in Pointers \cap Places
  BY NamesApart, MainIsNotLocal DEF Local, Overwritten
<1>4. LocalsAt("searching") = {v, r, w} /\ LostAt("searching") = lost
      /\ LostAt("tables") = lost \cup {"routeArray"} /\ LocalsAt("tables") = {}
  BY SearchTargets
<1>5. \A q \in Pointers : mem.ptr[q] # "garbage"
  BY <1>2, Targets, NamesApart
<1>6. mem.ptr[r] = r /\ mem.ptr["routeArray"] = "routeArray"
  <2>1. "routeArray" \notin lost
    OBVIOUS
  <2> QED
    BY <1>2, <1>3, <1>4, <2>1, Targets, SearchTargets
<1>7. Successor("routeArray") = r
  BY NotLocal
<1> HIDE DEF v, r, w, lost
<1>8. /\ Kept(m1, lost, S \ {v})
      /\ \A q \in Pointers : m1.ptr[q] = IF q = v THEN "NULL" ELSE mem.ptr[q]
  BY <1>2, <1>3, <1>5, LocalFreed
<1> HIDE DEF m1
<1>9. /\ Kept(m2, lost, (S \ {v}) \ {w})
      /\ \A q \in Pointers : m2.ptr[q] = IF q = w THEN "NULL" ELSE m1.ptr[q]
  <2>1. m1.ptr[w] # "garbage"
    BY <1>3, <1>5, <1>8
  <2> QED
    BY <1>3, <1>8, <2>1, LocalFreed
<1> HIDE DEF m2
<1>10. /\ m2.ptr[r] = r /\ m2.ptr["routeArray"] = "routeArray"
       /\ \A q \in Pointers : m2.ptr[q] = IF q \in {v, w} THEN "NULL" ELSE mem.ptr[q]
  BY <1>3, <1>6, <1>8, <1>9, NotLocal
<1>11. CASE GoOn("tables", m3)
  <2>1. /\ Fine(m3, lost \cup {"routeArray"}, n, {})
        /\ \A q \in Pointers : m3.ptr[q] = IF q = "routeArray" THEN r
                                           ELSE IF q = r THEN "NULL" ELSE m2.ptr[q]
        /\ m3.open = m2.open /\ m3.rows = m2.rows
    <3>1. lost \cup {"routeArray"} = lost \cup ({m2.ptr["routeArray"]} \cap Places)
      BY <1>3, <1>10
    <3>2. "routeArray" # r /\ "routeArray" \in Pointers /\ r \in Pointers /\ m2.ptr[r] \in Places
      BY <1>3, <1>10, NotLocal
    <3> QED
      BY <1>9, <1>10, <3>1, <3>2, HandedOverFine DEF Kept
  <2> HIDE DEF m3
  <2>2. \A q \in Pointers : m3.ptr[q] = Target(q, "tables")
    <3>1. \A q \in Pointers :
            Target(q, "tables") = IF q = "routeArray" THEN r
                                  ELSE IF q \in {v, r, w} THEN "NULL" ELSE Target(q, "searching")
      BY <1>3, <1>4, <1>7, NotLocal DEF Target
    <3> QED
      BY <1>2, <1>3, <1>10, <2>1, <3>1
  <2>3. MemoryAt(m3, "tables")
    BY <1>4, <1>9, <2>1, <2>2 DEF MemoryAt, Kept
  <2> QED
    BY <1>2, <1>11, <2>3, GoesOn DEF Between
<1>12. CASE Return(FreePointer(m2, r), "failure")
  <2>1. m2.ptr[r] # "garbage"
    BY <1>3, <1>10, NamesApart
  <2>2. Kept(FreePointer(m2, r), lost, ((S \ {v}) \ {w}) \ {r})
    BY <1>3, <1>9, <2>1, LocalFreed
  <2>3. ((S \ {v}) \ {w}) \ {r} = FreedByMain
    BY <1>3, MainIsNotLocal DEF FreedByMain
  <2> QED
    BY <1>2, <1>12, <2>2, <2>3, KeptReturns
<1> QED
  BY <1>11, <1>12 DEF LeaveDijkstra, m3, HandedOver, m2, m1, v, r, w

LEMMA EnterTablesKeeps ==
    ASSUME MemInv, EnterTables
    PROVE  MemInv'
<1> DEFINE v == "visited"
           t == "routingTableArrayTmp"
           m1 == Allocated(mem, v, v, 1..n)
           m2 == Allocated(m1, t, t, 1..n)
           lost == {"adjacencyMatrix", "routeArray"}
<1>1. pc = "tables" /\ pc \in Between
  BY DEF EnterTables, Between
<1>2. /\ TypeOK /\ Kept(mem, lost, FreedByMain)
      /\ \A q \in Pointers : mem.ptr[q] = Target(q, "tables")
  BY <1>1, KeptAt, SearchTargets
<1>3. v \in Local /\ t \in Local /\ v # t /\ v \notin lost /\ t \notin lost
  BY DEF Local
<1>4. v \notin NodeRows /\ v # "addressRows" /\ v \in Names /\ v \in Matrices
  BY DEF NodeRows, Names, Places, Pointers, Local, Matrices
<1>5. \A p \in Local : mem.ptr[p] = "NULL" /\ p \in Pointers
  BY <1>2, Targets, SearchTargets, NamesApart
<1>6. RowsOf(v) = 1..n /\ RowsOf(t) = 1..n
  BY LocalRows
<1>7. \A q \in Pointers : mem.ptr[q] \notin {v, t}
  <2>1. Successor("routeArray") \notin {v, t} /\ Successor("adjacencyMatrix") \notin {v, t}
    BY NotLocal
  <2>2. \A q \in Pointers : Target(q, "tables") \notin {v, t}
    BY <2>1, <1>3, SearchTargets, NotLocal, NamesApart DEF Target
  <2> QED
    BY <1>2, <2>2
<1>8. Allowed \in SUBSET Allowed /\ {v} \X (0 .. n - 1) \subseteq Allowed
  BY DEF Allowed
<1> HIDE DEF v, t, lost
<1>9. /\ Kept(m1, lost, FreedByMain \cup {v})
      /\ \A q \in Pointers : m1.ptr[q] = IF q = v THEN v ELSE mem.ptr[q]
  <2>1. /\ Kept(mem, lost, FreedByMain) /\ v \in Local /\ v \notin lost
        /\ mem.ptr[v] = "NULL" /\ \A q \in Pointers : mem.ptr[q] # v
    BY <1>2, <1>3, <1>5, <1>7
  <2> QED
    BY <1>6, <2>1, LocalAllocated
<1> HIDE DEF m1
<1>10. CASE GoOn("filling", m2)
  <2>1. /\ Kept(m2, lost, FreedByMain \cup {v} \cup {t})
        /\ \A q \in Pointers : m2.ptr[q] = IF q = t THEN t ELSE m1.ptr[q]
    <3>1. m1.ptr[t] = "NULL" /\ \A q \in Pointers : m1.ptr[q] # t
      BY <1>3, <1>5, <1>7, <1>9
    <3>2. Kept(m1, lost, FreedByMain \cup {v}) /\ t \in Local /\ t \notin lost /\ 1..n = RowsOf(t)
      BY <1>3, <1>6, <1>9
    <3> QED
      BY <3>1, <3>2, LocalAllocated
  <2> HIDE DEF m2
  <2>2. LostAt("filling") = lost /\ LocalsAt("filling") = {v, t}
        /\ LostAt("tables") = lost /\ LocalsAt("tables") = {}
    BY SearchTargets DEF lost, v, t
  <2>3. \A q \in Pointers :
          Target(q, "filling") = IF q \in {v, t} THEN q ELSE Target(q, "tables")
    BY <1>3, <2>2 DEF Target
  <2>4. \A q \in Pointers : m2.ptr[q] = Target(q, "filling")
    BY <1>2, <1>9, <2>1, <2>3
  <2> QED
    BY <1>2, <1>10, <2>1, <2>2, <2>4, KeptGoesOn DEF Between
<1>11. ASSUME NEW f \in FailedAllocations(mem, v, v),
              Return([f EXCEPT !.ptr[v] = "NULL"], "failure")
       PROVE  MemInv'
  <2>1. v \in Pointers /\ v # "nodeArray" /\ v \in Places /\ mem \in Memory /\ ~mem.bad
    BY <1>2, <1>3, NamesApart, MainIsNotLocal, FineFields DEF Kept
  <2>2. Losable(mem, v)
    BY <1>3, <1>5, <2>1, MayBeOverwritten
  <2>3. Releasable(mem, FreedByMain) /\ FreedByMain \in SUBSET Pointers
    BY <1>2 DEF Kept
  <2>4. CASE f = [mem EXCEPT !.ptr[v] = "NULL"]
    <3>1. Releasable(f, FreedByMain \ {v})
      BY <2>1, <2>2, <2>3, <2>4, ForgottenReleasable
    <3>2. f \in Memory /\ ~f.bad /\ f.ptr[v] = "NULL"
      BY <2>1, <2>4 DEF Memory
    <3>3. Losable(f, v)
      BY <2>1, <3>2, MayBeOverwritten
    <3>4. Releasable([f EXCEPT !.ptr[v] = "NULL"], (FreedByMain \ {v}) \ {v})
      BY <2>1, <2>3, <3>1, <3>2, <3>3, ForgottenReleasable
    <3>5. Releasable([f EXCEPT !.ptr[v] = "NULL"], FreedByMain)
      BY <3>4, MoreToRelease
    <3> QED
      BY <1>2, <1>11, <3>5, ReturnFails
  <2>5. CASE \E k \in 0 .. n - 1 : f = Allocated(mem, v, v, 1..k)
    <3>1. PICK k \in 0 .. n - 1 : f = Allocated(mem, v, v, 1..k)
      BY <2>5
    <3>2. 1..k \in SUBSET (1..n) /\ {0} \cup 1..k \subseteq 0 .. n - 1
      BY SizeAssumption
    <3>3. Releasable(f, FreedByMain \cup {v})
      <4>1. \A q \in Pointers : mem.ptr[q] # v
        BY <1>7
      <4> QED
        BY <2>1, <2>2, <2>3, <3>1, <3>2, <4>1, AllocatedReleasable
    <3>4. /\ f \in Memory /\ ~f.bad /\ f.ptr[v] = v
          /\ f.heap = mem.heap \cup ({v} \X ({0} \cup 1..k))
      <4>1. /\ f \in Memory /\ f.ptr = [mem.ptr EXCEPT ![v] = v] /\ f.bad = mem.bad
            /\ f.heap = mem.heap \cup ({v} \X ({0} \cup 1..k))
        BY <2>1, <3>1, <3>2, AllocatedFields
      <4> QED
        BY <2>1, <4>1, MemoryFields
    <3>5. Losable(f, v)
      <4> SUFFICES ASSUME NEW b \in f.heap, b[1] = v PROVE b \in Allowed
        BY <3>4 DEF Losable
      <4>1. b \notin mem.heap
        <5>1. HeapIs(mem, lost, n, {})
          BY <1>2 DEF Kept, Fine
        <5>2. b = <<b[1], b[2]>> /\ b[2] \in 0..n
          BY <3>4, MemoryFields
        <5>3. <<v, b[2]>> \notin mem.heap
          BY <1>3, <1>4, <1>7, <5>1, <5>2 DEF HeapIs
        <5> QED
          BY <5>2, <5>3
      <4>2. b \in {v} \X (0 .. n - 1)
        BY <3>2, <3>4, <4>1
      <4> QED
        BY <1>8, <4>2
    <3>6. Releasable([f EXCEPT !.ptr[v] = "NULL"], (FreedByMain \cup {v}) \ {v})
      <4>1. FreedByMain \cup {v} \in SUBSET Pointers
        BY <2>1, <2>3
      <4> QED
        BY <2>1, <3>3, <3>4, <3>5, <4>1, ForgottenReleasable
    <3>7. Releasable([f EXCEPT !.ptr[v] = "NULL"], FreedByMain)
      BY <3>6, MoreToRelease
    <3> QED
      BY <1>2, <1>11, <3>7, ReturnFails
  <2> QED
    BY <1>4, <2>4, <2>5 DEF FailedAllocations
<1>12. CASE Return(FreePointer(m1, v), "failure")
  <2>1. m1.ptr[v] # "garbage"
    BY <1>3, <1>5, <1>9, NamesApart
  <2>2. Kept(FreePointer(m1, v), lost, (FreedByMain \cup {v}) \ {v})
    BY <1>3, <1>9, <2>1, LocalFreed
  <2>3. (FreedByMain \cup {v}) \ {v} = FreedByMain
    BY <1>3, NoLocalsOfMain
  <2> QED
    BY <1>2, <1>12, <2>2, <2>3, KeptReturns
<1> QED
  BY <1>10, <1>11, <1>12 DEF EnterTables, m2, m1, v, t

LEMMA LeaveTablesKeeps ==
    ASSUME MemInv, LeaveTables
    PROVE  MemInv'
<1> DEFINE v == "visited"
           t == "routingTableArrayTmp"
           p == "routingTableArray"
           lost == {"adjacencyMatrix", "routeArray"}
           m1 == FreePointer(mem, v)
           m2 == HandedOver(m1, p, t)
           S == FreedByMain \cup {v, t}
<1>1. pc = "filling" /\ pc \in Between
  BY DEF LeaveTables, Between
<1>2. /\ TypeOK /\ Kept(mem, lost, S)
      /\ \A q \in Pointers : mem.ptr[q] = Target(q, "filling")
  BY <1>1, KeptAt, SearchTargets
<1>3. /\ v \in Local /\ t \in Local /\ v # t
      /\ t \in Places /\ \A q \in Local : q \in Pointers
      /\ p \in Main \cap Overwritten /\ p \in Pointers \cap Places /\ p # t /\ p # v
      /\ p \notin lost
  BY NamesApart, MainIsNotLocal DEF Local, Overwritten
<1>4. LocalsAt("filling") = {v, t} /\ LostAt("filling") = lost
      /\ LostAt("send") = lost \cup {p} /\ LocalsAt("send") = {}
  BY SearchTargets
<1>5. mem.ptr[v] # "garbage" /\ mem.ptr[t] = t /\ mem.ptr[p] = p
  BY <1>2, <1>3, <1>4, Targets, NamesApart
<1>6. Successor(p) = t
  BY NotLocal
<1> HIDE DEF v, t, p, lost
<1>7. /\ Kept(m1, lost, S \ {v})
      /\ \A q \in Pointers : m1.ptr[q] = IF q = v THEN "NULL" ELSE mem.ptr[q]
  BY <1>2, <1>3, <1>5, LocalFreed
<1> HIDE DEF m1
<1>8. m1.ptr[t] = t /\ m1.ptr[p] = p
  BY <1>3, <1>5, <1>7
<1>9. /\ Fine(m2, lost \cup {p}, n, {})
      /\ \A q \in Pointers : m2.ptr[q] = IF q = p THEN t ELSE IF q = t THEN "NULL" ELSE m1.ptr[q]
      /\ m2.open = m1.open /\ m2.rows = m1.rows
  <2>1. lost \cup {p} = lost \cup ({m1.ptr[p]} \cap Places)
    BY <1>3, <1>8
  <2>2. p \in Pointers /\ t \in Pointers /\ m1.ptr[t] \in Places /\ Fine(m1, lost, n, {})
    BY <1>3, <1>7, <1>8 DEF Kept
  <2> QED
    BY <1>3, <1>8, <2>1, <2>2, HandedOverFine
<1>10. mem' = m2 /\ GoOn("send", m2)
  BY DEF LeaveTables, GoOn, m2, HandedOver, m1, v, t, p
<1> HIDE DEF m2
<1>11. \A q \in Pointers : m2.ptr[q] = Target(q, "send")
  <2>1. \A q \in Pointers :
          Target(q, "send") = IF q = p THEN t
                              ELSE IF q \in {v, t} THEN "NULL" ELSE Target(q, "filling")
    BY <1>3, <1>4, <1>6, NotLocal DEF Target
  <2> QED
    BY <1>2, <1>3, <1>7, <1>9, <2>1
<1>12. MemoryAt(m2, "send")
  BY <1>4, <1>7, <1>9, <1>11 DEF MemoryAt, Kept
<1> QED
  BY <1>2, <1>10, <1>12, GoesOn

\* The blocks of translated rows after one more round of sendRoutingTables.
LEMMA RowsAfterRound ==
    ASSUME NEW r \in 1..n
    PROVE  RowsBefore(r + 1) =
             IF r \in leaves THEN RowsBefore(r)
             ELSE (RowsBefore(r) \ {r - 1}) \cup {r}
<1>1. CASE r \in leaves
  BY <1>1 DEF RowsBefore
<1>2. CASE r \notin leaves
  <2>1. \A j : j \in RowsBefore(r + 1) <=> j \in (RowsBefore(r) \ {r - 1}) \cup {r}
    BY <1>2 DEF RowsBefore
  <2> QED
    BY <1>2, <2>1
<1> QED
  BY <1>1, <1>2

LEMMA RowsAtTheEnd ==
    RowsBefore(n + 1) \ (IF n \in leaves THEN {} ELSE {n})
      = {j \in (1 .. n - 1) \ leaves : j + 1 \in leaves}
BY SizeAssumption DEF RowsBefore

LEMMA OtherRowsInHeap ==
    ASSUME NEW m, NEW lost, NEW k, NEW T, HeapIs(m, lost, k, T), NEW m2, m2.ptr = m.ptr, NEW T2,
           \A i \in 0..n : <<"addressRows", i>> \in m2.heap <=> i \in T2,
           \A b \in Names \ {"addressRows"}, i \in 0..n : <<b, i>> \in m2.heap <=> <<b, i>> \in m.heap
    PROVE  HeapIs(m2, lost, k, T2)
<1> SUFFICES ASSUME NEW b \in Names, NEW i \in 0..n
             PROVE  <<b, i>> \in m2.heap <=>
                      \/ /\ b \in Places /\ i \in {0} \cup RowsOf(b)
                         /\ b \in lost \/ \E p \in Pointers : m2.ptr[p] = b
                      \/ b \in NodeRows /\ i \in 1..k
                      \/ b = "addressRows" /\ i \in T2
  BY DEF HeapIs
<1>1. CASE b = "addressRows"
  BY <1>1, NamesApart
<1>2. CASE b # "addressRows"
  BY <1>2 DEF HeapIs
<1> QED
  BY <1>1, <1>2

\* A node's table is translated.
LEMMA TranslatedFine ==
    ASSUME pc = "send", TypeOK, Running
    PROVE  LET m == Translated(mem, round) IN
           /\ Fine(m, LostAt("send"), n, RowsBefore(round + 1))
           /\ m.ptr = mem.ptr /\ m.open = mem.open /\ m.bad = mem.bad
           /\ m.rows = IF round \in leaves THEN 0 ELSE round
<1> DEFINE m == Translated(mem, round)
<1>1. /\ Fine(mem, LostAt("send"), n, RowsBefore(round)) /\ mem \in Memory
      /\ HeapIs(mem, LostAt("send"), n, RowsBefore(round))
      /\ round \in 1..n
      /\ mem.rows = IF round - 1 \notin leaves THEN round - 1 ELSE 0
  BY DEF Running, NodesRead, RowsTranslated, Rounds, Fine
<1>2. CASE round \in leaves
  <2>1. m = [mem EXCEPT !.rows = 0]
    BY <1>2 DEF Translated
  <2>2. /\ m \in Memory /\ m.ptr = mem.ptr /\ m.open = mem.open /\ m.bad = mem.bad
        /\ m.heap = mem.heap /\ m.rows = 0
    BY <1>1, <2>1, SizeAssumption DEF Memory
  <2> HIDE DEF m
  <2>3. HeapIs(m, LostAt("send"), n, RowsBefore(round + 1))
    BY <1>1, <1>2, <2>2, RowsAfterRound DEF HeapIs
  <2> QED
    BY <1>1, <1>2, <2>2, <2>3, OtherwiseFine DEF m
<1>3. CASE round \notin leaves
  <2> DEFINE B == {<<"addressRows", mem.rows>>}
             C == {<<"addressRows", round>>}
  <2>1. m = [mem EXCEPT !.rows = round, !.heap = (@ \ B) \cup C]
    BY <1>3 DEF Translated
  <2>2. C \subseteq Blocks /\ round \in 0..n
    BY <1>1, NamesApart DEF Names
  <2> HIDE DEF m, B, C
  <2>3. /\ m \in Memory /\ m.ptr = mem.ptr /\ m.open = mem.open /\ m.bad = mem.bad
        /\ m.heap = (mem.heap \ B) \cup C /\ m.rows = round
    BY <1>1, <2>1, <2>2 DEF Memory
  <2>4. \A i \in 0..n : <<"addressRows", i>> \in m.heap <=> i \in RowsBefore(round + 1)
    <3>1. \A i \in 0..n : <<"addressRows", i>> \in mem.heap <=> i \in RowsBefore(round)
      BY <1>1, NamesApart DEF HeapIs, Names
    <3>2. \A i \in RowsBefore(round) : i # 0 /\ (i = round - 1 => i \notin leaves)
      BY DEF RowsBefore
    <3>3. \A i \in 0..n : <<"addressRows", i>> \in m.heap
                            <=> (<<"addressRows", i>> \in mem.heap /\ i # mem.rows) \/ i = round
      BY <2>3 DEF B, C
    <3>4. \A i \in 0..n : i \in RowsBefore(round) => (i # mem.rows <=> i # round - 1)
      BY <1>1, <3>2
    <3> QED
      <4>1. RowsBefore(round + 1) = (RowsBefore(round) \ {round - 1}) \cup {round}
        BY <1>1, <1>3, RowsAfterRound
      <4> SUFFICES ASSUME NEW i \in 0..n
                   PROVE  <<"addressRows", i>> \in m.heap <=> i \in RowsBefore(round + 1)
        OBVIOUS
      <4>2. i \in RowsBefore(round + 1) <=> (i \in RowsBefore(round) /\ i # round - 1) \/ i = round
        BY <4>1
      <4> QED
        BY <3>1, <3>3, <3>4, <4>2
  <2>5. \A b \in Names \ {"addressRows"}, i \in 0..n :
          <<b, i>> \in m.heap <=> <<b, i>> \in mem.heap
    BY <2>3 DEF B, C
  <2>6. HeapIs(m, LostAt("send"), n, RowsBefore(round + 1))
    BY <1>1, <2>3, <2>4, <2>5, OtherRowsInHeap
  <2>7. Fine(m, LostAt("send"), n, RowsBefore(round + 1))
    BY <1>1, <2>3, <2>6, OtherwiseFine
  <2> QED
    BY <1>3, <2>3, <2>7 DEF m
<1> QED
  BY <1>2, <1>3

\* The translated rows are freed at the end, and on a failure.
LEMMA RowsFreed ==
    ASSUME NEW m \in Memory
    PROVE  LET f == FreeRows(m) IN
           /\ f \in Memory /\ f.ptr = m.ptr /\ f.open = m.open /\ f.bad = m.bad /\ f.rows = 0
           /\ f.heap = m.heap \ {<<"addressRows", m.rows>>}
<1> DEFINE f == FreeRows(m)
           B == {<<"addressRows", m.rows>>}
<1>1. f = [m EXCEPT !.rows = 0, !.heap = @ \ B]
  BY DEF FreeRows
<1> HIDE DEF f, B
<1>2. /\ f \in Memory /\ f.ptr = m.ptr /\ f.open = m.open /\ f.bad = m.bad /\ f.rows = 0
      /\ f.heap = m.heap \ B
  <2>1. 0 \in 0..n
    BY SizeAssumption
  <2> QED
    BY <1>1, <2>1 DEF Memory
<1> QED
  BY <1>2 DEF f, B

\* After the last round the lost rows are those that LostOnSuccess names.
LEMMA LastRowsFreed ==
    ASSUME pc = "send", TypeOK, Running, round = n
    PROVE  LET f == FreeRows(Translated(mem, round)) IN
           /\ Fine(f, LostAt("send"), n, {j \in (1 .. n - 1) \ leaves : j + 1 \in leaves})
           /\ f.ptr = mem.ptr /\ f.open = mem.open
<1> DEFINE m == Translated(mem, round)
           f == FreeRows(m)
           T == {j \in (1 .. n - 1) \ leaves : j + 1 \in leaves}
<1>1. /\ Fine(m, LostAt("send"), n, RowsBefore(n + 1))
      /\ m.ptr = mem.ptr /\ m.open = mem.open
      /\ m.rows = IF n \in leaves THEN 0 ELSE n
  BY TranslatedFine
<1> HIDE DEF m
<1>2. m \in Memory /\ HeapIs(m, LostAt("send"), n, RowsBefore(n + 1))
  BY <1>1 DEF Fine
<1>3. /\ f \in Memory /\ f.ptr = m.ptr /\ f.open = m.open /\ f.bad = m.bad
      /\ f.heap = m.heap \ {<<"addressRows", m.rows>>}
  BY <1>2, RowsFreed
<1> HIDE DEF f
<1>4. \A i : i \in T <=> i \in RowsBefore(n + 1) /\ (n \in leaves \/ i # n)
  BY RowsAtTheEnd
<1> HIDE DEF T
<1>5. 0 \notin RowsBefore(n + 1)
  BY DEF RowsBefore
<1>6. \A i \in 0..n : <<"addressRows", i>> \in f.heap <=> i \in T
  <2>1. \A i \in 0..n : <<"addressRows", i>> \in m.heap <=> i \in RowsBefore(n + 1)
    BY <1>2, NamesApart DEF HeapIs, Names
  <2>2. \A i \in 0..n : <<"addressRows", i>> \in f.heap
                          <=> <<"addressRows", i>> \in m.heap /\ i # m.rows
    BY <1>3
  <2> QED
    BY <1>1, <1>4, <1>5, <2>1, <2>2
<1>7. \A b \in Names \ {"addressRows"}, i \in 0..n :
        <<b, i>> \in f.heap <=> <<b, i>> \in m.heap
  BY <1>3
<1>8. HeapIs(f, LostAt("send"), n, T)
  BY <1>2, <1>3, <1>6, <1>7, OtherRowsInHeap
<1>9. Fine(f, LostAt("send"), n, T)
  BY <1>1, <1>3, <1>8, OtherwiseFine
<1> QED
  BY <1>1, <1>3, <1>9 DEF f, m, T

\* A run that succeeds frees everything else.
LEMMA SuccessFrees ==
    ASSUME NEW m, NEW T, Fine(m, Overwritten, n, T), m.ptr["nodeArray"] = "nodeArray",
           \A p \in Pointers : m.ptr[p] # "garbage",
           \A p \in Local : m.ptr[p] = "NULL",
           T = {j \in (1 .. n - 1) \ leaves : j + 1 \in leaves}
    PROVE  LET f == FreeRoutingServer(m) IN
           /\ f \in Memory /\ ~f.bad
           /\ f.heap = LostOnSuccess
           /\ f.open = m.open \ (1..n)
<1> DEFINE m0 == FreeNodeArray(m)
           m1 == FreePointer(m0, "invalidEdgesArray")
           m2 == FreePointer(m1, "indexToAddress")
           m3 == FreePointer(m2, "adjacencyMatrix")
           m4 == FreePointer(m3, "distanceArray")
           m5 == FreePointer(m4, "routeArray")
           m6 == FreePointer(m5, "routingTableArray")
           lost == Overwritten \cup {"nodeArray"}
           sockets == m.open \ (1..n)
           Of(x, S) == /\ Fine(x, lost, 0, T)
                       /\ \A q \in Pointers : x.ptr[q] # "garbage"
                       /\ \A q \in S : x.ptr[q] = "NULL"
                       /\ x.open = sockets
           S0 == Local \cup {"nodeArray"}
           S1 == S0 \cup {"invalidEdgesArray"}
           S2 == S1 \cup {"indexToAddress"}
           S3 == S2 \cup {"adjacencyMatrix"}
           S4 == S3 \cup {"distanceArray"}
           S5 == S4 \cup {"routeArray"}
           S6 == S5 \cup {"routingTableArray"}
<1>1. /\ {"invalidEdgesArray", "indexToAddress", "adjacencyMatrix", "distanceArray",
          "routeArray", "routingTableArray", "nodeArray"} \subseteq Pointers
      /\ Pointers \subseteq S6 /\ S6 \subseteq Pointers
  BY DEF Pointers, Initialised, Uninitialised
<1>2. Of(m0, S0)
  <2>1. /\ Fine(m0, lost, 0, T)
        /\ \A q \in Pointers : m0.ptr[q] = IF q = "nodeArray" THEN "NULL" ELSE m.ptr[q]
        /\ m0.open = sockets
    BY FreeNodeArrayFine
  <2> HIDE DEF m0, lost, sockets
  <2> QED
    BY <2>1, NamesApart
<1>3. ASSUME NEW x, NEW S \in SUBSET Pointers, Of(x, S), NEW p \in Pointers
      PROVE  Of(FreePointer(x, p), S \cup {p})
  <2> DEFINE f == FreePointer(x, p)
  <2> HIDE DEF lost, sockets
  <2>1. /\ Fine(f, lost, 0, T)
        /\ \A q \in Pointers : f.ptr[q] = IF q = p THEN "NULL" ELSE x.ptr[q]
        /\ f.open = x.open
    BY <1>3, FreedFine
  <2> HIDE DEF f
  <2>2. Of(f, S \cup {p})
    BY <1>3, <2>1
  <2> QED
    BY <2>2 DEF f
<1> HIDE DEF m0, Of
<1>4. Of(m1, S1)
  BY <1>1, <1>2, <1>3, NamesApart
<1> HIDE DEF m1
<1>5. Of(m2, S2)
  BY <1>1, <1>3, <1>4
<1> HIDE DEF m2
<1>6. Of(m3, S3)
  BY <1>1, <1>3, <1>5
<1> HIDE DEF m3
<1>7. Of(m4, S4)
  BY <1>1, <1>3, <1>6
<1> HIDE DEF m4
<1>8. Of(m5, S5)
  BY <1>1, <1>3, <1>7
<1> HIDE DEF m5
<1>9. Of(m6, S6)
  BY <1>1, <1>3, <1>8
<1>10. FreeRoutingServer(m) = m6
  BY DEF FreeRoutingServer, m0, m1, m2, m3, m4, m5
<1> HIDE DEF m6
<1>11. /\ Fine(m6, lost, 0, T) /\ m6.open = sockets
       /\ \A q \in Pointers : m6.ptr[q] = "NULL"
  BY <1>1, <1>9 DEF Of
<1>12. m6.heap = LostOnSuccess
  <2>1. HeapIs(m6, lost, 0, T) /\ m6 \in Memory
    BY <1>11 DEF Fine
  <2>2. lost \subseteq Places
    BY MainIsNotLocal, NamesApart
  <2>3. \A b \in Names, i \in 0..n :
          b \in lost /\ i \in {0} \cup RowsOf(b) <=>
            b \in Overwritten \/ (b = "nodeArray" /\ i = 0)
    BY RowsOfSome, MainIsNotLocal, SizeAssumption
  <2> HIDE DEF lost
  <2>4. \A b \in Names, i \in 0..n :
          <<b, i>> \in m6.heap <=> (b \in lost /\ i \in {0} \cup RowsOf(b))
                                   \/ (b = "addressRows" /\ i \in T)
    <3> SUFFICES ASSUME NEW b \in Names, NEW i \in 0..n
                 PROVE  <<b, i>> \in m6.heap <=> (b \in lost /\ i \in {0} \cup RowsOf(b))
                                                 \/ (b = "addressRows" /\ i \in T)
      OBVIOUS
    <3>1. i \notin 1..0
      OBVIOUS
    <3>2. <<b, i>> \in m6.heap <=>
            \/ /\ b \in Places /\ i \in {0} \cup RowsOf(b)
               /\ b \in lost \/ \E p \in Pointers : m6.ptr[p] = b
            \/ b \in NodeRows /\ i \in 1..0
            \/ b = "addressRows" /\ i \in T
      BY <2>1 DEF HeapIs
    <3>3. b \in Places => ~ \E p \in Pointers : m6.ptr[p] = b
      BY <1>11, NamesApart
    <3> QED
      BY <2>2, <3>1, <3>2, <3>3
  <2>5. LostOnSuccess \subseteq Names \X (0..n)
    BY MainIsNotLocal, SizeAssumption, NamesApart DEF LostOnSuccess, Names
  <2>6. \A b \in Names, i \in 0..n :
          <<b, i>> \in LostOnSuccess <=>
            \/ b \in Overwritten \/ (b = "nodeArray" /\ i = 0)
            \/ (b = "addressRows" /\ i \in T)
    <3> DEFINE A == {<<p, r>> : p \in Overwritten, r \in 0..n}
               C == {<<"addressRows", j>> : j \in T}
    <3>1. \A b \in Names, i \in 0..n : <<b, i>> \in A <=> b \in Overwritten
      OBVIOUS
    <3>2. \A b \in Names, i \in 0..n : <<b, i>> \in C <=> b = "addressRows" /\ i \in T
      OBVIOUS
    <3>3. LostOnSuccess = {<<"nodeArray", 0>>} \cup A \cup C
      BY DEF LostOnSuccess
    <3> HIDE DEF A, C
    <3> QED
      BY <3>1, <3>2, <3>3
  <2>7. m6.heap \subseteq Names \X (0..n)
    BY <2>1, MemoryFields
  <2>8. \A x \in Names \X (0..n) : x \in m6.heap <=> x \in LostOnSuccess
    <3> SUFFICES ASSUME NEW b \in Names, NEW i \in 0..n
                 PROVE  <<b, i>> \in m6.heap <=> <<b, i>> \in LostOnSuccess
      OBVIOUS
    <3> QED
      BY <2>3, <2>4, <2>6
  <2> QED
    BY <2>5, <2>7, <2>8
<1> QED
  BY <1>10, <1>11, <1>12 DEF Fine

LEMMA SendKeeps ==
    ASSUME MemInv, Send
    PROVE  MemInv'
<1> DEFINE m == Translated(mem, round)
           f == FreeRows(m)
<1>1. pc = "send"
  BY DEF Send
<1>2. TypeOK /\ Running /\ Releasable(mem, FreedByMain \cup LocalsAt(pc)) /\ ~mem.bad
  BY <1>1, Runs DEF Calls
<1>3. /\ Fine(mem, LostAt("send"), n, RowsBefore(round)) /\ mem \in Memory
      /\ \A q \in Pointers : mem.ptr[q] = Target(q, "send")
      /\ mem.open = 0..n /\ round \in 1..n
  BY <1>1, <1>2
  DEF Running, NodesRead, RowsTranslated, PointersAreSet, SocketsOpen, Rounds, TypeOK, Ended
<1>4. Releasable(mem, FreedByMain)
  BY <1>1, <1>2, SearchTargets
<1>5. /\ mem.ptr["nodeArray"] = "nodeArray"
      /\ \A q \in Pointers : mem.ptr[q] # "garbage"
      /\ \A q \in Local : mem.ptr[q] = "NULL"
  BY <1>3, Targets, SearchTargets, NamesApart
<1>6. /\ Fine(m, LostAt("send"), n, RowsBefore(round + 1))
      /\ m.ptr = mem.ptr /\ m.open = mem.open /\ m.bad = mem.bad
      /\ m.rows = IF round \in leaves THEN 0 ELSE round
  BY <1>1, <1>2, TranslatedFine
<1>7. m \in Memory /\ HeapIs(m, LostAt("send"), n, RowsBefore(round + 1))
  BY <1>6 DEF Fine
<1>8. /\ f \in Memory /\ f.ptr = m.ptr /\ f.open = m.open /\ f.bad = m.bad
      /\ f.heap \subseteq m.heap
      /\ \A b \in Places : <<b, 0>> \in m.heap => <<b, 0>> \in f.heap
  <2> HIDE DEF m
  <2> QED
    BY <1>7, RowsFreed, NamesApart
<1>9. CASE round < n /\ round' = round + 1 /\ mem' = m /\ UNCHANGED <<pc, leaves>>
  <2> HIDE DEF m
  <2>1. round' \in 1..n /\ round' - 1 = round
    BY <1>3, <1>9, SizeAssumption
  <2>2. NodesRead' = n /\ RowsTranslated' = RowsBefore(round + 1)
    BY <1>1, <1>9 DEF NodesRead, RowsTranslated, RowsBefore
  <2>3. PointersAreSet'
    BY <1>1, <1>3, <1>6, <1>9 DEF PointersAreSet
  <2>4. SocketsOpen' /\ Rounds'
    BY <1>1, <1>3, <1>6, <1>9, <2>1 DEF SocketsOpen, Rounds, Ended
  <2>5. Running'
    BY <1>1, <1>6, <1>9, <2>2, <2>3, <2>4 DEF Running
  <2> QED
    BY <1>1, <1>2, <1>9, <2>1, <2>5, SizeAssumption, StillRunning DEF Calls
<1>10. CASE round = n /\ Return(f, "success")
  <2> DEFINE T == {j \in (1 .. n - 1) \ leaves : j + 1 \in leaves}
             g == FreeRoutingServer(f)
  <2>1. /\ Fine(f, LostAt("send"), n, T)
        /\ f.ptr = mem.ptr /\ f.open = mem.open
    BY <1>1, <1>2, <1>10, LastRowsFreed
  <2>2. LostAt("send") = Overwritten
    BY SearchTargets DEF Overwritten
  <2>3. /\ g \in Memory /\ ~g.bad /\ g.heap = LostOnSuccess /\ g.open = mem.open \ (1..n)
    <3> HIDE DEF f
    <3> QED
      BY <1>5, <2>1, <2>2, SuccessFrees
  <2>4. /\ mem' = [g EXCEPT !.open = @ \ {0}] /\ pc' = "success"
        /\ UNCHANGED <<round, leaves>>
    BY <1>10, <2>3 DEF Return
  <2> HIDE DEF g, f, m
  <2>5. g.open \subseteq {0}
    BY <1>3, <2>3
  <2>6. /\ mem' \in Memory /\ mem'.open = {} /\ mem'.heap = LostOnSuccess /\ ~mem'.bad
    BY <2>3, <2>4, <2>5 DEF Memory
  <2>7. TypeOK'
    BY <1>2, <2>4, <2>6 DEF TypeOK, Ended
  <2>8. LostOnSuccess' = LostOnSuccess
    BY <2>4 DEF LostOnSuccess, Overwritten
  <2> QED
    BY <2>4, <2>6, <2>7, <2>8
    DEF MemInv, Ended, OnlyGarbageIsFreedWrongly, LeaksAccountedFor, SocketsAreClosed
<1>11. ASSUME NEW x \in Memory, x.ptr = mem.ptr, x.bad = mem.bad,
              x.heap \subseteq m.heap \/ x.heap \subseteq mem.heap,
              \A b \in Places : <<b, 0>> \in mem.heap => <<b, 0>> \in x.heap
       PROVE  Releasable(x, FreedByMain)
  <2>1. \A b \in m.heap : b \in mem.heap \/ b \in Allowed
    <3>1. m.heap \subseteq mem.heap \cup {<<"addressRows", round>>}
      BY <1>3 DEF Translated, Memory
    <3>2. <<"addressRows", round>> \in Allowed
      BY <1>3 DEF Allowed
    <3> QED
      BY <3>1, <3>2
  <2> HIDE DEF m, f
  <2> QED
    BY <1>4, <1>5, <1>11, <2>1, OtherwiseReleasable
<1>12. CASE Return(f, "failure")
  <2>1. \A b \in Places : <<b, 0>> \in mem.heap => <<b, 0>> \in m.heap
    <3>1. HeapIs(mem, LostAt("send"), n, RowsBefore(round))
      BY <1>3 DEF Fine
    <3> HIDE DEF m, f
    <3> QED
      BY <1>6, <1>7, <3>1, NamesApart, SizeAssumption DEF HeapIs, Names
  <2> HIDE DEF m, f
  <2>2. Releasable(f, FreedByMain)
    BY <1>6, <1>8, <1>11, <2>1
  <2> QED
    BY <1>2, <1>12, <2>2, ReturnFails
<1>13. CASE Return([mem EXCEPT !.rows = 0], "failure")
  <2> DEFINE x == [mem EXCEPT !.rows = 0]
  <2>1. x \in Memory /\ x.ptr = mem.ptr /\ x.bad = mem.bad /\ x.heap = mem.heap
    BY <1>3, SizeAssumption DEF Memory
  <2> HIDE DEF m, f, x
  <2>2. Releasable(x, FreedByMain)
    BY <1>11, <2>1
  <2> QED
    BY <1>2, <1>13, <2>2, ReturnFails DEF x
<1> QED
  BY <1>9, <1>10, <1>12, <1>13 DEF Send

-----------------------------------------------------------------------------
(***************************************************************************)
(* The theorems.                                                           *)
(***************************************************************************)

LEMMA MemInvInit == Init => MemInv
<1> SUFFICES ASSUME Init PROVE MemInv
  OBVIOUS
<1>1. PICK uninit \in [Uninitialised -> {"NULL", "garbage"}] :
        mem = [ptr  |-> [p \in Pointers |->
                           IF p \in Uninitialised THEN uninit[p] ELSE "NULL"],
               rows |-> 0, heap |-> {}, open |-> {}, bad |-> FALSE]
  BY DEF Init
<1>2. /\ mem.ptr \in [Pointers -> {"NULL", "garbage"}]
      /\ \A p \in Pointers :
           mem.ptr[p] \in IF p \in Uninitialised THEN {"NULL", "garbage"} ELSE {"NULL"}
      /\ mem.rows = 0 /\ mem.heap = {} /\ mem.open = {} /\ mem.bad = FALSE
  BY <1>1
<1>3. mem \in Memory
  BY <1>1, <1>2, SizeAssumption DEF Memory
<1>4. pc = "allocate" /\ round = 1 /\ leaves \in SUBSET (1..n)
  BY DEF Init
<1>5. TypeOK
  BY <1>3, <1>4, SizeAssumption DEF TypeOK
<1>6. LostAt(pc) = {} /\ NodesRead = 0 /\ RowsTranslated = {}
  BY <1>4 DEF LostAt, AfterMatrix, AfterSearch, NodesRead, RowsTranslated
<1>7. Unshared(mem)
  BY <1>2, NamesApart DEF Unshared
<1>8. HeapIs(mem, {}, 0, {})
  <2>1. \A i : i \notin 1..0
    OBVIOUS
  <2> QED
    BY <1>2, <2>1, NamesApart DEF HeapIs
<1>9. Fine(mem, {}, 0, {})
  BY <1>2, <1>3, <1>7, <1>8 DEF Fine
<1>10. PointersAreSet
  <2>1. AllocatedBefore(round) = {}
    BY <1>4 DEF AllocatedBefore
  <2> QED
    BY <1>2, <1>4, <2>1 DEF PointersAreSet
<1>11. SocketsOpen /\ Rounds
  BY <1>2, <1>4 DEF SocketsOpen, Rounds, Ended
<1>12. Running
  BY <1>6, <1>9, <1>10, <1>11 DEF Running
<1> QED
  BY <1>2, <1>4, <1>5, <1>12
  DEF MemInv, OnlyGarbageIsFreedWrongly, LeaksAccountedFor, SocketsAreClosed

LEMMA MemInvStuttering ==
    ASSUME MemInv, UNCHANGED vars
    PROVE  MemInv'
<1>1. pc' = pc /\ round' = round /\ leaves' = leaves /\ mem' = mem
  BY DEF vars
<1>2. TypeOK' /\ OnlyGarbageIsFreedWrongly' /\ LeaksAccountedFor' /\ SocketsAreClosed'
  BY <1>1 DEF MemInv, TypeOK, OnlyGarbageIsFreedWrongly, LeaksAccountedFor, SocketsAreClosed,
              LostOnSuccess
<1>3. NodesRead' = NodesRead /\ RowsTranslated' = RowsTranslated
  BY <1>1 DEF NodesRead, RowsTranslated, RowsBefore
<1>4. Running => Running'
  BY <1>1, <1>3 DEF Running, PointersAreSet, SocketsOpen, Rounds
<1> QED
  BY <1>1, <1>2, <1>4 DEF MemInv

\* The strengthened invariant: at every call of main, what is allocated is what
\* the pointers lead to, what was overwritten, the rows of the nodes read so far
\* and the translated rows that a leaf's table let go.
THEOREM MemoryInvariance == Spec => []MemInv
<1>1. Init => MemInv
  BY MemInvInit
<1>2. MemInv /\ [Next]_vars => MemInv'
  BY AllocateKeeps, AllocateFailsKeeps, ListenKeeps, PopulateKeeps, ValidateKeeps,
     ValidatedKeeps, CreateMatrixKeeps, EnterDijkstraKeeps, LeaveDijkstraKeeps,
     EnterTablesKeeps, LeaveTablesKeeps, SendKeeps, MemInvStuttering DEF Next
<1> QED
  BY <1>1, <1>2, PTL DEF Spec

\* Type correctness of the memory of routing_server.
THEOREM MemoryTypeCorrect == Spec => []TypeOK
<1>1. MemInv => TypeOK
  BY DEF MemInv
<1> QED
  BY <1>1, MemoryInvariance, PTL

LEMMA RunningOwnsBlocks ==
    ASSUME TypeOK, Running, pc \notin Ended
    PROVE  PointersOwnBlocks
<1>1. /\ HeapIs(mem, LostAt(pc), NodesRead, RowsTranslated)
      /\ Unshared(mem) /\ mem \in Memory
  BY DEF Running, Fine
<1> SUFFICES ASSUME NEW p \in Pointers, mem.ptr[p] # "NULL"
             PROVE  \/ mem.ptr[p] = "garbage" /\ p \in Uninitialised /\ pc = "allocate"
                    \/ /\ {<<mem.ptr[p], r>> : r \in {0} \cup RowsOf(mem.ptr[p])} \subseteq mem.heap
                       /\ \A q \in Pointers \ {p} : mem.ptr[q] # mem.ptr[p]
  BY DEF PointersOwnBlocks
<1>2. CASE mem.ptr[p] = "garbage"
  <2>1. p \in Uninitialised
    BY <1>1, <1>2 DEF Unshared
  <2>2. pc = "allocate"
    BY <1>2, Targets, NamesApart DEF Running, PointersAreSet
  <2> QED
    BY <1>2, <2>1, <2>2
<1>3. CASE mem.ptr[p] # "garbage"
  <2>1. mem.ptr[p] \in Places
    BY <1>1, <1>3, MemoryFields
  <2>2. {0} \cup RowsOf(mem.ptr[p]) \subseteq 0..n
    BY RowsFew, SizeAssumption
  <2>3. \A r \in {0} \cup RowsOf(mem.ptr[p]) : <<mem.ptr[p], r>> \in mem.heap
    BY <1>1, <2>1, <2>2 DEF HeapIs, Names
  <2>4. \A q \in Pointers \ {p} : mem.ptr[q] # mem.ptr[p]
    BY <1>1, <1>3 DEF Unshared
  <2> QED
    BY <2>3, <2>4
<1> QED
  BY <1>2, <1>3

\* No array is shared by two pointers or freed while one leads to it, for any
\* number of nodes and wherever the run is.
THEOREM PointersOwnTheirBlocks == Spec => []PointersOwnBlocks
<1>1. MemInv => PointersOwnBlocks
  BY RunningOwnsBlocks DEF MemInv, PointersOwnBlocks
<1> QED
  BY <1>1, MemoryInvariance, PTL

\* Only a struct that main never initialised is freed without being allocated,
\* although a failing allocation has everything freed twice.
THEOREM NothingIsFreedTwice == Spec => []OnlyGarbageIsFreedWrongly
<1>1. MemInv => OnlyGarbageIsFreedWrongly
  BY DEF MemInv
<1> QED
  BY <1>1, MemoryInvariance, PTL

\* The leaks of a run that succeeds are exactly those listed, and those of a run
\* that fails at most those, wherever it fails.
THEOREM LeaksAreThoseListed == Spec => []LeaksAccountedFor
<1>1. MemInv => LeaksAccountedFor
  BY DEF MemInv
<1> QED
  BY <1>1, MemoryInvariance, PTL

\* Every return of main has closed all sockets.
THEOREM AllSocketsAreClosed == Spec => []SocketsAreClosed
<1>1. MemInv => SocketsAreClosed
  BY DEF MemInv
<1> QED
  BY <1>1, MemoryInvariance, PTL
=============================================================================
