------------------------------ MODULE RouteSearch ------------------------------
(***************************************************************************)
(* existsRoute of the router register: a depth-first search along the      *)
(* links, which name routers by their ids.  The recursion of DFS is a      *)
(* stack of frames; a step is one call of DFS or one return from it.       *)
(*                                                                         *)
(* Nothing keeps a link from naming a router that is not in the register,  *)
(* and the search gives up when it is led to one.                          *)
(***************************************************************************)
EXTENDS Integers, Sequences, FiniteSets

CONSTANTS
    RouterId,      \* the ids in use
    MAX_NEIGHBORS, \* the number of slots a router has for its links
    Registers      \* the router arrays that are read from files

free == -1         \* the value of a free slot

Slots == 0 .. MAX_NEIGHBORS - 1

ASSUME RouterIdAssumption == RouterId \subseteq 0..255 /\ IsFiniteSet(RouterId)
ASSUME SlotsAssumption == MAX_NEIGHBORS \in Nat \ {0}

\* What the search needs of the routers: ids, and links in their slots.
IsRegister(rs) ==
    /\ Len(rs) \in Nat /\ DOMAIN rs = 1 .. Len(rs)
    /\ \A r \in DOMAIN rs :
         /\ rs[r].routerId \in RouterId
         /\ rs[r].neighbors \in [Slots -> RouterId \cup {free}]

\* The ids in a file are unique.
ASSUME RegistersAssumption ==
    \A rs \in Registers :
        /\ IsRegister(rs)
        /\ \A q, r \in DOMAIN rs : rs[q].routerId = rs[r].routerId => q = r

VARIABLES
    routers,       \* routerArray, counted from 1; its length is N
    fromRouterId,  \* the arguments of existsRoute
    toRouterId,
    visited,       \* the ids in the visited array
    stack,         \* the active calls of DFS: a router and its next slot
    result         \* "idle", "called", "searching", or what was found

searchVars == <<fromRouterId, toRouterId, visited, stack, result>>

Frame == [router : Nat \ {0}, next : 0 .. MAX_NEIGHBORS]

SearchTypeOK ==
    /\ IsRegister(routers)
    /\ fromRouterId \in RouterId
    /\ toRouterId \in RouterId
    /\ visited \subseteq RouterId
    /\ stack \in Seq(Frame)
    /\ \A k \in DOMAIN stack : stack[k].router \in DOMAIN routers
    /\ result \in {"idle", "called", "searching", "exists", "absent", "failed"}

-----------------------------------------------------------------------------
\* The routers of the array rs with this id.
HasRouter(rs, id) == \E r \in DOMAIN rs : rs[r].routerId = id

\* findRouterId: the first router with the id.
FindRouterId(rs, id) ==
    CHOOSE r \in DOMAIN rs :
        rs[r].routerId = id /\ \A q \in 1 .. r - 1 : rs[q].routerId # id

\* (Slip: the last slot is never read.)
HasNextButLast(f) ==
    f.next < MAX_NEIGHBORS - 1 /\ routers[f.router].neighbors[f.next] # free

\* The loop over the neighbors of a frame has another round.
HasNext(f) ==
    f.next < MAX_NEIGHBORS /\ routers[f.router].neighbors[f.next] # free

\* (Slip: the loop stays at a neighbor.)
StayingAt(f) == f

\* (Slip: the slot is advanced twice.)
AdvancedTwice(f) == [f EXCEPT !.next = @ + 2]

\* The frame in the next round.
Advanced(f) == [f EXCEPT !.next = @ + 1]

\* (Slip: a router is not marked.)
MarkNone(id) == visited

\* The ids visited once id is.
Mark(id) == visited \cup {id}

\* The search ends, and all calls return at once.
EndsWith(res) == stack' = <<>> /\ result' = res /\ UNCHANGED visited

\* DFS is called for id by the last of the given frames.
DFS(id, frames) ==
    \/ id = toRouterId /\ EndsWith("exists")
    \/ /\ id # toRouterId
       /\ id \in visited
       /\ stack' = frames
       /\ UNCHANGED <<visited, result>>
    \/ /\ id \notin visited \cup {toRouterId}
       /\ HasRouter(routers, id)
       /\ Cardinality(visited) < Len(routers)
       /\ visited' = Mark(id)
       /\ stack' = Append(frames, [router |-> FindRouterId(routers, id), next |-> 0])
       /\ result' = "searching"
    \/ /\ id \notin visited \cup {toRouterId}
       /\ ~HasRouter(routers, id) \/ Cardinality(visited) >= Len(routers)
       /\ EndsWith("failed")

\* existsRoute calls DFS with an empty visited array.
Call ==
    /\ result = "called"
    /\ DFS(fromRouterId, <<>>)
    /\ UNCHANGED <<fromRouterId, toRouterId>>

Top == stack[Len(stack)]

\* The next round of the innermost loop.
NextNeighbor ==
    /\ result = "searching"
    /\ HasNext(Top)
    /\ DFS(routers[Top.router].neighbors[Top.next],
           [stack EXCEPT ![Len(stack)] = Advanced(Top)])
    /\ UNCHANGED <<fromRouterId, toRouterId>>

\* The innermost call has seen all neighbors and returns; with the outermost
\* call the search is over.
Return ==
    /\ result = "searching"
    /\ ~HasNext(Top)
    /\ stack' = SubSeq(stack, 1, Len(stack) - 1)
    /\ result' = IF Len(stack) = 1 THEN "absent" ELSE "searching"
    /\ UNCHANGED <<fromRouterId, toRouterId, visited>>

SearchStep == Call \/ NextNeighbor \/ Return

SearchInit ==
    /\ routers \in Registers
    /\ fromRouterId \in RouterId
    /\ toRouterId \in RouterId
    /\ visited = {}
    /\ stack = <<>>
    /\ result = "called"

SearchNext == SearchStep /\ UNCHANGED routers

\* The search is a sequential computation: it goes on as long as it can.
SearchSpec ==
    /\ SearchInit
    /\ [][SearchNext]_<<routers, searchVars>>
    /\ WF_<<routers, searchVars>>(SearchNext)

-----------------------------------------------------------------------------
(***************************************************************************)
(* Correctness.                                                            *)
(***************************************************************************)

\* The ids a router's links lead to: those before its first free slot.
Links(r) ==
    {routers[r].neighbors[i] : i \in
        {j \in Slots : \A h \in 0 .. j : routers[r].neighbors[h] # free}}

\* S holds with a router everything its links lead to, except behind except.
ClosedBut(S, except) ==
    \A id \in S \ {except} : HasRouter(routers, id) =>
        Links(FindRouterId(routers, id)) \subseteq S

\* Whether fromRouterId leads to id without passing through except: every set
\* with fromRouterId that is closed under links has id in it.
Leads(id, except) ==
    \A S \in SUBSET RouterId : fromRouterId \in S /\ ClosedBut(S, except) => id \in S

\* The answer is right: a route is found only if there is one; it is found
\* absent only if there is none; and the search fails only if it is led to an
\* id without a router, before toRouterId.
AnswerIsRight ==
    /\ result = "exists" => Leads(toRouterId, toRouterId)
    /\ result = "absent" => ~Leads(toRouterId, toRouterId)
    /\ result = "failed" =>
         \E id \in RouterId \ {toRouterId} :
             ~HasRouter(routers, id) /\ Leads(id, toRouterId)

\* The recursion is bounded by the number of routers, whatever cycles the links
\* form: no router has two active calls, and each was called by the one below.
CallsFormSimplePath ==
    /\ Len(stack) <= Len(routers)
    /\ \A k, l \in DOMAIN stack : stack[k].router = stack[l].router => k = l
    /\ \A k \in 1 .. Len(stack) - 1 :
         routers[stack[k + 1].router].routerId \in Links(stack[k].router)

\* The search ends on every graph, cyclic or not.
SearchEnds == <>(result \in {"exists", "absent", "failed"})

=============================================================================
