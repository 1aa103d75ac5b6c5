-------------------------- MODULE RouteSearchProofs --------------------------
(***************************************************************************)
(* Proofs about exist_route for every register and any links in it.        *)
(*                                                                         *)
(* The argument: every id the search is called for is one that             *)
(* fromRouterId leads to; the links of a router are visited once its call  *)
(* has returned, and up to its slot while it is active.  When the last     *)
(* call returns, the visited ids are closed under links and toRouterId is  *)
(* not among them.                                                         *)
(***************************************************************************)
EXTENDS RouteSearch, FiniteSetTheorems, SequenceTheorems, TLAPS

UniqueIds ==
    \A q, r \in DOMAIN routers : routers[q].routerId = routers[r].routerId => q = r

\* The active call f is of a router whose id is in S, and so are the links it
\* has followed.
FrameOK(f, S) ==
    /\ f \in Frame
    /\ f.router \in DOMAIN routers
    /\ routers[f.router].routerId \in S
    /\ \A h \in 0 .. f.next - 1 : routers[f.router].neighbors[h] \in S

Framed(st, S) == st \in Seq(Frame) /\ \A k \in DOMAIN st : FrameOK(st[k], S)

\* No router has two calls, and each was called by the one below.
Simple(st) ==
    /\ \A k, l \in DOMAIN st : st[k].router = st[l].router => k = l
    /\ \A k \in 1 .. Len(st) - 1 :
         routers[st[k + 1].router].routerId \in Links(st[k].router)

\* The links of the visited ids in V without an active call are visited.
Returned(V, st) ==
    \A v \in V :
        (\A k \in DOMAIN st : st[k].router # FindRouterId(routers, v))
          => Links(FindRouterId(routers, v)) \subseteq V

\* What is visited has a router, is led to, and is not what is looked for.
VisitedOK ==
    /\ toRouterId \notin visited
    /\ \A v \in visited : HasRouter(routers, v) /\ Leads(v, toRouterId)

Stages ==
    /\ result = "called" => visited = {}
    /\ result = "searching" => stack # <<>> /\ fromRouterId \in visited
    /\ result # "searching" => stack = <<>>
    /\ result = "absent" => fromRouterId \in visited
    /\ result \in {"searching", "absent"} => Returned(visited, stack)

\* The inductive invariant.
SearchInv ==
    /\ SearchTypeOK
    /\ UniqueIds
    /\ VisitedOK
    /\ Framed(stack, visited)
    /\ Simple(stack)
    /\ Stages
    /\ AnswerIsRight

-----------------------------------------------------------------------------
(***************************************************************************)
(* Routers, links, and what leads where.                                   *)
(***************************************************************************)

\* findRouterId finds the router of an id.
LEMMA FindsRouter ==
  ASSUME IsRegister(routers), UniqueIds, NEW id, HasRouter(routers, id)
  PROVE  /\ FindRouterId(routers, id) \in DOMAIN routers
         /\ routers[FindRouterId(routers, id)].routerId = id
<1>1. PICK r \in DOMAIN routers : routers[r].routerId = id
  BY DEF HasRouter
<1>2. DOMAIN routers = 1 .. Len(routers) /\ Len(routers) \in Nat
  BY DEF IsRegister
<1>3. \A q \in 1 .. r - 1 : routers[q].routerId # id
  BY <1>1, <1>2 DEF UniqueIds
<1>4. \E s \in DOMAIN routers :
        routers[s].routerId = id /\ \A q \in 1 .. s - 1 : routers[q].routerId # id
  BY <1>1, <1>3
<1> QED
  BY <1>4 DEF FindRouterId

\* And a router is the one found under its id.
LEMMA RouterIsFound ==
  ASSUME IsRegister(routers), UniqueIds, NEW r \in DOMAIN routers
  PROVE  /\ HasRouter(routers, routers[r].routerId)
         /\ FindRouterId(routers, routers[r].routerId) = r
<1>1. HasRouter(routers, routers[r].routerId)
  BY DEF HasRouter
<1> QED
  BY <1>1, FindsRouter DEF UniqueIds

\* Links lead to ids.
LEMMA LinksAreIds ==
  ASSUME IsRegister(routers), NEW r \in DOMAIN routers
  PROVE  Links(r) \subseteq RouterId
<1>1. SUFFICES ASSUME NEW i \in Slots, \A h \in 0 .. i : routers[r].neighbors[h] # free
               PROVE  routers[r].neighbors[i] \in RouterId
  BY DEF Links
<1>2. routers[r].neighbors \in [Slots -> RouterId \cup {free}]
  BY DEF IsRegister
<1>3. i \in 0 .. i
  BY SlotsAssumption DEF Slots
<1> QED
  BY <1>1, <1>2, <1>3

\* The search starts at an id it is led to.
LEMMA SourceLeads == Leads(fromRouterId, toRouterId)
BY DEF Leads

\* Whoever is led to leads to what its links lead to.
LEMMA LinkLeads ==
  ASSUME NEW id, Leads(id, toRouterId), id # toRouterId, HasRouter(routers, id),
         NEW l \in Links(FindRouterId(routers, id))
  PROVE  Leads(l, toRouterId)
<1>1. SUFFICES ASSUME NEW S \in SUBSET RouterId, fromRouterId \in S, ClosedBut(S, toRouterId)
               PROVE  l \in S
  BY DEF Leads
<1>2. id \in S
  BY <1>1 DEF Leads
<1> QED
  BY <1>1, <1>2 DEF ClosedBut

\* How many numbers there are up to m.
LEMMA IntervalSize ==
  ASSUME NEW m \in Nat
  PROVE  IsFiniteSet(1 .. m) /\ Cardinality(1 .. m) = m
<1>1. 1 \in Int /\ m \in Int /\ (1 > m => m = 0)
  OBVIOUS
<1>2. IsFiniteSet(1 .. m)
  BY <1>1, FS_Interval
<1>3. Cardinality(1 .. m) = IF 1 > m THEN 0 ELSE m - 1 + 1
  BY <1>1, FS_Interval
<1> QED
  BY <1>1, <1>2, <1>3

\* There is a place left in the visited array for every router.
LEMMA RoomToVisit ==
  ASSUME IsRegister(routers), UniqueIds, NEW id, id \notin visited, visited \subseteq RouterId,
         HasRouter(routers, id), \A v \in visited : HasRouter(routers, v)
  PROVE  Cardinality(visited) < Len(routers)
<1> DEFINE S == visited \cup {id}
           f == [v \in S |-> FindRouterId(routers, v)]
<1>1. Len(routers) \in Nat /\ DOMAIN routers = 1 .. Len(routers)
  BY DEF IsRegister
<1>2. IsFiniteSet(visited)
  BY RouterIdAssumption, FS_Subset
<1>3. IsFiniteSet(S) /\ Cardinality(S) = Cardinality(visited) + 1
  BY <1>2, FS_AddElement
<1>4. IsFiniteSet(1 .. Len(routers)) /\ Cardinality(1 .. Len(routers)) = Len(routers)
  BY <1>1, IntervalSize
<1>5. \A v \in S : f[v] \in 1 .. Len(routers) /\ routers[f[v]].routerId = v
  BY <1>1, FindsRouter
<1>6. f \in Injection(S, 1 .. Len(routers))
  BY <1>5 DEF Injection, IsInjective
<1>7. Cardinality(S) <= Cardinality(1 .. Len(routers))
  BY <1>3, <1>4, <1>6, FS_Injection
<1>8. Cardinality(visited) \in Nat
  BY <1>2, FS_CardinalityType
<1> QED
  BY <1>1, <1>3, <1>4, <1>7, <1>8

-----------------------------------------------------------------------------
(***************************************************************************)
(* The steps.                                                              *)
(***************************************************************************)

\* What leads where is a matter of the links and the ends alone.
LEMMA SameLeads ==
  ASSUME UNCHANGED <<routers, fromRouterId, toRouterId>>
  PROVE  /\ \A r : Links(r)' = Links(r)
         /\ \A id : Leads(id, toRouterId)' <=> Leads(id, toRouterId)
         /\ Leads(toRouterId, toRouterId)' <=> Leads(toRouterId, toRouterId)
<1>1. \A r : Links(r)' = Links(r)
  BY DEF Links
<1>2. \A S : ClosedBut(S, toRouterId)' <=> ClosedBut(S, toRouterId)
  BY <1>1 DEF ClosedBut
<1> QED
  BY <1>1, <1>2 DEF Leads

\* What the frames must be like when DFS is called for id by the last of them.
CalledFrom(frames, id) ==
    /\ Framed(frames, visited \cup {id})
    /\ \A k \in DOMAIN frames : routers[frames[k].router].routerId \in visited
    /\ Simple(frames)
    /\ Returned(visited, frames)
    /\ IF frames = <<>>
         THEN visited = {} /\ id = fromRouterId
         ELSE /\ fromRouterId \in visited
              /\ result = "searching"
              /\ id \in Links(frames[Len(frames)].router)

\* A call that ends the search leaves no frames, and the visited ids alone.
LEMMA EndKeepsInv ==
  ASSUME SearchTypeOK, UniqueIds, VisitedOK, NEW res, EndsWith(res),
         UNCHANGED <<routers, fromRouterId, toRouterId>>,
         \/ res = "exists" /\ Leads(toRouterId, toRouterId)
         \/ /\ res = "failed"
            /\ \E id \in RouterId \ {toRouterId} :
                 ~HasRouter(routers, id) /\ Leads(id, toRouterId)
  PROVE  SearchInv'
<1>1. stack' = <<>> /\ visited' = visited /\ result' = res /\ res \in {"exists", "failed"}
  BY DEF EndsWith
<1>2. SearchTypeOK'
  BY <1>1 DEF SearchTypeOK
<1>3. UniqueIds' /\ VisitedOK'
  BY <1>1, SameLeads DEF UniqueIds, VisitedOK
<1>4. Framed(stack, visited)' /\ Simple(stack)'
  BY <1>1 DEF Framed, Simple
<1>5. Stages'
  BY <1>1 DEF Stages
<1>6. AnswerIsRight'
  BY <1>1, SameLeads DEF AnswerIsRight
<1> QED
  BY <1>2, <1>3, <1>4, <1>5, <1>6 DEF SearchInv

\* A call for an id that is visited returns at once.
LEMMA VisitedKeepsInv ==
  ASSUME SearchTypeOK, UniqueIds, VisitedOK, NEW id \in visited, NEW frames,
         CalledFrom(frames, id), stack' = frames,
         UNCHANGED <<routers, fromRouterId, toRouterId, visited, result>>
  PROVE  SearchInv'
<1>1. visited \cup {id} = visited
  OBVIOUS
<1>2. frames # <<>> /\ fromRouterId \in visited /\ result = "searching"
  BY DEF CalledFrom
<1>3. Framed(frames, visited) /\ Simple(frames) /\ Returned(visited, frames)
  BY <1>1 DEF CalledFrom
<1>4. SearchTypeOK'
  BY <1>3 DEF SearchTypeOK, Framed, FrameOK
<1>5. UniqueIds' /\ VisitedOK'
  BY SameLeads DEF UniqueIds, VisitedOK
<1>6. Framed(stack, visited)' /\ Simple(stack)' /\ Returned(visited, stack)'
  BY <1>3, SameLeads DEF Framed, FrameOK, Simple, Returned
<1>7. Stages' /\ AnswerIsRight'
  BY <1>2, <1>6 DEF Stages, AnswerIsRight
<1> QED
  BY <1>4, <1>5, <1>6, <1>7 DEF SearchInv

\* A call for a new id marks it and becomes the innermost one.
LEMMA NewKeepsInv ==
  ASSUME SearchTypeOK, UniqueIds, VisitedOK, NEW id \in RouterId, NEW frames,
         id \notin visited, id # toRouterId, Leads(id, toRouterId),
         HasRouter(routers, id), CalledFrom(frames, id),
         visited' = Mark(id),
         stack' = Append(frames, [router |-> FindRouterId(routers, id), next |-> 0]),
         result' = "searching",
         UNCHANGED <<routers, fromRouterId, toRouterId>>
  PROVE  SearchInv'
<1> DEFINE r == FindRouterId(routers, id)
           f == [router |-> r, next |-> 0]
           n == Len(frames)
<1>1. r \in DOMAIN routers /\ routers[r].routerId = id
  BY FindsRouter DEF SearchTypeOK
<1>2. f \in Frame /\ f.router = r /\ f.next = 0
  BY <1>1, SlotsAssumption DEF Frame, SearchTypeOK, IsRegister
<1>3. frames \in Seq(Frame) /\ n \in Nat /\ DOMAIN frames = 1 .. n
  BY DEF CalledFrom, Framed
<1> HIDE DEF r, f
<1>4. /\ stack' \in Seq(Frame) /\ Len(stack') = n + 1 /\ DOMAIN stack' = 1 .. n + 1
      /\ \A k \in 1 .. n : stack'[k] = frames[k]
      /\ stack'[n + 1] = f
  BY <1>2, <1>3 DEF f, r
<1>5. visited' = visited \cup {id}
  BY DEF Mark
<1>6. \A k \in 1 .. n : FrameOK(stack'[k], visited \cup {id})
  BY <1>3, <1>4 DEF CalledFrom, Framed
<1>7. FrameOK(f, visited \cup {id})
  BY <1>1, <1>2 DEF FrameOK
<1>8. \A k \in 1 .. n + 1 : FrameOK(stack'[k], visited')
  <2> TAKE k \in 1 .. n + 1
  <2>1. CASE k \in 1 .. n
    BY <1>5, <1>6, <2>1
  <2>2. CASE k = n + 1
    <3>1. stack'[k] = f
      BY <1>4, <2>2
    <3> QED
      BY <1>5, <1>7, <3>1, Zenon
  <2> QED
    BY <1>3, <2>1, <2>2
<1>9. Framed(stack, visited)'
  BY <1>4, <1>8 DEF Framed, FrameOK
<1>10. SearchTypeOK'
  BY <1>4, <1>5, <1>9 DEF SearchTypeOK, Framed, FrameOK
<1>11. UniqueIds' /\ VisitedOK'
  BY <1>5, SameLeads DEF UniqueIds, VisitedOK
<1>12. \A k \in 1 .. n : frames[k].router # r
  BY <1>1, <1>3 DEF CalledFrom
<1>13. Simple(stack)'
  <2>1. \A k, l \in 1 .. n + 1 : stack'[k].router = stack'[l].router => k = l
    BY <1>2, <1>3, <1>4, <1>12 DEF CalledFrom, Simple
  <2>2. \A k \in 1 .. n : routers[stack'[k + 1].router].routerId \in Links(stack'[k].router)
    <3>1. CASE n = 0
      BY <3>1
    <3>2. CASE n # 0
      <4>1. id \in Links(frames[n].router)
        BY <1>3, <3>2 DEF CalledFrom
      <4>2. \A k \in 1 .. n - 1 :
              routers[frames[k + 1].router].routerId \in Links(frames[k].router)
        BY DEF CalledFrom, Simple
      <4> QED
        BY <1>1, <1>2, <1>3, <1>4, <4>1, <4>2
    <3> QED
      BY <3>1, <3>2
  <2>3. (\A k \in 1 .. Len(stack) - 1 :
           routers[stack[k + 1].router].routerId \in Links(stack[k].router))'
    <3>1. Len(stack') - 1 = n
      BY <1>3, <1>4
    <3>2. \A r0 : Links(r0)' = Links(r0)
      BY SameLeads
    <3> QED
      BY <2>2, <3>1, <3>2
  <2> QED
    BY <1>4, <2>1, <2>3 DEF Simple
<1>14. Returned(visited, stack)'
  <2>1. SUFFICES ASSUME NEW v \in visited \cup {id},
                        \A k \in 1 .. n + 1 : stack'[k].router # FindRouterId(routers, v)
                 PROVE  Links(FindRouterId(routers, v)) \subseteq visited \cup {id}
    BY <1>4, <1>5, SameLeads DEF Returned
  <2>2. v # id
    BY <1>2, <1>3, <1>4, <2>1 DEF r
  <2>3. \A k \in 1 .. n : frames[k].router # FindRouterId(routers, v)
    BY <1>3, <1>4, <2>1
  <2> QED
    BY <1>3, <2>2, <2>3 DEF CalledFrom, Returned
<1>15. fromRouterId \in visited \cup {id}
  BY DEF CalledFrom
<1>16. stack' # <<>>
  BY <1>3, <1>4
<1>17. Stages' /\ AnswerIsRight'
  BY <1>5, <1>14, <1>15, <1>16 DEF Stages, AnswerIsRight
<1> QED
  BY <1>9, <1>10, <1>11, <1>13, <1>17 DEF SearchInv

\* DFS keeps the invariant.
LEMMA DFSKeepsInv ==
  ASSUME SearchTypeOK, UniqueIds, VisitedOK, NEW id \in RouterId, NEW frames,
         Leads(id, toRouterId), CalledFrom(frames, id), DFS(id, frames),
         UNCHANGED <<routers, fromRouterId, toRouterId>>
  PROVE  SearchInv'
<1>1. CASE id = toRouterId /\ EndsWith("exists")
  BY <1>1, EndKeepsInv
<1>2. CASE id \in visited /\ stack' = frames /\ UNCHANGED <<visited, result>>
  BY <1>2, VisitedKeepsInv
<1>3. CASE /\ id \notin visited \cup {toRouterId}
           /\ HasRouter(routers, id)
           /\ visited' = Mark(id)
           /\ stack' = Append(frames, [router |-> FindRouterId(routers, id), next |-> 0])
           /\ result' = "searching"
  BY <1>3, NewKeepsInv
<1>4. CASE /\ id \notin visited \cup {toRouterId}
           /\ ~HasRouter(routers, id) \/ Cardinality(visited) >= Len(routers)
           /\ EndsWith("failed")
  <2>1. ~HasRouter(routers, id)
    <3>1. HasRouter(routers, id) => Cardinality(visited) < Len(routers)
      BY <1>4, RoomToVisit DEF SearchTypeOK, VisitedOK
    <3>2. Cardinality(visited) \in Nat /\ Len(routers) \in Nat
      BY RouterIdAssumption, FS_Subset, FS_CardinalityType DEF SearchTypeOK, IsRegister
    <3> QED
      BY <1>4, <3>1, <3>2
  <2> QED
    BY <1>4, <2>1, EndKeepsInv
<1> QED
  BY <1>1, <1>2, <1>3, <1>4 DEF DFS

\* existsRoute calls DFS for fromRouterId.
LEMMA CallKeepsInv ==
  ASSUME SearchInv, Call, UNCHANGED routers
  PROVE  SearchInv'
<1>1. /\ SearchTypeOK /\ UniqueIds /\ VisitedOK
      /\ visited = {} /\ fromRouterId \in RouterId
      /\ UNCHANGED <<routers, fromRouterId, toRouterId>>
  BY DEF SearchInv, Stages, Call, SearchTypeOK
<1>2. CalledFrom(<<>>, fromRouterId)
  BY <1>1 DEF CalledFrom, Framed, Simple, Returned
<1>3. DFS(fromRouterId, <<>>)
  BY DEF Call
<1> QED
  BY <1>1, <1>2, <1>3, SourceLeads, DFSKeepsInv

\* The innermost call takes its next link.
LEMMA NextKeepsInv ==
  ASSUME SearchInv, NextNeighbor, UNCHANGED routers
  PROVE  SearchInv'
<1> DEFINE n == Len(stack)
           r == Top.router
           id == routers[r].neighbors[Top.next]
           g == Advanced(Top)
           frames == [stack EXCEPT ![n] = g]
<1>1. /\ SearchTypeOK /\ UniqueIds /\ VisitedOK /\ Framed(stack, visited) /\ Simple(stack)
      /\ result = "searching" /\ stack # <<>> /\ fromRouterId \in visited
      /\ Returned(visited, stack)
      /\ UNCHANGED <<routers, fromRouterId, toRouterId>>
  BY DEF SearchInv, Stages, NextNeighbor
<1>2. stack \in Seq(Frame) /\ n \in Nat \ {0} /\ DOMAIN stack = 1 .. n /\ n \in 1 .. n
  BY <1>1 DEF Framed
<1>3. FrameOK(Top, visited) /\ Top \in Frame
  BY <1>1, <1>2 DEF Framed, FrameOK, Top
<1>4. /\ r \in DOMAIN routers /\ routers[r].routerId \in visited
      /\ \A h \in 0 .. Top.next - 1 : routers[r].neighbors[h] \in visited
  BY <1>3 DEF FrameOK
<1>5. r \in Nat \ {0} /\ Top.next \in 0 .. MAX_NEIGHBORS /\ MAX_NEIGHBORS \in Nat
  BY <1>3, SlotsAssumption DEF Frame
<1>6. Top.next < MAX_NEIGHBORS /\ id # free
  BY DEF NextNeighbor, HasNext
<1>7. id \in Links(r)
  <2>1. Top.next \in Slots
    BY <1>5, <1>6 DEF Slots
  <2>2. visited \subseteq 0 .. 255
    BY <1>1, RouterIdAssumption DEF SearchTypeOK
  <2>3. \A h \in 0 .. Top.next : routers[r].neighbors[h] # free
    BY <1>4, <1>5, <1>6, <2>2 DEF free
  <2> HIDE DEF r
  <2> QED
    BY <2>1, <2>3 DEF Links
<1>8. id \in RouterId
  BY <1>1, <1>4, <1>7, LinksAreIds DEF SearchTypeOK
<1>9. Leads(id, toRouterId)
  <2>1. FindRouterId(routers, routers[r].routerId) = r
    BY <1>1, <1>4, RouterIsFound DEF SearchTypeOK
  <2>2. /\ Leads(routers[r].routerId, toRouterId)
        /\ routers[r].routerId # toRouterId
        /\ HasRouter(routers, routers[r].routerId)
    BY <1>1, <1>4 DEF VisitedOK
  <2> QED
    BY <1>7, <2>1, <2>2, LinkLeads
<1>10. g \in Frame /\ g.router = r /\ g.next = Top.next + 1
  <2>1. Top.next + 1 \in 0 .. MAX_NEIGHBORS
    BY <1>5, <1>6
  <2>2. Top = [router |-> r, next |-> Top.next]
    BY <1>3 DEF Frame
  <2>3. g = [router |-> r, next |-> Top.next + 1]
    BY <2>2 DEF Advanced
  <2> HIDE DEF g, r
  <2> QED
    BY <1>5, <2>1, <2>3 DEF Frame
<1> HIDE DEF g
<1>11. /\ frames \in Seq(Frame) /\ Len(frames) = n /\ DOMAIN frames = 1 .. n /\ frames[n] = g
       /\ \A k \in 1 .. n : k # n => frames[k] = stack[k]
  <2>1. frames \in Seq(Frame) /\ Len(frames) = n
    BY <1>2, <1>10, ExceptSeq
  <2>2. \A k \in 1 .. n : frames[k] = IF k = n THEN g ELSE stack[k]
    BY <1>2, <1>10, ExceptSeq
  <2>3. DOMAIN frames = 1 .. Len(frames)
    BY <1>2
  <2> HIDE DEF frames
  <2> QED
    BY <1>2, <2>1, <2>2, <2>3
<1> HIDE DEF frames, r, id
<1>12. \A k \in 1 .. n : frames[k].router = stack[k].router
  BY <1>2, <1>10, <1>11 DEF Top, r
<1>13. Framed(frames, visited \cup {id})
  <2>1. \A h \in 0 .. g.next - 1 : routers[g.router].neighbors[h] \in visited \cup {id}
    BY <1>4, <1>5, <1>10 DEF id
  <2>2. FrameOK(g, visited \cup {id})
    BY <1>4, <1>10, <2>1 DEF FrameOK
  <2>3. \A k \in 1 .. n : k # n => FrameOK(frames[k], visited \cup {id})
    BY <1>1, <1>2, <1>11 DEF Framed, FrameOK
  <2> QED
    BY <1>2, <1>11, <2>2, <2>3 DEF Framed
<1>14. \A k \in DOMAIN frames : routers[frames[k].router].routerId \in visited
  BY <1>1, <1>2, <1>11, <1>12 DEF Framed, FrameOK
<1>15. Simple(frames)
  <2>1. \A k, l \in DOMAIN frames : frames[k].router = frames[l].router => k = l
    BY <1>1, <1>2, <1>11, <1>12 DEF Simple
  <2>2. \A k \in 1 .. n - 1 : k \in 1 .. n /\ k + 1 \in 1 .. n
    BY <1>2
  <2>3. \A k \in 1 .. n - 1 :
          routers[stack[k + 1].router].routerId \in Links(stack[k].router)
    BY <1>1 DEF Simple
  <2>4. \A k \in 1 .. n - 1 :
          routers[frames[k + 1].router].routerId \in Links(frames[k].router)
    BY <1>12, <2>2, <2>3
  <2> QED
    BY <1>11, <2>1, <2>4 DEF Simple
<1>16. Returned(visited, frames)
  BY <1>1, <1>2, <1>11, <1>12 DEF Returned
<1>17. CalledFrom(frames, id)
  <2>1. frames # <<>>
    BY <1>2, <1>11
  <2>2. id \in Links(frames[Len(frames)].router)
    BY <1>7, <1>10, <1>11
  <2> QED
    BY <1>1, <1>13, <1>14, <1>15, <1>16, <2>1, <2>2 DEF CalledFrom
<1>18. DFS(id, frames)
  BY DEF NextNeighbor, id, frames, r, g
<1> QED
  BY <1>1, <1>8, <1>9, <1>17, <1>18, DFSKeepsInv

\* The links of a router whose call is over are visited.
LEMMA LinksFollowed ==
  ASSUME NEW f, FrameOK(f, visited), ~HasNext(f)
  PROVE  Links(f.router) \subseteq visited
<1>1. SUFFICES ASSUME NEW i \in Slots,
                      \A h \in 0 .. i : routers[f.router].neighbors[h] # free
               PROVE  routers[f.router].neighbors[i] \in visited
  BY DEF Links
<1>2. f.next \in 0 .. MAX_NEIGHBORS /\ MAX_NEIGHBORS \in Nat /\ i \in 0 .. MAX_NEIGHBORS - 1
  BY SlotsAssumption DEF FrameOK, Frame, Slots
<1>3. i < f.next
  BY <1>1, <1>2 DEF HasNext
<1> QED
  BY <1>2, <1>3 DEF FrameOK

\* The innermost call returns.
LEMMA ReturnKeepsInv ==
  ASSUME SearchInv, Return, UNCHANGED routers
  PROVE  SearchInv'
<1> DEFINE n == Len(stack)
           rest == SubSeq(stack, 1, n - 1)
<1>1. /\ SearchTypeOK /\ UniqueIds /\ VisitedOK /\ Framed(stack, visited) /\ Simple(stack)
      /\ result = "searching" /\ stack # <<>> /\ fromRouterId \in visited
      /\ Returned(visited, stack)
      /\ UNCHANGED <<routers, fromRouterId, toRouterId, visited>>
      /\ stack' = rest /\ result' = IF n = 1 THEN "absent" ELSE "searching"
  BY DEF SearchInv, Stages, Return
<1>2. stack \in Seq(Frame) /\ n \in Nat \ {0} /\ DOMAIN stack = 1 .. n /\ n \in 1 .. n
  BY <1>1 DEF Framed
<1>3. /\ rest \in Seq(Frame) /\ Len(rest) = n - 1 /\ DOMAIN rest = 1 .. n - 1
      /\ \A k \in 1 .. n - 1 : rest[k] = stack[k]
  BY <1>2
<1> HIDE DEF rest
<1>4. Links(Top.router) \subseteq visited
  BY <1>1, <1>2, LinksFollowed DEF Return, Framed, Top
<1>5. Framed(rest, visited)
  BY <1>1, <1>2, <1>3 DEF Framed
<1>6. Simple(rest)
  <2>1. \A k \in 1 .. n - 1 : rest[k].router = stack[k].router /\ k \in 1 .. n
    BY <1>2, <1>3
  <2>2. \A k, l \in DOMAIN rest : rest[k].router = rest[l].router => k = l
    BY <1>1, <1>2, <1>3, <2>1 DEF Simple
  <2>3. \A k \in 1 .. n - 2 : k \in 1 .. n - 1 /\ k + 1 \in 1 .. n - 1
    BY <1>2
  <2>4. \A k \in 1 .. n - 1 :
          routers[stack[k + 1].router].routerId \in Links(stack[k].router)
    BY <1>1 DEF Simple
  <2>5. \A k \in 1 .. n - 2 :
          routers[rest[k + 1].router].routerId \in Links(rest[k].router)
    BY <2>1, <2>3, <2>4
  <2>6. Len(rest) - 1 = n - 2
    BY <1>2, <1>3
  <2> QED
    BY <2>2, <2>5, <2>6 DEF Simple
<1>7. Returned(visited, rest)
  <2>1. SUFFICES ASSUME NEW v \in visited,
                        \A k \in DOMAIN rest : rest[k].router # FindRouterId(routers, v)
                 PROVE  Links(FindRouterId(routers, v)) \subseteq visited
    BY DEF Returned
  <2>2. CASE Top.router = FindRouterId(routers, v)
    BY <1>4, <2>2
  <2>3. CASE Top.router # FindRouterId(routers, v)
    <3>1. \A k \in DOMAIN stack : stack[k].router # FindRouterId(routers, v)
      BY <1>2, <1>3, <2>1, <2>3 DEF Top
    <3> QED
      BY <1>1, <3>1 DEF Returned
  <2> QED
    BY <2>2, <2>3
<1>8. n = 1 => ~Leads(toRouterId, toRouterId)
  <2>1. SUFFICES ASSUME n = 1 PROVE ~Leads(toRouterId, toRouterId)
    OBVIOUS
  <2>2. visited \in SUBSET RouterId /\ toRouterId \notin visited
    BY <1>1 DEF SearchTypeOK, VisitedOK
  <2>3. ClosedBut(visited, toRouterId)
    BY <1>3, <1>7, <2>1 DEF ClosedBut, Returned
  <2> QED
    BY <1>1, <2>2, <2>3 DEF Leads
<1>9. SearchTypeOK'
  BY <1>1, <1>5 DEF SearchTypeOK, Framed, FrameOK
<1>10. UniqueIds' /\ VisitedOK'
  BY <1>1, SameLeads DEF UniqueIds, VisitedOK
<1>11. Framed(stack, visited)' /\ Simple(stack)' /\ Returned(visited, stack)'
  BY <1>1, <1>5, <1>6, <1>7, SameLeads DEF Framed, FrameOK, Simple, Returned
<1>12. n # 1 <=> rest # <<>>
  BY <1>2, <1>3
<1>13. Stages'
  BY <1>1, <1>11, <1>12 DEF Stages
<1>14. AnswerIsRight'
  BY <1>1, <1>8, SameLeads DEF AnswerIsRight
<1> QED
  BY <1>9, <1>10, <1>11, <1>13, <1>14 DEF SearchInv

-----------------------------------------------------------------------------
(***************************************************************************)
(* The theorems.                                                           *)
(***************************************************************************)

\* A step of the search or none.
LEMMA StepKeepsInv ==
  ASSUME SearchInv, [SearchNext]_<<routers, searchVars>>
  PROVE  SearchInv'
<1>1. CASE Call /\ UNCHANGED routers
  BY <1>1, CallKeepsInv
<1>2. CASE NextNeighbor /\ UNCHANGED routers
  BY <1>2, NextKeepsInv
<1>3. CASE Return /\ UNCHANGED routers
  BY <1>3, ReturnKeepsInv
<1>4. CASE UNCHANGED <<routers, searchVars>>
  <2>1. UNCHANGED <<routers, fromRouterId, toRouterId, visited, stack, result>>
    BY <1>4 DEF searchVars
  <2>2. SearchTypeOK' /\ UniqueIds' /\ VisitedOK'
    BY <2>1, SameLeads DEF SearchInv, SearchTypeOK, UniqueIds, VisitedOK
  <2>3. Framed(stack, visited)' /\ Simple(stack)'
    BY <2>1, SameLeads DEF SearchInv, Framed, FrameOK, Simple
  <2>4. Stages'
    BY <2>1, SameLeads DEF SearchInv, Stages, Returned
  <2>5. AnswerIsRight'
    BY <2>1, SameLeads DEF SearchInv, AnswerIsRight
  <2> QED
    BY <2>2, <2>3, <2>4, <2>5 DEF SearchInv
<1> QED
  BY <1>1, <1>2, <1>3, <1>4 DEF SearchNext, SearchStep

\* The invariant holds throughout every search.
THEOREM SearchInvariance == SearchSpec => []SearchInv
<1>1. SearchInit => SearchInv
  <2> SUFFICES ASSUME SearchInit PROVE SearchInv
    OBVIOUS
  <2>1. IsRegister(routers) /\ UniqueIds
    BY RegistersAssumption DEF SearchInit, UniqueIds
  <2>2. visited = {} /\ stack = <<>> /\ result = "called"
    BY DEF SearchInit
  <2>3. SearchTypeOK
    BY <2>1, <2>2 DEF SearchInit, SearchTypeOK
  <2>4. VisitedOK /\ Framed(stack, visited) /\ Simple(stack) /\ Stages /\ AnswerIsRight
    BY <2>2 DEF VisitedOK, Framed, Simple, Stages, AnswerIsRight
  <2> QED
    BY <2>1, <2>3, <2>4 DEF SearchInv
<1>2. SearchInv /\ [SearchNext]_<<routers, searchVars>> => SearchInv'
  BY StepKeepsInv
<1> QED
  BY <1>1, <1>2, PTL DEF SearchSpec

\* The visited ids are ids, and every active call of DFS is of a router of the
\* register and at one of its slots.
THEOREM SearchTypeCorrect == SearchSpec => []SearchTypeOK
<1>1. SearchInv => SearchTypeOK
  BY DEF SearchInv
<1> QED
  BY <1>1, SearchInvariance, PTL

\* existsRoute tells whether there is a route, unless a link leads it to an id
\* without a router before.
THEOREM SearchAnswersRight == SearchSpec => []AnswerIsRight
<1>1. SearchInv => AnswerIsRight
  BY DEF SearchInv
<1> QED
  BY <1>1, SearchInvariance, PTL

\* The recursion of DFS is never deeper than there are routers: its active
\* calls are a simple path, whatever cycles the links form.
THEOREM RecursionIsBounded == SearchSpec => []CallsFormSimplePath
<1>1. SearchInv => CallsFormSimplePath
  <2> SUFFICES ASSUME SearchInv PROVE CallsFormSimplePath
    OBVIOUS
  <2> DEFINE n == Len(stack)
             m == Len(routers)
             f == [k \in 1 .. n |-> stack[k].router]
  <2>1. n \in Nat /\ DOMAIN stack = 1 .. n
    BY DEF SearchInv, SearchTypeOK
  <2>2. m \in Nat /\ DOMAIN routers = 1 .. m
    BY DEF SearchInv, SearchTypeOK, IsRegister
  <2>3. Simple(stack) /\ \A k \in 1 .. n : stack[k].router \in 1 .. m
    BY <2>1, <2>2 DEF SearchInv, SearchTypeOK
  <2>4. f \in Injection(1 .. n, 1 .. m)
    BY <2>1, <2>3 DEF Simple, Injection, IsInjective
  <2>5. IsFiniteSet(1 .. m) /\ Cardinality(1 .. n) = n /\ Cardinality(1 .. m) = m
    BY <2>1, <2>2, IntervalSize
  <2>6. Cardinality(1 .. n) <= Cardinality(1 .. m)
    BY <2>4, <2>5, FS_Injection
  <2> QED
    BY <2>3, <2>5, <2>6 DEF Simple, CallsFormSimplePath
<1> QED
  BY <1>1, SearchInvariance, PTL

=============================================================================
