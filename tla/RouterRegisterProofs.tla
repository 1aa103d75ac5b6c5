------------------------- MODULE RouterRegisterProofs -------------------------
(***************************************************************************)
(* Proofs about the register for every number of routers, slots, commands  *)
(* and runs, every length of a name and all links in the files.            *)
(*                                                                         *)
(* The argument: a register has every id once, its links together and a    *)
(* name for every router if there is more than one (RegisterOK), a file    *)
(* has every id once (FileOK), and each is made from the other without     *)
(* losing that.  Links are read one by one (LinksRead), so what a file     *)
(* says of a router is known from what its first links say; reading the    *)
(* links of the first routers gives their slots, and none to the others    *)
(* (LinksAreReadBack).  So are the first ones of these links, when a file  *)
(* is cut (BeginningIsReadBack).                                           *)
(*                                                                         *)
(* What holds for all numbers up to n is proved with the least number for  *)
(* which it would not hold (LeastNumber, Upwards).                         *)
(***************************************************************************)
EXTENDS RouterRegister, RouteSearchProofs, WellFoundedInduction

\* The slots of a router.
Neighbors == [Slots -> RouterId \cup {free}]

\* No link is behind a free slot.
Packed(nb) == \A i, j \in Slots : i < j /\ nb[i] = free => nb[j] = free

Unique(rs) == \A q, r \in DOMAIN rs : rs[q].routerId = rs[r].routerId => q = r

-----------------------------------------------------------------------------
(***************************************************************************)
(* Natural numbers.                                                        *)
(***************************************************************************)

\* Every set of natural numbers has a least one.
LEMMA LeastNumber ==
  ASSUME NEW S, S \subseteq Nat, S # {}
  PROVE  \E m \in S : \A q \in S : m <= q
<1> DEFINE R == OpToRel(<, Nat)
<1>1. IsWellFoundedOn(R, Nat)
  BY NatLessThanWellFounded
<1>2. R = {ss \in Nat \X Nat : ss[1] < ss[2]}
  BY DEF OpToRel
<1> HIDE DEF R
<1>3. \E x \in S : \A y \in S : ~ (<<y, x>> \in R)
  BY <1>1, WFMin
<1>4. PICK m \in S : \A y \in S : ~ (<<y, m>> \in R)
  BY <1>3
<1>5. ASSUME NEW y \in S
      PROVE  m <= y
  <2>1. m \in Nat /\ y \in Nat
    OBVIOUS
  <2>2. ~ (y < m)
    BY <1>2, <1>4, <2>1
  <2> QED
    BY <2>1, <2>2
<1> QED
  BY <1>5

\* A set with 0 that has with every k below n also k + 1 has them all.
LEMMA Upwards ==
  ASSUME NEW n \in Nat, NEW P, 0 \in P,
         \A k \in 0 .. n : k \in P /\ k < n => k + 1 \in P
  PROVE  \A k \in 0 .. n : k \in P
<1> DEFINE S == {k \in 0 .. n : k \notin P}
<1>1. CASE S = {}
  BY <1>1
<1>2. CASE S # {}
  <2>0. S \subseteq Nat /\ 0 \notin S
    OBVIOUS
  <2> HIDE DEF S
  <2>1. PICK m \in S : \A q \in S : m <= q
    BY <1>2, <2>0, LeastNumber
  <2> USE DEF S
  <2>2. m \in 1 .. n
    OBVIOUS
  <2>3. m - 1 \in 0 .. n /\ m - 1 < n /\ m - 1 < m
    BY <2>2
  <2>4. m - 1 \in P
    BY <2>1, <2>3
  <2>5. m \in P
    BY <2>2, <2>3, <2>4
  <2> QED
    BY <2>5
<1> QED
  BY <1>1, <1>2

-----------------------------------------------------------------------------
(***************************************************************************)
(* Slots.                                                                  *)
(***************************************************************************)

\* findFreeNeighbor finds the first free slot, if there is one.
LEMMA FirstFree ==
  ASSUME NEW nb
  PROVE  /\ FreeNeighbor(nb) \in 0 .. MAX_NEIGHBORS
         /\ FreeNeighbor(nb) = MAX_NEIGHBORS \/ nb[FreeNeighbor(nb)] = free
         /\ \A j \in 0 .. FreeNeighbor(nb) - 1 : nb[j] # free
<1> DEFINE S == {i \in 0 .. MAX_NEIGHBORS : i = MAX_NEIGHBORS \/ nb[i] = free}
<1>1. MAX_NEIGHBORS \in Nat
  BY SlotsAssumption
<1>2. MAX_NEIGHBORS \in S
  BY <1>1
<1>7. S \subseteq Nat
  BY <1>1
<1> HIDE DEF S
<1>3. PICK m \in S : \A q \in S : m <= q
  BY <1>2, <1>7, LeastNumber
<1> USE DEF S
<1>4. \A j \in 0 .. m - 1 : j \in 0 .. MAX_NEIGHBORS /\ ~ (m <= j)
  BY <1>1
<1>5. \A j \in 0 .. m - 1 : nb[j] # free
  BY <1>3, <1>4
<1>6. \E i \in 0 .. MAX_NEIGHBORS : /\ i = MAX_NEIGHBORS \/ nb[i] = free
                                    /\ \A j \in 0 .. i - 1 : nb[j] # free
  BY <1>5
<1> QED
  BY <1>6 DEF FreeNeighbor

\* The first free slot is the only place of its kind.
LEMMA FirstFreeIs ==
  ASSUME NEW nb, NEW i \in 0 .. MAX_NEIGHBORS, i = MAX_NEIGHBORS \/ nb[i] = free,
         \A j \in 0 .. i - 1 : nb[j] # free
  PROVE  FreeNeighbor(nb) = i
<1> DEFINE f == FreeNeighbor(nb)
<1>1. MAX_NEIGHBORS \in Nat
  BY SlotsAssumption
<1>2. /\ f \in 0 .. MAX_NEIGHBORS
      /\ f = MAX_NEIGHBORS \/ nb[f] = free
      /\ \A j \in 0 .. f - 1 : nb[j] # free
  BY FirstFree
<1> HIDE DEF f
<1>3. ~ (f < i)
  <2>1. f < i => f \in 0 .. i - 1 /\ f # MAX_NEIGHBORS
    BY <1>1, <1>2
  <2> QED
    BY <1>2, <2>1
<1>4. ~ (i < f)
  <2>1. i < f => i \in 0 .. f - 1 /\ i # MAX_NEIGHBORS
    BY <1>1, <1>2
  <2> QED
    BY <1>2, <2>1
<1> QED
  BY <1>1, <1>2, <1>3, <1>4 DEF f

\* addLink keeps the links together.
LEMMA WithLinkIsPacked ==
  ASSUME NEW nb \in Neighbors, NEW to \in RouterId, Packed(nb)
  PROVE  WithLink(nb, to) \in Neighbors /\ Packed(WithLink(nb, to))
<1> DEFINE f == FreeNeighbor(nb)
           new == WithLink(nb, to)
<1>1. MAX_NEIGHBORS \in Nat
  BY SlotsAssumption
<1>2. /\ f \in 0 .. MAX_NEIGHBORS
      /\ \A j \in 0 .. f - 1 : nb[j] # free
  BY FirstFree
<1>3. new = [nb EXCEPT ![f] = to]
  BY DEF WithLink
<1> HIDE DEF f, new
<1>4. new \in Neighbors
  BY <1>3 DEF Neighbors
<1>5. ASSUME NEW i \in Slots, NEW j \in Slots, i < j, new[i] = free
      PROVE  new[j] = free
  <2>1. to # free
    BY RouterIdAssumption DEF free
  <2>2. i # f /\ nb[i] = free
    BY <1>3, <1>5, <2>1 DEF Neighbors
  <2>3. i \notin 0 .. f - 1
    BY <1>2, <2>2
  <2>4. j # f
    BY <1>1, <1>2, <1>5, <2>2, <2>3 DEF Slots
  <2>5. nb[j] = free
    BY <1>5, <2>2 DEF Packed
  <2> QED
    BY <1>3, <2>4, <2>5 DEF Neighbors
<1> QED
  BY <1>4, <1>5 DEF Packed, new

-----------------------------------------------------------------------------
(***************************************************************************)
(* Reading links.                                                          *)
(***************************************************************************)

Pairs == RouterId \X RouterId

\* The slots of id after the k-th link when they were nb before it.
Step(links, id, k, nb) == IF links[k][1] = id THEN WithLink(nb, links[k][2]) ELSE nb

\* f has the slots of id after each of the first n links.
Reading(f, links, id, n) ==
    f = [k \in 0 .. n |-> IF k = 0 THEN NoLinks ELSE Step(links, id, k, f[k - 1])]

LEMMA ReadingExists ==
  ASSUME NEW links, NEW id, NEW n \in Nat
  PROVE  \E f : Reading(f, links, id, n)
<1> DEFINE P == {m \in 0 .. n : \E f : Reading(f, links, id, m)}
<1>1. 0 \in P
  <2> DEFINE f == [k \in 0 .. 0 |-> NoLinks]
  <2>1. Reading(f, links, id, 0)
    BY DEF Reading
  <2> QED
    BY <2>1
<1>2. ASSUME NEW m \in 0 .. n, m \in P, m < n
      PROVE  m + 1 \in P
  <2>1. PICK f : Reading(f, links, id, m)
    BY <1>2
  <2> DEFINE g == [k \in 0 .. m + 1 |-> IF k = m + 1 THEN Step(links, id, m + 1, f[m])
                                        ELSE f[k]]
  <2>2. ASSUME NEW k \in 0 .. m + 1
        PROVE  g[k] = IF k = 0 THEN NoLinks ELSE Step(links, id, k, g[k - 1])
    <3>1. CASE k = m + 1
      <4>1. k # 0 /\ k - 1 = m /\ m \in 0 .. m + 1 /\ m # m + 1
        BY <3>1
      <4>2. g[m] = f[m] /\ g[k] = Step(links, id, k, f[m])
        BY <3>1, <4>1
      <4> QED
        BY <4>1, <4>2
    <3>2. CASE k # m + 1 /\ k # 0
      <4>1. k \in 0 .. m /\ k - 1 \in 0 .. m + 1 /\ k - 1 # m + 1
        BY <3>2
      <4>2. f[k] = Step(links, id, k, f[k - 1])
        BY <2>1, <3>2, <4>1 DEF Reading
      <4>3. g[k - 1] = f[k - 1] /\ g[k] = f[k]
        BY <3>2, <4>1
      <4> QED
        BY <3>2, <4>2, <4>3
    <3>3. CASE k # m + 1 /\ k = 0
      <4>1. f[0] = NoLinks
        BY <2>1 DEF Reading
      <4> QED
        BY <3>3, <4>1
    <3> QED
      BY <3>1, <3>2, <3>3
  <2>3. g = [k \in 0 .. m + 1 |-> g[k]]
    OBVIOUS
  <2> HIDE DEF g
  <2>4. Reading(g, links, id, m + 1)
    BY <2>2, <2>3 DEF Reading
  <2> QED
    BY <1>2, <2>4
<1>3. \A m \in 0 .. n : m \in P
  <2> HIDE DEF P
  <2> QED
    BY <1>1, <1>2, Upwards
<1> QED
  BY <1>3

\* What has been read depends on the links so far only.
LEMMA ReadingAgrees ==
  ASSUME NEW links, NEW more, NEW id, NEW n \in Nat, NEW m \in Nat, n <= m,
         \A k \in 1 .. n : links[k] = more[k],
         NEW f, Reading(f, links, id, n), NEW g, Reading(g, more, id, m)
  PROVE  f[n] = g[n]
<1> DEFINE P == {k \in 0 .. n : f[k] = g[k]}
<1>1. 0 \in P
  <2>1. f[0] = NoLinks /\ g[0] = NoLinks
    BY DEF Reading
  <2> QED
    BY <2>1
<1>2. ASSUME NEW k \in 0 .. n, k \in P, k < n
      PROVE  k + 1 \in P
  <2>1. /\ k + 1 \in 0 .. n /\ k + 1 \in 0 .. m /\ k + 1 # 0 /\ (k + 1) - 1 = k
        /\ k + 1 \in 1 .. n
    BY <1>2
  <2>2. f[k + 1] = Step(links, id, k + 1, f[k])
    BY <2>1 DEF Reading
  <2>3. g[k + 1] = Step(more, id, k + 1, g[k])
    BY <2>1 DEF Reading
  <2>4. links[k + 1] = more[k + 1]
    BY <2>1
  <2> QED
    BY <1>2, <2>1, <2>2, <2>3, <2>4 DEF Step
<1>3. \A k \in 0 .. n : k \in P
  <2> HIDE DEF P
  <2> QED
    BY <1>1, <1>2, Upwards
<1> QED
  BY <1>3

\* What is read of given links.
LEMMA LinksReadIs ==
  ASSUME NEW S, NEW links \in Seq(S), NEW id
  PROVE  \E f : Reading(f, links, id, Len(links)) /\ LinksRead(links, id) = f[Len(links)]
<1>1. LinksRead(links, id) = (CHOOSE f : Reading(f, links, id, Len(links)))[Len(links)]
  BY DEF LinksRead, Reading, Step
<1>2. \E f : Reading(f, links, id, Len(links))
  <2>1. Len(links) \in Nat
    OBVIOUS
  <2> QED
    BY <2>1, ReadingExists
<1> QED
  BY <1>1, <1>2

\* Nothing is read of no links.
LEMMA ReadNothing ==
  ASSUME NEW id
  PROVE  LinksRead(<<>>, id) = NoLinks
<1>0. <<>> \in Seq(Pairs) /\ Len(<<>>) = 0
  OBVIOUS
<1>1. PICK f : Reading(f, <<>>, id, 0) /\ LinksRead(<<>>, id) = f[0]
  BY <1>0, LinksReadIs
<1>2. f[0] = NoLinks
  BY <1>1 DEF Reading
<1> QED
  BY <1>1, <1>2

\* One more link is added to what was read before.
LEMMA ReadOneMore ==
  ASSUME NEW S, NEW links \in Seq(S), NEW link \in S, NEW id
  PROVE  LinksRead(Append(links, link), id) =
           IF link[1] = id THEN WithLink(LinksRead(links, id), link[2])
           ELSE LinksRead(links, id)
<1> DEFINE n == Len(links)
           more == Append(links, link)
<1>1. /\ more \in Seq(S) /\ Len(more) = n + 1 /\ more[n + 1] = link /\ n \in Nat
      /\ \A k \in 1 .. n : links[k] = more[k]
  OBVIOUS
<1>2. PICK f : Reading(f, links, id, n) /\ LinksRead(links, id) = f[n]
  BY LinksReadIs
<1> HIDE DEF n, more
<1>3. PICK g : Reading(g, more, id, n + 1) /\ LinksRead(more, id) = g[n + 1]
  BY <1>1, LinksReadIs
<1>4. f[n] = g[n]
  BY <1>1, <1>2, <1>3, ReadingAgrees
<1>5. g[n + 1] = Step(more, id, n + 1, g[n])
  <2>1. n + 1 \in 0 .. n + 1 /\ n + 1 # 0 /\ (n + 1) - 1 = n
    BY <1>1
  <2> QED
    BY <1>3, <2>1 DEF Reading
<1> QED
  BY <1>1, <1>2, <1>3, <1>4, <1>5 DEF Step, more

\* The slots that are read hold ids, and no link is behind a free slot.
LEMMA ReadIsPacked ==
  ASSUME NEW links \in Seq(Pairs), NEW id
  PROVE  LinksRead(links, id) \in Neighbors /\ Packed(LinksRead(links, id))
<1> DEFINE n == Len(links)
           OK(nb) == nb \in Neighbors /\ Packed(nb)
<1>1. PICK f : Reading(f, links, id, n) /\ LinksRead(links, id) = f[n]
  BY LinksReadIs
<1>2. n \in Nat /\ \A k \in 1 .. n : links[k] \in Pairs
  OBVIOUS
<1> DEFINE P == {k \in 0 .. n : OK(f[k])}
<1> HIDE DEF n
<1>3. 0 \in P
  <2>1. f[0] = NoLinks /\ 0 \in 0 .. n
    BY <1>1, <1>2 DEF Reading
  <2>2. OK(NoLinks)
    BY DEF NoLinks, Neighbors, Packed
  <2> QED
    BY <2>1, <2>2
<1>4. ASSUME NEW k \in 0 .. n, k \in P, k < n
      PROVE  k + 1 \in P
  <2>1. k + 1 \in 0 .. n /\ k + 1 \in 1 .. n /\ k + 1 # 0 /\ (k + 1) - 1 = k
    BY <1>2, <1>4
  <2>2. f[k + 1] = Step(links, id, k + 1, f[k])
    BY <1>1, <2>1 DEF Reading
  <2>3. OK(f[k])
    BY <1>4
  <2>4. links[k + 1][2] \in RouterId
    BY <1>2, <2>1 DEF Pairs
  <2>5. OK(Step(links, id, k + 1, f[k]))
    BY <2>3, <2>4, WithLinkIsPacked DEF Step
  <2> QED
    BY <2>1, <2>2, <2>5
<1>5. \A k \in 0 .. n : k \in P
  <2> HIDE DEF P
  <2> QED
    BY <1>2, <1>3, <1>4, Upwards
<1>6. n \in P
  BY <1>2, <1>5
<1> QED
  BY <1>1, <1>6

-----------------------------------------------------------------------------
(***************************************************************************)
(* Writing links.                                                          *)
(***************************************************************************)

\* The links of a router as the file has them.
Part(rt) ==
    [i \in 1 .. FreeNeighbor(rt.neighbors) |-> <<rt.routerId, rt.neighbors[i - 1]>>]

LEMMA PartIsPairs ==
  ASSUME NEW rt \in Router
  PROVE  /\ Part(rt) \in Seq(Pairs)
         /\ Len(Part(rt)) = FreeNeighbor(rt.neighbors)
<1> DEFINE f == FreeNeighbor(rt.neighbors)
<1>1. MAX_NEIGHBORS \in Nat
  BY SlotsAssumption
<1>2. f \in 0 .. MAX_NEIGHBORS /\ \A j \in 0 .. f - 1 : rt.neighbors[j] # free
  BY FirstFree
<1>3. rt.routerId \in RouterId /\ rt.neighbors \in [Slots -> RouterId \cup {free}]
  BY DEF Router
<1> HIDE DEF f
<1>4. ASSUME NEW i \in 1 .. f
      PROVE  rt.neighbors[i - 1] \in RouterId
  <2>1. i - 1 \in 0 .. f - 1 /\ i - 1 \in Slots
    BY <1>1, <1>2 DEF Slots
  <2> QED
    BY <1>2, <1>3, <2>1
<1>5. [i \in 1 .. f |-> <<rt.routerId, rt.neighbors[i - 1]>>] \in [1 .. f -> Pairs]
  BY <1>3, <1>4 DEF Pairs
<1>6. f \in Nat
  BY <1>1, <1>2
<1>7. Part(rt) \in [1 .. f -> Pairs]
  BY <1>5 DEF Part, f
<1>8. Part(rt) \in Seq(Pairs) /\ Len(Part(rt)) = f
  BY <1>6, <1>7
<1> QED
  BY <1>8 DEF f

\* f has the links of the first m routers, joined.
Joined(f, seqs, m) ==
    f = [i \in 1 .. m |-> IF i = 1 THEN seqs[i] ELSE f[i - 1] \o seqs[i]]

LEMMA JoinedExists ==
  ASSUME NEW seqs, NEW n \in Nat
  PROVE  \E f : Joined(f, seqs, n)
<1> DEFINE P == {m \in 0 .. n : \E f : Joined(f, seqs, m)}
<1>1. n \in Nat
  OBVIOUS
<1>2. 0 \in P
  <2> DEFINE g == [i \in 1 .. 0 |-> i]
  <2>1. Joined(g, seqs, 0)
    BY DEF Joined
  <2> QED
    BY <1>1, <2>1
<1>3. ASSUME NEW m \in 0 .. n, m \in P, m < n
      PROVE  m + 1 \in P
  <2>1. PICK f : Joined(f, seqs, m)
    BY <1>3
  <2>2. m \in Nat
    BY <1>1
  <2> DEFINE g == [i \in 1 .. m + 1 |->
                     IF i = m + 1 THEN IF m = 0 THEN seqs[1] ELSE f[m] \o seqs[m + 1]
                     ELSE f[i]]
  <2>3. ASSUME NEW i \in 1 .. m + 1
        PROVE  g[i] = IF i = 1 THEN seqs[i] ELSE g[i - 1] \o seqs[i]
    <3>1. CASE i = m + 1 /\ i # 1
      <4>1. i - 1 = m /\ m \in 1 .. m + 1 /\ m # m + 1 /\ m # 0
        BY <2>2, <3>1
      <4>2. g[m] = f[m] /\ g[i] = f[m] \o seqs[i]
        BY <3>1, <4>1
      <4> QED
        BY <3>1, <4>1, <4>2
    <3>2. CASE i = m + 1 /\ i = 1
      BY <2>2, <3>2
    <3>3. CASE i # m + 1 /\ i # 1
      <4>1. i \in 1 .. m /\ i - 1 \in 1 .. m + 1 /\ i - 1 # m + 1
        BY <2>2, <3>3
      <4>2. f[i] = f[i - 1] \o seqs[i]
        BY <2>1, <3>3, <4>1 DEF Joined
      <4>3. g[i - 1] = f[i - 1] /\ g[i] = f[i]
        BY <3>3, <4>1
      <4> QED
        BY <3>3, <4>2, <4>3
    <3>4. CASE i # m + 1 /\ i = 1
      <4>1. i \in 1 .. m
        BY <2>2, <3>4
      <4>2. f[i] = seqs[i]
        BY <2>1, <3>4, <4>1 DEF Joined
      <4> QED
        BY <3>4, <4>2
    <3> QED
      BY <3>1, <3>2, <3>3, <3>4
  <2>4. g = [i \in 1 .. m + 1 |-> g[i]]
    OBVIOUS
  <2> HIDE DEF g
  <2>5. Joined(g, seqs, m + 1)
    BY <2>3, <2>4 DEF Joined
  <2> QED
    BY <1>3, <2>5
<1>4. \A m \in 0 .. n : m \in P
  <2> HIDE DEF P
  <2> QED
    BY <1>1, <1>2, <1>3, Upwards
<1> QED
  BY <1>4

\* The links that are written are those of the first router, then those of the
\* second, and so on.
LEMMA LinksWrittenAre ==
  ASSUME NEW rs \in Seq(Router)
  PROVE  \E F : /\ F = [i \in 0 .. Len(rs) |-> F[i]]
                /\ F[0] = <<>>
                /\ \A i \in 1 .. Len(rs) : F[i - 1] \in Seq(Pairs) => F[i] = F[i - 1] \o Part(rs[i])
                /\ LinksWritten(rs) = F[Len(rs)]
<1> DEFINE n == Len(rs)
           seqs == [r \in DOMAIN rs |-> Part(rs[r])]
<1>1. n \in Nat /\ DOMAIN rs = 1 .. n /\ \A i \in 1 .. n : rs[i] \in Router
  OBVIOUS
<1>2. \A i \in 1 .. n : Part(rs[i]) \in Seq(Pairs)
  BY <1>1, PartIsPairs
<1>3. seqs \in Seq(Seq(Pairs)) /\ Len(seqs) = n
  <2>1. seqs \in [1 .. n -> Seq(Pairs)]
    BY <1>1, <1>2
  <2> QED
    BY <1>1, <2>1
<1>4. LinksWritten(rs) = FlattenSeq(seqs)
  BY DEF LinksWritten, Part
<1>5. n # 0 => FlattenSeq(seqs) = (CHOOSE f : Joined(f, seqs, n))[n]
  BY <1>3 DEF FlattenSeq, Joined
<1>6. n = 0 => FlattenSeq(seqs) = <<>>
  <2>1. n = 0 => seqs = <<>>
    BY <1>3
  <2> QED
    BY <1>3, <2>1 DEF FlattenSeq
<1>7. PICK f : Joined(f, seqs, n) /\ (n # 0 => FlattenSeq(seqs) = f[n])
  BY <1>1, <1>5, JoinedExists
<1> DEFINE F == [i \in 0 .. n |-> IF i = 0 THEN <<>> ELSE f[i]]
<1>8. F[0] = <<>> /\ \A i \in 1 .. n : F[i] = f[i]
  BY <1>1
<1>9. ASSUME NEW i \in 1 .. n, F[i - 1] \in Seq(Pairs)
      PROVE  F[i] = F[i - 1] \o Part(rs[i])
  <2>1. seqs[i] = Part(rs[i]) /\ Part(rs[i]) \in Seq(Pairs)
    BY <1>1, <1>2
  <2>2. f[i] = IF i = 1 THEN seqs[i] ELSE f[i - 1] \o seqs[i]
    BY <1>3, <1>7 DEF Joined
  <2>3. CASE i = 1
    <3>1. F[i - 1] = <<>>
      BY <1>8, <2>3
    <3> HIDE DEF F, seqs
    <3>2. <<>> \o Part(rs[i]) = Part(rs[i])
      BY <2>1
    <3> QED
      BY <1>8, <2>1, <2>2, <2>3, <3>1, <3>2
  <2>4. CASE i # 1
    <3>1. i - 1 \in 1 .. n
      BY <1>1, <2>4
    <3> HIDE DEF F, seqs
    <3> QED
      BY <1>8, <2>1, <2>2, <2>4, <3>1
  <2> QED
    BY <2>3, <2>4
<1>10. LinksWritten(rs) = F[n]
  <2>1. n # 0 => n \in 1 .. n
    BY <1>1
  <2> HIDE DEF F, seqs
  <2> QED
    BY <1>4, <1>6, <1>7, <1>8, <2>1
<1>11. F = [i \in 0 .. n |-> F[i]]
  OBVIOUS
<1> QED
  BY <1>8, <1>9, <1>10, <1>11

\* All links that are written are pairs of ids.
LEMMA LinksWrittenArePairs ==
  ASSUME NEW rs \in Seq(Router)
  PROVE  LinksWritten(rs) \in Seq(Pairs)
<1> DEFINE n == Len(rs)
<1>1. n \in Nat /\ \A i \in 1 .. n : rs[i] \in Router
  OBVIOUS
<1>2. PICK F : /\ F[0] = <<>>
               /\ \A i \in 1 .. n : F[i - 1] \in Seq(Pairs) => F[i] = F[i - 1] \o Part(rs[i])
               /\ LinksWritten(rs) = F[n]
  BY LinksWrittenAre
<1> HIDE DEF n
<1> DEFINE P == {i \in 0 .. n : F[i] \in Seq(Pairs)}
<1>3. 0 \in P
  <2>1. F[0] = <<>> /\ 0 \in 0 .. n
    BY <1>1, <1>2
  <2>2. <<>> \in Seq(Pairs)
    OBVIOUS
  <2> QED
    BY <2>1, <2>2
<1>4. ASSUME NEW i \in 0 .. n, i \in P, i < n
      PROVE  i + 1 \in P
  <2>1. i + 1 \in 1 .. n /\ i + 1 \in 0 .. n /\ (i + 1) - 1 = i
    BY <1>1, <1>4
  <2>2. F[i] \in Seq(Pairs) /\ Part(rs[i + 1]) \in Seq(Pairs)
    BY <1>1, <1>4, <2>1, PartIsPairs
  <2>3. F[i + 1] = F[i] \o Part(rs[i + 1])
    BY <1>2, <2>1, <2>2
  <2>4. F[i] \o Part(rs[i + 1]) \in Seq(Pairs)
    BY <2>2
  <2> QED
    BY <2>1, <2>3, <2>4
<1>5. \A i \in 0 .. n : i \in P
  <2> HIDE DEF P
  <2> QED
    BY <1>1, <1>3, <1>4, Upwards
<1>6. n \in P
  BY <1>1, <1>5
<1> QED
  BY <1>2, <1>6

-----------------------------------------------------------------------------
(***************************************************************************)
(* Reading what was written.                                               *)
(***************************************************************************)

\* A beginning of a sequence.
LEMMA PrefixIs ==
  ASSUME NEW S, NEW w \in Seq(S), NEW k \in 0 .. Len(w)
  PROVE  /\ SubSeq(w, 1, k) \in Seq(S) /\ Len(SubSeq(w, 1, k)) = k
         /\ DOMAIN SubSeq(w, 1, k) = 1 .. k
         /\ \A i \in 1 .. k : i \in DOMAIN w /\ SubSeq(w, 1, k)[i] = w[i]
  OBVIOUS

\* A prefix that is longer by one.
LEMMA PrefixGrows ==
  ASSUME NEW S, NEW w \in Seq(S), NEW k \in Nat, k < Len(w)
  PROVE  /\ SubSeq(w, 1, k) \in Seq(S)
         /\ w[k + 1] \in S
         /\ SubSeq(w, 1, k + 1) = Append(SubSeq(w, 1, k), w[k + 1])
<1> DEFINE u == SubSeq(w, 1, k)
           v == SubSeq(w, 1, k + 1)
           a == Append(u, w[k + 1])
<1>1. k + 1 \in 1 .. Len(w) /\ Len(w) \in Nat
  OBVIOUS
<1>2. w[k + 1] \in S
  BY <1>1
<1>3. u \in Seq(S) /\ Len(u) = k /\ \A i \in 1 .. k : u[i] = w[i]
  BY <1>1
<1>4. v \in Seq(S) /\ Len(v) = k + 1 /\ \A i \in 1 .. k + 1 : v[i] = w[i]
  BY <1>1
<1> HIDE DEF u, v
<1>5. a \in Seq(S) /\ Len(a) = k + 1
  BY <1>2, <1>3
<1>6. \A i \in 1 .. k + 1 : a[i] = w[i]
  <2>1. ASSUME NEW i \in 1 .. k + 1
        PROVE  a[i] = w[i]
    <3>1. CASE i = k + 1
      BY <1>2, <1>3, <3>1
    <3>2. CASE i # k + 1
      <4>1. i \in 1 .. k
        BY <3>2
      <4> QED
        BY <1>2, <1>3, <4>1
    <3> QED
      BY <3>1, <3>2
  <2> QED
    BY <2>1
<1> HIDE DEF a
<1>7. v = a
  BY <1>4, <1>5, <1>6, SeqEqual
<1> QED
  BY <1>2, <1>3, <1>7 DEF u, v, a

\* No slots.
LEMMA FirstOfNone ==
  ASSUME NEW nb
  PROVE  FirstOf(nb, 0) = NoLinks
<1>1. \A i \in Slots : ~ (i < 0)
  BY SlotsAssumption DEF Slots
<1> QED
  BY <1>1 DEF FirstOf, NoLinks

\* The first j slots are a router's slots after its first j links.
LEMMA FirstOfGrows ==
  ASSUME NEW nb \in Neighbors, NEW j \in 0 .. FreeNeighbor(nb)
  PROVE  /\ FreeNeighbor(FirstOf(nb, j)) = j
         /\ FirstOf(nb, 0) = NoLinks
         /\ j < FreeNeighbor(nb) => WithLink(FirstOf(nb, j), nb[j]) = FirstOf(nb, j + 1)
<1> DEFINE f == FreeNeighbor(nb)
           g == FirstOf(nb, j)
<1>1. MAX_NEIGHBORS \in Nat
  BY SlotsAssumption
<1>2. /\ f \in 0 .. MAX_NEIGHBORS
      /\ \A h \in 0 .. f - 1 : nb[h] # free
  BY FirstFree
<1>3. j \in 0 .. f
  OBVIOUS
<1> HIDE DEF f
<1>4. j \in 0 .. MAX_NEIGHBORS /\ (j = MAX_NEIGHBORS \/ g[j] = free)
  BY <1>1, <1>2, <1>3 DEF FirstOf, Slots
<1>5. ASSUME NEW h \in 0 .. j - 1
      PROVE  g[h] # free
  <2>1. h \in 0 .. f - 1 /\ h \in Slots /\ h < j
    BY <1>1, <1>2, <1>3 DEF Slots
  <2> QED
    BY <1>2, <2>1 DEF FirstOf
<1>6. FreeNeighbor(g) = j
  <2> HIDE DEF g
  <2> QED
    BY <1>4, <1>5, FirstFreeIs
<1>7. FirstOf(nb, 0) = NoLinks
  <2>1. \A i \in Slots : ~ (i < 0)
    BY <1>1 DEF Slots
  <2> QED
    BY <2>1 DEF FirstOf, NoLinks
<1>8. ASSUME j < f
      PROVE  WithLink(g, nb[j]) = FirstOf(nb, j + 1)
  <2>1. j \in Slots
    BY <1>1, <1>2, <1>3, <1>8 DEF Slots
  <2>2. WithLink(g, nb[j]) = [i \in Slots |-> IF i = j THEN nb[j] ELSE g[i]]
    BY <1>6, <2>1 DEF WithLink, FirstOf
  <2>3. ASSUME NEW i \in Slots
        PROVE  (IF i = j THEN nb[j] ELSE g[i]) = IF i < j + 1 THEN nb[i] ELSE free
    <3>1. i \in Int /\ j \in Int
      BY <1>1, <2>1 DEF Slots
    <3>2. g[i] = IF i < j THEN nb[i] ELSE free
      BY DEF FirstOf
    <3>3. i < j + 1 <=> i < j \/ i = j
      BY <3>1
    <3> HIDE DEF g
    <3>4. CASE i = j
      BY <3>3, <3>4
    <3>5. CASE i # j
      BY <3>2, <3>3, <3>5
    <3> QED
      BY <3>4, <3>5
  <2> HIDE DEF g
  <2> QED
    BY <2>2, <2>3 DEF FirstOf
<1> QED
  BY <1>6, <1>7, <1>8 DEF f, g

LEMMA FirstOfAll ==
  ASSUME NEW nb \in Neighbors, Packed(nb)
  PROVE  FirstOf(nb, FreeNeighbor(nb)) = nb
<1> DEFINE f == FreeNeighbor(nb)
<1>1. MAX_NEIGHBORS \in Nat
  BY SlotsAssumption
<1>2. f \in 0 .. MAX_NEIGHBORS /\ (f = MAX_NEIGHBORS \/ nb[f] = free)
  BY FirstFree
<1> HIDE DEF f
<1>3. ASSUME NEW i \in Slots
      PROVE  (IF i < f THEN nb[i] ELSE free) = nb[i]
  <2>1. i \in 0 .. MAX_NEIGHBORS - 1
    BY DEF Slots
  <2>2. ~ (i < f) => f \in Slots /\ nb[f] = free /\ (f < i \/ f = i)
    BY <1>1, <1>2, <2>1 DEF Slots
  <2> QED
    BY <2>2 DEF Packed
<1>4. nb = [i \in Slots |-> nb[i]]
  BY DEF Neighbors
<1> QED
  BY <1>3, <1>4 DEF FirstOf, f

\* What the links of a router rt behind other links s make of the slots of id.
LEMMA PartIsRead ==
  ASSUME NEW s \in Seq(Pairs), NEW rt \in Router, NEW id,
         LinksRead(s, rt.routerId) = NoLinks,
         NEW j \in 0 .. FreeNeighbor(rt.neighbors)
  PROVE  LinksRead(SubSeq(s \o Part(rt), 1, Len(s) + j), id) =
           IF id = rt.routerId THEN FirstOf(rt.neighbors, j) ELSE LinksRead(s, id)
<1> DEFINE n  == Len(s)
           f  == FreeNeighbor(rt.neighbors)
           nb == rt.neighbors
           w  == s \o Part(rt)
           P  == {i \in 0 .. f : LinksRead(SubSeq(w, 1, n + i), id) =
                    IF id = rt.routerId THEN FirstOf(nb, i) ELSE LinksRead(s, id)}
<1>1. MAX_NEIGHBORS \in Nat /\ f \in 0 .. MAX_NEIGHBORS /\ n \in Nat
  BY FirstFree, SlotsAssumption
<1>2. Part(rt) \in Seq(Pairs) /\ Len(Part(rt)) = f
  BY PartIsPairs
<1>3. nb \in Neighbors
  BY DEF Router, Neighbors
<1>4. \A i \in 0 .. f - 1 : Part(rt)[i + 1] = <<rt.routerId, nb[i]>>
  <2>1. \A i \in 0 .. f - 1 : i + 1 \in 1 .. f /\ (i + 1) - 1 = i
    BY <1>1
  <2>2. Part(rt) = [i \in 1 .. f |-> <<rt.routerId, nb[i - 1]>>]
    BY DEF Part
  <2> HIDE DEF f
  <2> QED
    BY <2>1, <2>2
<1> HIDE DEF f
<1>5. /\ w \in Seq(Pairs) /\ Len(w) = n + f
      /\ \A i \in 1 .. f : w[n + i] = Part(rt)[i]
  BY <1>1, <1>2
<1>6. SubSeq(w, 1, n) = s
  <2>1. SubSeq(w, 1, n) \in Seq(Pairs) /\ Len(SubSeq(w, 1, n)) = n
    BY <1>1, <1>5
  <2>2. \A i \in 1 .. n : SubSeq(w, 1, n)[i] = s[i]
    BY <1>1, <1>2
  <2> QED
    BY <2>1, <2>2, SeqEqual
<1> HIDE DEF w, n, nb
<1>7. 0 \in P
  <2>1. n + 0 = n /\ 0 \in 0 .. f
    BY <1>1
  <2>2. FirstOf(nb, 0) = NoLinks
    BY <1>1, <1>3, FirstOfGrows DEF f, nb
  <2> QED
    BY <1>6, <2>1, <2>2
<1>8. ASSUME NEW i \in 0 .. f, i \in P, i < f
      PROVE  i + 1 \in P
  <2> DEFINE u == SubSeq(w, 1, n + i)
  <2>1. /\ n + i \in Nat /\ n + i < Len(w) /\ (n + i) + 1 = n + (i + 1)
        /\ i + 1 \in 1 .. f /\ i + 1 \in 0 .. f /\ i \in 0 .. f - 1
    BY <1>1, <1>5, <1>8
  <2>2. /\ u \in Seq(Pairs)
        /\ w[n + (i + 1)] \in Pairs
        /\ SubSeq(w, 1, n + (i + 1)) = Append(u, w[n + (i + 1)])
    <3>1. /\ u \in Seq(Pairs)
          /\ w[(n + i) + 1] \in Pairs
          /\ SubSeq(w, 1, (n + i) + 1) = Append(u, w[(n + i) + 1])
      BY <1>5, <2>1, PrefixGrows
    <3> QED
      BY <2>1, <3>1
  <2>3. w[n + (i + 1)] = <<rt.routerId, nb[i]>>
    BY <1>4, <1>5, <2>1
  <2>4. LinksRead(u, id) = IF id = rt.routerId THEN FirstOf(nb, i) ELSE LinksRead(s, id)
    BY <1>8
  <2>5. WithLink(FirstOf(nb, i), nb[i]) = FirstOf(nb, i + 1)
    BY <1>3, <1>8, FirstOfGrows DEF f, nb
  <2> HIDE DEF u
  <2>6. LinksRead(SubSeq(w, 1, n + (i + 1)), id) =
          IF rt.routerId = id THEN WithLink(LinksRead(u, id), nb[i]) ELSE LinksRead(u, id)
    <3> DEFINE x == w[n + (i + 1)]
    <3>1. x \in Pairs /\ x[1] = rt.routerId /\ x[2] = nb[i]
      BY <2>2, <2>3
    <3> HIDE DEF x, P
    <3>2. LinksRead(Append(u, x), id) =
            IF x[1] = id THEN WithLink(LinksRead(u, id), x[2]) ELSE LinksRead(u, id)
      BY <2>2, <3>1, ReadOneMore
    <3> QED
      BY <2>2, <3>1, <3>2 DEF x
  <2> QED
    BY <2>1, <2>4, <2>5, <2>6
<1>9. \A i \in 0 .. f : i \in P
  <2>1. f \in Nat
    BY <1>1
  <2> HIDE DEF P
  <2> QED
    BY <1>7, <1>8, <2>1, Upwards
<1>10. j \in P
  BY <1>9 DEF f
<1> QED
  BY <1>10 DEF w, n, nb

\* The beginning of two sequences is one of the first.
LEMMA PrefixOfJoin ==
  ASSUME NEW S, NEW s \in Seq(S), NEW t \in Seq(S), NEW k \in 0 .. Len(s)
  PROVE  SubSeq(s \o t, 1, k) = SubSeq(s, 1, k)
<1> DEFINE w == s \o t
<1>1. /\ w \in Seq(S) /\ Len(w) = Len(s) + Len(t) /\ Len(s) \in Nat /\ Len(t) \in Nat
      /\ \A i \in 1 .. Len(s) : w[i] = s[i]
  OBVIOUS
<1> HIDE DEF w
<1>2. k \in 0 .. Len(w)
  BY <1>1
<1>3. /\ SubSeq(w, 1, k) \in Seq(S) /\ Len(SubSeq(w, 1, k)) = k
      /\ \A i \in 1 .. k : SubSeq(w, 1, k)[i] = w[i]
  BY <1>1, <1>2, PrefixIs
<1>4. /\ SubSeq(s, 1, k) \in Seq(S) /\ Len(SubSeq(s, 1, k)) = k
      /\ \A i \in 1 .. k : SubSeq(s, 1, k)[i] = s[i]
  BY PrefixIs
<1>5. \A i \in 1 .. k : w[i] = s[i]
  <2>1. \A i \in 1 .. k : i \in 1 .. Len(s)
    BY <1>1
  <2> QED
    BY <1>1, <2>1
<1>6. SubSeq(w, 1, k) = SubSeq(s, 1, k)
  BY <1>3, <1>4, <1>5, SeqEqual
<1> QED
  BY <1>6 DEF w

\* Reading the links of rt behind other links: rt gets all of its links and
\* the others keep theirs; every link fits.
LEMMA PartIsReadBack ==
  ASSUME NEW s \in Seq(Pairs), NEW rt \in Router, Packed(rt.neighbors),
         LinksRead(s, rt.routerId) = NoLinks
  PROVE  /\ \A id : LinksRead(s \o Part(rt), id) =
                      IF id = rt.routerId THEN rt.neighbors ELSE LinksRead(s, id)
         /\ \A k \in DOMAIN (s \o Part(rt)) :
              \/ k \in DOMAIN s /\ (s \o Part(rt))[k] = s[k]
                   /\ (Fits(s \o Part(rt), k) <=> Fits(s, k))
              \/ (s \o Part(rt))[k][1] = rt.routerId /\ Fits(s \o Part(rt), k)
<1> DEFINE n  == Len(s)
           f  == FreeNeighbor(rt.neighbors)
           nb == rt.neighbors
           w  == s \o Part(rt)
<1>1. MAX_NEIGHBORS \in Nat /\ f \in 0 .. MAX_NEIGHBORS /\ n \in Nat
  BY FirstFree, SlotsAssumption
<1>2. Part(rt) \in Seq(Pairs) /\ Len(Part(rt)) = f
  BY PartIsPairs
<1>3. nb \in Neighbors
  BY DEF Router, Neighbors
<1>4. \A i \in 1 .. f : Part(rt)[i][1] = rt.routerId
  BY DEF Part
<1>5. ASSUME NEW id, NEW j \in 0 .. f
      PROVE  LinksRead(SubSeq(w, 1, n + j), id) =
               IF id = rt.routerId THEN FirstOf(nb, j) ELSE LinksRead(s, id)
  BY PartIsRead
<1> HIDE DEF f
<1>6. /\ w \in Seq(Pairs) /\ Len(w) = n + f /\ DOMAIN w = 1 .. n + f
      /\ \A i \in 1 .. n : w[i] = s[i]
      /\ \A i \in 1 .. f : w[n + i] = Part(rt)[i]
      /\ DOMAIN s = 1 .. n
  BY <1>1, <1>2
<1>7. SubSeq(w, 1, n + f) = w
  BY <1>1, <1>6
<1>8. ASSUME NEW k \in 1 .. n
      PROVE  SubSeq(w, 1, k - 1) = SubSeq(s, 1, k - 1)
  <2>1. k - 1 \in 0 .. Len(s)
    BY <1>1
  <2> QED
    BY <1>2, <2>1, PrefixOfJoin
<1> HIDE DEF w, n
<1>9. ASSUME NEW id
      PROVE  LinksRead(w, id) = IF id = rt.routerId THEN nb ELSE LinksRead(s, id)
  <2>1. f \in 0 .. f
    BY <1>1
  <2>2. FirstOf(nb, f) = nb
    BY <1>3, FirstOfAll DEF f, nb
  <2> QED
    BY <1>5, <1>7, <2>1, <2>2
<1>10. ASSUME NEW k \in DOMAIN w
       PROVE  \/ k \in DOMAIN s /\ w[k] = s[k] /\ (Fits(w, k) <=> Fits(s, k))
              \/ w[k][1] = rt.routerId /\ Fits(w, k)
  <2>1. CASE k \in 1 .. n
    BY <1>6, <1>8, <2>1 DEF Fits
  <2>2. CASE k \notin 1 .. n
    <3> DEFINE j == k - n - 1
    <3>1. j \in 0 .. f /\ j < f /\ k - 1 = n + j /\ j + 1 \in 1 .. f /\ k = n + (j + 1)
      BY <1>1, <1>6, <2>2
    <3> HIDE DEF j
    <3>2. w[k][1] = rt.routerId
      BY <1>4, <1>6, <3>1
    <3>3. LinksRead(SubSeq(w, 1, k - 1), w[k][1]) = FirstOf(nb, j)
      BY <1>5, <3>1, <3>2
    <3>4. FreeNeighbor(FirstOf(nb, j)) = j
      BY <1>3, <3>1, FirstOfGrows DEF f, nb
    <3>5. j < MAX_NEIGHBORS
      BY <1>1, <3>1
    <3> QED
      BY <3>2, <3>3, <3>4, <3>5 DEF Fits
  <2> QED
    BY <2>1, <2>2
<1> QED
  BY <1>9, <1>10 DEF w, nb

\* The links s give the routers before the q-th one their links, and it the first
\* k of its own.
LinkedUpTo(rs, s, q, k) ==
    \A r \in DOMAIN rs : LinksRead(s, rs[r].routerId) =
        IF r < q THEN rs[r].neighbors
        ELSE IF r = q THEN FirstOf(rs[r].neighbors, k) ELSE NoLinks

\* All links of a register can be read back, and every router gets its own; the
\* first ones are the links up to some link of some router.
LEMMA LinksAreReadBack ==
  ASSUME NEW rs \in Seq(Router), Unique(rs), \A r \in DOMAIN rs : Packed(rs[r].neighbors)
  PROVE  /\ \A r \in DOMAIN rs :
              LinksRead(LinksWritten(rs), rs[r].routerId) = rs[r].neighbors
         /\ \A k \in DOMAIN LinksWritten(rs) :
              HasRouter(rs, LinksWritten(rs)[k][1]) /\ Fits(LinksWritten(rs), k)
         /\ \A k \in 0 .. Len(LinksWritten(rs)) :
              \E q \in 1 .. Len(rs) + 1, j \in 0 .. MAX_NEIGHBORS :
                LinkedUpTo(rs, SubSeq(LinksWritten(rs), 1, k), q, j)
<1> DEFINE n == Len(rs)
           Own(s, i) == \A r \in 1 .. n : LinksRead(s, rs[r].routerId) =
                          IF r <= i THEN rs[r].neighbors ELSE NoLinks
           Good(s) == \A k \in DOMAIN s : HasRouter(rs, s[k][1]) /\ Fits(s, k)
           Parts(s) == \A k \in 0 .. Len(s) : \E q \in 1 .. n + 1, j \in 0 .. MAX_NEIGHBORS :
                         LinkedUpTo(rs, SubSeq(s, 1, k), q, j)
<1>1. /\ n \in Nat /\ DOMAIN rs = 1 .. n
      /\ \A i \in 1 .. n : rs[i] \in Router /\ Packed(rs[i].neighbors)
      /\ \A q, r \in 1 .. n : rs[q].routerId = rs[r].routerId => q = r
  BY DEF Unique
<1>2. PICK F : /\ F[0] = <<>>
               /\ \A i \in 1 .. n : F[i - 1] \in Seq(Pairs) => F[i] = F[i - 1] \o Part(rs[i])
               /\ LinksWritten(rs) = F[n]
  BY LinksWrittenAre
<1> HIDE DEF n
<1> DEFINE P == {i \in 0 .. n : F[i] \in Seq(Pairs) /\ Own(F[i], i) /\ Good(F[i]) /\ Parts(F[i])}
<1>3. 0 \in P
  <2>1. F[0] = <<>> /\ 0 \in 0 .. n
    BY <1>1, <1>2
  <2>2. <<>> \in Seq(Pairs) /\ DOMAIN <<>> = {}
    OBVIOUS
  <2>3. \A r \in 1 .. n : ~ (r <= 0)
    BY <1>1
  <2>4. Own(<<>>, 0)
    BY <2>3, ReadNothing
  <2>5. Good(<<>>)
    BY <2>2
  <2>6. Parts(<<>>)
    <3>1. SubSeq(<<>>, 1, 0) = <<>> /\ \A k \in 0 .. Len(<<>>) : k = 0
      OBVIOUS
    <3>2. 1 \in 1 .. n + 1 /\ MAX_NEIGHBORS \in Nat /\ \A r \in 1 .. n : ~ (r < 1)
      BY <1>1, SlotsAssumption
    <3>3. \A r \in 1 .. n : FirstOf(rs[r].neighbors, 0) = NoLinks
      BY <1>1, <3>2, FirstOfNone
    <3>4. LinkedUpTo(rs, <<>>, 1, 0)
      BY <1>1, <3>2, <3>3, ReadNothing DEF LinkedUpTo
    <3>5. 0 \in 0 .. MAX_NEIGHBORS
      BY <3>2
    <3> QED
      BY <3>1, <3>2, <3>4, <3>5
  <2> HIDE DEF Own, Good, Parts
  <2> QED
    BY <2>1, <2>2, <2>4, <2>5, <2>6
<1>4. ASSUME NEW i \in 0 .. n, i \in P, i < n
      PROVE  i + 1 \in P
  <2> DEFINE s  == F[i]
             rt == rs[i + 1]
             w  == s \o Part(rt)
  <2>1. i + 1 \in 1 .. n /\ i + 1 \in 0 .. n /\ (i + 1) - 1 = i /\ ~ (i + 1 <= i)
    BY <1>1, <1>4
  <2>2. s \in Seq(Pairs) /\ Own(s, i) /\ Good(s) /\ Parts(s)
    BY <1>4
  <2>3. rt \in Router /\ Packed(rt.neighbors) /\ HasRouter(rs, rt.routerId)
    BY <1>1, <2>1 DEF HasRouter
  <2>4. LinksRead(s, rt.routerId) = NoLinks
    BY <2>1, <2>2
  <2>5. Part(rt) \in Seq(Pairs)
    BY <2>3, PartIsPairs
  <2>6. F[i + 1] = w
    BY <1>2, <2>1, <2>2
  <2> HIDE DEF s, rt
  <2>7. w \in Seq(Pairs)
    BY <2>2, <2>5
  <2>8. /\ \A id : LinksRead(w, id) =
                     IF id = rt.routerId THEN rt.neighbors ELSE LinksRead(s, id)
        /\ \A k \in DOMAIN w :
             \/ k \in DOMAIN s /\ w[k] = s[k] /\ (Fits(w, k) <=> Fits(s, k))
             \/ w[k][1] = rt.routerId /\ Fits(w, k)
    BY <2>2, <2>3, <2>4, PartIsReadBack
  <2> HIDE DEF w
  <2>9. Own(w, i + 1)
    <3>1. ASSUME NEW r \in 1 .. n
          PROVE  LinksRead(w, rs[r].routerId) =
                   IF r <= i + 1 THEN rs[r].neighbors ELSE NoLinks
      <4>1. CASE r = i + 1
        <5>1. r <= i + 1
          BY <1>1, <4>1
        <5> QED
          BY <2>8, <4>1, <5>1 DEF rt
      <4>2. CASE r # i + 1
        <5>1. rs[r].routerId # rt.routerId
          BY <1>1, <2>1, <4>2 DEF rt
        <5>2. r <= i + 1 <=> r <= i
          BY <1>1, <4>2
        <5>3. LinksRead(w, rs[r].routerId) = LinksRead(s, rs[r].routerId)
          BY <2>8, <5>1
        <5> QED
          BY <2>2, <5>2, <5>3
      <4> QED
        BY <4>1, <4>2
    <3> QED
      BY <3>1
  <2>10. Good(w)
    BY <2>2, <2>3, <2>8
  <2>11. Parts(w)
    <3>1. /\ Len(s) \in Nat /\ Len(w) = Len(s) + FreeNeighbor(rt.neighbors)
          /\ MAX_NEIGHBORS \in Nat /\ FreeNeighbor(rt.neighbors) \in 0 .. MAX_NEIGHBORS
      <4>1. Len(Part(rt)) = FreeNeighbor(rt.neighbors)
        BY <2>3, PartIsPairs
      <4>2. Len(s) \in Nat /\ Len(w) = Len(s) + Len(Part(rt))
        BY <2>2, <2>5 DEF w
      <4> QED
        BY <4>1, <4>2, FirstFree, SlotsAssumption
    <3>2. ASSUME NEW k \in 0 .. Len(s)
          PROVE  SubSeq(w, 1, k) = SubSeq(s, 1, k)
      BY <2>2, <2>5, PrefixOfJoin DEF w
    <3>3. ASSUME NEW j \in 0 .. FreeNeighbor(rt.neighbors)
          PROVE  LinkedUpTo(rs, SubSeq(w, 1, Len(s) + j), i + 1, j)
      <4> DEFINE u == SubSeq(w, 1, Len(s) + j)
      <4>1. \A id : LinksRead(u, id) = IF id = rt.routerId THEN FirstOf(rt.neighbors, j)
                                       ELSE LinksRead(s, id)
        BY <2>2, <2>3, <2>4, PartIsRead DEF w
      <4> HIDE DEF u
      <4>2. ASSUME NEW r \in 1 .. n
            PROVE  LinksRead(u, rs[r].routerId) =
                     IF r < i + 1 THEN rs[r].neighbors
                     ELSE IF r = i + 1 THEN FirstOf(rs[r].neighbors, j) ELSE NoLinks
        <5>1. r < i + 1 <=> r <= i
          BY <1>1
        <5>2. CASE r = i + 1
          <6>1. ~ (r < i + 1)
            BY <1>1, <5>2
          <6> QED
            BY <4>1, <5>2, <6>1 DEF rt
        <5>3. CASE r # i + 1
          <6>1. rs[r].routerId # rt.routerId
            BY <1>1, <2>1, <5>3 DEF rt
          <6> QED
            BY <2>2, <4>1, <5>1, <5>3, <6>1
        <5> QED
          BY <5>2, <5>3
      <4> QED
        BY <1>1, <4>2 DEF LinkedUpTo, u
    <3>4. ASSUME NEW k \in 0 .. Len(w)
          PROVE  \E q \in 1 .. n + 1, j \in 0 .. MAX_NEIGHBORS :
                   LinkedUpTo(rs, SubSeq(w, 1, k), q, j)
      <4>1. CASE k \in 0 .. Len(s)
        BY <2>2, <3>2, <4>1
      <4>2. CASE k \notin 0 .. Len(s)
        <5> DEFINE j == k - Len(s)
        <5>1. /\ j \in 0 .. FreeNeighbor(rt.neighbors) /\ j \in 0 .. MAX_NEIGHBORS
              /\ k = Len(s) + j
          BY <3>1, <4>2
        <5> HIDE DEF j
        <5>2. LinkedUpTo(rs, SubSeq(w, 1, k), i + 1, j)
          BY <3>3, <5>1
        <5>3. i + 1 \in 1 .. n + 1
          BY <1>1, <2>1
        <5> QED
          BY <5>1, <5>2, <5>3
      <4> QED
        BY <4>1, <4>2
    <3> QED
      BY <3>4
  <2> HIDE DEF Own, Good, Parts
  <2> QED
    BY <2>1, <2>6, <2>7, <2>9, <2>10, <2>11
<1>5. \A i \in 0 .. n : i \in P
  <2> HIDE DEF P
  <2> QED
    BY <1>1, <1>3, <1>4, Upwards
<1>6. n \in P
  <2>1. n \in 0 .. n
    BY <1>1
  <2> HIDE DEF P
  <2> QED
    BY <1>5, <2>1
<1>7. Own(LinksWritten(rs), n) /\ Good(LinksWritten(rs)) /\ Parts(LinksWritten(rs))
  <2> HIDE DEF Own, Good, Parts
  <2> QED
    BY <1>2, <1>6
<1>8. \A r \in 1 .. n : r <= n
  BY <1>1
<1> QED
  BY <1>1, <1>7, <1>8 DEF n

-----------------------------------------------------------------------------
(***************************************************************************)
(* Files.                                                                  *)
(***************************************************************************)

FileRecord == [routerId : RouterId, flag : Byte, charLen : Byte]

\* A file with every id at most once.
FileOK(file) ==
    /\ file.records \in Seq(FileRecord)
    /\ Unique(file.records)
    /\ file.links \in Seq(Pairs)
    /\ file.n \in Nat /\ Len(file.records) <= file.n

\* A register with every id at most once, no hidden link, and a name for every
\* router if it has more than one.
RegisterOK(rs) ==
    /\ rs \in Seq(Router)
    /\ Unique(rs)
    /\ \A r \in DOMAIN rs : Packed(rs[r].neighbors)
    /\ \A r \in DOMAIN rs : rs[r].producerModel = null => Len(rs) = 1

\* The record of a router in a file.
LEMMA RecordIsOK ==
  ASSUME NEW rt \in Router
  PROVE  Record(rt) \in FileRecord /\ Record(rt).routerId = rt.routerId
<1>1. rt.routerId \in RouterId /\ rt.flag \in Byte /\ rt.producerModel \in Int
  BY DEF Router, null
<1>2. CharLen(rt) \in Byte
  BY <1>1 DEF CharLen, Byte
<1> QED
  BY <1>1, <1>2 DEF Record, FileRecord

LEMMA LengthOf ==
  ASSUME NEW S, NEW n \in Nat, NEW f \in [1 .. n -> S]
  PROVE  f \in Seq(S) /\ Len(f) = n /\ DOMAIN f = 1 .. n
  OBVIOUS

\* The first n records of a register.
LEMMA RecordsAreOK ==
  ASSUME NEW rs \in Seq(Router), Unique(rs), NEW n \in 0 .. Len(rs)
  PROVE  /\ [r \in 1 .. n |-> Record(rs[r])] \in Seq(FileRecord)
         /\ Len([r \in 1 .. n |-> Record(rs[r])]) = n
         /\ Unique([r \in 1 .. n |-> Record(rs[r])])
<1> DEFINE recs == [r \in 1 .. n |-> Record(rs[r])]
<1>1. n \in Nat /\ \A r \in 1 .. n : r \in DOMAIN rs /\ rs[r] \in Router
  OBVIOUS
<1>2. \A r \in 1 .. n : recs[r] \in FileRecord /\ recs[r].routerId = rs[r].routerId
  BY <1>1, RecordIsOK
<1>3. recs \in [1 .. n -> FileRecord]
  BY <1>2
<1> HIDE DEF recs
<1>4. recs \in Seq(FileRecord) /\ Len(recs) = n /\ DOMAIN recs = 1 .. n
  BY <1>1, <1>3, LengthOf
<1>5. Unique(recs)
  BY <1>1, <1>2, <1>4 DEF Unique
<1> QED
  BY <1>4, <1>5 DEF recs

\* The first router whose record cannot be written is one of the register.
LEMMA FirstUnwritable ==
  ASSUME NEW rs \in Seq(Router), Unwritable(rs) # {}
  PROVE  (CHOOSE r \in Unwritable(rs) : \A q \in Unwritable(rs) : r <= q) \in DOMAIN rs
<1>1. Unwritable(rs) \subseteq DOMAIN rs
  BY DEF Unwritable
<1>2. Unwritable(rs) \subseteq Nat
  BY <1>1
<1>3. \E m \in Unwritable(rs) : \A q \in Unwritable(rs) : m <= q
  BY <1>2, LeastNumber
<1> QED
  BY <1>1, <1>3

\* Whatever becomes of a register in a file, no id is there twice.
LEMMA WrittenIsOK ==
  ASSUME NEW rs \in Seq(Router), Unique(rs)
  PROVE  FileOK(Written(rs))
<1> DEFINE bad == Unwritable(rs)
           fst == CHOOSE r \in bad : \A q \in bad : r <= q
           recs(n) == [r \in 1 .. n |-> Record(rs[r])]
<1>1. CASE bad = {}
  <2>1. /\ Written(rs).records = [r \in DOMAIN rs |-> Record(rs[r])]
        /\ Written(rs).links = LinksWritten(rs) /\ Written(rs).n = Len(rs)
    BY <1>1 DEF Written
  <2>2. DOMAIN rs = 1 .. Len(rs) /\ Len(rs) \in 0 .. Len(rs)
    OBVIOUS
  <2> QED
    BY <2>1, <2>2, RecordsAreOK, LinksWrittenArePairs DEF FileOK
<1>2. CASE bad # {} /\ rs[fst].producerModel = null
  <2>1. Written(rs) = NoFile
    BY <1>2 DEF Written
  <2>2. FileOK(NoFile)
    BY DEF FileOK, NoFile, Unique
  <2> QED
    BY <2>1, <2>2
<1>3. CASE bad # {} /\ rs[fst].producerModel # null
  <2>1. /\ Written(rs).records = [r \in 1 .. fst |-> Record(rs[r])]
        /\ Written(rs).links = <<>> /\ Written(rs).n = Len(rs)
    BY <1>3 DEF Written
  <2>2. fst \in DOMAIN rs
    BY <1>3, FirstUnwritable
  <2> HIDE DEF fst
  <2>3. fst \in 0 .. Len(rs) /\ fst <= Len(rs) /\ <<>> \in Seq(Pairs)
    BY <2>2
  <2> QED
    BY <2>1, <2>3, RecordsAreOK DEF FileOK
<1> QED
  BY <1>1, <1>2, <1>3

\* Nor is any there twice when only the beginning of the file is written.
LEMMA BeginningIsOK ==
  ASSUME NEW file, FileOK(file), NEW f \in Beginnings(file)
  PROVE  FileOK(f)
<1>1. CASE f = NoFile
  BY <1>1 DEF FileOK, NoFile, Unique
<1>2. ASSUME NEW k \in 0 .. Len(file.records),
             f = [n |-> file.n, records |-> SubSeq(file.records, 1, k), links |-> <<>>,
                  ended |-> FALSE]
      PROVE  FileOK(f)
  <2> DEFINE recs == SubSeq(file.records, 1, k)
  <2>1. /\ recs \in Seq(FileRecord) /\ Len(recs) = k /\ DOMAIN recs = 1 .. k
        /\ \A i \in 1 .. k : i \in DOMAIN file.records /\ recs[i] = file.records[i]
    BY PrefixIs DEF FileOK
  <2>2. f.n = file.n /\ f.records = recs /\ f.links = <<>>
    BY <1>2
  <2>3. file.n \in Nat /\ k <= file.n
    <3>1. Len(file.records) \in Nat
      BY DEF FileOK
    <3> QED
      BY <3>1 DEF FileOK
  <2> HIDE DEF recs
  <2>4. Unique(recs)
    BY <2>1 DEF FileOK, Unique
  <2> QED
    BY <2>1, <2>2, <2>3, <2>4 DEF FileOK
<1>3. ASSUME NEW k \in 0 .. Len(file.links), NEW e,
             f = [n |-> file.n, records |-> file.records,
                  links |-> SubSeq(file.links, 1, k), ended |-> e]
      PROVE  FileOK(f)
  <2>1. SubSeq(file.links, 1, k) \in Seq(Pairs)
    BY PrefixIs DEF FileOK
  <2>2. f.n = file.n /\ f.records = file.records /\ f.links = SubSeq(file.links, 1, k)
    BY <1>3
  <2> QED
    BY <2>1, <2>2 DEF FileOK
<1> QED
  BY <1>1, <1>2, <1>3 DEF Beginnings, Prefixes

\* What is read from a file is a register, and every router has a name.
LEMMA ReadIsOK ==
  ASSUME NEW file, FileOK(file), Readable(file)
  PROVE  RegisterOK(ReadFrom(file))
<1> DEFINE rs == ReadFrom(file)
           n  == Len(file.records)
<1>1. /\ n \in Nat /\ DOMAIN file.records = 1 .. n
      /\ \A r \in 1 .. n : file.records[r] \in FileRecord
  BY DEF FileOK
<1>2. \A r \in 1 .. n : file.records[r].charLen >= 2
  BY <1>1 DEF Readable, RecordsReadable
<1> HIDE DEF n
<1>3. ASSUME NEW r \in 1 .. n
      PROVE  /\ rs[r] \in Router
             /\ rs[r].routerId = file.records[r].routerId
             /\ rs[r].producerModel # null
             /\ Packed(rs[r].neighbors)
  <2> DEFINE rec == file.records[r]
             nb  == LinksRead(file.links, rec.routerId)
  <2>1. rs[r] = [routerId |-> rec.routerId, flag |-> rec.flag,
                 producerModel |-> rec.charLen - 1, neighbors |-> nb]
    BY <1>1 DEF ReadFrom
  <2>2. rec.routerId \in RouterId /\ rec.flag \in Byte /\ rec.charLen \in Byte
    BY <1>1 DEF FileRecord
  <2>3. rec.charLen >= 2
    BY <1>2
  <2>4. nb \in Neighbors /\ Packed(nb)
    BY ReadIsPacked DEF FileOK
  <2> HIDE DEF rec, nb, rs
  <2>9. rec.charLen - 1 \in Nat /\ rec.charLen - 1 # null
    BY <2>2, <2>3 DEF Byte, null
  <2>5. rs[r] \in Router
    BY <2>1, <2>2, <2>9, <2>4 DEF Router, Neighbors
  <2> QED
    BY <2>1, <2>9, <2>4, <2>5 DEF rec
<1>4. rs \in [1 .. n -> Router]
  <2>1. rs = [r \in 1 .. n |-> rs[r]]
    BY <1>1 DEF ReadFrom
  <2> HIDE DEF rs
  <2> QED
    BY <1>3, <2>1
<1> HIDE DEF rs
<1>5. rs \in Seq(Router) /\ DOMAIN rs = 1 .. n
  BY <1>1, <1>4, LengthOf
<1>6. Unique(rs)
  BY <1>1, <1>3, <1>5 DEF Unique, FileOK
<1> QED
  BY <1>3, <1>5, <1>6 DEF RegisterOK, rs

-----------------------------------------------------------------------------
(***************************************************************************)
(* The operations on the array.                                            *)
(***************************************************************************)

\* findRouterId finds the router of an id.
LEMMA FindsRouterIn ==
  ASSUME NEW rs \in Seq(Router), Unique(rs), NEW id, HasRouter(rs, id)
  PROVE  /\ FindRouterId(rs, id) \in DOMAIN rs
         /\ rs[FindRouterId(rs, id)].routerId = id
<1>1. PICK r \in DOMAIN rs : rs[r].routerId = id
  BY DEF HasRouter
<1>2. \A q \in 1 .. r - 1 : q \in DOMAIN rs /\ q # r
  OBVIOUS
<1>3. \A q \in 1 .. r - 1 : rs[q].routerId # id
  BY <1>1, <1>2 DEF Unique
<1> QED
  BY <1>1, <1>3 DEF FindRouterId

\* A router that keeps its id, its name and its links together may replace
\* another.
LEMMA UpdatedIsOK ==
  ASSUME NEW rs, RegisterOK(rs), NEW r \in DOMAIN rs, NEW rt \in Router,
         rt.routerId = rs[r].routerId, Packed(rt.neighbors),
         rt.producerModel = null => rs[r].producerModel = null
  PROVE  RegisterOK([rs EXCEPT ![r] = rt])
<1> DEFINE new == [rs EXCEPT ![r] = rt]
<1>1. rs \in Seq(Router)
  BY DEF RegisterOK
<1>2. new \in Seq(Router) /\ Len(new) = Len(rs) /\ DOMAIN new = DOMAIN rs
  BY <1>1
<1>3. \A q \in DOMAIN rs : new[q] = IF q = r THEN rt ELSE rs[q]
  BY <1>1
<1> HIDE DEF new
<1>4. Unique(new)
  <2>1. \A q \in DOMAIN rs : new[q].routerId = rs[q].routerId
    BY <1>3
  <2> QED
    BY <1>2, <2>1 DEF RegisterOK, Unique
<1>5. \A q \in DOMAIN new : Packed(new[q].neighbors)
  BY <1>2, <1>3 DEF RegisterOK
<1>6. \A q \in DOMAIN new : new[q].producerModel = null => Len(new) = 1
  BY <1>2, <1>3 DEF RegisterOK
<1> QED
  BY <1>2, <1>4, <1>5, <1>6 DEF RegisterOK, new

\* The first link to an id in its slots, and the slots without it.
LEMMA WithoutLinkIs ==
  ASSUME NEW nb \in Neighbors, Packed(nb), NEW to \in RouterId
  PROVE  \/ WithoutLink(nb, to) = nb /\ \A i \in Slots : nb[i] # to
         \/ \E hit, last \in Slots :
              /\ hit <= last /\ nb[hit] = to /\ nb[last] # free
              /\ \A i \in Slots : last < i => nb[i] = free
              /\ \A i \in Slots : WithoutLink(nb, to)[i] =
                   IF i = last THEN free ELSE IF i = hit THEN nb[last] ELSE nb[i]
              /\ WithoutLink(nb, to) \in Neighbors
<1> DEFINE f    == FreeNeighbor(nb)
           hits == {i \in 0 .. f - 1 : nb[i] = to}
           hit  == CHOOSE i \in hits : \A j \in hits : i <= j
           last == f - 1
<1>1. MAX_NEIGHBORS \in Nat
  BY SlotsAssumption
<1>2. /\ f \in 0 .. MAX_NEIGHBORS
      /\ f = MAX_NEIGHBORS \/ nb[f] = free
      /\ \A j \in 0 .. f - 1 : nb[j] # free
  BY FirstFree
<1>3. to # free
  BY RouterIdAssumption DEF free
<1> HIDE DEF f
<1>4. \A i \in Slots : i \in 0 .. f - 1 \/ nb[i] = free
  <2>1. ASSUME NEW i \in Slots, i \notin 0 .. f - 1
        PROVE  nb[i] = free
    <3>1. f \in Slots /\ nb[f] = free /\ (f = i \/ f < i)
      BY <1>1, <1>2, <2>1 DEF Slots
    <3> QED
      BY <3>1 DEF Packed
  <2> QED
    BY <2>1
<1>5. CASE hits = {}
  <2>1. WithoutLink(nb, to) = nb
    BY <1>5 DEF WithoutLink, f
  <2>2. \A i \in Slots : nb[i] # to
    BY <1>3, <1>4, <1>5
  <2> QED
    BY <2>1, <2>2
<1>6. CASE hits # {}
  <2>1. hits \subseteq Nat
    BY <1>1, <1>2
  <2>2. hit \in hits
    <3> HIDE DEF hits
    <3> QED
      BY <1>6, <2>1, LeastNumber
  <2>3. WithoutLink(nb, to) = [nb EXCEPT ![hit] = nb[last], ![last] = free]
    BY <1>6 DEF WithoutLink, f
  <2> HIDE DEF hit
  <2>4. hit \in 0 .. f - 1 /\ nb[hit] = to
    BY <2>2
  <2>5. hit \in Slots /\ last \in Slots /\ hit <= last
    BY <1>1, <1>2, <2>4 DEF Slots
  <2>6. nb[last] # free
    BY <1>1, <1>2, <2>4
  <2>7. \A i \in Slots : last < i => nb[i] = free
    <3>1. \A i \in Slots : last < i => i \notin 0 .. f - 1
      BY <1>1, <1>2 DEF Slots
    <3> QED
      BY <1>4, <3>1
  <2> HIDE DEF last, hits
  <2>8. \A i \in Slots : WithoutLink(nb, to)[i] =
          IF i = last THEN free ELSE IF i = hit THEN nb[last] ELSE nb[i]
    BY <2>3, <2>5 DEF Neighbors
  <2>9. WithoutLink(nb, to) \in Neighbors
    BY <2>3, <2>5 DEF Neighbors
  <2> QED
    BY <2>4, <2>5, <2>6, <2>7, <2>8, <2>9
<1> QED
  BY <1>5, <1>6

\* The slots stay packed.
LEMMA WithoutLinkIsPacked ==
  ASSUME NEW nb \in Neighbors, Packed(nb), NEW to \in RouterId
  PROVE  WithoutLink(nb, to) \in Neighbors /\ Packed(WithoutLink(nb, to))
<1> DEFINE new == WithoutLink(nb, to)
<1>1. CASE new = nb
  BY <1>1
<1>2. CASE new # nb
  <2>1. PICK hit, last \in Slots :
          /\ hit <= last /\ nb[hit] = to /\ nb[last] # free
          /\ \A i \in Slots : last < i => nb[i] = free
          /\ \A i \in Slots : new[i] =
               IF i = last THEN free ELSE IF i = hit THEN nb[last] ELSE nb[i]
          /\ new \in Neighbors
    BY <1>2, WithoutLinkIs
  <2> HIDE DEF new
  <2>2. ASSUME NEW i \in Slots, NEW j \in Slots, i < j, new[i] = free
        PROVE  new[j] = free
    <3>1. i \in Int /\ j \in Int /\ hit \in Int /\ last \in Int
      BY DEF Slots
    <3>2. i = last \/ nb[i] = free
      BY <2>1, <2>2
    <3>3. nb[i] = free => ~ (i < last)
      BY <2>1 DEF Packed
    <3>4. last < j
      BY <2>2, <3>1, <3>2, <3>3
    <3>5. nb[j] = free /\ j # last /\ j # hit
      BY <2>1, <3>1, <3>4
    <3> QED
      BY <2>1, <3>5
  <2> QED
    BY <2>1, <2>2 DEF Packed, new
<1> QED
  BY <1>1, <1>2 DEF new

\* The routers when the one at hit is deleted.
LEMMA WithoutRouterIs ==
  ASSUME NEW rs \in Seq(Router), NEW hit \in DOMAIN rs, NEW n \in Nat, Len(rs) = n + 1
  PROVE  /\ WithoutRouter(rs, hit) \in Seq(Router)
         /\ Len(WithoutRouter(rs, hit)) = n /\ DOMAIN WithoutRouter(rs, hit) = 1 .. n
         /\ \A r \in 1 .. n : WithoutRouter(rs, hit)[r] =
              IF r # hit THEN rs[r]
              ELSE IF n = 1 THEN [rs[1] EXCEPT !.producerModel = null] ELSE rs[n + 1]
<1> DEFINE freed == [rs EXCEPT ![hit].producerModel = null]
           new   == WithoutRouter(rs, hit)
           gone  == [rs[hit] EXCEPT !.producerModel = null]
<1>1. /\ Len(rs) - 1 = n /\ DOMAIN rs = 1 .. n + 1
      /\ \A r \in 1 .. n + 1 : rs[r] \in Router
  OBVIOUS
<1>2. \A r \in 1 .. n + 1 : freed[r] = IF r = hit THEN gone ELSE rs[r]
  BY <1>1
<1>3. new = [r \in 1 .. n |-> IF r = hit /\ ~ (hit = 1 /\ n = 1) THEN freed[n + 1]
                              ELSE freed[r]]
  BY <1>1 DEF WithoutRouter
<1>4. gone \in Router
  <2>1. rs[hit] \in Router
    BY <1>1
  <2>2. null \in Nat \cup {null}
    OBVIOUS
  <2> QED
    BY <2>1, <2>2 DEF Router
<1> HIDE DEF freed
<1>5. ASSUME NEW r \in 1 .. n
      PROVE  new[r] = IF r # hit THEN rs[r]
                      ELSE IF n = 1 THEN [rs[1] EXCEPT !.producerModel = null] ELSE rs[n + 1]
  <2>1. r \in 1 .. n + 1 /\ n + 1 \in 1 .. n + 1 /\ r # n + 1 /\ (n = 1 => r = 1)
    OBVIOUS
  <2>2. new[r] = IF r = hit /\ ~ (hit = 1 /\ n = 1) THEN freed[n + 1] ELSE freed[r]
    BY <1>3
  <2> HIDE DEF new
  <2>3. CASE r # hit
    BY <1>2, <2>1, <2>2, <2>3
  <2>4. CASE r = hit /\ n = 1
    BY <1>2, <2>1, <2>2, <2>4
  <2>5. CASE r = hit /\ n # 1
    BY <1>2, <2>1, <2>2, <2>5
  <2> QED
    BY <2>3, <2>4, <2>5
<1>6. new \in [1 .. n -> Router]
  <2>1. ASSUME NEW r \in 1 .. n
        PROVE  new[r] \in Router
    <3>1. r \in 1 .. n + 1 /\ n + 1 \in 1 .. n + 1 /\ (n = 1 => r = 1)
      OBVIOUS
    <3>2. freed[r] \in Router /\ freed[n + 1] \in Router
      BY <1>1, <1>2, <1>4, <3>1
    <3> QED
      BY <1>3, <3>2
  <2>2. new = [r \in 1 .. n |-> new[r]]
    BY <1>3
  <2> HIDE DEF new
  <2> QED
    BY <2>1, <2>2
<1> HIDE DEF new
<1>7. new \in Seq(Router) /\ Len(new) = n /\ DOMAIN new = 1 .. n
  BY <1>6, LengthOf
<1> QED
  BY <1>5, <1>7 DEF new

\* The routers without their links to id.
Unlinked(rs, id) ==
    [r \in DOMAIN rs |-> [rs[r] EXCEPT !.neighbors = WithoutLink(@, id)]]

LEMMA UnlinkedIs ==
  ASSUME NEW rs, RegisterOK(rs), NEW id \in RouterId
  PROVE  /\ Unlinked(rs, id) \in Seq(Router)
         /\ Len(Unlinked(rs, id)) = Len(rs) /\ DOMAIN Unlinked(rs, id) = DOMAIN rs
         /\ \A r \in DOMAIN rs :
              /\ Unlinked(rs, id)[r].routerId = rs[r].routerId
              /\ Unlinked(rs, id)[r].flag = rs[r].flag
              /\ Unlinked(rs, id)[r].producerModel = rs[r].producerModel
              /\ Unlinked(rs, id)[r].neighbors = WithoutLink(rs[r].neighbors, id)
              /\ Packed(Unlinked(rs, id)[r].neighbors)
<1> DEFINE new == Unlinked(rs, id)
           n   == Len(rs)
<1>1. rs \in Seq(Router) /\ n \in Nat /\ DOMAIN rs = 1 .. n /\ \A r \in 1 .. n : rs[r] \in Router
  BY DEF RegisterOK
<1>2. ASSUME NEW r \in 1 .. n
      PROVE  /\ new[r] \in Router
             /\ new[r].routerId = rs[r].routerId
             /\ new[r].flag = rs[r].flag
             /\ new[r].producerModel = rs[r].producerModel
             /\ new[r].neighbors = WithoutLink(rs[r].neighbors, id)
             /\ Packed(new[r].neighbors)
  <2>1. rs[r] \in Router
    BY <1>1
  <2>2. new[r] = [rs[r] EXCEPT !.neighbors = WithoutLink(rs[r].neighbors, id)]
    BY <1>1 DEF Unlinked
  <2>3. rs[r].neighbors \in Neighbors
    BY <2>1 DEF Router, Neighbors
  <2>4. Packed(rs[r].neighbors)
    BY <1>1 DEF RegisterOK
  <2>5. /\ WithoutLink(rs[r].neighbors, id) \in Neighbors
        /\ Packed(WithoutLink(rs[r].neighbors, id))
    BY <2>3, <2>4, WithoutLinkIsPacked
  <2> HIDE DEF new
  <2> QED
    BY <2>1, <2>2, <2>5 DEF Router, Neighbors
<1>3. new \in [1 .. n -> Router]
  <2>1. new = [r \in 1 .. n |-> new[r]]
    BY <1>1 DEF Unlinked
  <2> HIDE DEF new
  <2> QED
    BY <1>2, <2>1
<1> HIDE DEF new, n
<1>4. new \in Seq(Router) /\ Len(new) = n /\ DOMAIN new = 1 .. n
  BY <1>1, <1>3, LengthOf
<1> QED
  BY <1>1, <1>2, <1>4 DEF new, n

\* The register without the router id.
Without(rs, id) == WithoutRouter(Unlinked(rs, id), FindRouterId(rs, id))

LEMMA DeletedIsOK ==
  ASSUME NEW rs, RegisterOK(rs), NEW id \in RouterId, HasRouter(rs, id), Len(rs) > 1
  PROVE  RegisterOK(Without(rs, id))
<1> DEFINE old == Unlinked(rs, id)
           hit == FindRouterId(rs, id)
           n   == Len(rs) - 1
           new == Without(rs, id)
<1>1. rs \in Seq(Router) /\ n \in Nat /\ Len(rs) = n + 1 /\ DOMAIN rs = 1 .. n + 1 /\ n >= 1
  BY DEF RegisterOK
<1>2. hit \in 1 .. n + 1
  BY <1>1, FindsRouterIn DEF RegisterOK
<1>3. /\ old \in Seq(Router) /\ Len(old) = n + 1 /\ DOMAIN old = 1 .. n + 1
      /\ \A r \in 1 .. n + 1 : /\ old[r].routerId = rs[r].routerId
                               /\ old[r].producerModel = rs[r].producerModel
                               /\ Packed(old[r].neighbors)
  BY <1>1, UnlinkedIs
<1> HIDE DEF hit, n, old
<1>4. /\ new \in Seq(Router) /\ Len(new) = n /\ DOMAIN new = 1 .. n
      /\ \A r \in 1 .. n : new[r] =
           IF r # hit THEN old[r]
           ELSE IF n = 1 THEN [old[1] EXCEPT !.producerModel = null] ELSE old[n + 1]
  <2>1. new = WithoutRouter(old, hit)
    BY DEF Without, old, hit
  <2>2. hit \in DOMAIN old
    BY <1>2, <1>3
  <2> HIDE DEF new
  <2>3. n \in Nat /\ Len(old) = n + 1 /\ old \in Seq(Router)
    BY <1>1, <1>3
  <2>4. /\ WithoutRouter(old, hit) \in Seq(Router)
        /\ Len(WithoutRouter(old, hit)) = n /\ DOMAIN WithoutRouter(old, hit) = 1 .. n
        /\ \A r \in 1 .. n : WithoutRouter(old, hit)[r] =
             IF r # hit THEN old[r]
             ELSE IF n = 1 THEN [old[1] EXCEPT !.producerModel = null] ELSE old[n + 1]
    BY <2>2, <2>3, WithoutRouterIs
  <2> QED
    BY <2>1, <2>4
<1> HIDE DEF new
<1>5. \A r \in 1 .. n + 1 : rs[r].producerModel # null
  <2>1. n + 1 # 1
    BY <1>1
  <2> QED
    BY <1>1, <2>1 DEF RegisterOK
<1>6. \A q, r \in 1 .. n + 1 : rs[q].routerId = rs[r].routerId => q = r
  BY <1>1 DEF RegisterOK, Unique
<1>7. /\ \A r \in 1 .. n : r \in 1 .. n + 1 /\ r # n + 1
      /\ n + 1 \in 1 .. n + 1
      /\ 1 \in 1 .. n + 1
      /\ n = 1 => \A r \in 1 .. n : r = 1
  BY <1>1
<1>8. CASE n = 1
  <2>1. /\ \A r \in 1 .. n : r = 1
        /\ new[1].neighbors = old[1].neighbors
    <3>1. 1 \in 1 .. n /\ old[1] \in Router
      <4>1. 1 \in 1 .. n
        BY <1>8
      <4>2. 1 \in DOMAIN old /\ old \in Seq(Router)
        BY <1>3, <1>7
      <4>3. old[1] \in Router
        BY <4>2
      <4> QED
        BY <4>1, <4>3
    <3>2. new[1] = old[1] \/ new[1] = [old[1] EXCEPT !.producerModel = null]
      BY <1>4, <1>8, <3>1
    <3>3. [old[1] EXCEPT !.producerModel = null].neighbors = old[1].neighbors
      BY <3>1 DEF Router
    <3> QED
      BY <1>7, <1>8, <3>2, <3>3
  <2>2. Unique(new)
    BY <1>4, <2>1 DEF Unique
  <2>3. \A r \in DOMAIN new : Packed(new[r].neighbors)
    BY <1>3, <1>4, <1>7, <2>1
  <2> QED
    BY <1>4, <1>8, <2>2, <2>3 DEF RegisterOK, new
<1>9. CASE n # 1
  <2>1. \A r \in 1 .. n : new[r] = IF r # hit THEN old[r] ELSE old[n + 1]
    BY <1>4, <1>9
  <2>2. Unique(new)
    BY <1>3, <1>4, <1>6, <1>7, <2>1 DEF Unique
  <2>3. \A r \in DOMAIN new : Packed(new[r].neighbors) /\ new[r].producerModel # null
    BY <1>3, <1>4, <1>5, <1>7, <2>1
  <2> QED
    BY <1>4, <2>2, <2>3 DEF RegisterOK, new
<1> QED
  BY <1>8, <1>9 DEF new

\* A register that was written whole is read back, but for the names' lengths.
LEMMA WrittenIsReadBack ==
  ASSUME NEW rs, RegisterOK(rs), Unwritable(rs) = {}
  PROVE  /\ Readable(Written(rs))
         /\ ReadFrom(Written(rs)) = [r \in DOMAIN rs |-> Cut(rs[r])]
<1> DEFINE file == Written(rs)
           n    == Len(rs)
<1>1. /\ rs \in Seq(Router) /\ n \in Nat /\ DOMAIN rs = 1 .. n
      /\ \A r \in 1 .. n : rs[r] \in Router
  BY DEF RegisterOK
<1>2. file = [n |-> n, records |-> [r \in DOMAIN rs |-> Record(rs[r])],
              links |-> LinksWritten(rs), ended |-> TRUE]
  BY DEF Written
<1> HIDE DEF file, n
<1>3. /\ file.n = n /\ file.ended = TRUE /\ file.links = LinksWritten(rs)
      /\ file.records = [r \in 1 .. n |-> Record(rs[r])]
  BY <1>1, <1>2
<1>4. Len(file.records) = n /\ DOMAIN file.records = 1 .. n
  <2>1. n \in 0 .. Len(rs)
    BY <1>1 DEF n
  <2> QED
    BY <1>1, <1>3, <2>1, RecordsAreOK DEF RegisterOK
<1>5. \A r \in 1 .. n : /\ file.records[r].routerId = rs[r].routerId
                        /\ file.records[r].flag = rs[r].flag
                        /\ file.records[r].charLen = CharLen(rs[r])
  BY <1>3 DEF Record
<1>6. /\ \A r \in 1 .. n : LinksRead(file.links, rs[r].routerId) = rs[r].neighbors
      /\ \A k \in DOMAIN file.links : HasRouter(rs, file.links[k][1]) /\ Fits(file.links, k)
  BY <1>1, <1>3, LinksAreReadBack DEF RegisterOK
<1>7. RecordsReadable(file)
  <2>1. ASSUME NEW r \in 1 .. n
        PROVE  CharLen(rs[r]) >= 2
    <3>1. Record(rs[r]) \in FileRecord
      BY <1>1, RecordIsOK
    <3>2. CharLen(rs[r]) \in Int
      BY <3>1 DEF Record, FileRecord, Byte
    <3>3. ~ (CharLen(rs[r]) <= 1)
      BY <1>1 DEF Unwritable
    <3> QED
      BY <3>2, <3>3
  <2> QED
    BY <1>3, <1>4, <1>5, <2>1 DEF RecordsReadable
<1>8. Readable(file)
  <2>1. \A id : HasRouter(rs, id) => HasRouter(file.records, id)
    BY <1>1, <1>4, <1>5 DEF HasRouter
  <2> QED
    BY <1>3, <1>6, <1>7, <2>1 DEF Readable
<1>9. ASSUME NEW r \in 1 .. n
      PROVE  [routerId |-> file.records[r].routerId, flag |-> file.records[r].flag,
              producerModel |-> file.records[r].charLen - 1,
              neighbors |-> LinksRead(file.links, file.records[r].routerId)] = Cut(rs[r])
  <2>1. rs[r] \in Router
    BY <1>1
  <2>2. Cut(rs[r]) = [routerId |-> rs[r].routerId, flag |-> rs[r].flag,
                      producerModel |-> CharLen(rs[r]) - 1, neighbors |-> rs[r].neighbors]
    BY <2>1 DEF Cut, Router
  <2> QED
    BY <1>5, <1>6, <2>2
<1>10. ReadFrom(file) = [r \in 1 .. n |-> Cut(rs[r])]
  BY <1>4, <1>9 DEF ReadFrom
<1> QED
  BY <1>1, <1>8, <1>10 DEF file

\* What is left of a register in a file, if it can be read, has all routers and
\* their links up to some link.
LEMMA BeginningIsReadBack ==
  ASSUME NEW rs, RegisterOK(rs),
         NEW f \in {Written(rs)} \cup Beginnings(Written(rs)), Readable(f)
  PROVE  LackLinksOnly(ReadFrom(f), rs)
<1> DEFINE n == Len(rs)
           links == LinksWritten(rs)
           recs == [r \in DOMAIN rs |-> Record(rs[r])]
<1>1. /\ rs \in Seq(Router) /\ n \in Nat /\ DOMAIN rs = 1 .. n
      /\ \A r \in 1 .. n : rs[r] \in Router
  BY DEF RegisterOK
<1>2. links \in Seq(Pairs)
  BY <1>1, LinksWrittenArePairs
<1>3. f.ended = TRUE
  BY DEF Readable
<1>4. Unwritable(rs) = {}
  <2>1. CASE Unwritable(rs) # {}
    <3>1. Written(rs).ended = FALSE
      BY <2>1 DEF Written, NoFile
    <3>2. f.ended = FALSE
      BY <3>1 DEF Beginnings, NoFile
    <3> QED
      BY <1>3, <3>2
  <2> QED
    BY <2>1
<1>5. Written(rs) = [n |-> n, records |-> recs, links |-> links, ended |-> TRUE]
  BY <1>4 DEF Written
<1> HIDE DEF links, recs
<1>6. PICK k \in 0 .. Len(links) : f.records = recs /\ f.links = SubSeq(links, 1, k)
  <2>1. CASE f = Written(rs)
    <3>1. Len(links) \in 0 .. Len(links) /\ SubSeq(links, 1, Len(links)) = links
      BY <1>2
    <3> QED
      BY <1>5, <2>1, <3>1
  <2>2. CASE f \in Beginnings(Written(rs))
    BY <1>3, <1>5, <2>2 DEF Beginnings, Prefixes, NoFile
  <2> QED
    BY <2>1, <2>2
<1>7. PICK q \in 1 .. n + 1, j \in 0 .. MAX_NEIGHBORS : LinkedUpTo(rs, f.links, q, j)
  BY <1>1, <1>6, LinksAreReadBack DEF RegisterOK, links
<1>8. DOMAIN f.records = 1 .. n
  BY <1>1, <1>6 DEF recs
<1>9. ASSUME NEW r \in 1 .. n
      PROVE  [routerId |-> f.records[r].routerId, flag |-> f.records[r].flag,
              producerModel |-> f.records[r].charLen - 1,
              neighbors |-> LinksRead(f.links, f.records[r].routerId)] = UpTo(rs, q, j)[r]
  <2> DEFINE nb == IF r < q THEN rs[r].neighbors
                   ELSE IF r = q THEN FirstOf(rs[r].neighbors, j) ELSE NoLinks
  <2>1. /\ f.records[r].routerId = rs[r].routerId /\ f.records[r].flag = rs[r].flag
        /\ f.records[r].charLen = CharLen(rs[r])
    BY <1>1, <1>6 DEF recs, Record
  <2>2. Cut(rs[r]) = [routerId |-> rs[r].routerId, flag |-> rs[r].flag,
                      producerModel |-> CharLen(rs[r]) - 1, neighbors |-> rs[r].neighbors]
    BY <1>1 DEF Cut, Router
  <2>3. UpTo(rs, q, j)[r] =
          [Cut(rs[r]) EXCEPT !.neighbors = IF r < q THEN @
                                           ELSE IF r = q THEN FirstOf(@, j) ELSE NoLinks]
    BY <1>1 DEF UpTo
  <2>4. UpTo(rs, q, j)[r] = [routerId |-> rs[r].routerId, flag |-> rs[r].flag,
                             producerModel |-> CharLen(rs[r]) - 1, neighbors |-> nb]
    BY <2>2, <2>3
  <2>5. LinksRead(f.links, rs[r].routerId) = nb
    BY <1>1, <1>7 DEF LinkedUpTo
  <2> QED
    BY <2>1, <2>4, <2>5
<1>10. ReadFrom(f) = [r \in 1 .. n |-> UpTo(rs, q, j)[r]]
  BY <1>8, <1>9 DEF ReadFrom
<1>11. UpTo(rs, q, j) = [r \in 1 .. n |-> UpTo(rs, q, j)[r]]
  BY <1>1 DEF UpTo
<1> QED
  BY <1>10, <1>11 DEF LackLinksOnly

-----------------------------------------------------------------------------
(***************************************************************************)
(* The invariant.  No run starts with an id twice in its register, because *)
(* no file has one: neither those that are given nor the stored one.  The  *)
(* commands move routers and links without leaving holes, and only         *)
(* delete_router of the first of two leaves a router without a name.  The  *)
(* array does not change during a search.                                  *)
(***************************************************************************)

Searching ==
    /\ result = "idle" => visited = {}
    /\ result # "idle" => state = "running"

MainTypeOK ==
    /\ state \in {"idle", "running", "succeeded", "unflushed", "failed", "crashed"}
    /\ command.routerId \in RouterId \cup {null}
    /\ unread \in BOOLEAN
    /\ commands \in 0 .. MaxCommands
    /\ runs \in 0 .. MaxRuns

\* The inductive invariant.
RegisterInv ==
    /\ SearchInv
    /\ MainTypeOK
    /\ RegisterOK(routers)
    /\ FileOK(storedFile)
    /\ Searching
    /\ SavedIsReadBack

\* No search is active.
IdleOK ==
    /\ RegisterOK(routers)
    /\ fromRouterId \in RouterId /\ toRouterId \in RouterId
    /\ visited = {} /\ stack = <<>> /\ result = "idle"

\* While no search is active, any register does.
LEMMA IdleSearchInv ==
  IdleOK => SearchInv
<1> SUFFICES ASSUME IdleOK PROVE SearchInv
  OBVIOUS
<1> USE DEF IdleOK
<1>1. routers \in Seq(Router) /\ UniqueIds
  BY DEF RegisterOK, Unique, UniqueIds
<1>2. \A r \in DOMAIN routers : routers[r] \in Router
  BY <1>1
<1>3. IsRegister(routers)
  <2>1. Len(routers) \in Nat /\ DOMAIN routers = 1 .. Len(routers)
    BY <1>1
  <2>2. \A r \in DOMAIN routers : /\ routers[r].routerId \in RouterId
                                  /\ routers[r].neighbors \in [Slots -> RouterId \cup {free}]
    BY <1>2 DEF Router
  <2> QED
    BY <2>1, <2>2 DEF IsRegister
<1>4. SearchTypeOK
  BY <1>3 DEF SearchTypeOK
<1>5. VisitedOK /\ Framed(stack, visited) /\ Simple(stack) /\ Stages /\ AnswerIsRight
  BY DEF VisitedOK, Framed, Simple, Stages, AnswerIsRight
<1> QED
  BY <1>1, <1>4, <1>5 DEF SearchInv

\* The array may change while no search is active.
LEMMA IdleKeepsSearchInv ==
  ASSUME SearchInv, Searching, result = "idle", UNCHANGED searchVars, RegisterOK(routers)'
  PROVE  SearchInv' /\ (Searching' <=> (result' = "idle" /\ visited' = {}))
<1>1. /\ fromRouterId' = fromRouterId /\ toRouterId' = toRouterId
      /\ visited' = visited /\ stack' = stack /\ result' = result
  BY DEF searchVars
<1>2. /\ fromRouterId \in RouterId /\ toRouterId \in RouterId
      /\ visited = {} /\ stack = <<>>
  BY DEF SearchInv, SearchTypeOK, Stages, Searching
<1>3. /\ fromRouterId' \in RouterId /\ toRouterId' \in RouterId
      /\ visited' = {} /\ stack' = <<>> /\ result' = "idle"
  BY <1>1, <1>2
<1>4. SearchInv'
  <2>1. IdleOK'
    BY <1>3 DEF IdleOK
  <2>2. IdleOK' => SearchInv'
    BY IdleSearchInv, PTL
  <2> QED
    BY <2>1, <2>2
<1> QED
  BY <1>3, <1>4 DEF Searching

\* A register without routers.
LEMMA EmptyIsOK == RegisterOK(<<>>)
BY DEF RegisterOK, Unique

\* Every file a run may be given.
LEMMA GivenIsOK ==
  ASSUME NEW rs \in Registers
  PROVE  FileOK(Written(rs))
<1>1. rs \in Seq(Router)
  BY FilesAssumption
<1>2. Unique(rs)
  BY RegistersAssumption DEF Unique
<1> QED
  BY <1>1, <1>2, WrittenIsOK

\* A command that leaves a register behind keeps the invariant.
LEMMA ChangesKeepInv ==
  ASSUME RegisterInv, NEW name, NEW id \in RouterId, Command(name, id),
         UNCHANGED <<state, searchVars>>, RegisterOK(routers)'
  PROVE  RegisterInv'
<1>1. /\ state = "running" /\ state' = state /\ result = "idle"
      /\ commands < MaxCommands /\ commands' = commands + 1
      /\ command' = [name |-> name, routerId |-> id]
      /\ unread' = unread /\ storedFile' = storedFile /\ runs' = runs
  BY DEF Command
<1>2. SearchInv' /\ Searching'
  <2>1. result' = "idle" /\ visited' = {}
    BY <1>1 DEF RegisterInv, Searching, searchVars
  <2> QED
    BY <1>1, <2>1, IdleKeepsSearchInv DEF RegisterInv
<1>3. MainTypeOK'
  <2>1. command'.routerId \in RouterId /\ commands' \in 0 .. MaxCommands
    BY <1>1, BoundsAssumption DEF RegisterInv, MainTypeOK
  <2> QED
    BY <1>1, <2>1 DEF RegisterInv, MainTypeOK
<1>4. FileOK(storedFile)'
  BY <1>1 DEF RegisterInv, FileOK
<1>5. SavedIsReadBack'
  BY <1>1 DEF SavedIsReadBack
<1> QED
  BY <1>2, <1>3, <1>4, <1>5 DEF RegisterInv

\* A command that ends the run keeps the invariant.
LEMMA FailureKeepsInv ==
  ASSUME RegisterInv, NEW name, NEW id \in RouterId, Command(name, id),
         state' \in {"failed", "crashed"}, UNCHANGED <<routers, searchVars>>
  PROVE  RegisterInv'
<1>1. /\ result = "idle" /\ routers' = routers
      /\ commands < MaxCommands /\ commands' = commands + 1
      /\ command' = [name |-> name, routerId |-> id]
      /\ unread' = unread /\ storedFile' = storedFile /\ runs' = runs
  BY DEF Command
<1>2. RegisterOK(routers)'
  BY <1>1 DEF RegisterInv, RegisterOK
<1>3. SearchInv' /\ Searching'
  <2>1. result' = "idle" /\ visited' = {}
    BY <1>1 DEF RegisterInv, Searching, searchVars
  <2> QED
    BY <1>1, <1>2, <2>1, IdleKeepsSearchInv DEF RegisterInv
<1>4. MainTypeOK'
  <2>1. command'.routerId \in RouterId /\ commands' \in 0 .. MaxCommands
    BY <1>1, BoundsAssumption DEF RegisterInv, MainTypeOK
  <2> QED
    BY <1>1, <2>1 DEF RegisterInv, MainTypeOK
<1>5. FileOK(storedFile)'
  BY <1>1 DEF RegisterInv, FileOK
<1>6. SavedIsReadBack'
  BY DEF SavedIsReadBack
<1> QED
  BY <1>2, <1>3, <1>4, <1>5, <1>6 DEF RegisterInv

\* One router is replaced by one with the same id.
LEMMA UpdateKeepsInv ==
  ASSUME RegisterInv, NEW name, NEW id \in RouterId, Command(name, id),
         UNCHANGED <<state, searchVars>>,
         NEW r \in DOMAIN routers, NEW rt \in Router, rt.routerId = routers[r].routerId,
         Packed(rt.neighbors), rt.producerModel = null => routers[r].producerModel = null,
         routers' = [routers EXCEPT ![r] = rt]
  PROVE  RegisterInv'
<1>1. RegisterOK([routers EXCEPT ![r] = rt])
  BY UpdatedIsOK DEF RegisterInv
<1>2. RegisterOK(routers')
  BY <1>1
<1> QED
  BY <1>2, ChangesKeepInv

\* The router of an id is one of the register.
LEMMA FoundIsRouter ==
  ASSUME RegisterInv, NEW id, HasRouter(routers, id)
  PROVE  LET r == FindRouterId(routers, id)
         IN  /\ r \in DOMAIN routers /\ routers[r] \in Router
             /\ routers[r].routerId = id
             /\ routers[r].neighbors \in Neighbors /\ Packed(routers[r].neighbors)
<1> DEFINE r == FindRouterId(routers, id)
<1>1. routers \in Seq(Router) /\ Unique(routers)
  BY DEF RegisterInv, RegisterOK
<1>2. r \in DOMAIN routers /\ routers[r].routerId = id
  BY <1>1, FindsRouterIn
<1> HIDE DEF r
<1>3. routers[r] \in Router
  BY <1>1, <1>2
<1>4. routers[r].neighbors \in Neighbors
  BY <1>3 DEF Router, Neighbors
<1>5. Packed(routers[r].neighbors)
  BY <1>2 DEF RegisterInv, RegisterOK
<1> QED
  BY <1>2, <1>3, <1>4, <1>5 DEF r

\* setFlag writes a byte, from which print takes the value that was set and the
\* other properties as they were.
LEMMA FlagIsExact ==
  ASSUME NEW c \in Byte, NEW flag, NEW value, Accepts(flag, value)
  PROVE  /\ WithFlag(c, flag, value) \in Byte
         /\ Printed(WithFlag(c, flag, value)) = [Printed(c) EXCEPT ![flag] = value]
<1> DEFINE d == WithFlag(c, flag, value)
<1>1. c \in 0 .. 255 /\ 2^0 = 1 /\ 2^1 = 2 /\ 2^2 = 4 /\ 2^3 = 8
  BY DEF Byte
<1>2. /\ Bit(c, 0) = (c \div 1) % 2
      /\ Bit(c, 1) = (c \div 2) % 2
      /\ Bit(c, 2) = (c \div 4) % 2
  BY <1>1 DEF Bit
<1>3. CASE flag = 0 /\ value \in 0 .. 1
  <2>1. d = c + (value - ((c \div 1) % 2)) * 1
    BY <1>1, <1>2, <1>3 DEF WithFlag
  <2> HIDE DEF d
  <2>2. /\ d \in 0 .. 255 /\ (d \div 1) % 2 = value /\ (d \div 2) % 2 = (c \div 2) % 2
        /\ (d \div 4) % 2 = (c \div 4) % 2 /\ d \div 16 = c \div 16
    BY <1>1, <1>3, <2>1
  <2>3. /\ Bit(d, 0) = value /\ Bit(d, 1) = Bit(c, 1) /\ Bit(d, 2) = Bit(c, 2)
        /\ Reversed(d \div 16) = Reversed(c \div 16)
    BY <1>1, <2>2 DEF Bit
  <2>4. \A k \in {0, 1, 2, 4} :
          (IF k = 4 THEN Reversed(d \div 16) ELSE Bit(d, k)) =
            IF k = flag THEN value
            ELSE IF k = 4 THEN Reversed(c \div 16) ELSE Bit(c, k)
    BY <1>3, <2>3
  <2>5. Printed(d) = [Printed(c) EXCEPT ![flag] = value]
    BY <2>4 DEF Printed
  <2> QED
    BY <2>2, <2>5 DEF Byte, d
<1>4. CASE flag = 1 /\ value \in 0 .. 1
  <2>1. d = c + (value - ((c \div 2) % 2)) * 2
    BY <1>1, <1>2, <1>4 DEF WithFlag
  <2> HIDE DEF d
  <2>2. /\ d \in 0 .. 255 /\ (d \div 1) % 2 = (c \div 1) % 2 /\ (d \div 2) % 2 = value
        /\ (d \div 4) % 2 = (c \div 4) % 2 /\ d \div 16 = c \div 16
    BY <1>1, <1>4, <2>1
  <2>3. /\ Bit(d, 0) = Bit(c, 0) /\ Bit(d, 1) = value /\ Bit(d, 2) = Bit(c, 2)
        /\ Reversed(d \div 16) = Reversed(c \div 16)
    BY <1>1, <2>2 DEF Bit
  <2>4. \A k \in {0, 1, 2, 4} :
          (IF k = 4 THEN Reversed(d \div 16) ELSE Bit(d, k)) =
            IF k = flag THEN value
            ELSE IF k = 4 THEN Reversed(c \div 16) ELSE Bit(c, k)
    BY <1>4, <2>3
  <2>5. Printed(d) = [Printed(c) EXCEPT ![flag] = value]
    BY <2>4 DEF Printed
  <2> QED
    BY <2>2, <2>5 DEF Byte, d
<1>5. CASE flag = 2 /\ value \in 0 .. 1
  <2>1. d = c + (value - ((c \div 4) % 2)) * 4
    BY <1>1, <1>2, <1>5 DEF WithFlag
  <2> HIDE DEF d
  <2>2. /\ d \in 0 .. 255 /\ (d \div 1) % 2 = (c \div 1) % 2
        /\ (d \div 2) % 2 = (c \div 2) % 2
        /\ (d \div 4) % 2 = value /\ d \div 16 = c \div 16
    BY <1>1, <1>5, <2>1
  <2>3. /\ Bit(d, 0) = Bit(c, 0) /\ Bit(d, 1) = Bit(c, 1) /\ Bit(d, 2) = value
        /\ Reversed(d \div 16) = Reversed(c \div 16)
    BY <1>1, <2>2 DEF Bit
  <2>4. \A k \in {0, 1, 2, 4} :
          (IF k = 4 THEN Reversed(d \div 16) ELSE Bit(d, k)) =
            IF k = flag THEN value
            ELSE IF k = 4 THEN Reversed(c \div 16) ELSE Bit(c, k)
    BY <1>5, <2>3
  <2>5. Printed(d) = [Printed(c) EXCEPT ![flag] = value]
    BY <2>4 DEF Printed
  <2> QED
    BY <2>2, <2>5 DEF Byte, d
<1>6. CASE flag = 4 /\ value \in 0 .. 15
  <2> DEFINE v == Reversed(value)
  <2>1. /\ v = 8 * ((value \div 1) % 2) + 4 * ((value \div 2) % 2)
                 + 2 * ((value \div 4) % 2) + ((value \div 8) % 2)
        /\ Reversed(v) = 8 * ((v \div 1) % 2) + 4 * ((v \div 2) % 2)
                 + 2 * ((v \div 4) % 2) + ((v \div 8) % 2)
    BY <1>1 DEF Reversed, Bit
  <2> HIDE DEF v
  <2>2. v \in 0 .. 15
    BY <1>6, <2>1
  <2>3. Reversed(v) = value
    BY <1>6, <2>1
  <2>4. d = (c % 16) + 16 * v
    BY <1>6 DEF WithFlag, v
  <2> HIDE DEF d
  <2>5. /\ d \in 0 .. 255 /\ (d \div 1) % 2 = (c \div 1) % 2
        /\ (d \div 2) % 2 = (c \div 2) % 2
        /\ (d \div 4) % 2 = (c \div 4) % 2 /\ d \div 16 = v
    BY <1>1, <2>2, <2>4
  <2>6. /\ Bit(d, 0) = Bit(c, 0) /\ Bit(d, 1) = Bit(c, 1) /\ Bit(d, 2) = Bit(c, 2)
        /\ Reversed(d \div 16) = value
    BY <1>1, <2>3, <2>5 DEF Bit
  <2> QED
    BY <1>6, <2>5, <2>6 DEF Printed, Byte, d
<1> QED
  BY <1>3, <1>4, <1>5, <1>6 DEF Accepts

-----------------------------------------------------------------------------
(***************************************************************************)
(* The steps of a run.                                                     *)
(***************************************************************************)

LEMMA PrintRouterKeepsInv ==
  ASSUME RegisterInv, NEW id \in RouterId, PrintRouter(id)
  PROVE  RegisterInv'
<1>1. Command("print", id)
  BY DEF PrintRouter
<1>2. CASE Changes(routers)
  <2>1. RegisterOK(routers)'
    BY <1>2 DEF Changes, RegisterInv, RegisterOK
  <2> QED
    BY <1>1, <1>2, <2>1, ChangesKeepInv DEF Changes
<1>3. CASE Fails
  BY <1>1, <1>3, FailureKeepsInv DEF Fails
<1> QED
  BY <1>2, <1>3 DEF PrintRouter

LEMMA SetFlagKeepsInv ==
  ASSUME RegisterInv, NEW id \in RouterId, NEW flag, NEW value, SetFlag(id, flag, value)
  PROVE  RegisterInv'
<1>1. Command("set_flag", id)
  BY DEF SetFlag
<1> DEFINE r  == FindRouterId(routers, id)
           rt == [routers[r] EXCEPT !.flag = WithFlag(routers[r].flag, flag, value)]
<1>2. CASE /\ HasRouter(routers, id) /\ Accepts(flag, value)
           /\ Changes([routers EXCEPT ![r].flag = WithFlag(@, flag, value)])
  <2>1. /\ r \in DOMAIN routers /\ routers[r] \in Router
        /\ Packed(routers[r].neighbors)
    BY <1>2, FoundIsRouter
  <2>2. WithFlag(routers[r].flag, flag, value) \in Byte
    <3>1. routers[r].flag \in Byte
      BY <2>1 DEF Router
    <3> QED
      BY <1>2, <3>1, FlagIsExact
  <2>3. /\ rt \in Router /\ rt.routerId = routers[r].routerId
        /\ rt.neighbors = routers[r].neighbors
        /\ rt.producerModel = routers[r].producerModel
    <3> HIDE DEF r
    <3> QED
      BY <2>1, <2>2 DEF Router
  <2>4. routers' = [routers EXCEPT ![r] = rt] /\ UNCHANGED <<state, searchVars>>
    BY <1>2 DEF Changes
  <2> HIDE DEF r, rt
  <2> QED
    BY <1>1, <2>1, <2>3, <2>4, UpdateKeepsInv
<1>3. CASE Fails
  BY <1>1, <1>3, FailureKeepsInv DEF Fails
<1> QED
  BY <1>2, <1>3 DEF SetFlag

LEMMA SetModelKeepsInv ==
  ASSUME RegisterInv, NEW id \in RouterId, NEW name \in Names, SetModel(id, name)
  PROVE  RegisterInv'
<1>1. Command("set_model", id)
  BY DEF SetModel
<1> DEFINE r  == FindRouterId(routers, id)
           rt == [routers[r] EXCEPT !.producerModel = name]
<1>2. CASE HasRouter(routers, id) /\ Changes([routers EXCEPT ![r].producerModel = name])
  <2>1. /\ r \in DOMAIN routers /\ routers[r] \in Router
        /\ Packed(routers[r].neighbors)
    BY <1>2, FoundIsRouter
  <2>2. name \in Nat /\ name # null
    BY BoundsAssumption DEF null
  <2>3. /\ rt \in Router /\ rt.routerId = routers[r].routerId
        /\ rt.neighbors = routers[r].neighbors /\ rt.producerModel # null
    <3> HIDE DEF r
    <3> QED
      BY <2>1, <2>2 DEF Router
  <2>4. routers' = [routers EXCEPT ![r] = rt] /\ UNCHANGED <<state, searchVars>>
    BY <1>2 DEF Changes
  <2> HIDE DEF r, rt
  <2> QED
    BY <1>1, <2>1, <2>3, <2>4, UpdateKeepsInv
<1>3. CASE state' \in {"failed", "crashed"} /\ UNCHANGED <<routers, searchVars>>
  BY <1>1, <1>3, FailureKeepsInv
<1> QED
  BY <1>2, <1>3 DEF SetModel, Fails

LEMMA AddLinkKeepsInv ==
  ASSUME RegisterInv, NEW id \in RouterId, NEW to \in RouterId, AddLink(id, to)
  PROVE  RegisterInv'
<1>1. Command("add_link", id)
  BY DEF AddLink
<1> DEFINE r  == FindRouterId(routers, id)
           rt == [routers[r] EXCEPT !.neighbors = WithLink(routers[r].neighbors, to)]
<1>2. CASE HasRouter(routers, id) /\ Changes([routers EXCEPT ![r].neighbors = WithLink(@, to)])
  <2>1. /\ r \in DOMAIN routers /\ routers[r] \in Router
        /\ routers[r].neighbors \in Neighbors /\ Packed(routers[r].neighbors)
    BY <1>2, FoundIsRouter
  <2>2. /\ WithLink(routers[r].neighbors, to) \in Neighbors
        /\ Packed(WithLink(routers[r].neighbors, to))
    BY <2>1, WithLinkIsPacked
  <2>3. /\ rt \in Router /\ rt.routerId = routers[r].routerId
        /\ rt.neighbors = WithLink(routers[r].neighbors, to)
        /\ rt.producerModel = routers[r].producerModel
    <3> HIDE DEF r
    <3> QED
      BY <2>1, <2>2 DEF Router, Neighbors
  <2>4. routers' = [routers EXCEPT ![r] = rt] /\ UNCHANGED <<state, searchVars>>
    BY <1>2 DEF Changes
  <2> HIDE DEF r, rt
  <2>5. Packed(rt.neighbors)
    BY <2>2, <2>3
  <2> QED
    BY <1>1, <2>1, <2>3, <2>4, <2>5, UpdateKeepsInv
<1>3. CASE Fails
  BY <1>1, <1>3, FailureKeepsInv DEF Fails
<1> QED
  BY <1>2, <1>3 DEF AddLink

LEMMA DeleteRouterKeepsInv ==
  ASSUME RegisterInv, NEW id \in RouterId, DeleteRouter(id)
  PROVE  RegisterInv'
<1>1. Command("delete_router", id)
  BY DEF DeleteRouter
<1>2. CASE /\ HasRouter(routers, id) /\ Len(routers) > 1
           /\ Changes(Without(routers, id))
  <2>1. RegisterOK(Without(routers, id))
    BY <1>2, DeletedIsOK DEF RegisterInv
  <2>2. RegisterOK(routers')
    BY <1>2, <2>1 DEF Changes
  <2> QED
    BY <1>1, <1>2, <2>2, ChangesKeepInv DEF Changes
<1>3. CASE state' \in {"failed", "crashed"} /\ UNCHANGED <<routers, searchVars>>
  BY <1>1, <1>3, FailureKeepsInv
<1> QED
  BY <1>2, <1>3 DEF DeleteRouter, Fails, Without, Unlinked

\* What does not touch the register, the files or the counters.
LEMMA RestKeepsInv ==
  ASSUME RegisterInv, SearchInv', Searching', state' \in {"running", "failed"},
         command'.routerId \in RouterId \cup {null}, commands' \in 0 .. MaxCommands,
         unread' \in BOOLEAN, UNCHANGED <<routers, storedFile, runs>>
  PROVE  RegisterInv'
<1>1. RegisterOK(routers)' /\ FileOK(storedFile)'
  BY DEF RegisterInv, RegisterOK, FileOK
<1>2. MainTypeOK'
  BY DEF RegisterInv, MainTypeOK
<1>3. SavedIsReadBack'
  BY DEF SavedIsReadBack
<1> QED
  BY <1>1, <1>2, <1>3 DEF RegisterInv

LEMMA ExistRouteKeepsInv ==
  ASSUME RegisterInv, NEW from \in RouterId, NEW to \in RouterId, ExistRoute(from, to)
  PROVE  RegisterInv'
<1>1. /\ state' = "running" /\ routers' = routers
      /\ fromRouterId' \in RouterId /\ toRouterId' \in RouterId
      /\ visited' = {} /\ stack' = <<>> /\ result' = "called"
      /\ unread' = unread /\ storedFile' = storedFile /\ runs' = runs
      /\ command'.routerId \in RouterId
      /\ commands < MaxCommands /\ commands' = commands + 1
  BY DEF ExistRoute, Command
<1>2. IsRegister(routers)' /\ UniqueIds'
  BY <1>1 DEF RegisterInv, SearchInv, SearchTypeOK, UniqueIds
<1>3. SearchTypeOK'
  BY <1>1, <1>2 DEF SearchTypeOK
<1>4. VisitedOK' /\ Framed(stack, visited)' /\ Simple(stack)' /\ Stages' /\ AnswerIsRight'
  BY <1>1 DEF VisitedOK, Framed, Simple, Stages, AnswerIsRight
<1>5. SearchInv' /\ Searching'
  BY <1>1, <1>2, <1>3, <1>4 DEF SearchInv, Searching
<1>6. unread' \in BOOLEAN /\ commands' \in 0 .. MaxCommands
  BY <1>1, BoundsAssumption DEF RegisterInv, MainTypeOK
<1> QED
  BY <1>1, <1>5, <1>6, RestKeepsInv

LEMMA SearchKeepsInv ==
  ASSUME RegisterInv, Search
  PROVE  RegisterInv'
<1>1. SearchInv /\ SearchNext
  BY DEF RegisterInv, Search, SearchNext
<1>2. SearchInv'
  BY <1>1, StepKeepsInv
<1>3. result # "idle" /\ result' # "idle"
  BY DEF Search, SearchStep, Call, NextNeighbor, Return, DFS, EndsWith
<1>4. state' = "running"
  BY <1>3 DEF RegisterInv, Searching, Search, mainVars
<1>5. Searching'
  BY <1>3, <1>4 DEF Searching
<1>6. UNCHANGED <<routers, command, unread, storedFile, commands, runs>>
  BY DEF Search, mainVars
<1> QED
  BY <1>2, <1>4, <1>5, <1>6, RestKeepsInv DEF RegisterInv, MainTypeOK

LEMMA RouteReportedKeepsInv ==
  ASSUME RegisterInv, RouteReported
  PROVE  RegisterInv'
<1>1. /\ visited' = {} /\ stack' = <<>> /\ result' = "idle"
      /\ fromRouterId' \in RouterId /\ toRouterId' \in RouterId
  BY BoundsAssumption DEF RouteReported, NoSearch
<1>2. state' \in {"running", "failed"}
  BY DEF RouteReported
<1>3. UNCHANGED <<routers, command, unread, storedFile, commands, runs>>
  BY DEF RouteReported
<1>4. SearchInv'
  <2>1. RegisterOK(routers)'
    BY <1>3 DEF RegisterInv, RegisterOK
  <2>2. IdleOK'
    BY <1>1, <2>1 DEF IdleOK
  <2>3. IdleOK' => SearchInv'
    BY IdleSearchInv, PTL
  <2> QED
    BY <2>2, <2>3
<1>5. Searching'
  BY <1>1 DEF Searching
<1> QED
  BY <1>2, <1>3, <1>4, <1>5, RestKeepsInv DEF RegisterInv, MainTypeOK

LEMMA LastLineKeepsInv ==
  ASSUME RegisterInv, LastLineUnread
  PROVE  RegisterInv'
<1>1. /\ state = "running" /\ state' = "running" /\ result = "idle" /\ unread' = TRUE
      /\ UNCHANGED <<routers, searchVars, command, storedFile, commands, runs>>
  BY DEF LastLineUnread
<1>2. RegisterOK(routers)'
  BY <1>1 DEF RegisterInv, RegisterOK
<1>3. SearchInv' /\ Searching'
  <2>1. result' = "idle" /\ visited' = {}
    BY <1>1 DEF RegisterInv, Searching, searchVars
  <2> QED
    BY <1>1, <1>2, <2>1, IdleKeepsSearchInv DEF RegisterInv
<1> QED
  BY <1>1, <1>3, RestKeepsInv DEF RegisterInv, MainTypeOK

LEMMA StartKeepsInv ==
  ASSUME RegisterInv, Start
  PROVE  RegisterInv'
<1>1. /\ state # "running" /\ runs < MaxRuns /\ runs' = runs + 1
      /\ command' = NoCommand /\ unread' = FALSE
      /\ UNCHANGED <<searchVars, storedFile, commands>>
  BY DEF Start
<1>2. PICK file \in {Written(rs) : rs \in Registers} \cup {storedFile} :
         \/ Readable(file) /\ state' = "running" /\ routers' = ReadFrom(file)
         \/ ~Readable(file) /\ state' \in EndOfRead(file) /\ routers' = <<>>
  BY DEF Start
<1>3. FileOK(file)
  BY GivenIsOK DEF RegisterInv
<1>4. state' \in {"running", "failed", "crashed"}
  BY <1>2 DEF EndOfRead
<1>5. RegisterOK(routers')
  BY <1>2, <1>3, ReadIsOK, EmptyIsOK
<1>6. SearchInv' /\ Searching'
  <2>1. result = "idle"
    BY <1>1 DEF RegisterInv, Searching
  <2>2. result' = "idle" /\ visited' = {}
    BY <1>1, <2>1 DEF RegisterInv, Searching, searchVars
  <2> QED
    BY <1>1, <1>5, <2>1, <2>2, IdleKeepsSearchInv DEF RegisterInv
<1>7. MainTypeOK'
  <2>1. runs' \in 0 .. MaxRuns /\ command'.routerId = null
    BY <1>1, BoundsAssumption DEF RegisterInv, MainTypeOK, NoCommand
  <2> QED
    BY <1>1, <1>4, <2>1 DEF RegisterInv, MainTypeOK
<1>8. FileOK(storedFile)' /\ SavedIsReadBack'
  BY <1>1, <1>4 DEF RegisterInv, FileOK, SavedIsReadBack
<1> QED
  BY <1>5, <1>6, <1>7, <1>8 DEF RegisterInv

LEMMA StoreKeepsInv ==
  ASSUME RegisterInv, Store
  PROVE  RegisterInv'
<1>1. /\ result = "idle"
      /\ command' = NoCommand /\ unread' = FALSE
      /\ UNCHANGED <<routers, searchVars, commands, runs>>
      /\ storedFile' \in {storedFile, Written(routers)} \cup Beginnings(Written(routers))
      /\ state' \in EndOfStore \cup {"unflushed", "failed", "crashed"}
  BY DEF Store
<1>2. state' \in {"succeeded", "unflushed", "failed", "crashed"}
  BY <1>1 DEF EndOfStore
<1>3. RegisterOK(routers)'
  BY <1>1 DEF RegisterInv, RegisterOK
<1>4. SearchInv' /\ Searching'
  <2>1. result' = "idle" /\ visited' = {}
    BY <1>1 DEF RegisterInv, Searching, searchVars
  <2> QED
    BY <1>1, <1>3, <2>1, IdleKeepsSearchInv DEF RegisterInv
<1>5. MainTypeOK'
  BY <1>1, <1>2 DEF RegisterInv, MainTypeOK, NoCommand
<1>6. FileOK(storedFile)'
  <2>1. FileOK(Written(routers))
    BY WrittenIsOK DEF RegisterInv, RegisterOK
  <2>2. \A file \in Beginnings(Written(routers)) : FileOK(file)
    BY <2>1, BeginningIsOK
  <2>3. FileOK(storedFile')
    BY <1>1, <2>1, <2>2 DEF RegisterInv
  <2> QED
    BY <2>3
<1>7. SavedIsReadBack'
  <2>1. SUFFICES ASSUME state' = "succeeded"
                 PROVE  /\ Readable(storedFile')
                        /\ ReadFrom(storedFile') = [r \in DOMAIN routers |-> Cut(routers[r])]
    BY <1>1 DEF SavedIsReadBack
  <2>2. "succeeded" \in EndOfStore => Unwritable(routers) = {}
    BY DEF EndOfStore
  <2>3. storedFile' = Written(routers) /\ Unwritable(routers) = {}
    BY <2>1, <2>2 DEF Store
  <2>4. /\ Readable(Written(routers))
        /\ ReadFrom(Written(routers)) = [r \in DOMAIN routers |-> Cut(routers[r])]
    BY <2>3, WrittenIsReadBack DEF RegisterInv
  <2> QED
    BY <2>3, <2>4
<1> QED
  BY <1>3, <1>4, <1>5, <1>6, <1>7 DEF RegisterInv

LEMMA StutterKeepsInv ==
  ASSUME RegisterInv, UNCHANGED allVars
  PROVE  RegisterInv'
<1>1. UNCHANGED <<routers, searchVars, state, command, unread, storedFile, commands, runs>>
  BY DEF allVars, mainVars
<1>2. SearchInv'
  BY <1>1, StepKeepsInv DEF RegisterInv
<1>3. /\ RegisterOK(routers)' /\ FileOK(storedFile)' /\ MainTypeOK'
      /\ SavedIsReadBack'
  BY <1>1 DEF RegisterInv, RegisterOK, FileOK, MainTypeOK, SavedIsReadBack
<1>4. Searching'
  BY <1>1 DEF RegisterInv, Searching, searchVars
<1> QED
  BY <1>2, <1>3, <1>4 DEF RegisterInv

LEMMA InitHasInv == Init => RegisterInv
<1> SUFFICES ASSUME Init PROVE RegisterInv
  OBVIOUS
<1>1. IdleOK
  BY BoundsAssumption, EmptyIsOK DEF Init, NoSearch, IdleOK
<1>2. MainTypeOK
  <2>1. command.routerId = null
    BY DEF Init, NoCommand
  <2>2. commands = 0 /\ runs = 0 /\ state = "idle" /\ unread = FALSE
    BY DEF Init
  <2>3. commands \in 0 .. MaxCommands /\ runs \in 0 .. MaxRuns
    BY <2>2, BoundsAssumption
  <2> QED
    BY <2>1, <2>2, <2>3 DEF MainTypeOK
<1>3. FileOK(storedFile)
  BY DEF Init, NoFile, FileOK, Unique
<1>4. Searching /\ SavedIsReadBack
  BY DEF Init, NoSearch, Searching, SavedIsReadBack
<1> QED
  BY <1>1, <1>2, <1>3, <1>4, IdleSearchInv DEF IdleOK, RegisterInv

LEMMA NextKeepsRegisterInv == RegisterInv /\ [Next]_allVars => RegisterInv'
<1> SUFFICES ASSUME RegisterInv, [Next]_allVars PROVE RegisterInv'
  OBVIOUS
<1>1. CASE Start
  BY <1>1, StartKeepsInv
<1>2. ASSUME NEW id \in RouterId, PrintRouter(id)
      PROVE  RegisterInv'
  BY <1>2, PrintRouterKeepsInv
<1>3. ASSUME NEW id \in RouterId, NEW arg \in FlagArgs, SetFlag(id, arg[1], arg[2])
      PROVE  RegisterInv'
  BY <1>3, SetFlagKeepsInv
<1>4. ASSUME NEW id \in RouterId, NEW name \in Names, SetModel(id, name)
      PROVE  RegisterInv'
  BY <1>4, SetModelKeepsInv
<1>5. ASSUME NEW id \in RouterId, NEW to \in RouterId, AddLink(id, to)
      PROVE  RegisterInv'
  BY <1>5, AddLinkKeepsInv
<1>6. ASSUME NEW id \in RouterId, NEW to \in RouterId, ExistRoute(id, to)
      PROVE  RegisterInv'
  BY <1>6, ExistRouteKeepsInv
<1>7. ASSUME NEW id \in RouterId, DeleteRouter(id)
      PROVE  RegisterInv'
  BY <1>7, DeleteRouterKeepsInv
<1>8. CASE Search
  BY <1>8, SearchKeepsInv
<1>9. CASE RouteReported
  BY <1>9, RouteReportedKeepsInv
<1>10. CASE LastLineUnread
  BY <1>10, LastLineKeepsInv
<1>11. CASE Store
  BY <1>11, StoreKeepsInv
<1>12. CASE UNCHANGED allVars
  BY <1>12, StutterKeepsInv
<1> QED
  BY <1>1, <1>2, <1>3, <1>4, <1>5, <1>6, <1>7, <1>8, <1>9, <1>10, <1>11, <1>12 DEF Next

-----------------------------------------------------------------------------
(***************************************************************************)
(* What delete_router does to the links.                                   *)
(***************************************************************************)

SlotsTo(nb, to) == {i \in Slots : nb[i] = to}

LEMMA SlotsToIsFinite ==
  ASSUME NEW nb, NEW to
  PROVE  IsFiniteSet(SlotsTo(nb, to)) /\ Cardinality(SlotsTo(nb, to)) \in Nat
<1>1. IsFiniteSet(Slots)
  <2>1. 0 \in Int /\ MAX_NEIGHBORS - 1 \in Int
    BY SlotsAssumption
  <2> QED
    BY <2>1, FS_Interval DEF Slots
<1>2. SlotsTo(nb, to) \subseteq Slots
  BY DEF SlotsTo
<1>3. IsFiniteSet(SlotsTo(nb, to))
  BY <1>1, <1>2, FS_Subset
<1> QED
  BY <1>3, FS_CardinalityType

\* One of the links to id is gone, and the other links are all there.
LEMMA LinksOfDeleted ==
  ASSUME NEW nb \in Neighbors, Packed(nb), NEW id \in RouterId, NEW to \in RouterId
  PROVE  Cardinality(SlotsTo(WithoutLink(nb, id), to)) =
           Cardinality(SlotsTo(nb, to))
             - (IF to = id /\ Cardinality(SlotsTo(nb, to)) > 0 THEN 1 ELSE 0)
<1> DEFINE old == SlotsTo(nb, to)
           new == SlotsTo(WithoutLink(nb, id), to)
<1>1. IsFiniteSet(old) /\ Cardinality(old) \in Nat
  BY SlotsToIsFinite
<1>2. to # free
  BY RouterIdAssumption DEF free
<1>3. CASE WithoutLink(nb, id) = nb /\ \A i \in Slots : nb[i] # id
  <2>1. new = old
    BY <1>3
  <2>2. to = id => Cardinality(old) = 0
    <3>1. to = id => old = {}
      BY <1>3 DEF SlotsTo
    <3> QED
      BY <3>1, FS_EmptySet
  <2> HIDE DEF old, new
  <2>3. Cardinality(new) = Cardinality(old)
           - (IF to = id /\ Cardinality(old) > 0 THEN 1 ELSE 0)
    BY <1>1, <2>1, <2>2
  <2> QED
    BY <2>3 DEF old, new
<1>4. CASE \E hit, last \in Slots :
              /\ hit <= last /\ nb[hit] = id /\ nb[last] # free
              /\ \A i \in Slots : WithoutLink(nb, id)[i] =
                   IF i = last THEN free ELSE IF i = hit THEN nb[last] ELSE nb[i]
  <2>1. PICK hit, last \in Slots :
          /\ nb[hit] = id /\ nb[last] # free
          /\ \A i \in Slots : WithoutLink(nb, id)[i] =
               IF i = last THEN free ELSE IF i = hit THEN nb[last] ELSE nb[i]
    BY <1>4
  <2>2. \A i : i \in new <=> /\ i \in Slots /\ i # last
                             /\ (IF i = hit THEN nb[last] ELSE nb[i]) = to
    BY <1>2, <2>1 DEF SlotsTo
  <2>3. \A i : i \in old <=> i \in Slots /\ nb[i] = to
    BY DEF SlotsTo
  <2> HIDE DEF old, new
  <2>4. CASE to = id
    <3>1. \E i \in old : new = old \ {i}
      <4>1. CASE nb[last] = id
        <5>1. last \in old /\ new = old \ {last}
          BY <2>1, <2>2, <2>3, <2>4, <4>1
        <5> QED
          BY <5>1
      <4>2. CASE nb[last] # id
        <5>1. hit \in old /\ new = old \ {hit}
          BY <2>1, <2>2, <2>3, <2>4, <4>2
        <5> QED
          BY <5>1
      <4> QED
        BY <4>1, <4>2
    <3>2. PICK i \in old : new = old \ {i}
      BY <3>1
    <3>3. Cardinality(new) = Cardinality(old) - 1
      BY <1>1, <3>2, FS_RemoveElement
    <3>4. Cardinality(old) > 0
      <4>1. Cardinality(old) # 0
        BY <1>1, <3>2, FS_EmptySet
      <4> QED
        BY <1>1, <4>1
    <3> QED
      BY <2>4, <3>3, <3>4 DEF old, new
  <2>5. CASE to # id /\ nb[last] = to
    <3>1. last \in old /\ hit \notin old /\ new = (old \ {last}) \cup {hit}
      BY <2>1, <2>2, <2>3, <2>5
    <3>2. /\ IsFiniteSet(old \ {last})
          /\ Cardinality(old \ {last}) = Cardinality(old) - 1
      BY <1>1, <3>1, FS_RemoveElement
    <3>3. hit \notin old \ {last}
      BY <3>1
    <3>4. Cardinality((old \ {last}) \cup {hit}) = Cardinality(old \ {last}) + 1
      BY <3>2, <3>3, FS_AddElement
    <3>5. Cardinality(new) = Cardinality(old)
      BY <1>1, <3>1, <3>2, <3>4
    <3>6. Cardinality(new) = Cardinality(old) - 0
      BY <1>1, <3>5
    <3> QED
      BY <2>5, <3>6 DEF old, new
  <2>6. CASE to # id /\ nb[last] # to
    <3>1. new = old
      BY <2>1, <2>2, <2>3, <2>6
    <3>2. Cardinality(new) = Cardinality(old) - 0
      BY <1>1, <3>1
    <3> QED
      BY <2>6, <3>2 DEF old, new
  <2> QED
    BY <2>4, <2>5, <2>6
<1> QED
  BY <1>3, <1>4, WithoutLinkIs

\* Where the routers that remain were before.
LEMMA DeletedMoves ==
  ASSUME NEW rs, RegisterOK(rs), NEW id \in RouterId, HasRouter(rs, id), Len(rs) > 1,
         Len(rs) > 2 \/ rs[1].routerId # id
  PROVE  LET new == Without(rs, id)
         IN  \E from \in [DOMAIN new -> DOMAIN rs] :
               /\ \A r \in DOMAIN new : new[r] = Unlinked(rs, id)[from[r]]
               /\ \A r \in DOMAIN new : rs[from[r]].routerId # id
               /\ \A q \in DOMAIN rs : rs[q].routerId # id => \E r \in DOMAIN new : from[r] = q
<1> DEFINE new  == Without(rs, id)
           old  == Unlinked(rs, id)
           hit  == FindRouterId(rs, id)
           n    == Len(rs) - 1
           from == [r \in 1 .. n |-> IF r = hit THEN n + 1 ELSE r]
<1>1. rs \in Seq(Router) /\ n \in Nat /\ Len(rs) = n + 1 /\ DOMAIN rs = 1 .. n + 1 /\ n >= 1
  BY DEF RegisterOK
<1>2. hit \in 1 .. n + 1 /\ rs[hit].routerId = id
  BY <1>1, FindsRouterIn DEF RegisterOK
<1>3. old \in Seq(Router) /\ Len(old) = n + 1 /\ DOMAIN old = 1 .. n + 1
  BY <1>1, UnlinkedIs
<1>4. n = 1 => hit = 2
  <2>1. n = 1 => rs[1].routerId # id
    BY <1>1
  <2> HIDE DEF hit, n
  <2>2. n = 1 => hit # 1
    BY <1>2, <2>1
  <2> QED
    BY <1>2, <2>2
<1>5. \A q \in 1 .. n + 1 : rs[q].routerId = id => q = hit
  BY <1>1, <1>2 DEF RegisterOK, Unique
<1> HIDE DEF hit, n, old
<1>6. /\ DOMAIN new = 1 .. n
      /\ \A r \in 1 .. n : new[r] =
           IF r # hit THEN old[r]
           ELSE IF n = 1 THEN [old[1] EXCEPT !.producerModel = null] ELSE old[n + 1]
  <2>1. new = WithoutRouter(old, hit)
    BY DEF Without, old, hit
  <2> HIDE DEF new
  <2>2. hit \in DOMAIN old
    BY <1>2, <1>3
  <2>3. n \in Nat /\ Len(old) = n + 1 /\ old \in Seq(Router)
    BY <1>1, <1>3
  <2>4. /\ WithoutRouter(old, hit) \in Seq(Router)
        /\ Len(WithoutRouter(old, hit)) = n /\ DOMAIN WithoutRouter(old, hit) = 1 .. n
        /\ \A r \in 1 .. n : WithoutRouter(old, hit)[r] =
             IF r # hit THEN old[r]
             ELSE IF n = 1 THEN [old[1] EXCEPT !.producerModel = null] ELSE old[n + 1]
    BY <2>2, <2>3, WithoutRouterIs
  <2> QED
    BY <2>1, <2>4
<1> HIDE DEF new
<1>7. ASSUME NEW r \in 1 .. n
      PROVE  /\ from[r] = IF r = hit THEN n + 1 ELSE r
             /\ from[r] \in 1 .. n + 1 /\ from[r] # hit
             /\ new[r] = old[from[r]]
             /\ r = 1 /\ n = 1 => r # hit
  BY <1>1, <1>2, <1>4, <1>6
<1>8. ASSUME NEW q \in 1 .. n + 1, q # hit
      PROVE  \E r \in 1 .. n : from[r] = q
  <2>1. CASE q = n + 1
    <3>1. hit \in 1 .. n /\ from[hit] = q
      BY <1>1, <1>2, <1>8, <2>1
    <3> QED
      BY <3>1
  <2>2. CASE q # n + 1
    <3>1. q \in 1 .. n /\ from[q] = q
      BY <1>1, <1>8, <2>2
    <3> QED
      BY <3>1
  <2> QED
    BY <2>1, <2>2
<1>9. from \in [1 .. n -> 1 .. n + 1]
  BY <1>1
<1> HIDE DEF from
<1>10. from \in [DOMAIN new -> DOMAIN rs]
  BY <1>1, <1>6, <1>9
<1>11. \A r \in DOMAIN new : new[r] = old[from[r]] /\ rs[from[r]].routerId # id
  BY <1>5, <1>6, <1>7
<1>12. \A q \in DOMAIN rs : rs[q].routerId # id => \E r \in DOMAIN new : from[r] = q
  BY <1>1, <1>2, <1>6, <1>8
<1> QED
  BY <1>10, <1>11, <1>12 DEF new, old

\* Which steps change the register.
LEMMA ChangedBy ==
  ASSUME Next, routers' # routers
  PROVE  \/ command'.name \in {"none", "set_model", "add_link"}
         \/ /\ command'.name = "set_flag"
            /\ \E id \in RouterId, arg \in FlagArgs : SetFlag(id, arg[1], arg[2])
         \/ /\ command'.name = "delete_router"
            /\ \E id \in RouterId : DeleteRouter(id) /\ command'.routerId = id
<1>1. CASE Start
  BY <1>1 DEF Start, NoCommand
<1>2. ASSUME NEW id \in RouterId, PrintRouter(id)
      PROVE  FALSE
  BY <1>2 DEF PrintRouter, Changes, Fails
<1>3. ASSUME NEW id \in RouterId, NEW arg \in FlagArgs, SetFlag(id, arg[1], arg[2])
      PROVE  command'.name = "set_flag"
  BY <1>3 DEF SetFlag, Command
<1>4. ASSUME NEW id \in RouterId, NEW name \in Names, SetModel(id, name)
      PROVE  command'.name = "set_model"
  BY <1>4 DEF SetModel, Command
<1>5. ASSUME NEW id \in RouterId, NEW to \in RouterId, AddLink(id, to)
      PROVE  command'.name = "add_link"
  BY <1>5 DEF AddLink, Command
<1>6. ASSUME NEW id \in RouterId, NEW to \in RouterId, ExistRoute(id, to)
      PROVE  FALSE
  BY <1>6 DEF ExistRoute
<1>7. ASSUME NEW id \in RouterId, DeleteRouter(id)
      PROVE  command'.name = "delete_router" /\ command'.routerId = id
  BY <1>7 DEF DeleteRouter, Command
<1>8. ~ (Search \/ RouteReported \/ LastLineUnread \/ Store)
  BY DEF Search, RouteReported, LastLineUnread, Store
<1> QED
  BY <1>1, <1>2, <1>3, <1>4, <1>5, <1>6, <1>7, <1>8 DEF Next

\* delete_router of the only router, or of the first of two, aside, the other
\* routers stay as they are, but for the one link.
LEMMA DeleteStepIsExact ==
  ASSUME RegisterInv, NEW gone \in RouterId, DeleteRouter(gone), routers' # routers,
         Len(routers) > 2 \/ routers[1].routerId # gone
  PROVE  /\ Ids(routers') = Ids(routers) \ {gone}
         /\ \A q \in DOMAIN routers, r \in DOMAIN routers' :
              routers[q].routerId = routers'[r].routerId =>
                /\ routers'[r].flag = routers[q].flag
                /\ routers'[r].producerModel = routers[q].producerModel
                /\ \A to \in RouterId :
                     LinkCount(routers'[r], to) =
                       LinkCount(routers[q], to)
                         - (IF to = gone /\ LinkCount(routers[q], to) > 0 THEN 1 ELSE 0)
<1> DEFINE old == Unlinked(routers, gone)
<1>1. /\ HasRouter(routers, gone) /\ Len(routers) > 1
      /\ routers' = Without(routers, gone)
  BY DEF DeleteRouter, Changes, Fails, Without, Unlinked
<1>2. RegisterOK(routers)
  BY DEF RegisterInv
<1>3. PICK from \in [DOMAIN routers' -> DOMAIN routers] :
        /\ \A r \in DOMAIN routers' : routers'[r] = old[from[r]]
        /\ \A r \in DOMAIN routers' : routers[from[r]].routerId # gone
        /\ \A q \in DOMAIN routers :
             routers[q].routerId # gone => \E r \in DOMAIN routers' : from[r] = q
  BY <1>1, <1>2, DeletedMoves
<1>4. \A q \in DOMAIN routers :
        /\ old[q].routerId = routers[q].routerId
        /\ old[q].flag = routers[q].flag
        /\ old[q].producerModel = routers[q].producerModel
        /\ old[q].neighbors = WithoutLink(routers[q].neighbors, gone)
  BY <1>2, UnlinkedIs
<1> HIDE DEF old
<1>5. Ids(routers') = Ids(routers) \ {gone}
  <2>1. \A r \in DOMAIN routers' : /\ from[r] \in DOMAIN routers
                                   /\ routers'[r].routerId = routers[from[r]].routerId
                                   /\ routers'[r].routerId # gone
    BY <1>3, <1>4
  <2>2. \A q \in DOMAIN routers : routers[q].routerId # gone =>
          \E r \in DOMAIN routers' : routers'[r].routerId = routers[q].routerId
    BY <1>3, <2>1
  <2> QED
    BY <2>1, <2>2 DEF Ids
<1>6. ASSUME NEW q \in DOMAIN routers, NEW r \in DOMAIN routers',
             routers[q].routerId = routers'[r].routerId
      PROVE  /\ routers'[r].flag = routers[q].flag
             /\ routers'[r].producerModel = routers[q].producerModel
             /\ routers'[r].neighbors = WithoutLink(routers[q].neighbors, gone)
  <2>1. from[r] \in DOMAIN routers /\ routers'[r] = old[from[r]]
    BY <1>3
  <2>2. from[r] = q
    BY <1>2, <1>4, <1>6, <2>1 DEF RegisterOK, Unique
  <2> QED
    BY <1>4, <2>1, <2>2
<1>7. ASSUME NEW q \in DOMAIN routers, NEW r \in DOMAIN routers', NEW to \in RouterId,
             routers[q].routerId = routers'[r].routerId
      PROVE  LinkCount(routers'[r], to) =
               LinkCount(routers[q], to)
                 - (IF to = gone /\ LinkCount(routers[q], to) > 0 THEN 1 ELSE 0)
  <2> DEFINE nb == routers[q].neighbors
  <2>1. nb \in Neighbors /\ Packed(nb)
    <3>1. routers[q] \in Router
      BY <1>2 DEF RegisterOK
    <3>2. Packed(nb)
      BY <1>2 DEF RegisterOK
    <3> QED
      BY <3>1, <3>2 DEF Router, Neighbors
  <2>2. LinkCount(routers[q], to) = Cardinality(SlotsTo(nb, to))
    BY DEF LinkCount, SlotsTo
  <2>3. LinkCount(routers'[r], to) = Cardinality(SlotsTo(WithoutLink(nb, gone), to))
    <3>1. LinkCount(routers'[r], to) = Cardinality(SlotsTo(routers'[r].neighbors, to))
      BY DEF LinkCount, SlotsTo
    <3>2. routers'[r].neighbors = WithoutLink(nb, gone)
      BY <1>6, <1>7
    <3> QED
      BY <3>1, <3>2
  <2> HIDE DEF nb
  <2>4. Cardinality(SlotsTo(WithoutLink(nb, gone), to)) =
          Cardinality(SlotsTo(nb, to))
            - (IF to = gone /\ Cardinality(SlotsTo(nb, to)) > 0 THEN 1 ELSE 0)
    BY <2>1, LinksOfDeleted
  <2> QED
    BY <2>2, <2>3, <2>4
<1> QED
  BY <1>5, <1>6, <1>7

\* setFlag changes one property of one router.
LEMMA SetFlagStepIsExact ==
  ASSUME RegisterInv, NEW id \in RouterId, NEW flag, NEW value, SetFlag(id, flag, value),
         routers' # routers
  PROVE  FlagSet(id, flag, value)
<1> DEFINE r == FindRouterId(routers, id)
           c == routers[r].flag
<1>1. /\ HasRouter(routers, id) /\ Accepts(flag, value) /\ command'.routerId = id
      /\ routers' = [routers EXCEPT ![r].flag = WithFlag(c, flag, value)]
  BY DEF SetFlag, Changes, Fails, Command
<1>2. r \in DOMAIN routers /\ routers[r] \in Router /\ routers[r].routerId = id
  BY <1>1, FoundIsRouter
<1> HIDE DEF r
<1>3. c \in Byte
  BY <1>2 DEF Router
<1> HIDE DEF c
<1>4. Printed(WithFlag(c, flag, value)) = [Printed(c) EXCEPT ![flag] = value]
  BY <1>1, <1>3, FlagIsExact
<1>5. routers'[r].flag = WithFlag(c, flag, value)
  BY <1>1, <1>2 DEF Router
<1>6. Printed(routers'[r].flag) = [Printed(routers[r].flag) EXCEPT ![flag] = value]
  BY <1>4, <1>5 DEF c
<1>7. routers' = [routers EXCEPT ![r].flag = routers'[r].flag]
  BY <1>1, <1>5
<1> QED
  BY <1>1, <1>2, <1>6, <1>7 DEF FlagSet

\* Whatever becomes of the file in writeBinaryFile, it is a beginning of a file
\* with all routers, or it is not readable.
LEMMA TornStepLacksLinks ==
  ASSUME RegisterInv, Next, storedFile' # storedFile, Readable(storedFile')
  PROVE  LackLinksOnly(ReadFrom(storedFile'), routers)
<1>1. Store
  BY DEF Next, Start, PrintRouter, SetFlag, SetModel, AddLink, DeleteRouter, ExistRoute,
         Command, Search, mainVars, RouteReported, LastLineUnread
<1>2. storedFile' \in {Written(routers)} \cup Beginnings(Written(routers))
  BY <1>1 DEF Store
<1> QED
  BY <1>2, BeginningIsReadBack DEF RegisterInv

-----------------------------------------------------------------------------
(***************************************************************************)
(* The theorems.                                                           *)
(***************************************************************************)

\* The invariant holds throughout all runs, whatever the commands and files.
THEOREM RegisterInvariance == Spec => []RegisterInv
<1>1. Init => RegisterInv
  BY InitHasInv
<1>2. RegisterInv /\ [Next]_allVars => RegisterInv'
  BY NextKeepsRegisterInv
<1> QED
  BY <1>1, <1>2, PTL DEF Spec

\* Routers have ids, flags that are a byte, a name or none, and links to ids;
\* and no file has more records than it says (readBinaryFile, writeBinaryFile).
THEOREM RegisterTypeCorrect == Spec => []TypeOK
<1>1. RegisterInv => TypeOK
  BY DEF RegisterInv, SearchInv, RegisterOK, MainTypeOK, FileOK, TypeOK
<1> QED
  BY <1>1, RegisterInvariance, PTL

\* No router is twice in the register, however often deleteRouter moves the last
\* one into a hole and readBinaryFile reads what writeBinaryFile left.
THEOREM IdsStayUnique == Spec => []IdsUnique
<1>1. RegisterInv => IdsUnique
  BY DEF RegisterInv, RegisterOK, Unique, IdsUnique
<1> QED
  BY <1>1, RegisterInvariance, PTL

\* No link is hidden behind a free slot by deleteRouter, addLink or
\* readAndSetNeighbors.
THEOREM LinksAreNeverHidden == Spec => []NoHiddenLinks
<1>1. RegisterInv => NoHiddenLinks
  BY DEF RegisterInv, RegisterOK, Packed, NoHiddenLinks
<1> QED
  BY <1>1, RegisterInvariance, PTL

\* A name that deleteRouter freed is left only in a register of one router.
THEOREM FreedNamesAreAlone == Spec => []FreedNameIsAlone
<1>1. RegisterInv => FreedNameIsAlone
  BY DEF RegisterInv, RegisterOK, FreedNameIsAlone
<1> QED
  BY <1>1, RegisterInvariance, PTL

\* What a run that succeeds has written is read back, every router with its flag
\* and its links in their order, and its name as far as a file can hold it, as long
\* as its fclose loses nothing.
THEOREM SavedRegistersAreReadBack == Spec => []SavedIsReadBack
<1>1. RegisterInv => SavedIsReadBack
  BY DEF RegisterInv
<1> QED
  BY <1>1, RegisterInvariance, PTL

\* exist_route tells the truth after any commands: the register a search is
\* given has the properties that RouteSearchProofs needs.
THEOREM RoutesAreToldRight == Spec => []AnswerIsRight
<1>1. RegisterInv => AnswerIsRight
  BY DEF RegisterInv, SearchInv
<1> QED
  BY <1>1, RegisterInvariance, PTL

\* set_flag changes what print shows of one property of one router, and nothing
\* else, for every byte and every argument that setFlag accepts.
THEOREM SetFlagChangesOneProperty == Spec => SetFlagIsExact
<1>1. RegisterInv /\ [Next]_allVars =>
        [\A id \in RouterId, arg \in FlagArgs :
            routers' # routers /\ SetFlag(id, arg[1], arg[2]) =>
              FlagSet(id, arg[1], arg[2])]_allVars
  <2> SUFFICES ASSUME RegisterInv, NEW id \in RouterId, NEW arg \in FlagArgs,
                      SetFlag(id, arg[1], arg[2]), routers' # routers
               PROVE  FlagSet(id, arg[1], arg[2])
    OBVIOUS
  <2> QED
    BY SetFlagStepIsExact
<1> QED
  BY <1>1, RegisterInvariance, PTL DEF Spec, SetFlagIsExact

\* deleteRouter takes one router and one link to it from each of the others,
\* keeps what else there is, and moves the last router without changing it.
THEOREM DeletionIsExact == Spec => DeleteIsExact
<1>1. RegisterInv /\ [Next]_allVars =>
        [(/\ routers' # routers /\ command'.name = "delete_router"
          /\ Len(routers) > 2 \/ routers[1].routerId # command'.routerId) =>
         LET gone == command'.routerId
         IN  /\ Ids(routers') = Ids(routers) \ {gone}
             /\ \A q \in DOMAIN routers, r \in DOMAIN routers' :
                   routers[q].routerId = routers'[r].routerId =>
                     /\ routers'[r].flag = routers[q].flag
                     /\ routers'[r].producerModel = routers[q].producerModel
                     /\ \A to \in RouterId :
                          LinkCount(routers'[r], to) =
                            LinkCount(routers[q], to)
                              - (IF to = gone /\ LinkCount(routers[q], to) > 0 THEN 1 ELSE 0)
        ]_allVars
  <2> DEFINE gone == command'.routerId
  <2> SUFFICES ASSUME RegisterInv, Next, routers' # routers,
                      command'.name = "delete_router",
                      Len(routers) > 2 \/ routers[1].routerId # gone
               PROVE  /\ Ids(routers') = Ids(routers) \ {gone}
                      /\ \A q \in DOMAIN routers, r \in DOMAIN routers' :
                           routers[q].routerId = routers'[r].routerId =>
                             /\ routers'[r].flag = routers[q].flag
                             /\ routers'[r].producerModel = routers[q].producerModel
                             /\ \A to \in RouterId :
                                  LinkCount(routers'[r], to) =
                                    LinkCount(routers[q], to)
                                      - (IF to = gone /\ LinkCount(routers[q], to) > 0
                                         THEN 1 ELSE 0)
    OBVIOUS
  <2>1. PICK id \in RouterId : DeleteRouter(id) /\ gone = id
    BY ChangedBy
  <2> HIDE DEF gone
  <2> QED
    BY <2>1, DeleteStepIsExact
<1> QED
  BY <1>1, RegisterInvariance, PTL DEF Spec, DeleteIsExact

\* However writeBinaryFile ends (a failing write, a kill, bytes lost in fclose),
\* readBinaryFile takes what it left for no register, or for one with all routers
\* and their links up to some link.
THEOREM TornFilesKeepAllRouters == Spec => TornFilesLackLinksOnly
<1>1. RegisterInv /\ [Next]_allVars =>
        [storedFile' # storedFile /\ Readable(storedFile') =>
         LackLinksOnly(ReadFrom(storedFile'), routers)]_allVars
  BY TornStepLacksLinks
<1> QED
  BY <1>1, RegisterInvariance, PTL DEF Spec, TornFilesLackLinksOnly

=============================================================================
