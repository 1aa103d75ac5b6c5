---------------------------- MODULE DeliveryProofs ----------------------------
(***************************************************************************)
(* Proof that the network delivers as MessageDelivery promises under any   *)
(* faults: in file order, nothing twice, nothing to the wrong node.        *)
(*                                                                         *)
(* The argument: a packet waits at its destination or at the next hop the  *)
(* sender has for it, nowhere else.  So the packets for one node form a    *)
(* pipeline of at most two queues, behind what the node has printed and    *)
(* before the lines that are not yet read, and no step lets one packet     *)
(* pass another.                                                           *)
(***************************************************************************)
EXTENDS EmulatedNetworkProofs

Queues == [Addr -> Seq(Packets)]

\* With n the next line and t the table of the sender: the packet p is of an
\* earlier line, and a is its destination or the next hop of the sender.
PlacedAt(p, a, t, n) ==
    /\ p.line < n
    /\ Lines[p.line].destination = p.destination
    /\ \/ p.destination = a
       \/ p.destination \in DOMAIN t /\ t[p.destination] = a

\* So is every packet in the queues q.
Placed(q, t, n) ==
    \A a \in Addr : \A i \in DOMAIN q[a] : PlacedAt(q[a][i], a, t, n)

\* The packets for one destination: those at the destination come first, and
\* each queue is in file order.
InOrder(q) ==
    \A a, b \in Addr : \A i \in DOMAIN q[a], j \in DOMAIN q[b] :
        /\ q[a][i].destination = q[b][j].destination
        /\ (a = b /\ i < j) \/ (a # b /\ a = q[a][i].destination)
        => q[a][i].line < q[b][j].line

\* What is printed, rec, is before what is queued and is in file order.
Printed(q, n, rec) ==
    \A a \in Addr : \A k \in DOMAIN rec[a] :
        /\ rec[a][k] < n
        /\ \A l \in DOMAIN rec[a] : k < l => rec[a][k] < rec[a][l]
        /\ \A b \in Addr : \A i \in DOMAIN q[b] :
             q[b][i].destination = a => rec[a][k] < q[b][i].line

Pipeline(q, t, n, rec) == Placed(q, t, n) /\ InOrder(q) /\ Printed(q, n, rec)

\* Nothing is sent before the sender has its table.
QuietBefore == pc[Sender] \in {"start", "bound", "connected", "waiting"} =>
                 \A a \in Addr : udp[a] = <<>>

\* The inductive invariant, with TypeOK.
Delivering == QuietBefore /\ Pipeline(udp, table[Sender], line, received)

-----------------------------------------------------------------------------
(***************************************************************************)
(* Lemmas about the queues.                                                *)
(***************************************************************************)

\* Removing packets at the front of queues (s[a] of them at a) changes nothing
\* about those that stay.
LEMMA RemovingKeeps ==
  ASSUME NEW q \in Queues, NEW t, NEW n \in Nat, NEW rec \in [Addr -> Seq(DOMAIN Lines)],
         Pipeline(q, t, n, rec), NEW r \in Queues, NEW s \in [Addr -> Nat],
         \A a \in Addr : \A i \in DOMAIN r[a] :
            i + s[a] \in DOMAIN q[a] /\ r[a][i] = q[a][i + s[a]]
  PROVE  Pipeline(r, t, n, rec)
<1>1. Placed(r, t, n)
  <2>1. SUFFICES ASSUME NEW a \in Addr, NEW i \in DOMAIN r[a]
                 PROVE  PlacedAt(r[a][i], a, t, n)
    BY DEF Placed
  <2>2. PICK g \in DOMAIN q[a] : r[a][i] = q[a][g]
    OBVIOUS
  <2>3. PlacedAt(q[a][g], a, t, n)
    BY DEF Pipeline, Placed
  <2> QED
    BY <2>2, <2>3
<1>2. InOrder(r)
  <2>1. SUFFICES ASSUME NEW a \in Addr, NEW b \in Addr,
                        NEW i \in DOMAIN r[a], NEW j \in DOMAIN r[b],
                        r[a][i].destination = r[b][j].destination,
                        (a = b /\ i < j) \/ (a # b /\ a = r[a][i].destination)
                 PROVE  r[a][i].line < r[b][j].line
    BY DEF InOrder
  <2>2. r[a] \in Seq(Packets) /\ r[b] \in Seq(Packets)
    BY DEF Queues
  <2>3. i \in Nat /\ j \in Nat /\ s[a] \in Nat
    BY <2>2
  <2>4. PICK g \in DOMAIN q[a] : g = i + s[a] /\ r[a][i] = q[a][g]
    OBVIOUS
  <2>5. PICK h \in DOMAIN q[b] : h = j + s[b] /\ r[b][j] = q[b][h]
    OBVIOUS
  <2>6. a = b /\ i < j => g < h
    BY <2>3, <2>4, <2>5
  <2>7. q[a][g].line < q[b][h].line
    BY <2>1, <2>4, <2>5, <2>6 DEF Pipeline, InOrder
  <2> QED
    BY <2>4, <2>5, <2>7
<1>3. Printed(r, n, rec)
  <2>1. SUFFICES ASSUME NEW a \in Addr, NEW k \in DOMAIN rec[a],
                        NEW b \in Addr, NEW i \in DOMAIN r[b], r[b][i].destination = a
                 PROVE  rec[a][k] < r[b][i].line
    BY DEF Pipeline, Printed
  <2>2. PICK g \in DOMAIN q[b] : r[b][i] = q[b][g]
    OBVIOUS
  <2> QED
    BY <2>1, <2>2 DEF Pipeline, Printed
<1> QED
  BY <1>1, <1>2, <1>3 DEF Pipeline

\* Taking the oldest packet from a queue.
LEMMA TakingKeeps ==
  ASSUME NEW q \in Queues, NEW t, NEW n \in Nat, NEW rec \in [Addr -> Seq(DOMAIN Lines)],
         Pipeline(q, t, n, rec), NEW a \in Addr, q[a] # <<>>
  PROVE  /\ [q EXCEPT ![a] = Tail(@)] \in Queues
         /\ Pipeline([q EXCEPT ![a] = Tail(@)], t, n, rec)
<1> DEFINE r == [q EXCEPT ![a] = Tail(@)]
           s == [b \in Addr |-> IF b = a THEN 1 ELSE 0]
<1>1. q[a] \in Seq(Packets) /\ Tail(q[a]) \in Seq(Packets)
  BY DEF Queues
<1>2. r \in Queues
  BY <1>1 DEF Queues
<1>3. /\ \A b \in Addr : b # a => r[b] = q[b] /\ s[b] = 0
      /\ r[a] = Tail(q[a]) /\ s[a] = 1
  BY DEF Queues
<1>4. s \in [Addr -> Nat]
  OBVIOUS
<1> HIDE DEF r, s
<1>5. \A b \in Addr : \A i \in DOMAIN r[b] :
        i + s[b] \in DOMAIN q[b] /\ r[b][i] = q[b][i + s[b]]
  <2> SUFFICES ASSUME NEW b \in Addr, NEW i \in DOMAIN r[b]
               PROVE  i + s[b] \in DOMAIN q[b] /\ r[b][i] = q[b][i + s[b]]
    OBVIOUS
  <2>1. CASE b = a
    <3>1. i \in DOMAIN Tail(q[a]) /\ r[b][i] = Tail(q[a])[i] /\ s[b] = 1
      BY <1>3, <2>1
    <3>2. i \in 1 .. Len(q[a]) - 1 /\ Tail(q[a])[i] = q[a][i + 1]
      BY <1>1, <3>1
    <3>3. i + 1 \in DOMAIN q[a]
      BY <1>1, <3>2
    <3> QED
      BY <2>1, <3>1, <3>2, <3>3
  <2>2. CASE b # a
    <3>1. i \in Nat /\ r[b] = q[b] /\ s[b] = 0
      BY <1>2, <1>3, <2>2 DEF Queues
    <3> QED
      BY <3>1
  <2> QED
    BY <2>1, <2>2
<1>6. Pipeline(r, t, n, rec)
  BY <1>2, <1>4, <1>5, RemovingKeeps
<1> QED
  BY <1>2, <1>6 DEF r

\* Closing a socket.
LEMMA ClosingKeeps ==
  ASSUME NEW q \in Queues, NEW t, NEW n \in Nat, NEW rec \in [Addr -> Seq(DOMAIN Lines)],
         Pipeline(q, t, n, rec), NEW a \in Addr
  PROVE  Pipeline([q EXCEPT ![a] = <<>>], t, n, rec)
<1> DEFINE r == [q EXCEPT ![a] = <<>>]
           s == [b \in Addr |-> 0]
<1>1. r \in Queues /\ s \in [Addr -> Nat]
  BY DEF Queues
<1>2. \A b \in Addr : s[b] = 0
  OBVIOUS
<1>3. \A b \in Addr : r[b] = IF b = a THEN <<>> ELSE q[b]
  BY DEF Queues
<1> HIDE DEF r, s
<1>4. \A b \in Addr : \A i \in DOMAIN r[b] :
        i + s[b] \in DOMAIN q[b] /\ r[b][i] = q[b][i + s[b]]
  <2> SUFFICES ASSUME NEW b \in Addr, NEW i \in DOMAIN r[b]
               PROVE  i + s[b] \in DOMAIN q[b] /\ r[b][i] = q[b][i + s[b]]
    OBVIOUS
  <2>1. r[b] = q[b] /\ i \in Nat
    BY <1>1, <1>3 DEF Queues
  <2> QED
    BY <1>2, <2>1
<1>5. Pipeline(r, t, n, rec)
  BY <1>1, <1>4, RemovingKeeps
<1> QED
  BY <1>5 DEF r

\* Queueing p at b: it must belong there, and come after what is ahead of it and
\* before what is behind it.
LEMMA QueueingKeeps ==
  ASSUME NEW q \in Queues, NEW t, NEW n \in Nat, NEW rec \in [Addr -> Seq(DOMAIN Lines)],
         Pipeline(q, t, n, rec), NEW b \in Addr, NEW p \in Packets,
         p.line < n,
         Lines[p.line].destination = p.destination,
         p.destination = b \/ (p.destination \in DOMAIN t /\ t[p.destination] = b),
         \A i \in DOMAIN q[b] : q[b][i].destination = p.destination => q[b][i].line < p.line,
         \A c \in Addr \ {b} : \A i \in DOMAIN q[c] : q[c][i].destination = p.destination =>
            /\ c = p.destination => q[c][i].line < p.line
            /\ b = p.destination => p.line < q[c][i].line,
         \A a \in Addr : a = p.destination => \A k \in DOMAIN rec[a] : rec[a][k] < p.line
  PROVE  Pipeline([q EXCEPT ![b] = Append(@, p)], t, n, rec)
<1> DEFINE r == [q EXCEPT ![b] = Append(@, p)]
           m == Len(q[b])
<1>1. q[b] \in Seq(Packets) /\ m \in Nat /\ DOMAIN q[b] = 1 .. m
  BY DEF Queues
<1>2. /\ Append(q[b], p) \in Seq(Packets)
      /\ DOMAIN Append(q[b], p) = 1 .. m + 1
      /\ \A i \in 1 .. m : Append(q[b], p)[i] = q[b][i]
      /\ Append(q[b], p)[m + 1] = p
  BY <1>1
<1>3. \A c \in Addr : r[c] = IF c = b THEN Append(q[b], p) ELSE q[c]
  BY DEF Queues
<1> HIDE DEF r, m
\* Every packet queued now was queued before, at the same place, or is p.
<1>4. \A c \in Addr : \A i \in DOMAIN r[c] :
        \/ i \in DOMAIN q[c] /\ r[c][i] = q[c][i] /\ (c = b => i < m + 1)
        \/ c = b /\ i = m + 1 /\ r[c][i] = p
  <2> SUFFICES ASSUME NEW c \in Addr, NEW i \in DOMAIN r[c]
               PROVE  \/ i \in DOMAIN q[c] /\ r[c][i] = q[c][i] /\ (c = b => i < m + 1)
                      \/ c = b /\ i = m + 1 /\ r[c][i] = p
    OBVIOUS
  <2>1. CASE c # b
    BY <1>3, <2>1
  <2>2. CASE c = b
    <3>1. i \in 1 .. m + 1 /\ r[c][i] = Append(q[b], p)[i]
      BY <1>2, <1>3, <2>2
    <3>2. i = m + 1 \/ (i \in 1 .. m /\ i < m + 1)
      BY <1>1, <3>1
    <3> QED
      BY <1>1, <1>2, <2>2, <3>1, <3>2
  <2> QED
    BY <2>1, <2>2
<1>5. Placed(r, t, n)
  <2>1. PlacedAt(p, b, t, n)
    BY DEF PlacedAt
  <2> QED
    BY <1>4, <2>1 DEF Pipeline, Placed
<1>6. InOrder(r)
  <2>1. SUFFICES ASSUME NEW c \in Addr, NEW d \in Addr,
                        NEW i \in DOMAIN r[c], NEW j \in DOMAIN r[d],
                        r[c][i].destination = r[d][j].destination,
                        (c = d /\ i < j) \/ (c # d /\ c = r[c][i].destination)
                 PROVE  r[c][i].line < r[d][j].line
    BY DEF InOrder
  <2>2. CASE i \in DOMAIN q[c] /\ r[c][i] = q[c][i] /\ j \in DOMAIN q[d] /\ r[d][j] = q[d][j]
    BY <2>1, <2>2 DEF Pipeline, InOrder
  <2>3. CASE i \in DOMAIN q[c] /\ r[c][i] = q[c][i] /\ d = b /\ r[d][j] = p
    BY <2>1, <2>3
  <2>4. CASE c = b /\ i = m + 1 /\ r[c][i] = p /\ j \in DOMAIN q[d] /\ r[d][j] = q[d][j]
             /\ (d = b => j < m + 1)
    <3>1. d # b
      <4>1. d = b => j \in Nat /\ j < m + 1 /\ m \in Nat
        BY <1>1, <2>4
      <4> QED
        BY <2>1, <2>4, <4>1
    <3> QED
      BY <2>1, <2>4, <3>1
  <2>5. CASE c = b /\ i = m + 1 /\ d = b /\ j = m + 1
    BY <1>1, <2>1, <2>5
  <2> QED
    BY <1>4, <2>2, <2>3, <2>4, <2>5
<1>7. Printed(r, n, rec)
  <2>1. SUFFICES ASSUME NEW a \in Addr, NEW k \in DOMAIN rec[a]
                 PROVE  /\ rec[a][k] < n
                        /\ \A l \in DOMAIN rec[a] : k < l => rec[a][k] < rec[a][l]
                        /\ \A c \in Addr : \A i \in DOMAIN r[c] :
                             r[c][i].destination = a => rec[a][k] < r[c][i].line
    BY DEF Printed
  <2>2. rec[a][k] < n /\ \A l \in DOMAIN rec[a] : k < l => rec[a][k] < rec[a][l]
    BY DEF Pipeline, Printed
  <2>3. \A c \in Addr : \A i \in DOMAIN r[c] :
          r[c][i].destination = a => rec[a][k] < r[c][i].line
    BY <1>4 DEF Pipeline, Printed
  <2> QED
    BY <2>2, <2>3
<1> QED
  BY <1>5, <1>6, <1>7 DEF Pipeline, r

-----------------------------------------------------------------------------
(***************************************************************************)
(* The steps.                                                              *)
(***************************************************************************)

\* The types of what the pipeline is made of.
LEMMA PipelineTypes ==
  ASSUME TypeOK
  PROVE  /\ udp \in Queues /\ line \in Nat /\ received \in [Addr -> Seq(DOMAIN Lines)]
         /\ Sender \in Addr
BY AddrAssumption DEF TypeOK, Queues

\* The end of a process closes its socket.
LEMMA ExitDelivers ==
  ASSUME TypeOK, Delivering, NEW a \in Addr, NEW how \in Ended, Exit(a, how),
         UNCHANGED <<table, line, received>>
  PROVE  Delivering'
<1>1. /\ udp \in Queues /\ line \in Nat /\ received \in [Addr -> Seq(DOMAIN Lines)]
      /\ Sender \in Addr
  BY PipelineTypes
<1>2. Pipeline([udp EXCEPT ![a] = <<>>], table[Sender], line, received)
  BY <1>1, ClosingKeeps DEF Delivering
<1>3. udp' = [udp EXCEPT ![a] = <<>>] /\ pc' = [pc EXCEPT ![a] = how]
  BY DEF Exit
<1>4. QuietBefore'
  <2>1. pc'[Sender] \in {"start", "bound", "connected", "waiting"} => pc'[Sender] = pc[Sender]
    BY <1>1, <1>3 DEF TypeOK, Ended
  <2>2. \A b \in Addr : udp[b] = <<>> => udp'[b] = <<>>
    BY <1>1, <1>3 DEF Queues
  <2> QED
    BY <2>1, <2>2 DEF Delivering, QuietBefore
<1> QED
  BY <1>2, <1>3, <1>4 DEF Delivering

\* Nothing is in the pipeline until the sender runs, and it does not begin twice.
LEMMA IdleDelivers ==
  ASSUME Delivering, UNCHANGED <<udp, line, received>>, table'[Sender] = table[Sender],
         pc'[Sender] \in {"start", "bound", "connected", "waiting"} =>
            pc[Sender] \in {"start", "bound", "connected", "waiting"}
  PROVE  Delivering'
BY DEF Delivering, QuietBefore

\* A node on its way to its table.
LEMMA AdvanceDelivers ==
  ASSUME TypeOK, Delivering, NEW a \in Addr, NEW next \in NodeStates,
         pc[a] \in {"start", "bound", "connected", "waiting"},
         pc' = [pc EXCEPT ![a] = next],
         UNCHANGED <<table, udp, line, received>>
  PROVE  Delivering'
<1>1. Sender \in Addr
  BY PipelineTypes
<1>2. pc'[Sender] = pc[Sender] \/ a = Sender
  BY <1>1 DEF TypeOK
<1> QED
  BY <1>2, IdleDelivers

\* The sender gets its table while nothing is in flight.
LEMMA TableDelivers ==
  ASSUME TypeOK, Delivering, NEW a \in Addr, NEW t, pc[a] = "waiting",
         table' = [table EXCEPT ![a] = t],
         pc' = [pc EXCEPT ![a] = "running"],
         UNCHANGED <<udp, line, received>>
  PROVE  Delivering'
<1>1. Sender \in Addr
  BY PipelineTypes
<1>2. CASE a = Sender
  <2>1. \A b \in Addr : udp[b] = <<>>
    BY <1>2 DEF Delivering, QuietBefore
  <2>2. pc'[Sender] = "running"
    BY <1>1, <1>2 DEF TypeOK
  <2>3. Placed(udp, table'[Sender], line)
    BY <2>1 DEF Placed
  <2>4. Pipeline(udp, table'[Sender], line, received)
    BY <2>3 DEF Delivering, Pipeline
  <2> QED
    BY <2>2, <2>4 DEF Delivering, QuietBefore
<1>3. CASE a # Sender
  BY <1>1, <1>3, IdleDelivers DEF TypeOK
<1> QED
  BY <1>2, <1>3

\* A later line is as good a bound.
LEMMA LineAdvances ==
  ASSUME NEW q \in Queues, NEW t, NEW n \in Nat, NEW rec \in [Addr -> Seq(DOMAIN Lines)],
         Pipeline(q, t, n, rec)
  PROVE  Pipeline(q, t, n + 1, rec)
<1>1. ASSUME NEW a \in Addr, NEW i \in DOMAIN q[a]
      PROVE  PlacedAt(q[a][i], a, t, n + 1)
  <2>1. PlacedAt(q[a][i], a, t, n)
    BY DEF Pipeline, Placed
  <2>2. q[a][i].line \in Nat
    <3>1. q[a] \in Seq(Packets)
      BY DEF Queues
    <3>2. q[a][i] \in Packets
      BY <3>1
    <3> QED
      BY <3>2, LinesAssumption DEF Packets
  <2> QED
    BY <2>1, <2>2 DEF PlacedAt
<1>2. ASSUME NEW a \in Addr, NEW k \in DOMAIN rec[a]
      PROVE  rec[a][k] < n + 1
  <2>1. rec[a][k] < n
    BY DEF Pipeline, Printed
  <2>2. rec[a][k] \in Nat
    <3>1. rec[a] \in Seq(DOMAIN Lines)
      OBVIOUS
    <3>2. rec[a][k] \in DOMAIN Lines
      BY <3>1
    <3> QED
      BY <3>2, LinesAssumption
  <2> QED
    BY <2>1, <2>2
<1> QED
  BY <1>1, <1>2 DEF Pipeline, Placed, Printed

\* A packet that is sent enters the pipeline at the end.
LEMMA SendLineDelivers ==
  ASSUME TypeOK, Delivering, SendLine
  PROVE  Delivering'
<1> DEFINE d == Lines[line].destination
           t == table[Sender]
           b == t[d]
           p == [line |-> line, destination |-> d, source |-> Sender]
           q == [udp EXCEPT ![b] = Append(@, p)]
<1>1. /\ pc[Sender] = "running" /\ line \in DOMAIN Lines /\ line \in Nat /\ d \in DOMAIN t
      /\ udp' = udp \/ udp' = q
      /\ line' = line + 1
      /\ UNCHANGED <<pc, table, received>>
  <2>1. /\ pc[Sender] = "running" /\ line \in DOMAIN Lines /\ line \in Nat /\ d \in DOMAIN t
        /\ line' = line + 1
        /\ UNCHANGED <<pc, table, received>>
        /\ Transmit(udp, Sender, b, p)
    BY LinesAssumption DEF SendLine, NextHop, TypeOK, tcpVars
  <2> HIDE DEF d, t, b, p
  <2>2. udp' = udp \/ udp' = q
    BY <2>1 DEF Transmit, Enqueue
  <2> QED
    BY <2>1, <2>2
<1>2. /\ udp \in Queues /\ received \in [Addr -> Seq(DOMAIN Lines)]
      /\ Sender \in Addr
  BY PipelineTypes
<1>3. t \in Tables
  BY <1>2 DEF TypeOK
<1>4. b \in Addr /\ d \in Addr /\ d \in Nat
  BY <1>1, <1>3, TableValues, AddrAssumption DEF Others
<1>5. p \in Packets /\ p.line = line /\ p.destination = d
  BY <1>1, <1>2, <1>4 DEF Packets
<1>6. Pipeline(udp, t, line, received)
  BY DEF Delivering
<1>7. Pipeline(udp, t, line + 1, received)
  BY <1>1, <1>2, <1>6, LineAdvances
<1>8. \A c \in Addr : \A i \in DOMAIN udp[c] :
        /\ udp[c][i].line < line
        /\ udp[c][i].destination = d => c = d \/ c = b
  BY <1>6 DEF Pipeline, Placed, PlacedAt
<1>9. \A k \in DOMAIN received[d] : received[d][k] < line
  BY <1>4, <1>6 DEF Pipeline, Printed
<1> HIDE DEF d, t, b, p
<1>10. Pipeline(q, t, line + 1, received)
  <2>1. p.line < line + 1 /\ line + 1 \in Nat
    BY <1>1, <1>5
  <2>2. Lines[p.line].destination = p.destination
    BY <1>5 DEF d
  <2>3. p.destination = b \/ (p.destination \in DOMAIN t /\ t[p.destination] = b)
    BY <1>1, <1>5 DEF b
  <2>4. \A i \in DOMAIN udp[b] :
          udp[b][i].destination = p.destination => udp[b][i].line < p.line
    BY <1>4, <1>5, <1>8
  <2>5. \A c \in Addr \ {b} : \A i \in DOMAIN udp[c] :
          udp[c][i].destination = p.destination =>
            /\ c = p.destination => udp[c][i].line < p.line
            /\ b = p.destination => p.line < udp[c][i].line
    BY <1>5, <1>8
  <2>6. \A a \in Addr : a = p.destination => \A k \in DOMAIN received[a] : received[a][k] < p.line
    BY <1>5, <1>9
  <2> QED
    BY <1>2, <1>4, <1>5, <1>7, <2>1, <2>2, <2>3, <2>4, <2>5, <2>6, QueueingKeeps
<1> QED
  BY <1>1, <1>7, <1>10 DEF Delivering, QuietBefore, t

\* Whoever is queued where the oldest packet of a queue was, or behind it, is of
\* a later line if it is for the same node.
LEMMA OldestIsFirst ==
  ASSUME NEW q \in Queues, InOrder(q), NEW a \in Addr, q[a] # <<>>
  PROVE  /\ Head(q[a]) \in Packets
         /\ \A i \in DOMAIN Tail(q[a]) :
              Tail(q[a])[i].destination = Head(q[a]).destination
                => Head(q[a]).line < Tail(q[a])[i].line
         /\ \A b \in Addr \ {a} : \A i \in DOMAIN q[b] :
              q[b][i].destination = Head(q[a]).destination
                => /\ a = Head(q[a]).destination => Head(q[a]).line < q[b][i].line
                   /\ b = Head(q[a]).destination => q[b][i].line < Head(q[a]).line
<1>1. q[a] \in Seq(Packets)
  BY DEF Queues
<1>2. 1 \in DOMAIN q[a] /\ Head(q[a]) = q[a][1] /\ q[a][1] \in Packets
  BY <1>1
<1>3. ASSUME NEW i \in DOMAIN Tail(q[a]),
             Tail(q[a])[i].destination = Head(q[a]).destination
      PROVE  Head(q[a]).line < Tail(q[a])[i].line
  <2>1. i + 1 \in DOMAIN q[a] /\ Tail(q[a])[i] = q[a][i + 1] /\ 1 < i + 1
    BY <1>1
  <2> QED
    BY <1>2, <1>3, <2>1 DEF InOrder
<1>4. ASSUME NEW b \in Addr \ {a}, NEW i \in DOMAIN q[b],
             q[b][i].destination = Head(q[a]).destination
      PROVE  /\ a = Head(q[a]).destination => Head(q[a]).line < q[b][i].line
             /\ b = Head(q[a]).destination => q[b][i].line < Head(q[a]).line
  BY <1>2, <1>4 DEF InOrder
<1> QED
  BY <1>2, <1>3, <1>4

\* Printing the oldest packet of a queue.
LEMMA PrintingKeeps ==
  ASSUME NEW q \in Queues, NEW t, NEW n \in Nat, NEW rec \in [Addr -> Seq(DOMAIN Lines)],
         Pipeline(q, t, n, rec), NEW a \in Addr, q[a] # <<>>,
         Head(q[a]).destination = a
  PROVE  Pipeline([q EXCEPT ![a] = Tail(@)], t, n,
                  [rec EXCEPT ![a] = Append(@, Head(q[a]).line)])
<1> DEFINE p == Head(q[a])
           r == [q EXCEPT ![a] = Tail(@)]
           s == [rec EXCEPT ![a] = Append(@, p.line)]
           m == Len(rec[a])
<1>1. r \in Queues /\ Pipeline(r, t, n, rec)
  BY TakingKeeps
<1>2. InOrder(q) /\ Placed(q, t, n) /\ Printed(q, n, rec)
  BY DEF Pipeline
<1>3. /\ p \in Packets
      /\ \A i \in DOMAIN Tail(q[a]) :
           Tail(q[a])[i].destination = a => p.line < Tail(q[a])[i].line
      /\ \A b \in Addr \ {a} : \A i \in DOMAIN q[b] :
           q[b][i].destination = a => p.line < q[b][i].line
  BY <1>2, OldestIsFirst
<1>4. \A b \in Addr : r[b] = IF b = a THEN Tail(q[a]) ELSE q[b]
  BY DEF Queues
<1>5. 1 \in DOMAIN q[a] /\ p = q[a][1]
  BY DEF Queues
<1>6. p.line < n /\ \A k \in DOMAIN rec[a] : rec[a][k] < p.line
  BY <1>2, <1>5 DEF Placed, PlacedAt, Printed
<1>7. rec[a] \in Seq(DOMAIN Lines) /\ m \in Nat /\ DOMAIN rec[a] = 1 .. m
  OBVIOUS
<1>8. /\ DOMAIN Append(rec[a], p.line) = 1 .. m + 1
      /\ \A k \in 1 .. m : Append(rec[a], p.line)[k] = rec[a][k]
      /\ Append(rec[a], p.line)[m + 1] = p.line
  BY <1>3, <1>7 DEF Packets
<1>9. \A b \in Addr : s[b] = IF b = a THEN Append(rec[a], p.line) ELSE rec[b]
  OBVIOUS
<1>10. \A b \in Addr : \A i \in DOMAIN r[b] : r[b][i].destination = a => p.line < r[b][i].line
  BY <1>3, <1>4
<1> HIDE DEF p, r, s, m
<1>11. ASSUME NEW b \in Addr, NEW k \in DOMAIN s[b]
       PROVE  /\ s[b][k] < n
              /\ \A l \in DOMAIN s[b] : k < l => s[b][k] < s[b][l]
              /\ \A c \in Addr : \A i \in DOMAIN r[c] :
                   r[c][i].destination = b => s[b][k] < r[c][i].line
  <2>1. CASE b # a
    <3>1. s[b] = rec[b]
      BY <1>9, <2>1
    <3> QED
      BY <1>1, <1>11, <3>1 DEF Pipeline, Printed
  <2>2. CASE b = a /\ k \in 1 .. m
    <3>1. DOMAIN s[b] = 1 .. m + 1 /\ s[b][k] = rec[a][k] /\ k \in DOMAIN rec[a]
      BY <1>7, <1>8, <1>9, <2>2
    <3>2. \A l \in DOMAIN s[b] : k < l => s[b][k] < s[b][l]
      <4> SUFFICES ASSUME NEW l \in DOMAIN s[b], k < l PROVE s[b][k] < s[b][l]
        OBVIOUS
      <4>1. CASE l \in 1 .. m
        <5>1. s[b][l] = rec[a][l] /\ l \in DOMAIN rec[a]
          BY <1>7, <1>8, <1>9, <2>2, <4>1
        <5> QED
          BY <1>2, <3>1, <5>1 DEF Printed
      <4>2. CASE l = m + 1
        BY <1>6, <1>8, <1>9, <2>2, <3>1, <4>2
      <4> QED
        BY <1>7, <3>1, <4>1, <4>2
    <3>3. s[b][k] < n
      BY <1>2, <3>1 DEF Printed
    <3>4. \A c \in Addr : \A i \in DOMAIN r[c] :
            r[c][i].destination = b => s[b][k] < r[c][i].line
      BY <1>1, <2>2, <3>1 DEF Pipeline, Printed
    <3> QED
      BY <3>2, <3>3, <3>4
  <2>3. CASE b = a /\ k = m + 1
    <3>1. DOMAIN s[b] = 1 .. m + 1 /\ s[b][k] = p.line
      BY <1>8, <1>9, <2>3
    <3>2. \A l \in DOMAIN s[b] : ~(k < l)
      BY <1>7, <2>3, <3>1
    <3> QED
      BY <1>6, <1>10, <2>3, <3>1, <3>2
  <2> QED
    <3>1. b = a => k \in 1 .. m + 1
      BY <1>8, <1>9, <1>11
    <3>2. b = a => k \in 1 .. m \/ k = m + 1
      BY <1>7, <3>1
    <3> QED
      BY <2>1, <2>2, <2>3, <3>2
<1>12. Printed(r, n, s)
  BY <1>11 DEF Printed
<1> QED
  BY <1>1, <1>12 DEF Pipeline, p, r, s

\* A node prints the packet for it that has been waiting longest.
LEMMA ReceiveOwnDelivers ==
  ASSUME TypeOK, Delivering, NEW a \in Addr, ReceiveOwn(a)
  PROVE  Delivering'
<1>1. /\ udp[a] # <<>> /\ Head(udp[a]).destination = a
      /\ received' = [received EXCEPT ![a] = Append(@, Head(udp[a]).line)]
      /\ udp' = [udp EXCEPT ![a] = Tail(@)]
      /\ pc[a] = "running" /\ a # Sender
      /\ UNCHANGED <<table, line, pc>>
  BY DEF ReceiveOwn, Receiving, tcpVars
<1>2. /\ udp \in Queues /\ line \in Nat /\ received \in [Addr -> Seq(DOMAIN Lines)]
  BY PipelineTypes
<1>3. Pipeline(udp', table[Sender], line, received')
  BY <1>1, <1>2, PrintingKeeps DEF Delivering
<1>4. pc[Sender] \notin {"start", "bound", "connected", "waiting"}
  BY <1>1 DEF Delivering, QuietBefore
<1> QED
  BY <1>1, <1>3, <1>4 DEF Delivering, QuietBefore

\* A packet that is forwarded goes behind those for the same node that are ahead.
LEMMA ForwardDelivers ==
  ASSUME TypeOK, Delivering, NEW a \in Addr, Forward(a)
  PROVE  Delivering'
<1> DEFINE p == Head(udp[a])
           d == p.destination
           queues == [udp EXCEPT ![a] = Tail(@)]
           q == [p EXCEPT !.source = a]
           after == [queues EXCEPT ![d] = Append(@, q)]
           t == table[Sender]
<1>1. /\ udp[a] # <<>> /\ d # a /\ d \in DOMAIN table[a]
      /\ pc[a] = "running"
      /\ UNCHANGED <<table, line, pc, received>>
      /\ Transmit(queues, a, d, q)
  BY DEF Forward, Receiving, ForwardPort, tcpVars
<1>2. /\ udp \in Queues /\ line \in Nat /\ received \in [Addr -> Seq(DOMAIN Lines)]
  BY PipelineTypes
<1>3. Pipeline(udp, t, line, received)
  BY DEF Delivering
<1>4. queues \in Queues /\ Pipeline(queues, t, line, received)
  BY <1>1, <1>2, <1>3, TakingKeeps
<1>5. /\ p \in Packets
      /\ \A i \in DOMAIN Tail(udp[a]) :
           Tail(udp[a])[i].destination = d => p.line < Tail(udp[a])[i].line
      /\ \A b \in Addr \ {a} : \A i \in DOMAIN udp[b] :
           udp[b][i].destination = d => (b = d => udp[b][i].line < p.line)
  BY <1>1, <1>2, <1>3, OldestIsFirst DEF Pipeline
<1>6. d \in Addr
  <2>1. table[a] \in Tables
    BY DEF TypeOK
  <2> QED
    BY <1>1, <2>1, TableValues DEF Others
<1>7. PlacedAt(p, a, t, line)
  <2>1. 1 \in DOMAIN udp[a] /\ p = udp[a][1]
    BY <1>1, <1>2 DEF Queues
  <2> QED
    BY <1>3, <2>1 DEF Pipeline, Placed
<1>8. \A k \in DOMAIN received[d] : received[d][k] < p.line
  <2>1. 1 \in DOMAIN udp[a] /\ p = udp[a][1]
    BY <1>1, <1>2 DEF Queues
  <2> QED
    BY <1>3, <1>6, <2>1 DEF Pipeline, Printed
<1>9. q \in Packets /\ q.line = p.line /\ q.destination = d
  BY <1>5 DEF Packets
<1>10. \A b \in Addr : queues[b] = IF b = a THEN Tail(udp[a]) ELSE udp[b]
  BY <1>2 DEF Queues
\* What else is queued for d is at d, or behind p at a.
<1>11. \A c \in Addr : \A i \in DOMAIN udp[c] : udp[c][i].destination = d => c = d \/ c = a
  BY <1>1, <1>3, <1>7 DEF Pipeline, Placed, PlacedAt
<1>12. udp' = queues \/ udp' = after
  <2> HIDE DEF p, d, q, queues
  <2> QED
    BY <1>1 DEF Transmit, Enqueue
<1> HIDE DEF p, d, q, queues, t
<1>13. Pipeline(after, t, line, received)
  <2>1. q.line < line /\ Lines[q.line].destination = q.destination
    BY <1>7, <1>9 DEF PlacedAt, d
  <2>2. q.destination = d
    BY <1>9
  <2>3. \A i \in DOMAIN queues[d] :
          queues[d][i].destination = q.destination => queues[d][i].line < q.line
    BY <1>1, <1>5, <1>6, <1>9, <1>10
  <2>4. \A c \in Addr \ {d} : \A i \in DOMAIN queues[c] :
          queues[c][i].destination = q.destination =>
            /\ c = q.destination => queues[c][i].line < q.line
            /\ d = q.destination => q.line < queues[c][i].line
    BY <1>5, <1>9, <1>10, <1>11
  <2>5. \A b \in Addr : b = q.destination => \A k \in DOMAIN received[b] : received[b][k] < q.line
    BY <1>8, <1>9
  <2> QED
    BY <1>2, <1>4, <1>6, <1>9, <2>1, <2>2, <2>3, <2>4, <2>5, QueueingKeeps
<1>14. Pipeline(udp', t, line, received)
  BY <1>4, <1>12, <1>13
<1>15. pc[Sender] \notin {"start", "bound", "connected", "waiting"}
  BY <1>1 DEF Delivering, QuietBefore
<1> QED
  BY <1>1, <1>14, <1>15 DEF Delivering, QuietBefore, t

\* Every step keeps the packets in order.
LEMMA DeliveringStep ==
  ASSUME TypeOK, Delivering, [Next]_vars
  PROVE  Delivering'
<1> USE DEF serverVars, tcpVars, udpVars
<1>1. ASSUME UNCHANGED <<udp, line, received, table, pc>> PROVE Delivering'
  BY <1>1, IdleDelivers
<1>2. CASE UNCHANGED vars \/ ServerStep
  BY <1>1, <1>2 DEF vars, ServerStep, ListenTCP, AcceptConnection, ReceiveReport,
     ComputeTables, SendTable, ServerSocketFails
<1>3. CASE SendLine
  BY <1>3, SendLineDelivers
<1>4. CASE StopSending
  BY <1>4, AddrAssumption, ExitDelivers DEF StopSending, Ended
<1>5. ASSUME NEW a \in Addr, BindUDP(a) PROVE Delivering'
  BY <1>5, ExitDelivers, AdvanceDelivers DEF BindUDP, Ended, NodeStates, Active
<1>6. ASSUME NEW a \in Addr, ConnectTCP(a) PROVE Delivering'
  BY <1>6, ExitDelivers, AdvanceDelivers DEF ConnectTCP, AtConnect, Ended, NodeStates, Active
<1>7. ASSUME NEW a \in Addr, SendEdgeInformation(a) PROVE Delivering'
  BY <1>7, ExitDelivers, AdvanceDelivers
     DEF SendEdgeInformation, Abort, Ended, NodeStates, Active
<1>8. ASSUME NEW a \in Addr, ReceiveRoutingTable(a) PROVE Delivering'
  BY <1>8, ExitDelivers, TableDelivers DEF ReceiveRoutingTable, Abort, Ended
<1>9. ASSUME NEW a \in Addr, ReceiveQuit(a) \/ ReceiveFails(a) \/ Kill(a) PROVE Delivering'
  BY <1>9, ExitDelivers DEF ReceiveQuit, ReceiveFails, Kill, Ended
<1>10. ASSUME NEW a \in Addr, ReceiveOwn(a) PROVE Delivering'
  BY <1>10, ReceiveOwnDelivers
<1>11. ASSUME NEW a \in Addr, Forward(a) PROVE Delivering'
  BY <1>11, ForwardDelivers
<1> QED
  BY <1>2, <1>3, <1>4, <1>5, <1>6, <1>7, <1>8, <1>9, <1>10, <1>11
     DEF Next, SenderStep, NodeStep

-----------------------------------------------------------------------------
(***************************************************************************)
(* The theorems.                                                           *)
(***************************************************************************)

\* The lines a node prints are in file order, none is printed twice, and those
\* still on their way to it come after them: for every data.txt, every tables
\* and every combination of faults.
THEOREM PipelineInvariance == Spec => []Delivering
<1>1. Init => Delivering
  BY DEF Init, Delivering, QuietBefore, Pipeline, Placed, InOrder, Printed
<1>2. TypeOK /\ Delivering /\ [Next]_vars => Delivering'
  BY DeliveringStep
<1> QED
  BY <1>1, <1>2, TypeCorrect, PTL DEF Spec

\* A process that ends is one that leaves.
LEMMA ExitLeaves ==
  ASSUME TypeOK, Faults # {}, NEW a \in Addr, pc[a] \notin Ended,
         NEW how \in Ended, Exit(a, how), UNCHANGED received
  PROVE  MD!Next
<1> DEFINE G == {b \in Addr : pc[b] \in Ended}
<1>1. \A b \in Addr : pc'[b] = IF b = a THEN how ELSE pc[b]
  BY DEF Exit, TypeOK
<1>2. a \notin G /\ {b \in Addr : pc'[b] \in Ended} = G \cup {a}
  BY <1>1
<1>3. MD!Leave(a)
  BY <1>2 DEF MD!Leave
<1> QED
  BY <1>3 DEF MD!Next

\* A step that ends no process and prints nothing is invisible.
LEMMA AdvanceStutters ==
  ASSUME TypeOK, NEW a \in Addr, pc[a] \notin Ended,
         NEW next \in NodeStates \ Ended, pc' = [pc EXCEPT ![a] = next],
         UNCHANGED received
  PROVE  UNCHANGED MD!vars
<1>1. \A b \in Addr : pc'[b] = IF b = a THEN next ELSE pc[b]
  BY DEF TypeOK
<1>2. {b \in Addr : pc'[b] \in Ended} = {b \in Addr : pc[b] \in Ended}
  BY <1>1
<1> QED
  BY <1>2 DEF MD!vars

\* What a node prints is a line it may be handed next.
LEMMA PrintDelivers ==
  ASSUME TypeOK, Delivering, Faults # {}, NEW a \in Addr, ReceiveOwn(a)
  PROVE  MD!Next
<1> DEFINE p == Head(udp[a])
<1>1. /\ udp[a] # <<>> /\ p.destination = a /\ ~IsQuitFor(a, p)
      /\ received' = [received EXCEPT ![a] = Append(@, p.line)]
      /\ pc[a] = "running"
      /\ UNCHANGED pc
  BY DEF ReceiveOwn, Receiving
<1>2. udp \in Queues
  BY PipelineTypes
<1>3. 1 \in DOMAIN udp[a] /\ p = udp[a][1] /\ p \in Packets
  BY <1>1, <1>2 DEF Queues
<1>4. p.line \in DOMAIN Lines /\ Lines[p.line].destination = a
  BY <1>1, <1>3 DEF Delivering, Pipeline, Placed, PlacedAt, Packets
<1>5. \A k \in DOMAIN received[a] : received[a][k] < p.line
  BY <1>1, <1>3 DEF Delivering, Pipeline, Printed
<1>6. Lines[p.line].message # QUIT
  BY <1>1 DEF IsQuitFor, Message
<1> HIDE DEF p
<1>7. p.line \in MD!Candidates(a)
  BY <1>4, <1>5 DEF MD!Candidates, MD!Pending
<1>8. a \notin {b \in Addr : pc[b] \in Ended}
  BY <1>1 DEF Ended
<1>9. MD!Deliver(a)
  BY <1>1, <1>6, <1>7, <1>8 DEF MD!Deliver
<1> QED
  BY <1>9 DEF MD!Next

\* Under faults the network delivers in file order, each line at most once and
\* to its destination only, whatever is lost or killed at whatever moment.
THEOREM DeliveryUnderFaults == ASSUME Faults # {} PROVE Spec => DeliversMessages
<1>1. Init => MD!Init
  BY DEF Init, MD!Init, Ended
<1>2. TypeOK /\ Delivering /\ [Next]_vars => [MD!Next]_(MD!vars)
  <2> SUFFICES ASSUME TypeOK, Delivering, [Next]_vars PROVE [MD!Next]_(MD!vars)
    OBVIOUS
  <2> USE DEF serverVars, tcpVars, udpVars
  <2>1. ASSUME UNCHANGED <<received, pc>> PROVE UNCHANGED MD!vars
    BY <2>1 DEF MD!vars
  <2>2. CASE UNCHANGED vars \/ ServerStep
    BY <2>1, <2>2 DEF vars, ServerStep, ListenTCP, AcceptConnection, ReceiveReport,
       ComputeTables, SendTable, ServerSocketFails
  <2>3. CASE SendLine
    BY <2>1, <2>3 DEF SendLine
  <2>4. CASE StopSending
    BY <2>4, AddrAssumption, ExitLeaves DEF StopSending, Ended
  <2>5. ASSUME NEW a \in Addr, BindUDP(a) PROVE [MD!Next]_(MD!vars)
    BY <2>5, ExitLeaves, AdvanceStutters DEF BindUDP, Ended, NodeStates, Active
  <2>6. ASSUME NEW a \in Addr, ConnectTCP(a) PROVE [MD!Next]_(MD!vars)
    BY <2>6, ExitLeaves, AdvanceStutters
       DEF ConnectTCP, AtConnect, Ended, NodeStates, Active
  <2>7. ASSUME NEW a \in Addr, SendEdgeInformation(a) PROVE [MD!Next]_(MD!vars)
    BY <2>7, ExitLeaves, AdvanceStutters
       DEF SendEdgeInformation, Abort, Ended, NodeStates, Active
  <2>8. ASSUME NEW a \in Addr, ReceiveRoutingTable(a) PROVE [MD!Next]_(MD!vars)
    BY <2>8, ExitLeaves, AdvanceStutters
       DEF ReceiveRoutingTable, Abort, Ended, NodeStates, Active
  <2>9. ASSUME NEW a \in Addr, ReceiveQuit(a) \/ ReceiveFails(a) \/ Kill(a)
        PROVE  [MD!Next]_(MD!vars)
    BY <2>9, ExitLeaves DEF ReceiveQuit, ReceiveFails, Receiving, Kill, Ended, Active
  <2>10. ASSUME NEW a \in Addr, ReceiveOwn(a) PROVE [MD!Next]_(MD!vars)
    BY <2>10, PrintDelivers
  <2>11. ASSUME NEW a \in Addr, Forward(a) PROVE [MD!Next]_(MD!vars)
    BY <2>1, <2>11 DEF Forward
  <2> QED
    BY <2>2, <2>3, <2>4, <2>5, <2>6, <2>7, <2>8, <2>9, <2>10, <2>11
       DEF Next, SenderStep, NodeStep
<1> QED
  BY <1>1, <1>2, TypeCorrect, PipelineInvariance, PTL DEF Spec, DeliversMessages, MD!Spec

-----------------------------------------------------------------------------
(***************************************************************************)
(* Proof that without faults the network delivers every line, and that no  *)
(* node leaves before its QUIT line is the next one, for every data.txt    *)
(* that keeps the rule of QuitsAfterTraffic.                               *)
(*                                                                         *)
(* The argument: without faults a process ends only when its work is done  *)
(* (Healthy).  A QUIT packet finds its node with nothing else in its       *)
(* queue: what was sent there before is ahead of it, and nothing is sent   *)
(* there afterwards.  So no packet is ever sent to a closed socket or lost *)
(* with one (Lossless).                                                    *)
(***************************************************************************)

Unready == {"start", "bound", "connected", "waiting"}

\* Without faults the server does not give up, a node has reported as soon as it
\* waits, and has its table or will be sent it as long as it waits.
Healthy ==
    /\ server # "failure"
    /\ server = "receive" => nodeArray # <<>>
    /\ \A a \in Addr : pc[a] \in Unready \cup {"running", "success"}
    /\ \A a \in Addr : pc[a] # "start" => server # "start"
    /\ \A a \in Addr : pc[a] \in {"waiting", "running", "success"} <=> a \in reported
    /\ \A i \in DOMAIN nodeArray :
         nodeArray[i] \in reported \/ (server = "receive" /\ i = Len(nodeArray))
    /\ \A a \in Addr : inbox[a] # <<>> \/ pc[a] \in {"running", "success"} =>
         \E i \in 1 .. nSent : nodeArray[i] = a
    /\ \A i \in 1 .. nSent : pc[nodeArray[i]] = "waiting" => inbox[nodeArray[i]] # <<>>
    /\ server = "success" => nSent = N

\* The packets in the queues q.
InFlight(q) == UNION {{q[a][i] : i \in DOMAIN q[a]} : a \in Addr}

\* Line l goes to b first, or at last.
Touches(t, l, b) ==
    LET d == Lines[l].destination
    IN  d = b \/ (d \in DOMAIN t /\ t[d] = b)

\* A packet that is where it is going is behind none that the sender sent there
\* afterwards.
Direct(q, t) ==
    \A a \in Addr : \A i, j \in DOMAIN q[a] :
        i < j /\ q[a][i].destination = a
              /\ q[a][j].destination \in DOMAIN t /\ t[q[a][j].destination] = a
          => q[a][i].line < q[a][j].line

\* What was sent for d is printed or in flight, unless d has left.
Kept(q, rec, n) ==
    \A d \in Others : \A l \in DOMAIN Lines :
        l < n /\ Lines[l].destination = d =>
            \/ pc[d] = "success"
            \/ \E k \in DOMAIN rec[d] : rec[d][k] = l
            \/ \E x \in InFlight(q) : x.line = l

\* Nothing is left for those who have left.
NothingFor(b, q, t, n) ==
    /\ \A x \in InFlight(q) : x.destination # b
    /\ \A l \in DOMAIN Lines : n <= l => ~Touches(t, l, b)

Lossless ==
    /\ pc[Sender] \in {"running", "success"} => \E T \in TableSets : table[Sender] = T[Sender]
    /\ pc[Sender] \in Unready => \A b \in Others : pc[b] # "success"
    /\ \A x \in InFlight(udp) : x.destination \in Others
    /\ Direct(udp, table[Sender])
    /\ Kept(udp, received, line)
    /\ \A b \in Others : pc[b] = "success" => NothingFor(b, udp, table[Sender], line)

-----------------------------------------------------------------------------
(***************************************************************************)
(* Without faults, the processes end well.                                 *)
(***************************************************************************)

\* What has been appended to is not empty.
LEMMA AppendNotEmpty ==
  ASSUME NEW S, NEW s \in Seq(S), NEW x
  PROVE  Append(s, x) # <<>>
<1>1. s \in Seq(S \cup {x}) /\ x \in S \cup {x}
  OBVIOUS
<1>2. Len(Append(s, x)) = Len(s) + 1 /\ Len(s) \in Nat
  BY <1>1
<1> QED
  BY <1>2

\* A node that is not on the server's list has not been sent a table, and once
\* the server is done everybody is on the list and has been sent one.
LEMMA DoneWithAll ==
  ASSUME IInv, Healthy, server = "success", NEW a \in Addr
  PROVE  /\ pc[a] \in {"waiting", "running", "success"}
         /\ pc[a] = "waiting" => inbox[a] # <<>>
<1>1. Len(nodeArray) = N /\ nSent = N /\ N \in Nat
  BY NType DEF IInv, Phases, Healthy
<1>2. PICK i \in 1 .. N : nodeArray[i] = a
  BY <1>1, AllRegistered DEF IInv, TypeOK, Registration
<1>3. i \in DOMAIN nodeArray
  BY <1>1, <1>2 DEF IInv, TypeOK
<1>4. a \in reported
  BY <1>2, <1>3 DEF Healthy
<1> QED
  BY <1>1, <1>2, <1>4 DEF Healthy

\* The types that matter here.
LEMMA HealthTypes ==
  ASSUME TypeOK
  PROVE  /\ nSent \in Nat
         /\ nodeArray \in Seq(Addr) /\ backlog \in Seq(Addr)
         /\ pc \in [Addr -> NodeStates] /\ inbox \in [Addr -> Seq(Tables)]
         /\ Sender \in Addr
BY NType, AddrAssumption DEF TypeOK

\* The nodes that have been sent a table are nodes.
LEMMA SentAreNodes ==
  ASSUME IInv, NEW i \in 1 .. nSent
  PROVE  nodeArray[i] \in Addr /\ i \in DOMAIN nodeArray
<1>1. nSent <= Len(nodeArray)
  <2>1. CASE idxTables = <<>>
    BY <2>1, HealthTypes DEF IInv, Phases
  <2>2. CASE idxTables # <<>>
    BY <2>2, NType DEF IInv, Phases, TypeOK
  <2> QED
    BY <2>1, <2>2
<1> QED
  BY <1>1, HealthTypes DEF IInv

\* A step of a node from one stage to another.
LEMMA StageHealthy ==
  ASSUME IInv, Healthy, NEW a \in Addr, NEW s \in {"bound", "connected", "success"},
         pc' = [pc EXCEPT ![a] = s],
         s = "bound" => pc[a] = "start" /\ server # "start",
         s = "connected" => pc[a] = "bound",
         s = "success" => pc[a] = "running",
         UNCHANGED <<server, nodeArray, nSent, reported, inbox>>
  PROVE  Healthy'
<1>1. \A b \in Addr : pc'[b] = IF b = a THEN s ELSE pc[b]
  BY HealthTypes DEF IInv
<1>2. \A i \in 1 .. nSent : nodeArray[i] \in Addr
  BY SentAreNodes
<1> QED
  BY <1>1, <1>2 DEF Healthy, Unready

\* A node binds its port, connects and reports; nothing makes it exit.
LEMMA BindsWell ==
  ASSUME Faults = {}, NEW a \in Addr, BindUDP(a)
  PROVE  /\ pc[a] = "start" /\ server # "start" /\ pc' = [pc EXCEPT ![a] = "bound"]
         /\ UNCHANGED <<server, backlog, nodeArray, idxTables, nSent, reported, inbox,
                        table, udp, line, received, hops>>
BY DEF BindUDP, serverVars, tcpVars

LEMMA ConnectsWell ==
  ASSUME Faults = {}, IInv, Healthy, NEW a \in Addr, ConnectTCP(a)
  PROVE  /\ pc[a] = "bound" /\ pc' = [pc EXCEPT ![a] = "connected"]
         /\ UNCHANGED <<server, nodeArray, idxTables, nSent, reported, inbox,
                        table, udp, line, received, hops>>
<1>1. ServerListens
  BY DoneWithAll DEF ConnectTCP, AtConnect, ServerListens, ServerGone, Healthy
<1> QED
  BY <1>1 DEF ConnectTCP, AtConnect, tcpVars

LEMMA ReportsWell ==
  ASSUME Faults = {}, IInv, Healthy, NEW a \in Addr, SendEdgeInformation(a)
  PROVE  /\ pc[a] = "connected" /\ pc' = [pc EXCEPT ![a] = "waiting"]
         /\ reported' = reported \cup {a}
         /\ UNCHANGED <<server, nodeArray, idxTables, nSent, inbox,
                        table, udp, line, received, hops>>
<1>1. server \notin ServerGone
  BY DoneWithAll DEF SendEdgeInformation, ServerGone, Healthy
<1> QED
  BY <1>1 DEF SendEdgeInformation, serverVars

LEMMA GetsTable ==
  ASSUME Faults = {}, IInv, Healthy, NEW a \in Addr, ReceiveRoutingTable(a)
  PROVE  /\ pc[a] = "waiting" /\ inbox[a] # <<>> /\ pc' = [pc EXCEPT ![a] = "running"]
         /\ table' = [table EXCEPT ![a] = Head(inbox[a])]
         /\ inbox' = [inbox EXCEPT ![a] = Tail(@)]
         /\ UNCHANGED <<server, nodeArray, idxTables, nSent, reported,
                        udp, line, received, hops>>
<1>1. inbox[a] = <<>> => server \notin ServerGone
  BY DoneWithAll DEF ReceiveRoutingTable, ServerGone, Healthy
<1> QED
  BY <1>1 DEF ReceiveRoutingTable, serverVars

\* A node that runs has a row for every packet and does not fail.
LEMMA NeverFails ==
  ASSUME Faults = {}, IInv, NEW a \in Addr
  PROVE  ~ReceiveFails(a) /\ ~Kill(a)
<1>1. PICK T \in TableSets : Follows(T)
  BY DEF IInv, Consistent
<1>2. ASSUME ReceiveFails(a) PROVE FALSE
  <2>1. pc[a] = "running" /\ udp[a] # <<>>
    BY <1>2 DEF ReceiveFails
  <2>2. Head(udp[a]).destination \notin DOMAIN table[a] \cup {a}
    BY <1>2 DEF ReceiveFails
  <2>3. udp[a] \in Seq(Packets) /\ Head(udp[a]) = udp[a][1] /\ 1 \in DOMAIN udp[a]
    BY <2>1 DEF IInv, TypeOK
  <2> QED
    BY <1>1, <2>1, <2>2, <2>3 DEF Follows
<1> QED
  BY <1>2 DEF Kill

\* The server sends the table of a node that is still there, and does not give up.
LEMMA SendsWell ==
  ASSUME Faults = {}, IInv, Healthy, SendTable
  PROVE  /\ inbox' = AfterSend(inbox, nSent + 1) /\ nSent' = nSent + 1
         /\ server' = IF nSent + 1 = N THEN "success" ELSE "send"
         /\ nSent + 1 \in 1 .. N /\ nSent + 1 \in DOMAIN nodeArray
<1> DEFINE i == nSent + 1
<1>1. server = "send" /\ Len(nodeArray) = N /\ nSent < N /\ nSent \in Nat /\ N \in Nat
  BY NType, HealthTypes DEF SendTable, IInv, Phases
<1>2. i \in 1 .. N /\ i \in DOMAIN nodeArray /\ i # nSent
  BY <1>1, HealthTypes DEF IInv
<1>3. nodeArray[i] \in Addr
  BY <1>2, HealthTypes DEF IInv
<1>4. pc[nodeArray[i]] \notin Ended
  <2>1. SUFFICES ASSUME pc[nodeArray[i]] \in Ended PROVE FALSE
    OBVIOUS
  <2>2. pc[nodeArray[i]] = "success"
    BY <1>3, <2>1 DEF Healthy, Unready, Ended
  <2>3. PICK k \in 1 .. nSent : nodeArray[k] = nodeArray[i]
    BY <1>3, <2>2 DEF Healthy
  <2>4. k \in DOMAIN nodeArray /\ k # i
    BY <1>1, <1>2, HealthTypes DEF IInv
  <2> QED
    BY <1>2, <2>3, <2>4 DEF IInv, Registration
<1> QED
  BY <1>2, <1>4 DEF SendTable

\* The step that reports.
LEMMA ReportHealthy ==
  ASSUME Faults = {}, IInv, Healthy, NEW a \in Addr, SendEdgeInformation(a)
  PROVE  Healthy'
<1>1. /\ pc[a] = "connected" /\ pc' = [pc EXCEPT ![a] = "waiting"]
      /\ reported' = reported \cup {a}
      /\ UNCHANGED <<server, nodeArray, nSent, inbox>>
  BY ReportsWell
<1>2. \A b \in Addr : pc'[b] = IF b = a THEN "waiting" ELSE pc[b]
  BY <1>1, HealthTypes DEF IInv
<1>3. \A i \in 1 .. nSent : nodeArray[i] \in Addr /\ i \in DOMAIN nodeArray
  BY SentAreNodes
\* The node has not been sent its table: the server waits for its report.
<1>4. \A i \in 1 .. nSent : nodeArray[i] # a
  <2>1. SUFFICES ASSUME NEW i \in 1 .. nSent, nodeArray[i] = a PROVE FALSE
    OBVIOUS
  <2>2. a \notin reported
    BY <1>1 DEF Healthy
  <2>3. server = "receive"
    BY <1>3, <2>1, <2>2 DEF Healthy
  <2>4. nSent = 0
    BY <2>3 DEF IInv, Phases
  <2> QED
    BY <2>1, <2>4
<1>5. \A i \in DOMAIN nodeArray :
         nodeArray[i] \in reported' \/ (server' = "receive" /\ i = Len(nodeArray))
  BY <1>1 DEF Healthy
<1>6. \A b \in Addr : pc'[b] \in {"waiting", "running", "success"} <=> b \in reported'
  BY <1>1, <1>2 DEF Healthy
<1>7. \A b \in Addr : inbox[b] # <<>> \/ pc'[b] \in {"running", "success"} =>
         \E i \in 1 .. nSent : nodeArray[i] = b
  BY <1>2 DEF Healthy
<1>8. \A i \in 1 .. nSent : pc'[nodeArray[i]] = "waiting" => inbox[nodeArray[i]] # <<>>
  BY <1>2, <1>3, <1>4 DEF Healthy
<1>9. \A b \in Addr : pc'[b] \in Unready \cup {"running", "success"}
  BY <1>2 DEF Healthy, Unready
<1>10. \A b \in Addr : pc'[b] # "start" => server # "start"
  BY <1>1, <1>2 DEF Healthy
<1> QED
  BY <1>1, <1>5, <1>6, <1>7, <1>8, <1>9, <1>10 DEF Healthy

\* The step that gets a table.
LEMMA TableHealthy ==
  ASSUME Faults = {}, IInv, Healthy, NEW a \in Addr, ReceiveRoutingTable(a)
  PROVE  Healthy'
<1>1. /\ pc[a] = "waiting" /\ inbox[a] # <<>> /\ pc' = [pc EXCEPT ![a] = "running"]
      /\ inbox' = [inbox EXCEPT ![a] = Tail(@)]
      /\ UNCHANGED <<server, nodeArray, nSent, reported>>
  BY GetsTable
<1>2. /\ \A b \in Addr : pc'[b] = IF b = a THEN "running" ELSE pc[b]
      /\ \A b \in Addr : b # a => inbox'[b] = inbox[b]
  BY <1>1, HealthTypes DEF IInv
<1>3. \A i \in 1 .. nSent : nodeArray[i] \in Addr
  BY SentAreNodes
<1>4. \A b \in Addr : inbox'[b] # <<>> \/ pc'[b] \in {"running", "success"} =>
         \E i \in 1 .. nSent : nodeArray[i] = b
  BY <1>1, <1>2 DEF Healthy
<1>5. \A i \in 1 .. nSent : pc'[nodeArray[i]] = "waiting" => inbox'[nodeArray[i]] # <<>>
  BY <1>2, <1>3 DEF Healthy
<1>6. \A b \in Addr : pc'[b] \in {"waiting", "running", "success"} <=> b \in reported
  BY <1>1, <1>2 DEF Healthy
<1>7. \A b \in Addr : pc'[b] \in Unready \cup {"running", "success"}
  BY <1>2 DEF Healthy
<1>8. \A b \in Addr : pc'[b] # "start" => server # "start"
  BY <1>1, <1>2 DEF Healthy
<1> QED
  BY <1>1, <1>4, <1>5, <1>6, <1>7, <1>8 DEF Healthy

\* Every step keeps the processes healthy.
LEMMA HealthyStep ==
  ASSUME Faults = {}, IInv, Healthy, [Next]_vars
  PROVE  Healthy'
<1> USE DEF serverVars, tcpVars, udpVars
<1>0. /\ nSent \in Nat
      /\ nodeArray \in Seq(Addr) /\ backlog \in Seq(Addr)
      /\ pc \in [Addr -> NodeStates] /\ inbox \in [Addr -> Seq(Tables)]
      /\ Sender \in Addr
  BY HealthTypes DEF IInv
<1>1. CASE UNCHANGED <<server, nodeArray, nSent, pc, reported, inbox>>
  BY <1>1 DEF Healthy
<1>2. CASE ListenTCP
  BY <1>2 DEF ListenTCP, Healthy
<1>3. CASE AcceptConnection
  <2>1. /\ server = "accept" /\ server' = "receive" /\ backlog # <<>>
        /\ nodeArray' = Append(nodeArray, Head(backlog))
        /\ UNCHANGED <<nSent, pc, reported, inbox>>
    BY <1>3 DEF AcceptConnection
  <2>2. nSent = 0
    BY <2>1 DEF IInv, Phases
  <2>3. \A i \in DOMAIN nodeArray : nodeArray[i] \in reported
    BY <2>1 DEF Healthy
  <2>4. \A i \in DOMAIN nodeArray' :
          i = Len(nodeArray') \/ (i \in DOMAIN nodeArray /\ nodeArray'[i] = nodeArray[i])
    BY <1>0, <2>1
  <2>5. \A i \in DOMAIN nodeArray' :
          nodeArray'[i] \in reported' \/ (server' = "receive" /\ i = Len(nodeArray'))
    BY <2>1, <2>3, <2>4
  <2>6. nodeArray' # <<>>
    BY <1>0, <2>1, AppendNotEmpty
  <2> QED
    BY <2>1, <2>2, <2>5, <2>6 DEF Healthy
<1>4. CASE ReceiveReport
  <2> DEFINE m == Len(nodeArray)
  <2>1. server = "receive" /\ UNCHANGED <<nodeArray, nSent, pc, reported, inbox>>
    BY <1>4 DEF ReceiveReport
  <2>2. m \in Nat /\ DOMAIN nodeArray = 1 .. m
    BY <1>0
  <2>3. CASE nodeArray[m] \in reported /\ server' \in {"compute", "accept"}
    <3>1. \A i \in DOMAIN nodeArray : nodeArray[i] \in reported
      BY <2>3 DEF Healthy
    <3> QED
      BY <2>1, <2>3, <3>1 DEF Healthy
  <2>4. CASE nodeArray[m] \notin reported /\ pc[nodeArray[m]] \in Ended
    <3>1. m \in DOMAIN nodeArray
      BY <1>0, <2>1, <2>2 DEF Healthy
    <3>2. nodeArray[m] \in Addr
      BY <1>0, <3>1
    <3> QED
      BY <2>4, <3>2 DEF Healthy, Unready, Ended
  <2> QED
    BY <1>4, <2>3, <2>4 DEF ReceiveReport
<1>5. CASE ComputeTables
  BY <1>5 DEF ComputeTables, Healthy
<1>6. CASE SendTable
  <2> DEFINE i == nSent + 1
             a == nodeArray[i]
  <2>1. /\ inbox' = AfterSend(inbox, i) /\ nSent' = i
        /\ server' = IF i = N THEN "success" ELSE "send"
        /\ i \in DOMAIN nodeArray
    BY <1>6, SendsWell
  <2>2. server = "send" /\ UNCHANGED <<nodeArray, pc, reported>>
    BY <1>6 DEF SendTable
  <2>3. a \in Addr
    BY <1>0, <2>1
  <2>4. /\ \A b \in Addr \ {a} : inbox'[b] = inbox[b]
        /\ inbox'[a] # <<>>
    <3>1. inbox[a] \in Seq(Tables)
      BY <1>0, <2>3
    <3>2. inbox'[a] = Append(inbox[a], ToAddresses(idxTables[i]))
      BY <1>0, <2>1, <2>3 DEF AfterSend
    <3>3. \A b \in Addr \ {a} : inbox'[b] = inbox[b]
      BY <1>0, <2>1, <2>3 DEF AfterSend
    <3> QED
      BY <3>1, <3>2, <3>3, AppendNotEmpty
  <2>5. 1 .. i = (1 .. nSent) \cup {i} /\ i \in 1 .. i
    BY <1>0
  <2> HIDE DEF i, a
  <2>6. \A b \in Addr : inbox'[b] # <<>> \/ pc'[b] \in {"running", "success"} =>
          \E k \in 1 .. i : nodeArray[k] = b
    BY <2>2, <2>4, <2>5 DEF Healthy, a
  <2>7. \A k \in 1 .. i : pc[nodeArray[k]] = "waiting" => inbox'[nodeArray[k]] # <<>>
    <3> SUFFICES ASSUME NEW k \in 1 .. i, pc[nodeArray[k]] = "waiting"
                 PROVE  inbox'[nodeArray[k]] # <<>>
      OBVIOUS
    <3>1. CASE nodeArray[k] = a
      BY <2>4, <3>1
    <3>2. CASE nodeArray[k] # a
      <4>1. k \in 1 .. nSent
        BY <2>5, <3>2 DEF a
      <4>2. nodeArray[k] \in Addr
        BY <1>0, <2>1, <4>1 DEF i
      <4> QED
        BY <2>4, <3>2, <4>1, <4>2 DEF Healthy
    <3> QED
      BY <3>1, <3>2
  <2> QED
    BY <2>1, <2>2, <2>6, <2>7 DEF Healthy
<1>7. CASE ServerSocketFails
  BY <1>7 DEF ServerSocketFails
<1>8. CASE StopSending
  BY <1>0, <1>8, StageHealthy DEF StopSending, Exit
<1>9. ASSUME NEW a \in Addr, BindUDP(a) PROVE Healthy'
  BY <1>9, BindsWell, StageHealthy
<1>10. ASSUME NEW a \in Addr, ConnectTCP(a) PROVE Healthy'
  BY <1>10, ConnectsWell, StageHealthy
<1>11. ASSUME NEW a \in Addr, SendEdgeInformation(a) PROVE Healthy'
  BY <1>11, ReportHealthy
<1>12. ASSUME NEW a \in Addr, ReceiveRoutingTable(a) PROVE Healthy'
  BY <1>12, TableHealthy
<1>13. ASSUME NEW a \in Addr, ReceiveQuit(a) PROVE Healthy'
  BY <1>13, StageHealthy DEF ReceiveQuit, Receiving, Exit
<1>14. ASSUME NEW a \in Addr, ReceiveOwn(a) \/ Forward(a) PROVE Healthy'
  BY <1>1, <1>14 DEF ReceiveOwn, Forward
<1>15. ASSUME NEW a \in Addr, ReceiveFails(a) \/ Kill(a) PROVE Healthy'
  BY <1>15, NeverFails
<1>16. UNCHANGED vars \/ SendLine => UNCHANGED <<server, nodeArray, nSent, pc, reported, inbox>>
  BY DEF vars, SendLine
<1> QED
  BY <1>1, <1>2, <1>3, <1>4, <1>5, <1>6, <1>7, <1>8, <1>9, <1>10, <1>11, <1>12, <1>13, <1>14,
     <1>15, <1>16 DEF Next, ServerStep, SenderStep, NodeStep

-----------------------------------------------------------------------------
(***************************************************************************)
(* What the operations on the queues do to the packets in flight.          *)
(***************************************************************************)

\* A packet in flight is at some place of some queue.
LEMMA PlaceOf ==
  ASSUME NEW q, NEW x
  PROVE  x \in InFlight(q) <=> \E a \in Addr : \E i \in DOMAIN q[a] : x = q[a][i]
BY DEF InFlight

\* The packets in flight are packets.
LEMMA PacketsInFlight ==
  ASSUME NEW q \in Queues
  PROVE  InFlight(q) \subseteq Packets
<1>1. \A a \in Addr : q[a] \in Seq(Packets)
  BY DEF Queues
<1>2. \A a \in Addr : \A i \in DOMAIN q[a] : q[a][i] \in Packets
  BY <1>1
<1> QED
  BY <1>2 DEF InFlight

\* Taking the oldest packet of a queue.
LEMMA TakeInFlight ==
  ASSUME NEW q \in Queues, NEW a \in Addr, q[a] # <<>>
  PROVE  /\ InFlight(q) = InFlight([q EXCEPT ![a] = Tail(@)]) \cup {Head(q[a])}
         /\ \A t : Direct(q, t) => Direct([q EXCEPT ![a] = Tail(@)], t)
<1> DEFINE r == [q EXCEPT ![a] = Tail(@)]
           m == Len(q[a])
<1>1. q[a] \in Seq(Packets) /\ m \in Nat \ {0} /\ DOMAIN q[a] = 1 .. m
  BY DEF Queues
<1>2. /\ Head(q[a]) = q[a][1] /\ DOMAIN Tail(q[a]) = 1 .. m - 1
      /\ \A i \in 1 .. m - 1 : Tail(q[a])[i] = q[a][i + 1]
  BY <1>1
<1>3. /\ \A b \in Addr : b # a => r[b] = q[b]
      /\ DOMAIN r[a] = 1 .. m - 1 /\ \A i \in 1 .. m - 1 : r[a][i] = q[a][i + 1]
  BY <1>2 DEF Queues
<1> HIDE DEF r, m
<1>4. ASSUME NEW b \in Addr, NEW i \in DOMAIN q[b]
      PROVE  q[b][i] = Head(q[a]) \/ q[b][i] \in InFlight(r)
  <2>1. CASE b # a
    <3>1. i \in DOMAIN r[b] /\ r[b][i] = q[b][i]
      BY <1>3, <2>1
    <3> QED
      BY <3>1 DEF InFlight
  <2>2. CASE b = a /\ i = 1
    BY <1>2, <2>2
  <2>3. CASE b = a /\ i # 1
    <3>1. i - 1 \in 1 .. m - 1 /\ (i - 1) + 1 = i
      BY <1>1, <2>3
    <3>2. i - 1 \in DOMAIN r[b] /\ r[b][i - 1] = q[b][i]
      BY <1>2, <1>3, <2>3, <3>1
    <3> QED
      BY <3>2 DEF InFlight
  <2> QED
    BY <2>1, <2>2, <2>3
<1>5. ASSUME NEW b \in Addr, NEW i \in DOMAIN r[b]
      PROVE  r[b][i] \in InFlight(q)
  <2>1. CASE b # a
    BY <1>3, <2>1 DEF InFlight
  <2>2. CASE b = a
    <3>1. i \in 1 .. m - 1 /\ r[a][i] = q[a][i + 1]
      BY <1>3, <1>5, <2>2
    <3>2. i + 1 \in DOMAIN q[a]
      BY <1>1, <3>1
    <3> QED
      BY <2>2, <3>1, <3>2, PlaceOf
  <2> QED
    BY <2>1, <2>2
<1>6. Head(q[a]) \in InFlight(q)
  BY <1>1, <1>2 DEF InFlight
<1>7. InFlight(q) = InFlight(r) \cup {Head(q[a])}
  <2>1. InFlight(q) \subseteq InFlight(r) \cup {Head(q[a])}
    BY <1>4, PlaceOf
  <2>2. InFlight(r) \subseteq InFlight(q)
    BY <1>5, PlaceOf
  <2> QED
    BY <1>6, <2>1, <2>2
<1>8. ASSUME NEW t, Direct(q, t) PROVE Direct(r, t)
  <2>1. SUFFICES ASSUME NEW b \in Addr, NEW i \in DOMAIN r[b], NEW j \in DOMAIN r[b],
                        i < j, r[b][i].destination = b,
                        r[b][j].destination \in DOMAIN t, t[r[b][j].destination] = b
                 PROVE  r[b][i].line < r[b][j].line
    BY DEF Direct
  <2>2. CASE b # a
    <3>1. r[b] = q[b]
      BY <1>3, <2>2
    <3> QED
      BY <1>8, <2>1, <3>1 DEF Direct
  <2>3. CASE b = a
    <3>1. i \in 1 .. m - 1 /\ j \in 1 .. m - 1
      BY <1>2, <1>3, <2>3
    <3>2. i + 1 \in DOMAIN q[a] /\ j + 1 \in DOMAIN q[a] /\ i + 1 < j + 1
      BY <1>1, <2>1, <3>1
    <3>3. r[b][i] = q[b][i + 1] /\ r[b][j] = q[b][j + 1]
      BY <1>3, <2>3, <3>1
    <3> QED
      BY <1>8, <2>1, <2>3, <3>2, <3>3 DEF Direct
  <2> QED
    BY <2>2, <2>3
<1> QED
  BY <1>7, <1>8 DEF r

\* Queueing a packet.
LEMMA PutInFlight ==
  ASSUME NEW q \in Queues, NEW b \in Addr, NEW p \in Packets
  PROVE  /\ InFlight([q EXCEPT ![b] = Append(@, p)]) = InFlight(q) \cup {p}
         /\ \A t : /\ Direct(q, t)
                   /\ p.destination \in DOMAIN t /\ t[p.destination] = b =>
                        \A x \in InFlight(q) : x.line < p.line
                   => Direct([q EXCEPT ![b] = Append(@, p)], t)
<1> DEFINE r == [q EXCEPT ![b] = Append(@, p)]
           m == Len(q[b])
<1>1. q[b] \in Seq(Packets) /\ m \in Nat /\ DOMAIN q[b] = 1 .. m
  BY DEF Queues
<1>2. /\ DOMAIN Append(q[b], p) = 1 .. m + 1
      /\ \A i \in 1 .. m : Append(q[b], p)[i] = q[b][i]
      /\ Append(q[b], p)[m + 1] = p
  BY <1>1
<1>3. \A c \in Addr : r[c] = IF c = b THEN Append(q[b], p) ELSE q[c]
  BY DEF Queues
<1> HIDE DEF r, m
<1>4. ASSUME NEW c \in Addr, NEW i \in DOMAIN r[c]
      PROVE  \/ i \in DOMAIN q[c] /\ r[c][i] = q[c][i]
             \/ c = b /\ i = m + 1 /\ r[c][i] = p
  <2>1. CASE c # b
    BY <1>3, <2>1
  <2>2. CASE c = b
    <3>1. i \in 1 .. m + 1 /\ r[c][i] = Append(q[b], p)[i]
      BY <1>2, <1>3, <2>2
    <3>2. i = m + 1 \/ i \in 1 .. m
      BY <1>1, <3>1
    <3> QED
      BY <1>1, <1>2, <2>2, <3>1, <3>2
  <2> QED
    BY <2>1, <2>2
<1>5. ASSUME NEW c \in Addr, NEW i \in DOMAIN q[c]
      PROVE  i \in DOMAIN r[c] /\ r[c][i] = q[c][i]
  <2>1. CASE c # b
    BY <1>3, <2>1
  <2>2. CASE c = b
    <3>1. i \in 1 .. m /\ i \in 1 .. m + 1
      BY <1>1, <2>2
    <3> QED
      BY <1>2, <1>3, <2>2, <3>1
  <2> QED
    BY <2>1, <2>2
<1>6. p \in InFlight(r)
  <2>1. r[b] = Append(q[b], p)
    BY <1>3
  <2>2. m + 1 \in 1 .. m + 1
    BY <1>1
  <2>3. m + 1 \in DOMAIN r[b] /\ r[b][m + 1] = p
    BY <1>2, <2>1, <2>2
  <2> QED
    BY <2>3 DEF InFlight
<1>7. InFlight(r) = InFlight(q) \cup {p}
  <2>1. InFlight(r) \subseteq InFlight(q) \cup {p}
    BY <1>4, PlaceOf
  <2>2. InFlight(q) \subseteq InFlight(r)
    BY <1>5, PlaceOf
  <2> QED
    BY <1>6, <2>1, <2>2
<1>8. ASSUME NEW t, Direct(q, t),
             p.destination \in DOMAIN t /\ t[p.destination] = b =>
                        \A x \in InFlight(q) : x.line < p.line
      PROVE  Direct(r, t)
  <2>1. SUFFICES ASSUME NEW c \in Addr, NEW i \in DOMAIN r[c], NEW j \in DOMAIN r[c],
                        i < j, r[c][i].destination = c,
                        r[c][j].destination \in DOMAIN t, t[r[c][j].destination] = c
                 PROVE  r[c][i].line < r[c][j].line
    BY DEF Direct
  <2>2. CASE j \in DOMAIN q[c] /\ r[c][j] = q[c][j] /\ i \in DOMAIN q[c] /\ r[c][i] = q[c][i]
    BY <1>8, <2>1, <2>2 DEF Direct
  <2>3. CASE j \in DOMAIN q[c] /\ r[c][j] = q[c][j] /\ c = b /\ i = m + 1
    BY <1>1, <2>1, <2>3
  <2>4. CASE c = b /\ j = m + 1 /\ r[c][j] = p /\ i \in DOMAIN q[c] /\ r[c][i] = q[c][i]
    BY <1>8, <2>1, <2>4, PlaceOf
  <2>5. CASE c = b /\ i = m + 1 /\ j = m + 1
    BY <1>1, <2>1, <2>5
  <2> QED
    BY <1>4, <2>2, <2>3, <2>4, <2>5
<1> QED
  BY <1>7, <1>8 DEF r

\* Closing a socket.
LEMMA CloseInFlight ==
  ASSUME NEW q \in Queues, NEW a \in Addr
  PROVE  /\ InFlight(q) = InFlight([q EXCEPT ![a] = <<>>]) \cup {q[a][i] : i \in DOMAIN q[a]}
         /\ \A t : Direct(q, t) => Direct([q EXCEPT ![a] = <<>>], t)
<1> DEFINE r == [q EXCEPT ![a] = <<>>]
<1>1. \A b \in Addr : r[b] = IF b = a THEN <<>> ELSE q[b]
  BY DEF Queues
<1>2. \A i : i \notin DOMAIN <<>>
  OBVIOUS
<1> HIDE DEF r
<1>3. \A b \in Addr : \A i \in DOMAIN r[b] : b # a /\ r[b] = q[b]
  BY <1>1, <1>2
<1>4. InFlight(r) \subseteq InFlight(q)
  BY <1>3, PlaceOf
<1>5. InFlight(q) \subseteq InFlight(r) \cup {q[a][i] : i \in DOMAIN q[a]}
  BY <1>1, PlaceOf
<1>6. \A t : Direct(q, t) => Direct(r, t)
  BY <1>3 DEF Direct
<1>7. {q[a][i] : i \in DOMAIN q[a]} \subseteq InFlight(q)
  BY PlaceOf
<1> QED
  BY <1>4, <1>5, <1>6, <1>7 DEF r

-----------------------------------------------------------------------------
(***************************************************************************)
(* No step loses a packet.                                                 *)
(***************************************************************************)

\* Once something is in flight, or a node other than the sender has left, the
\* sender has its table.
LEMMA SenderIsReady ==
  ASSUME IInv, Healthy, Delivering, Lossless, NEW a \in Addr, udp[a] # <<>>
  PROVE  /\ pc[Sender] \in {"running", "success"}
         /\ \E T \in TableSets : table[Sender] = T[Sender]
<1>1. pc[Sender] \notin Unready
  BY DEF Delivering, QuietBefore, Unready
<1>2. pc[Sender] \in {"running", "success"}
  BY <1>1, AddrAssumption DEF Healthy
<1> QED
  BY <1>2 DEF Lossless

\* A node that has not left holds its port as soon as one node runs.
LEMMA StillBound ==
  ASSUME IInv, Healthy, NEW a \in Addr, pc[a] = "running",
         NEW b \in Addr, pc[b] # "success"
  PROVE  b \in bound
<1>1. Len(nodeArray) = N
  BY DEF IInv, Phases
<1>2. PICK i \in 1 .. N : nodeArray[i] = b
  BY <1>1, AllRegistered DEF IInv, TypeOK, Registration
<1>3. i \in DOMAIN nodeArray
  BY <1>1, <1>2 DEF IInv, TypeOK
<1>4. pc[b] \in Registered
  BY <1>2, <1>3 DEF IInv, Registration
<1>5. pc[b] \in Active
  BY <1>4 DEF Healthy, Unready, Registered, Active
<1> QED
  BY <1>5 DEF IInv, Registration

\* A step that touches neither the packets nor the sender's table.
LEMMA StageLossless ==
  ASSUME Lossless, UNCHANGED <<udp, received, line>>, table'[Sender] = table[Sender],
         \A b \in Others : pc'[b] = "success" <=> pc[b] = "success",
         pc'[Sender] \in Unready => pc[Sender] \in Unready,
         pc'[Sender] \in {"running", "success"} => pc[Sender] \in {"running", "success"}
  PROVE  Lossless'
<1>1. Kept(udp, received, line)'
  BY DEF Lossless, Kept
<1> QED
  BY <1>1 DEF Lossless

\* The stages of one node on its way to its table.
LEMMA AdvanceLossless ==
  ASSUME IInv, Lossless, NEW a \in Addr, pc[a] \in Unready,
         NEW s \in Unready \cup {"running"}, pc' = [pc EXCEPT ![a] = s],
         a = Sender => s # "running",
         UNCHANGED <<udp, received, line>>, table'[Sender] = table[Sender]
  PROVE  Lossless'
<1>1. \A b \in Addr : pc'[b] = IF b = a THEN s ELSE pc[b]
  BY HealthTypes DEF IInv
<1>2. Sender \in Addr /\ Others \subseteq Addr
  BY AddrAssumption DEF Others
<1> QED
  BY <1>1, <1>2, StageLossless DEF Unready

\* The sender gets its table.
LEMMA TableLossless ==
  ASSUME Faults = {}, IInv, Healthy, Delivering, Lossless, ReceiveRoutingTable(Sender)
  PROVE  Lossless'
<1>1. /\ pc[Sender] = "waiting" /\ inbox[Sender] # <<>>
      /\ pc' = [pc EXCEPT ![Sender] = "running"]
      /\ table' = [table EXCEPT ![Sender] = Head(inbox[Sender])]
      /\ UNCHANGED <<udp, line, received>>
  BY GetsTable, AddrAssumption
<1>2. \A b \in Addr : pc'[b] = IF b = Sender THEN "running" ELSE pc[b]
  BY <1>1, HealthTypes DEF IInv
<1>3. Sender \in Addr /\ Others = Addr \ {Sender}
  BY AddrAssumption DEF Others
<1>4. \E T \in TableSets : table'[Sender] = T[Sender]
  <2>1. PICK T \in TableSets : Follows(T)
    BY DEF IInv, Consistent
  <2>2. 1 \in DOMAIN inbox[Sender] /\ Head(inbox[Sender]) = inbox[Sender][1]
    BY <1>1, <1>3, HealthTypes DEF IInv
  <2>3. Head(inbox[Sender]) = T[Sender]
    BY <1>3, <2>1, <2>2 DEF Follows
  <2>4. table'[Sender] = Head(inbox[Sender])
    BY <1>1, <1>3 DEF IInv, TypeOK
  <2> QED
    BY <2>3, <2>4
<1>5. \A b \in Addr : udp'[b] = <<>>
  BY <1>1 DEF Delivering, QuietBefore
<1>6. Direct(udp', table'[Sender])
  BY <1>5 DEF Direct
<1>7. \A b \in Others : pc'[b] # "success"
  BY <1>1, <1>2, <1>3 DEF Lossless, Unready
<1>8. Kept(udp, received, line)'
  <2>1. \A d \in Others : pc'[d] = pc[d]
    BY <1>2, <1>3
  <2> QED
    BY <1>1, <2>1 DEF Lossless, Kept
<1>9. pc'[Sender] \notin Unready
  BY <1>2, <1>3 DEF Unready
<1>10. \A x \in InFlight(udp') : x.destination \in Others
  BY <1>1 DEF Lossless
<1> QED
  BY <1>4, <1>6, <1>7, <1>8, <1>9, <1>10 DEF Lossless

\* What is left for those who have left can only get less.
LEMMA NothingStays ==
  ASSUME NEW b, NEW q, NEW r, NEW t, NEW n \in Nat, NEW m \in Nat,
         NothingFor(b, q, t, n), n <= m,
         \A x \in InFlight(r) : x \in InFlight(q) \/ x.destination # b
  PROVE  NothingFor(b, r, t, m)
<1>1. \A l \in DOMAIN Lines : l \in Nat
  BY LinesAssumption
<1>2. \A l \in DOMAIN Lines : m <= l => n <= l
  BY <1>1
<1> QED
  BY <1>2 DEF NothingFor

\* A line that is sent is in flight to an open socket.
LEMMA SendLineLossless ==
  ASSUME Faults = {}, IInv, Healthy, Delivering, Lossless, SendLine
  PROVE  Lossless'
<1> DEFINE d == Lines[line].destination
           t == table[Sender]
           b == t[d]
           p == [line |-> line, destination |-> d, source |-> Sender]
<1>1. /\ pc[Sender] = "running" /\ line \in DOMAIN Lines /\ line \in Nat /\ d \in DOMAIN t
      /\ line' = line + 1
      /\ UNCHANGED <<pc, table, received>>
      /\ Transmit(udp, Sender, b, p)
  BY LinesAssumption DEF SendLine, NextHop, IInv, TypeOK, tcpVars
<1>2. udp \in Queues /\ Sender \in Addr
  BY PipelineTypes DEF IInv
<1>3. t \in Tables
  BY <1>2 DEF IInv, TypeOK
<1>4. b \in Others /\ d \in Others /\ b \in Addr /\ d \in Nat
  BY <1>1, <1>3, TableValues, AddrAssumption DEF Others
<1>5. p \in Packets /\ p.line = line /\ p.destination = d
  BY <1>1, <1>2, <1>4 DEF Packets
\* Nobody has left whom this line touches.
<1>6. \A c \in Others : pc[c] = "success" => c # b /\ c # d
  <2> SUFFICES ASSUME NEW c \in Others, pc[c] = "success" PROVE c # b /\ c # d
    OBVIOUS
  <2>1. NothingFor(c, udp, t, line)
    BY DEF Lossless
  <2>2. ~Touches(t, line, c)
    BY <1>1, <2>1 DEF NothingFor
  <2> QED
    BY <1>1, <2>2 DEF Touches
<1>7. b \in bound
  BY <1>1, <1>2, <1>4, <1>6, StillBound
<1> HIDE DEF d, t, b, p
<1>8. udp' = [udp EXCEPT ![b] = Append(@, p)]
  BY <1>1, <1>7 DEF Transmit, Enqueue
<1>9. InFlight(udp') = InFlight(udp) \cup {p}
  BY <1>2, <1>4, <1>5, <1>8, PutInFlight
<1>10. \A x \in InFlight(udp) : x.line < p.line
  <2>1. \A a \in Addr : \A i \in DOMAIN udp[a] : udp[a][i].line < line
    BY DEF Delivering, Pipeline, Placed, PlacedAt
  <2> QED
    BY <1>5, <2>1, PlaceOf
<1>11. Direct(udp', t)
  <2>1. Direct(udp, t)
    BY DEF Lossless, t
  <2> QED
    BY <1>2, <1>4, <1>5, <1>8, <1>10, <2>1, PutInFlight
<1>12. Kept(udp, received, line)'
  <2>1. SUFFICES ASSUME NEW c \in Others, NEW l \in DOMAIN Lines,
                        l < line + 1, Lines[l].destination = c, pc[c] # "success",
                        \A k \in DOMAIN received[c] : received[c][k] # l
                 PROVE  \E x \in InFlight(udp') : x.line = l
    BY <1>1 DEF Kept
  <2>2. CASE l = line
    BY <1>5, <1>9, <2>2
  <2>3. CASE l # line
    <3>1. l \in Nat
      BY LinesAssumption
    <3>2. l < line
      BY <1>1, <2>1, <2>3, <3>1
    <3>3. \E x \in InFlight(udp) : x.line = l
      BY <2>1, <3>2 DEF Lossless, Kept
    <3> QED
      BY <1>9, <3>3
  <2> QED
    BY <2>2, <2>3
<1>13. \A c \in Others : pc'[c] = "success" => NothingFor(c, udp', t, line')
  <2> SUFFICES ASSUME NEW c \in Others, pc[c] = "success"
               PROVE  NothingFor(c, udp', t, line + 1)
    BY <1>1
  <2>1. NothingFor(c, udp, t, line)
    BY DEF Lossless, t
  <2>2. \A x \in InFlight(udp') : x \in InFlight(udp) \/ x.destination # c
    BY <1>5, <1>6, <1>9
  <2>3. line <= line + 1 /\ line + 1 \in Nat
    BY <1>1
  <2> QED
    BY <1>1, <2>1, <2>2, <2>3, NothingStays
<1>14. \A x \in InFlight(udp') : x.destination \in Others
  BY <1>4, <1>5, <1>9 DEF Lossless
<1>15. pc'[Sender] \notin Unready /\ \E T \in TableSets : table'[Sender] = T[Sender]
  BY <1>1 DEF Lossless, Unready
<1> QED
  BY <1>1, <1>11, <1>12, <1>13, <1>14, <1>15 DEF Lossless, t

\* What a node prints is no longer in flight.
LEMMA ReceiveOwnLossless ==
  ASSUME IInv, Healthy, Delivering, Lossless, NEW a \in Addr, ReceiveOwn(a)
  PROVE  Lossless'
<1> DEFINE p == Head(udp[a])
<1>1. /\ udp[a] # <<>> /\ p.destination = a
      /\ received' = [received EXCEPT ![a] = Append(@, p.line)]
      /\ udp' = [udp EXCEPT ![a] = Tail(@)]
      /\ UNCHANGED <<pc, table, line>>
  BY DEF ReceiveOwn, Receiving, tcpVars
<1>2. /\ udp \in Queues /\ received \in [Addr -> Seq(DOMAIN Lines)] /\ line \in Nat
  BY PipelineTypes DEF IInv
<1>3. p \in Packets
  BY <1>1, <1>2 DEF Queues
<1>4. Placed(udp, table[Sender], line) /\ 1 \in DOMAIN udp[a] /\ p = udp[a][1]
  BY <1>1, <1>2 DEF Delivering, Pipeline, Queues
<1>5. Lines[p.line].destination = a
  BY <1>1, <1>4 DEF Placed, PlacedAt
<1> HIDE DEF p
<1>6. InFlight(udp) = InFlight(udp') \cup {p}
  BY <1>1, <1>2, TakeInFlight DEF p
<1>7. Direct(udp', table[Sender])
  BY <1>1, <1>2, TakeInFlight DEF p, Lossless
<1>8. \E k \in DOMAIN received'[a] : received'[a][k] = p.line
  <2> DEFINE m == Len(received[a])
  <2>1. received'[a] = Append(received[a], p.line) /\ received[a] \in Seq(DOMAIN Lines)
    BY <1>1, <1>2
  <2>2. m + 1 \in 1 .. m + 1
    BY <2>1
  <2>3. m + 1 \in DOMAIN received'[a] /\ received'[a][m + 1] = p.line
    BY <1>3, <2>1, <2>2 DEF Packets
  <2> QED
    BY <2>3
<1>9. \A d \in Addr : \A k \in DOMAIN received[d] :
         k \in DOMAIN received'[d] /\ received'[d][k] = received[d][k]
  <2> SUFFICES ASSUME NEW d \in Addr, NEW k \in DOMAIN received[d]
               PROVE  k \in DOMAIN received'[d] /\ received'[d][k] = received[d][k]
    OBVIOUS
  <2>1. CASE d # a
    BY <1>1, <1>2, <2>1
  <2>2. CASE d = a
    <3>1. received'[d] = Append(received[d], p.line) /\ received[d] \in Seq(DOMAIN Lines)
      BY <1>1, <1>2, <2>2
    <3> QED
      BY <1>3, <3>1 DEF Packets
  <2> QED
    BY <2>1, <2>2
<1>10. Kept(udp, received, line)'
  <2>1. SUFFICES ASSUME NEW c \in Others, NEW l \in DOMAIN Lines,
                        l < line, Lines[l].destination = c, pc[c] # "success",
                        \A x \in InFlight(udp') : x.line # l
                 PROVE  \E k \in DOMAIN received'[c] : received'[c][k] = l
    BY <1>1 DEF Kept
  <2>2. CASE p.line = l
    BY <1>5, <1>8, <2>1, <2>2
  <2>3. CASE p.line # l
    <3>1. \A x \in InFlight(udp) : x.line # l
      BY <1>6, <2>1, <2>3
    <3>2. \E k \in DOMAIN received[c] : received[c][k] = l
      BY <2>1, <3>1 DEF Lossless, Kept
    <3> QED
      BY <1>9, <3>2 DEF Others
  <2> QED
    BY <2>2, <2>3
<1>11. \A c \in Others : pc'[c] = "success" => NothingFor(c, udp', table[Sender], line)
  BY <1>1, <1>6 DEF Lossless, NothingFor
<1>12. \A x \in InFlight(udp') : x.destination \in Others
  BY <1>6 DEF Lossless
<1> QED
  BY <1>1, <1>7, <1>10, <1>11, <1>12 DEF Lossless

\* The sender's socket is empty when it is closed.
LEMMA StopLossless ==
  ASSUME IInv, Healthy, Delivering, Lossless, StopSending
  PROVE  Lossless'
<1>1. /\ pc[Sender] = "running" /\ pc' = [pc EXCEPT ![Sender] = "success"]
      /\ udp' = [udp EXCEPT ![Sender] = <<>>]
      /\ UNCHANGED <<table, line, received>>
  BY DEF StopSending, Exit, tcpVars
<1>2. udp \in Queues /\ Sender \in Addr /\ table[Sender] \in Tables /\ Others = Addr \ {Sender}
  BY PipelineTypes DEF IInv, TypeOK, Others
<1>3. \A b \in Addr : pc'[b] = IF b = Sender THEN "success" ELSE pc[b]
  BY <1>1, HealthTypes DEF IInv
<1>4. ASSUME NEW i \in DOMAIN udp[Sender] PROVE FALSE
  <2>1. PlacedAt(udp[Sender][i], Sender, table[Sender], line)
    BY <1>2 DEF Delivering, Pipeline, Placed
  <2>2. udp[Sender][i].destination \in Others
    BY <1>2, PlaceOf DEF Lossless
  <2>3. \A d \in DOMAIN table[Sender] : table[Sender][d] # Sender
    BY <1>2, TableValues
  <2> QED
    BY <1>2, <2>1, <2>2, <2>3 DEF PlacedAt
<1>5. InFlight(udp') = InFlight(udp)
  <2>1. InFlight(udp) = InFlight(udp') \cup {udp[Sender][i] : i \in DOMAIN udp[Sender]}
    BY <1>1, <1>2, CloseInFlight
  <2>2. {udp[Sender][i] : i \in DOMAIN udp[Sender]} = {}
    BY <1>4
  <2> QED
    BY <2>1, <2>2
<1>6. Direct(udp', table[Sender])
  BY <1>1, <1>2, CloseInFlight DEF Lossless
<1>7. \A d \in Others : pc'[d] = pc[d]
  BY <1>2, <1>3
<1>8. Kept(udp, received, line)'
  BY <1>1, <1>5, <1>7 DEF Lossless, Kept
<1>9. \A c \in Others : pc'[c] = "success" => NothingFor(c, udp', table[Sender], line)
  BY <1>5, <1>7 DEF Lossless, NothingFor
<1>10. pc'[Sender] \notin Unready /\ \E T \in TableSets : table'[Sender] = T[Sender]
  BY <1>1, <1>2, <1>3 DEF Lossless, Unready
<1>11. \A x \in InFlight(udp') : x.destination \in Others
  BY <1>5 DEF Lossless
<1> QED
  BY <1>1, <1>6, <1>8, <1>9, <1>10, <1>11 DEF Lossless

\* A packet is forwarded to an open socket.
LEMMA ForwardLossless ==
  ASSUME Faults = {}, IInv, Healthy, Delivering, Lossless, NEW a \in Addr, Forward(a)
  PROVE  Lossless'
<1> DEFINE p == Head(udp[a])
           d == p.destination
           queues == [udp EXCEPT ![a] = Tail(@)]
           q == [p EXCEPT !.source = a]
           t == table[Sender]
<1>1. /\ udp[a] # <<>> /\ d # a /\ d \in DOMAIN table[a] /\ pc[a] = "running"
      /\ UNCHANGED <<table, line, pc, received>>
      /\ Transmit(queues, a, d, q)
  BY DEF Forward, Receiving, ForwardPort, tcpVars
<1>2. udp \in Queues /\ line \in Nat /\ received \in [Addr -> Seq(DOMAIN Lines)]
  BY PipelineTypes DEF IInv
<1>3. 1 \in DOMAIN udp[a] /\ p = udp[a][1] /\ p \in Packets
  BY <1>1, <1>2 DEF Queues
<1>4. d \in Others /\ d \in Addr
  <2>1. table[a] \in Tables
    BY DEF IInv, TypeOK
  <2> QED
    BY <1>1, <2>1, TableValues DEF Others
<1>5. q \in Packets /\ q.line = p.line /\ q.destination = d
  BY <1>3 DEF Packets
<1>6. PlacedAt(p, a, t, line)
  BY <1>3 DEF Delivering, Pipeline, Placed
<1> HIDE DEF p
<1>7. p \in InFlight(udp)
  BY <1>3, PlaceOf
<1>8. d \in bound
  <2>1. pc[d] = "success" => NothingFor(d, udp, t, line)
    BY <1>4 DEF Lossless
  <2>2. pc[d] # "success"
    BY <1>7, <2>1 DEF NothingFor
  <2> QED
    BY <1>1, <1>4, <2>2, StillBound
<1>9. queues \in Queues
  BY <1>1, <1>2, TakingKeeps DEF Delivering
<1>10. InFlight(udp) = InFlight(queues) \cup {p} /\ Direct(queues, t)
  BY <1>1, <1>2, TakeInFlight DEF Lossless, p
<1> HIDE DEF d, q, t, queues
<1>11. udp' = [queues EXCEPT ![d] = Append(@, q)]
  BY <1>1, <1>8 DEF Transmit, Enqueue
<1>12. InFlight(udp') = InFlight(queues) \cup {q}
  BY <1>4, <1>5, <1>9, <1>11, PutInFlight
\* The packet came here because d is not the sender's next hop for it.
<1>13. Direct(udp', t)
  <2>1. ~(q.destination \in DOMAIN t /\ t[q.destination] = d)
    BY <1>1, <1>5, <1>6 DEF PlacedAt, d
  <2> QED
    BY <1>4, <1>5, <1>9, <1>10, <1>11, <2>1, PutInFlight
<1>14. Kept(udp, received, line)'
  <2>1. SUFFICES ASSUME NEW c \in Others, NEW l \in DOMAIN Lines,
                        l < line, Lines[l].destination = c, pc[c] # "success",
                        \A k \in DOMAIN received[c] : received[c][k] # l
                 PROVE  \E x \in InFlight(udp') : x.line = l
    BY <1>1 DEF Kept
  <2>2. PICK x \in InFlight(udp) : x.line = l
    BY <2>1 DEF Lossless, Kept
  <2> QED
    BY <1>5, <1>10, <1>12, <2>2
<1>15. \A c \in Others : pc'[c] = "success" => NothingFor(c, udp', t, line')
  <2> SUFFICES ASSUME NEW c \in Others, pc[c] = "success"
               PROVE  NothingFor(c, udp', t, line)
    BY <1>1
  <2>1. NothingFor(c, udp, t, line)
    BY DEF Lossless, t
  <2>2. d # c
    BY <1>7, <2>1 DEF NothingFor, d
  <2>3. \A x \in InFlight(udp') : x \in InFlight(udp) \/ x.destination # c
    BY <1>5, <1>10, <1>12, <2>2
  <2> QED
    BY <1>2, <2>1, <2>3, NothingStays
<1>16. \A x \in InFlight(udp') : x.destination \in Others
  BY <1>4, <1>5, <1>10, <1>12 DEF Lossless
<1> QED
  BY <1>1, <1>13, <1>14, <1>15, <1>16 DEF Lossless, t

\* When a node gets its QUIT packet, nothing else is in its queue or on its way
\* to it, and no later line touches it.
LEMMA QuitIsLast ==
  ASSUME QuitsAfterTraffic, IInv, Healthy, Delivering, Lossless,
         NEW a \in Addr, ReceiveQuit(a)
  PROVE  LET p == Head(udp[a])
         IN  /\ p \in Packets /\ p.line < line /\ Lines[p.line].destination = a
             /\ Lines[p.line].message = QUIT
             /\ a \in Others
             /\ \A l \in DOMAIN Lines : p.line < l => ~Touches(table[Sender], l, a)
             /\ \A i \in DOMAIN udp[a] : udp[a][i] = p
             /\ \A c \in Addr \ {a} : \A i \in DOMAIN udp[c] : udp[c][i].destination # a
<1> DEFINE p == Head(udp[a])
           t == table[Sender]
<1>1. /\ a # Sender /\ udp[a] # <<>> /\ p.destination = a /\ Lines[p.line].message = QUIT
  BY DEF ReceiveQuit, Receiving, IsQuitFor, Message
<1>2. udp \in Queues /\ a \in Others
  BY <1>1, PipelineTypes DEF IInv, Others
<1>3. 1 \in DOMAIN udp[a] /\ p = udp[a][1] /\ p \in Packets
  BY <1>1, <1>2 DEF Queues
<1>4. Placed(udp, t, line) /\ InOrder(udp) /\ Direct(udp, t)
  BY DEF Delivering, Pipeline, Lossless
<1>5. PlacedAt(p, a, t, line) /\ p.line \in DOMAIN Lines
  BY <1>3, <1>4 DEF Placed, Packets
<1> HIDE DEF p
<1>6. p.line < line /\ Lines[p.line].destination = a
  BY <1>1, <1>5 DEF PlacedAt
<1>7. ASSUME NEW l \in DOMAIN Lines, p.line < l PROVE ~Touches(t, l, a)
  <2>1. PICK T \in TableSets : t = T[Sender]
    BY <1>1, SenderIsReady
  <2>2. l \in p.line + 1 .. Len(Lines)
    <3>1. p.line \in Nat /\ l \in 1 .. Len(Lines) /\ Len(Lines) \in Nat
      BY <1>5, LinesAssumption
    <3> QED
      BY <1>7, <3>1
  <2>3. /\ Lines[l].destination # a
        /\ Lines[l].destination \in DOMAIN T[Sender] => T[Sender][Lines[l].destination] # a
    BY <1>1, <1>5, <1>6, <2>2 DEF QuitsAfterTraffic
  <2> QED
    BY <2>1, <2>3 DEF Touches
<1>8. ASSUME NEW c \in Addr, NEW i \in DOMAIN udp[c]
      PROVE  udp[c][i].line \in DOMAIN Lines /\ PlacedAt(udp[c][i], c, t, line)
  <2>1. udp[c] \in Seq(Packets)
    BY <1>2 DEF Queues
  <2>2. udp[c][i] \in Packets
    BY <2>1
  <2> QED
    BY <1>4, <2>2 DEF Placed, Packets
\* Who is behind it in its queue would be of a later line.
<1>9. ASSUME NEW i \in DOMAIN udp[a] PROVE udp[a][i] = p
  <2>1. SUFFICES ASSUME i # 1 PROVE FALSE
    BY <1>3
  <2>2. 1 < i
    <3>1. i \in Nat \ {0}
      BY <1>2 DEF Queues
    <3> QED
      BY <2>1, <3>1
  <2>3. PlacedAt(udp[a][i], a, t, line) /\ udp[a][i].line \in DOMAIN Lines
    BY <1>8
  <2>4. p.line < udp[a][i].line
    <3>1. CASE udp[a][i].destination = a
      BY <1>1, <1>3, <1>4, <2>2, <3>1 DEF InOrder
    <3>2. CASE udp[a][i].destination \in DOMAIN t /\ t[udp[a][i].destination] = a
      BY <1>1, <1>3, <1>4, <2>2, <3>2 DEF Direct
    <3> QED
      BY <2>3, <3>1, <3>2 DEF PlacedAt
  <2> QED
    BY <1>7, <2>3, <2>4 DEF PlacedAt, Touches
<1>10. ASSUME NEW c \in Addr \ {a}, NEW i \in DOMAIN udp[c], udp[c][i].destination = a
       PROVE  FALSE
  <2>1. p.line < udp[c][i].line
    BY <1>1, <1>3, <1>4, <1>10 DEF InOrder
  <2>2. udp[c][i].line \in DOMAIN Lines /\ Lines[udp[c][i].line].destination = a
    BY <1>8, <1>10 DEF PlacedAt
  <2> QED
    BY <1>7, <2>1, <2>2 DEF Touches
<1> QED
  BY <1>1, <1>2, <1>3, <1>6, <1>7, <1>9, <1>10 DEF p

\* A node that leaves loses nothing but its QUIT packet.
LEMMA QuitLossless ==
  ASSUME QuitsAfterTraffic, IInv, Healthy, Delivering, Lossless,
         NEW a \in Addr, ReceiveQuit(a)
  PROVE  Lossless'
<1> DEFINE p == Head(udp[a])
           t == table[Sender]
<1>1. /\ udp[a] # <<>>
      /\ pc' = [pc EXCEPT ![a] = "success"] /\ udp' = [udp EXCEPT ![a] = <<>>]
      /\ UNCHANGED <<table, line, received>>
  BY DEF ReceiveQuit, Receiving, Exit, tcpVars
<1>2. udp \in Queues /\ line \in Nat /\ Sender \in Addr
  BY PipelineTypes DEF IInv
<1>3. /\ p.line \in DOMAIN Lines /\ p.line < line /\ Lines[p.line].destination = a
      /\ a \in Others
      /\ \A l \in DOMAIN Lines : p.line < l => ~Touches(t, l, a)
      /\ \A i \in DOMAIN udp[a] : udp[a][i] = p
      /\ \A c \in Addr \ {a} : \A i \in DOMAIN udp[c] : udp[c][i].destination # a
  BY QuitIsLast DEF Packets
<1>4. /\ \A b \in Addr : pc'[b] = IF b = a THEN "success" ELSE pc[b]
      /\ \A b \in Addr : udp'[b] = IF b = a THEN <<>> ELSE udp[b]
  BY <1>1, <1>2, HealthTypes DEF IInv, Queues
<1>5. Others = Addr \ {Sender}
  BY DEF Others
<1> HIDE DEF p, t
<1>6. InFlight(udp) = InFlight(udp') \cup {udp[a][i] : i \in DOMAIN udp[a]}
  BY <1>1, <1>2, CloseInFlight
<1>7. \A x \in InFlight(udp) : x \in InFlight(udp') \/ x = p
  BY <1>3, <1>6
<1>8. Direct(udp', t)
  BY <1>1, <1>2, CloseInFlight DEF Lossless, t
<1>9. Kept(udp, received, line)'
  <2>1. SUFFICES ASSUME NEW c \in Others, NEW l \in DOMAIN Lines,
                        l < line, Lines[l].destination = c, pc'[c] # "success",
                        \A k \in DOMAIN received[c] : received[c][k] # l
                 PROVE  \E x \in InFlight(udp') : x.line = l
    BY <1>1 DEF Kept
  <2>2. c # a /\ pc[c] # "success"
    BY <1>4, <1>5, <2>1
  <2>3. PICK x \in InFlight(udp) : x.line = l
    BY <2>1, <2>2 DEF Lossless, Kept
  <2> QED
    BY <1>3, <1>7, <2>1, <2>2, <2>3
<1>10. ASSUME NEW c \in Others, pc'[c] = "success" PROVE NothingFor(c, udp', t, line)
  <2>1. CASE c # a
    <3>1. NothingFor(c, udp, t, line)
      BY <1>4, <1>5, <1>10, <2>1 DEF Lossless, t
    <3> QED
      BY <1>6, <3>1 DEF NothingFor
  <2>2. CASE c = a
    <3>1. \A x \in InFlight(udp') : x.destination # a
      <4> SUFFICES ASSUME NEW b \in Addr, NEW i \in DOMAIN udp'[b]
                   PROVE  udp'[b][i].destination # a
        BY PlaceOf
      <4>1. b # a
        BY <1>4
      <4> QED
        BY <1>3, <1>4, <4>1
    <3>2. \A l \in DOMAIN Lines : line <= l => p.line < l
      <4>1. \A l \in DOMAIN Lines : l \in Nat
        BY LinesAssumption
      <4> QED
        BY <1>2, <1>3, <4>1
    <3> QED
      BY <1>3, <2>2, <3>1, <3>2 DEF NothingFor
  <2> QED
    BY <2>1, <2>2
<1>11. \A x \in InFlight(udp') : x.destination \in Others
  BY <1>6 DEF Lossless
<1>12. pc'[Sender] \notin Unready /\ \E T \in TableSets : table'[Sender] = T[Sender]
  BY <1>1, <1>2, <1>3, <1>4, <1>5, SenderIsReady DEF Unready
<1> QED
  BY <1>1, <1>8, <1>9, <1>10, <1>11, <1>12 DEF Lossless, t

\* Every step keeps what is sent in flight until it is printed.
LEMMA LosslessStep ==
  ASSUME Faults = {}, QuitsAfterTraffic, IInv, Healthy, Delivering, Lossless, [Next]_vars
  PROVE  Lossless'
<1> USE DEF serverVars, tcpVars, udpVars
<1>1. CASE UNCHANGED vars \/ ServerStep
  <2>1. UNCHANGED <<udp, received, line, table, pc>>
    BY <1>1 DEF vars, ServerStep, ListenTCP, AcceptConnection, ReceiveReport,
       ComputeTables, SendTable, ServerSocketFails
  <2> QED
    BY <2>1, StageLossless
<1>2. CASE SendLine
  BY <1>2, SendLineLossless
<1>3. CASE StopSending
  BY <1>3, StopLossless
<1>4. ASSUME NEW a \in Addr, BindUDP(a) PROVE Lossless'
  BY <1>4, BindsWell, AdvanceLossless DEF Unready
<1>5. ASSUME NEW a \in Addr, ConnectTCP(a) PROVE Lossless'
  BY <1>5, ConnectsWell, AdvanceLossless DEF Unready
<1>6. ASSUME NEW a \in Addr, SendEdgeInformation(a) PROVE Lossless'
  BY <1>6, ReportsWell, AdvanceLossless DEF Unready
<1>7. ASSUME NEW a \in Addr, ReceiveRoutingTable(a) PROVE Lossless'
  <2>1. CASE a = Sender
    BY <1>7, <2>1, TableLossless
  <2>2. CASE a # Sender
    <3>1. /\ pc[a] = "waiting" /\ pc' = [pc EXCEPT ![a] = "running"]
          /\ table' = [table EXCEPT ![a] = Head(inbox[a])]
          /\ UNCHANGED <<udp, line, received>>
      BY <1>7, GetsTable
    <3>2. table'[Sender] = table[Sender]
      BY <2>2, <3>1 DEF IInv, TypeOK
    <3> QED
      BY <2>2, <3>1, <3>2, AdvanceLossless DEF Unready
  <2> QED
    BY <2>1, <2>2
<1>8. ASSUME NEW a \in Addr, ReceiveQuit(a) PROVE Lossless'
  BY <1>8, QuitLossless
<1>9. ASSUME NEW a \in Addr, ReceiveOwn(a) PROVE Lossless'
  BY <1>9, ReceiveOwnLossless
<1>10. ASSUME NEW a \in Addr, Forward(a) PROVE Lossless'
  BY <1>10, ForwardLossless
<1>11. ASSUME NEW a \in Addr, ReceiveFails(a) \/ Kill(a) PROVE Lossless'
  BY <1>11, NeverFails
<1> QED
  BY <1>1, <1>2, <1>3, <1>4, <1>5, <1>6, <1>7, <1>8, <1>9, <1>10, <1>11
     DEF Next, SenderStep, NodeStep

-----------------------------------------------------------------------------
(***************************************************************************)
(* The theorems.                                                           *)
(***************************************************************************)

\* The oldest packet of a node, if it is for that node, is the next line for it.
LEMMA OldestIsNext ==
  ASSUME Faults = {}, IInv, Delivering, Lossless, NEW a \in Others,
         pc[a] = "running", udp[a] # <<>>, Head(udp[a]).destination = a
  PROVE  Head(udp[a]).line \in MD!Candidates(a)
<1> DEFINE p == Head(udp[a])
<1>1. udp \in Queues /\ a \in Addr
  BY PipelineTypes DEF IInv, Others
<1>2. 1 \in DOMAIN udp[a] /\ p = udp[a][1] /\ p \in Packets
  BY <1>1 DEF Queues
<1>3. Placed(udp, table[Sender], line) /\ InOrder(udp) /\ Printed(udp, line, received)
  BY DEF Delivering, Pipeline
<1>4. p.line \in DOMAIN Lines /\ p.line < line /\ Lines[p.line].destination = a
  BY <1>1, <1>2, <1>3 DEF Placed, PlacedAt, Packets
<1>5. \A k \in DOMAIN received[a] : received[a][k] < p.line
  BY <1>1, <1>2, <1>3 DEF Printed
<1> HIDE DEF p
<1>6. p.line \in MD!Pending(a)
  BY <1>4, <1>5 DEF MD!Pending
<1>7. ASSUME NEW k \in MD!Pending(a), k < p.line PROVE FALSE
  <2>1. /\ k \in DOMAIN Lines /\ Lines[k].destination = a
        /\ \A i \in DOMAIN received[a] : received[a][i] < k
    BY DEF MD!Pending
  <2>2. k \in Nat /\ p.line \in Nat /\ line \in Nat
    BY <1>4, <2>1, LinesAssumption, PipelineTypes DEF IInv
  <2>3. k < line
    BY <1>4, <1>7, <2>2
  <2>4. \A i \in DOMAIN received[a] : received[a][i] # k
    BY <2>1, <2>2
  <2>5. PICK x \in InFlight(udp) : x.line = k
    BY <2>1, <2>3, <2>4 DEF Lossless, Kept
  <2>6. PICK c \in Addr : \E i \in DOMAIN udp[c] : x = udp[c][i]
    BY <2>5, PlaceOf
  <2>7. PICK i \in DOMAIN udp[c] : x = udp[c][i]
    BY <2>6
  <2>8. x.destination = a
    BY <1>3, <2>1, <2>5, <2>7 DEF Placed, PlacedAt
  <2>9. ~(c = a /\ i = 1)
    BY <1>2, <1>7, <2>2, <2>5, <2>7
  <2>10. i \in Nat \ {0}
    BY <1>1 DEF Queues
  <2>11. (a = c /\ 1 < i) \/ a # c
    BY <2>9, <2>10
  <2>12. p.line < x.line
    BY <1>1, <1>2, <1>3, <1>7, <2>7, <2>8, <2>11 DEF InOrder, p
  <2> QED
    BY <1>7, <2>2, <2>5, <2>12
<1>8. \A k \in MD!Pending(a) : p.line <= k
  <2>1. \A k \in MD!Pending(a) : k \in Nat
    BY LinesAssumption DEF MD!Pending
  <2>2. p.line \in Nat
    BY <1>4, LinesAssumption
  <2> QED
    BY <1>7, <2>1, <2>2
<1> QED
  BY <1>6, <1>8 DEF MD!Candidates, p

\* A step that ends no process and prints nothing is invisible.
LEMMA StageStutters ==
  ASSUME IInv, NEW a \in Addr, pc[a] \notin Ended,
         NEW s \in NodeStates \ Ended, pc' = [pc EXCEPT ![a] = s], UNCHANGED received
  PROVE  UNCHANGED MD!vars
BY AdvanceStutters DEF IInv

\* A process that ends well.
LEMMA EndsWell ==
  ASSUME IInv, NEW a \in Addr, pc[a] = "running", Exit(a, "success"), UNCHANGED received,
         a # Sender => \E l \in MD!Candidates(a) : Lines[l].message = QUIT
  PROVE  MD!Next
<1> DEFINE G == {b \in Addr : pc[b] \in Ended}
<1>1. \A b \in Addr : pc'[b] = IF b = a THEN "success" ELSE pc[b]
  BY HealthTypes DEF IInv, Exit
<1>2. a \notin G /\ {b \in Addr : pc'[b] \in Ended} = G \cup {a}
  BY <1>1 DEF Ended
<1>3. MD!Sender = Sender
  BY DEF MD!Sender, Sender
<1>4. MD!Leave(a)
  BY <1>2, <1>3 DEF MD!Leave
<1> QED
  BY <1>4 DEF MD!Next

\* Without faults, and when data.txt keeps its rule, a process ends only when its
\* work is done, and no packet is lost on the way or with a closed socket.
THEOREM LosslessInvariance ==
  ASSUME Faults = {}, QuitsAfterTraffic
  PROVE  Spec => [](Healthy /\ Lossless)
<1>1. Init => Healthy /\ Lossless
  <2> SUFFICES ASSUME Init PROVE Healthy /\ Lossless
    OBVIOUS
  <2>1. /\ server = "start" /\ nodeArray = <<>> /\ nSent = 0 /\ line = 1 /\ reported = {}
        /\ \A a \in Addr : pc[a] = "start" /\ inbox[a] = <<>> /\ udp[a] = <<>>
    BY DEF Init
  <2>2. Healthy
    BY <2>1 DEF Healthy, Unready
  <2>3. InFlight(udp) = {} /\ Direct(udp, table[Sender])
    BY <2>1 DEF InFlight, Direct
  <2>4. \A l \in DOMAIN Lines : ~(l < line)
    BY <2>1, LinesAssumption
  <2>5. Kept(udp, received, line)
    BY <2>4 DEF Kept
  <2>6. Sender \in Addr /\ Others \subseteq Addr
    BY AddrAssumption DEF Others
  <2> QED
    BY <2>1, <2>2, <2>3, <2>5, <2>6 DEF Lossless
<1>2. IInv /\ Delivering /\ Healthy /\ Lossless /\ [Next]_vars => (Healthy /\ Lossless)'
  BY HealthyStep, LosslessStep
<1> QED
  BY <1>1, <1>2, Invariance, PipelineInvariance, PTL DEF Spec

\* Without faults every node is handed all the lines for it, in file order, and
\* leaves at its QUIT line and not before, whatever the order in which the nodes
\* connect, the tables arrive and the packets are forwarded.
THEOREM ReliableDelivery ==
  ASSUME Faults = {}, QuitsAfterTraffic
  PROVE  Spec => DeliversMessages
<1>1. Init => MD!Init
  BY DEF Init, MD!Init, Ended
<1>2. IInv /\ Delivering /\ Healthy /\ Lossless /\ [Next]_vars => [MD!Next]_(MD!vars)
  <2> SUFFICES ASSUME IInv, Delivering, Healthy, Lossless, [Next]_vars
               PROVE  [MD!Next]_(MD!vars)
    OBVIOUS
  <2> USE DEF serverVars, tcpVars, udpVars
  <2>1. ASSUME UNCHANGED <<received, pc>> PROVE UNCHANGED MD!vars
    BY <2>1 DEF MD!vars
  <2>2. CASE UNCHANGED vars \/ ServerStep
    BY <2>1, <2>2 DEF vars, ServerStep, ListenTCP, AcceptConnection, ReceiveReport,
       ComputeTables, SendTable, ServerSocketFails
  <2>3. CASE SendLine
    BY <2>1, <2>3 DEF SendLine
  <2>4. CASE StopSending
    BY <2>4, AddrAssumption, EndsWell DEF StopSending
  <2>5. ASSUME NEW a \in Addr, BindUDP(a) PROVE [MD!Next]_(MD!vars)
    BY <2>5, BindsWell, StageStutters DEF Ended, NodeStates, Active
  <2>6. ASSUME NEW a \in Addr, ConnectTCP(a) PROVE [MD!Next]_(MD!vars)
    BY <2>6, ConnectsWell, StageStutters DEF Ended, NodeStates, Active
  <2>7. ASSUME NEW a \in Addr, SendEdgeInformation(a) PROVE [MD!Next]_(MD!vars)
    BY <2>7, ReportsWell, StageStutters DEF Ended, NodeStates, Active
  <2>8. ASSUME NEW a \in Addr, ReceiveRoutingTable(a) PROVE [MD!Next]_(MD!vars)
    BY <2>8, GetsTable, StageStutters DEF Ended, NodeStates, Active
  <2>9. ASSUME NEW a \in Addr, ReceiveQuit(a) PROVE [MD!Next]_(MD!vars)
    <3>1. /\ a \in Others /\ pc[a] = "running" /\ udp[a] # <<>> /\ Exit(a, "success")
          /\ Head(udp[a]).destination = a /\ Lines[Head(udp[a]).line].message = QUIT
          /\ UNCHANGED received
      BY <2>9 DEF ReceiveQuit, Receiving, IsQuitFor, Message, Others
    <3>2. \E l \in MD!Candidates(a) : Lines[l].message = QUIT
      BY <3>1, OldestIsNext
    <3> QED
      BY <3>1, <3>2, EndsWell
  <2>10. ASSUME NEW a \in Addr, ReceiveOwn(a) PROVE [MD!Next]_(MD!vars)
    <3>1. /\ a \in Others /\ pc[a] = "running" /\ udp[a] # <<>>
          /\ Head(udp[a]).destination = a /\ Lines[Head(udp[a]).line].message # QUIT
          /\ received' = [received EXCEPT ![a] = Append(@, Head(udp[a]).line)]
          /\ UNCHANGED pc
      BY <2>10 DEF ReceiveOwn, Receiving, IsQuitFor, Message, Others
    <3>2. Head(udp[a]).line \in MD!Candidates(a)
      BY <3>1, OldestIsNext
    <3>3. MD!Deliver(a)
      BY <3>1, <3>2 DEF MD!Deliver, Ended
    <3> QED
      BY <3>3 DEF MD!Next
  <2>11. ASSUME NEW a \in Addr, Forward(a) PROVE [MD!Next]_(MD!vars)
    BY <2>1, <2>11 DEF Forward
  <2>12. ASSUME NEW a \in Addr, ReceiveFails(a) \/ Kill(a) PROVE [MD!Next]_(MD!vars)
    BY <2>12, NeverFails
  <2> QED
    BY <2>2, <2>3, <2>4, <2>5, <2>6, <2>7, <2>8, <2>9, <2>10, <2>11, <2>12
       DEF Next, SenderStep, NodeStep
<1> QED
  BY <1>1, <1>2, Invariance, PipelineInvariance, LosslessInvariance, PTL
     DEF Spec, DeliversMessages, MD!Spec

=============================================================================
