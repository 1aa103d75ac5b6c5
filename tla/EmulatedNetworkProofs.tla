------------------------ MODULE EmulatedNetworkProofs ------------------------
(***************************************************************************)
(* Proofs about EmulatedNetwork for every set of nodes, every data.txt and *)
(* every combination of faults.                                            *)
(*                                                                         *)
(* The argument: a node registers (is in backlog or nodeArray) only after  *)
(* it has bound its port, and at most once, so N entries in nodeArray are  *)
(* all the nodes.  The tables are computed when nodeArray has N entries,   *)
(* from one member of TableSets, and everything that is sent afterwards    *)
(* follows that member.                                                    *)
(***************************************************************************)
EXTENDS EmulatedNetwork, FiniteSetTheorems, TLAPS

\* Where a node can be once it has connected to the server.
Registered == {"connected", "waiting", "running", "success", "failure", "killed"}

\* No node is in the server's queues twice, and those that are in them have
\* bound their port.
Registration ==
    /\ \A i, j \in DOMAIN nodeArray : nodeArray[i] = nodeArray[j] => i = j
    /\ \A i, j \in DOMAIN backlog : backlog[i] = backlog[j] => i = j
    /\ \A i \in DOMAIN nodeArray, j \in DOMAIN backlog : nodeArray[i] # backlog[j]
    /\ \A i \in DOMAIN nodeArray : pc[nodeArray[i]] \in Registered
    /\ \A j \in DOMAIN backlog : pc[backlog[j]] \in Registered
    /\ \A a \in Addr : pc[a] \in Active => a \in bound

\* What has not happened before the tables are computed.
Phases ==
    /\ server \in {"compute", "send", "success"} => Len(nodeArray) = N
    /\ server \in {"start", "accept", "receive", "compute"} => idxTables = <<>>
    /\ server = "send" => idxTables # <<>> /\ nSent < N
    /\ idxTables # <<>> => Len(nodeArray) = N /\ Len(idxTables) = N
    /\ idxTables = <<>> =>
         /\ nSent = 0
         /\ hops = {}
         /\ \A a \in Addr : inbox[a] = <<>> /\ udp[a] = <<>> /\ pc[a] # "running"

\* Everything sent since then follows the tables T.
Follows(T) ==
    /\ \A i \in DOMAIN idxTables : idxTables[i] = ToIndices(T[nodeArray[i]])
    /\ \A a \in Addr : \A i \in DOMAIN inbox[a] : inbox[a][i] = T[a]
    /\ \A a \in Addr : pc[a] = "running" => table[a] = T[a]
    /\ \A i \in 1..nSent : \/ table[nodeArray[i]] = T[nodeArray[i]]
                           \/ inbox[nodeArray[i]] # <<>>
    /\ \A a \in Addr : \A i \in DOMAIN udp[a] :
         udp[a][i].destination \in DOMAIN T[a] \cup {a}
    /\ \A h \in hops : h[2] \in Others

Consistent == \E T \in TableSets : Follows(T)

\* The inductive invariant.
IInv == TypeOK /\ Registration /\ Phases /\ Consistent

-----------------------------------------------------------------------------
(***************************************************************************)
(* Lemmas about the constants and the two translations.                    *)
(***************************************************************************)

\* What a routing table is.
LEMMA TableValues ==
  ASSUME NEW t \in Tables
  PROVE  /\ DOMAIN t \subseteq Others
         /\ \A d \in DOMAIN t : t[d] \in Others
         /\ t = [d \in DOMAIN t |-> t[d]]
<1>1. PICK D \in SUBSET Others : t \in [D -> Others]
  BY DEF Tables
<1>2. QED
  BY <1>1

\* The address set is finite and not empty.
LEMMA NType == N \in Nat \ {0}
<1>1. N \in Nat
  BY AddrAssumption, FS_CardinalityType DEF N
<1>2. N # 0
  BY AddrAssumption, FS_EmptySet DEF N
<1>3. QED
  BY <1>1, <1>2

\* N registrations without repetition are all the nodes.
LEMMA AllRegistered ==
  ASSUME nodeArray \in Seq(Addr), Len(nodeArray) = N,
         \A i, j \in DOMAIN nodeArray : nodeArray[i] = nodeArray[j] => i = j,
         NEW a \in Addr
  PROVE  \E i \in 1..N : nodeArray[i] = a
<1>1. N \in Nat /\ DOMAIN nodeArray = 1..N
  BY NType
<1>2. nodeArray \in Injection(1..N, Addr)
  BY <1>1 DEF Injection, IsInjective
<1>3. Cardinality(1..N) = Cardinality(Addr)
  BY <1>1, FS_Interval DEF N
<1>4. nodeArray \in Surjection(1..N, Addr)
  BY <1>2, <1>3, AddrAssumption, FS_Injection
<1>5. QED
  BY <1>4 DEF Surjection

\* getIndexFromAddress inverts nodeArray.
LEMMA IndexOfElement ==
  ASSUME nodeArray \in Seq(Addr),
         \A i, j \in DOMAIN nodeArray : nodeArray[i] = nodeArray[j] => i = j,
         NEW i \in DOMAIN nodeArray
  PROVE  IndexOf(nodeArray[i]) = i
<1>1. DOMAIN nodeArray = 1 .. Len(nodeArray) /\ i <= i
  OBVIOUS
<1>2. \E k \in DOMAIN nodeArray :
        /\ nodeArray[k] = nodeArray[i]
        /\ \A j \in DOMAIN nodeArray : nodeArray[j] = nodeArray[i] => k <= j
  BY <1>1
<1>3. IndexOf(nodeArray[i]) \in DOMAIN nodeArray /\ nodeArray[IndexOf(nodeArray[i])] = nodeArray[i]
  BY <1>2 DEF IndexOf
<1>4. QED
  BY <1>3

\* The index of an address is an index.
LEMMA IndexOfAddress ==
  ASSUME nodeArray \in Seq(Addr), Len(nodeArray) = N,
         \A i, j \in DOMAIN nodeArray : nodeArray[i] = nodeArray[j] => i = j,
         NEW a \in Addr
  PROVE  IndexOf(a) \in 1..N /\ nodeArray[IndexOf(a)] = a
<1>1. PICK i \in 1..N : nodeArray[i] = a
  BY AllRegistered
<1>2. i \in DOMAIN nodeArray
  OBVIOUS
<1>3. IndexOf(nodeArray[i]) = i
  BY <1>2, IndexOfElement
<1>4. QED
  BY <1>1, <1>3

\* A translated table has indices for rows and next hops.
LEMMA ToIndicesType ==
  ASSUME nodeArray \in Seq(Addr), Len(nodeArray) = N,
         \A i, j \in DOMAIN nodeArray : nodeArray[i] = nodeArray[j] => i = j,
         NEW t \in Tables
  PROVE  ToIndices(t) \in UNION {[D -> 1..N] : D \in SUBSET (1..N)}
<1> DEFINE D == {j \in DOMAIN nodeArray : nodeArray[j] \in DOMAIN t}
<1>1. D \in SUBSET (1..N)
  OBVIOUS
<1>2. ASSUME NEW i \in D PROVE IndexOf(t[nodeArray[i]]) \in 1..N
  <2>1. t[nodeArray[i]] \in Addr
    BY TableValues DEF Others
  <2>2. QED
    BY <2>1, IndexOfAddress
<1>3. ToIndices(t) \in [D -> 1..N]
  BY <1>2 DEF ToIndices
<1>4. QED
  BY <1>1, <1>3

\* What sendRoutingTables sends is what was computed: the translation to
\* indices and back is the identity once all nodes are registered.
LEMMA RoundTrip ==
  ASSUME nodeArray \in Seq(Addr), Len(nodeArray) = N,
         \A i, j \in DOMAIN nodeArray : nodeArray[i] = nodeArray[j] => i = j,
         NEW t \in Tables
  PROVE  ToAddresses(ToIndices(t)) = t
<1> DEFINE I == ToIndices(t)
           back == {nodeArray[i] : i \in DOMAIN I}
<1>1. DOMAIN I = {j \in DOMAIN nodeArray : nodeArray[j] \in DOMAIN t}
  BY DEF ToIndices
<1>2. \A a \in Addr : IndexOf(a) \in 1..N /\ nodeArray[IndexOf(a)] = a
  BY IndexOfAddress
<1>3. DOMAIN t \subseteq Addr /\ \A d \in DOMAIN t : t[d] \in Addr
  BY TableValues DEF Others
<1>4. back = DOMAIN t
  <2>1. back \subseteq DOMAIN t
    BY <1>1
  <2>2. ASSUME NEW d \in DOMAIN t PROVE d \in back
    <3>1. IndexOf(d) \in DOMAIN nodeArray /\ nodeArray[IndexOf(d)] = d
      BY <1>2, <1>3
    <3>2. IndexOf(d) \in DOMAIN I
      BY <1>1, <3>1
    <3>3. QED
      BY <3>1, <3>2
  <2>3. QED
    BY <2>1, <2>2
<1>5. ASSUME NEW d \in DOMAIN t PROVE nodeArray[I[IndexOf(d)]] = t[d]
  <2>1. IndexOf(d) \in DOMAIN nodeArray /\ nodeArray[IndexOf(d)] = d
    BY <1>2, <1>3
  <2>2. I[IndexOf(d)] = IndexOf(t[d])
    BY <2>1 DEF ToIndices
  <2>3. QED
    BY <2>2, <1>2, <1>3
<1>6. ToAddresses(I) = [d \in DOMAIN t |-> nodeArray[I[IndexOf(d)]]]
  BY <1>4 DEF ToAddresses
<1>7. QED
  BY <1>5, <1>6, TableValues

-----------------------------------------------------------------------------
(***************************************************************************)
(* The initial states, and the parts of the invariant one by one.          *)
(***************************************************************************)

\* The invariant holds before the first process starts.
LEMMA InitInv == Init => IInv
<1> SUFFICES ASSUME Init PROVE IInv
  OBVIOUS
<1>1. EmptyTable \in Tables
  BY DEF EmptyTable, Tables
<1>2. TypeOK
  BY <1>1, NType, LinesAssumption DEF Init, TypeOK, ServerStates, NodeStates
<1>3. Registration
  BY DEF Init, Registration, Active
<1>4. Phases
  BY DEF Init, Phases
<1>5. Consistent
  BY TableSetsAssumption DEF Init, Consistent, Follows
<1>6. QED
  BY <1>2, <1>3, <1>4, <1>5 DEF IInv

\* The end of a process keeps the types of what it changes.
LEMMA ExitType ==
  ASSUME TypeOK, NEW a \in Addr, NEW how \in Ended, Exit(a, how)
  PROVE  /\ pc' \in [Addr -> NodeStates]
         /\ bound' \subseteq Addr
         /\ udp' \in [Addr -> Seq(Packets)]
BY DEF TypeOK, Exit, NodeStates

\* A transmission to a node keeps the types of what it changes.
LEMMA TransmitType ==
  ASSUME TypeOK, NEW queues \in [Addr -> Seq(Packets)], NEW a \in Addr,
         NEW b \in Others, NEW p \in Packets, Transmit(queues, a, b, p)
  PROVE  /\ udp' \in [Addr -> Seq(Packets)]
         /\ hops' \subseteq (Addr \X Nat \X DOMAIN Lines)
         /\ hops' = hops \cup {<<a, b, p.line>>}
         /\ udp' = queues \/ udp' = [queues EXCEPT ![b] = Append(@, p)]
<1>1. b \in Addr /\ b \in Nat /\ p.line \in DOMAIN Lines
  BY AddrAssumption DEF Others, Packets
<1>2. udp' = queues \/ udp' = [queues EXCEPT ![b] = Append(@, p)]
  BY DEF Transmit, Enqueue
<1>3. hops' = hops \cup {<<a, b, p.line>>}
  BY DEF Transmit
<1>4. hops' \subseteq (Addr \X Nat \X DOMAIN Lines)
  BY <1>1, <1>3 DEF TypeOK
<1>5. Append(queues[b], p) \in Seq(Packets)
  BY <1>1
<1>6. udp' \in [Addr -> Seq(Packets)]
  BY <1>2, <1>5
<1>7. QED
  BY <1>2, <1>3, <1>4, <1>6

\* Every step keeps the types.
LEMMA TypeStep == IInv /\ [Next]_vars => TypeOK'
<1> SUFFICES ASSUME IInv, [Next]_vars PROVE TypeOK'
  OBVIOUS
<1> USE DEF IInv, serverVars, tcpVars, udpVars
<1>1. CASE UNCHANGED vars
  BY <1>1 DEF vars, TypeOK
<1>2. CASE ListenTCP
  BY <1>2 DEF ListenTCP, TypeOK, ServerStates
<1>3. CASE AcceptConnection
  <2>1. Head(backlog) \in Addr /\ Tail(backlog) \in Seq(Addr)
    BY <1>3 DEF AcceptConnection, TypeOK
  <2>2. backlog' \in Seq(Addr)
    BY <1>3, <2>1 DEF AcceptConnection
  <2>3. nodeArray' \in Seq(Addr)
    BY <1>3, <2>1 DEF AcceptConnection, TypeOK
  <2>4. server' \in ServerStates
    BY <1>3 DEF AcceptConnection, ServerStates
  <2>5. QED
    BY <1>3, <2>2, <2>3, <2>4 DEF AcceptConnection, TypeOK
<1>4. CASE ReceiveReport
  BY <1>4 DEF ReceiveReport, TypeOK, ServerStates
<1>5. CASE ComputeTables
  <2>1. CASE UNCHANGED idxTables
    BY <1>5, <2>1 DEF ComputeTables, TypeOK, ServerStates
  <2>2. ASSUME NEW T \in TableSets,
               idxTables' = [i \in DOMAIN nodeArray |-> ToIndices(T[nodeArray[i]])]
        PROVE  TypeOK'
    <3> DEFINE Rows == UNION {[D -> 1..N] : D \in SUBSET (1..N)}
    <3>1. Len(nodeArray) = N
      BY <1>5 DEF ComputeTables, Phases
    <3>2. \A i \in DOMAIN nodeArray : T[nodeArray[i]] \in Tables
      BY TableSetsAssumption DEF TypeOK
    <3>3. \A i \in DOMAIN nodeArray : ToIndices(T[nodeArray[i]]) \in Rows
      BY <3>1, <3>2, ToIndicesType DEF TypeOK, Registration
    <3>4. idxTables' \in Seq(Rows)
      <4> HIDE DEF Rows
      <4>1. DOMAIN nodeArray = 1..N /\ N \in Nat
        BY <3>1, NType DEF TypeOK
      <4>2. QED
        BY <2>2, <3>3, <4>1
    <3>5. QED
      BY <1>5, <3>4 DEF ComputeTables, TypeOK, ServerStates
  <2>3. QED
    BY <1>5, <2>1, <2>2 DEF ComputeTables
<1>6. CASE SendTable
  <2>1. CASE UNCHANGED <<inbox, nSent>>
    BY <1>6, <2>1 DEF SendTable, TypeOK, ServerStates
  <2>2. CASE inbox' = AfterSend(inbox, nSent + 1) /\ nSent' = nSent + 1
    <3> DEFINE i == nSent + 1
    <3>1. i \in 1..N /\ i \in DOMAIN nodeArray /\ i \in DOMAIN idxTables
      BY <1>6, NType DEF SendTable, Phases, TypeOK
    <3>2. PICK T \in TableSets : Follows(T)
      BY DEF Consistent
    <3>3. nodeArray[i] \in Addr /\ T[nodeArray[i]] \in Tables
      BY <3>1, TableSetsAssumption DEF TypeOK
    <3>4. Len(nodeArray) = N
      BY <1>6 DEF SendTable, Phases
    <3>5. ToAddresses(idxTables[i]) \in Tables
      <4>1. idxTables[i] = ToIndices(T[nodeArray[i]])
        BY <3>1, <3>2 DEF Follows
      <4>2. ToAddresses(ToIndices(T[nodeArray[i]])) = T[nodeArray[i]]
        BY <3>3, <3>4, RoundTrip DEF TypeOK, Registration
      <4>3. QED
        BY <3>3, <4>1, <4>2
    <3>6. inbox' \in [Addr -> Seq(Tables)]
      BY <2>2, <3>3, <3>5 DEF AfterSend, TypeOK
    <3>7. nSent' \in 0..N
      BY <2>2, <3>1
    <3>8. QED
      BY <1>6, <3>6, <3>7 DEF SendTable, TypeOK, ServerStates
  <2>3. QED
    BY <1>6, <2>1, <2>2 DEF SendTable
<1>7. CASE ServerSocketFails
  BY <1>7 DEF ServerSocketFails, TypeOK, ServerStates
<1>8. CASE SendLine
  <2> DEFINE d == Lines[line].destination
             p == [line |-> line, destination |-> d, source |-> Sender]
  <2>1. /\ line \in DOMAIN Lines /\ d \in DOMAIN table[Sender]
        /\ Transmit(udp, Sender, table[Sender][d], p)
    BY <1>8, LinesAssumption DEF SendLine, NextHop, TypeOK
  <2>2. table[Sender] \in Tables /\ Sender \in Addr
    BY AddrAssumption DEF TypeOK
  <2>3. table[Sender][d] \in Others /\ d \in Nat
    BY <2>1, <2>2, TableValues, AddrAssumption DEF Others
  <2>4. p \in Packets
    BY <2>1, <2>2, <2>3 DEF Packets
  <2>5. udp \in [Addr -> Seq(Packets)]
    BY DEF TypeOK
  <2>6. udp' \in [Addr -> Seq(Packets)] /\ hops' \subseteq (Addr \X Nat \X DOMAIN Lines)
    BY <2>1, <2>2, <2>3, <2>4, <2>5, TransmitType
  <2>7. line' \in 1 .. Len(Lines) + 1
    BY <1>8, LinesAssumption DEF SendLine, TypeOK
  <2>8. QED
    BY <1>8, <2>6, <2>7 DEF SendLine, TypeOK
<1>9. CASE StopSending
  <2>1. Exit(Sender, "success") /\ Sender \in Addr /\ "success" \in Ended
    BY <1>9, AddrAssumption DEF StopSending, Ended
  <2>2. QED
    BY <1>9, <2>1, ExitType DEF StopSending, TypeOK
<1>10. ASSUME NEW a \in Addr, BindUDP(a) PROVE TypeOK'
  <2>1. CASE Exit(a, "bindFailed")
    <3>1. "bindFailed" \in Ended
      BY DEF Ended
    <3>2. QED
      BY <1>10, <2>1, <3>1, ExitType DEF BindUDP, TypeOK
  <2>2. CASE bound' = bound \cup {a} /\ pc' = [pc EXCEPT ![a] = "bound"] /\ UNCHANGED udp
    BY <1>10, <2>2 DEF BindUDP, TypeOK, NodeStates, Active
  <2>3. QED
    BY <1>10, <2>1, <2>2 DEF BindUDP
<1>11. ASSUME NEW a \in Addr, ConnectTCP(a) PROVE TypeOK'
  <2>1. CASE Exit(a, "connectFailed") /\ UNCHANGED backlog
    <3>1. "connectFailed" \in Ended
      BY DEF Ended
    <3>2. QED
      BY <1>11, <2>1, <3>1, ExitType DEF ConnectTCP, TypeOK
  <2>2. CASE /\ backlog' = Append(backlog, a) /\ pc' = [pc EXCEPT ![a] = "connected"]
             /\ UNCHANGED <<bound, udp>>
    BY <1>11, <2>2 DEF ConnectTCP, TypeOK, NodeStates, Active
  <2>3. QED
    BY <1>11, <2>1, <2>2 DEF ConnectTCP
<1>12. ASSUME NEW a \in Addr, SendEdgeInformation(a) PROVE TypeOK'
  <2>1. CASE Abort(a) /\ UNCHANGED reported
    <3>1. PICK how \in Ended : Exit(a, how)
      BY <2>1 DEF Abort, Ended
    <3>2. QED
      BY <1>12, <2>1, <3>1, ExitType DEF SendEdgeInformation, TypeOK
  <2>2. CASE /\ reported' = reported \cup {a} /\ pc' = [pc EXCEPT ![a] = "waiting"]
             /\ UNCHANGED <<bound, udp>>
    BY <1>12, <2>2 DEF SendEdgeInformation, TypeOK, NodeStates, Active
  <2>3. QED
    BY <1>12, <2>1, <2>2 DEF SendEdgeInformation
<1>13. ASSUME NEW a \in Addr, ReceiveRoutingTable(a) PROVE TypeOK'
  <2>1. CASE Abort(a) /\ UNCHANGED <<table, inbox>>
    <3>1. PICK how \in Ended : Exit(a, how)
      BY <2>1 DEF Abort, Ended
    <3>2. QED
      BY <1>13, <2>1, <3>1, ExitType DEF ReceiveRoutingTable, TypeOK
  <2>2. CASE /\ inbox[a] # <<>>
             /\ table' = [table EXCEPT ![a] = Head(inbox[a])]
             /\ inbox' = [inbox EXCEPT ![a] = Tail(@)]
             /\ pc' = [pc EXCEPT ![a] = "running"]
             /\ UNCHANGED <<bound, udp>>
    <3>1. Head(inbox[a]) \in Tables /\ Tail(inbox[a]) \in Seq(Tables)
      BY <2>2 DEF TypeOK
    <3>2. table' \in [Addr -> Tables] /\ inbox' \in [Addr -> Seq(Tables)]
      BY <2>2, <3>1 DEF TypeOK
    <3>3. QED
      BY <1>13, <2>2, <3>2 DEF ReceiveRoutingTable, TypeOK, NodeStates, Active
  <2>3. QED
    BY <1>13, <2>1, <2>2 DEF ReceiveRoutingTable
<1>14. ASSUME NEW a \in Addr, ReceiveQuit(a) \/ ReceiveFails(a) \/ Kill(a) PROVE TypeOK'
  <2>1. PICK how \in {"success", "failure", "killed"} : Exit(a, how)
    BY <1>14 DEF ReceiveQuit, ReceiveFails, Kill
  <2>2. how \in Ended
    BY DEF Ended
  <2>3. QED
    BY <1>14, <2>1, <2>2, ExitType DEF ReceiveQuit, ReceiveFails, Kill, TypeOK
<1>15. ASSUME NEW a \in Addr, ReceiveOwn(a) PROVE TypeOK'
  <2>1. Head(udp[a]) \in Packets /\ Tail(udp[a]) \in Seq(Packets)
    BY <1>15 DEF ReceiveOwn, Receiving, TypeOK
  <2>2. udp' \in [Addr -> Seq(Packets)]
    BY <1>15, <2>1 DEF ReceiveOwn, TypeOK
  <2>3. Head(udp[a]).line \in DOMAIN Lines
    BY <2>1 DEF Packets
  <2>4. received' \in [Addr -> Seq(DOMAIN Lines)]
    BY <1>15, <2>3 DEF ReceiveOwn, TypeOK
  <2>5. QED
    BY <1>15, <2>2, <2>4 DEF ReceiveOwn, TypeOK
<1>16. ASSUME NEW a \in Addr, Forward(a) PROVE TypeOK'
  <2> DEFINE p == Head(udp[a])
             d == p.destination
             queues == [udp EXCEPT ![a] = Tail(@)]
  <2>1. /\ udp[a] # <<>> /\ d \in DOMAIN table[a]
        /\ Transmit(queues, a, d, [p EXCEPT !.source = a])
    BY <1>16 DEF Forward, Receiving, ForwardPort
  <2>2. p \in Packets /\ Tail(udp[a]) \in Seq(Packets)
    BY <2>1 DEF TypeOK
  <2>3. queues \in [Addr -> Seq(Packets)]
    BY <2>2 DEF TypeOK
  <2>4. [p EXCEPT !.source = a] \in Packets
    BY <2>2 DEF Packets
  <2>5. d \in Others
    BY <2>1, TableValues DEF TypeOK
  <2>6. udp' \in [Addr -> Seq(Packets)] /\ hops' \subseteq (Addr \X Nat \X DOMAIN Lines)
    BY <2>1, <2>3, <2>4, <2>5, TransmitType
  <2>7. QED
    BY <1>16, <2>6 DEF Forward, TypeOK
<1>17. QED
  BY <1>1, <1>2, <1>3, <1>4, <1>5, <1>6, <1>7, <1>8, <1>9, <1>10, <1>11, <1>12,
     <1>13, <1>14, <1>15, <1>16 DEF Next, ServerStep, SenderStep, NodeStep

\* A process that ends stays registered, or it never was.
LEMMA ExitRegistration ==
  ASSUME TypeOK, Registration, NEW a \in Addr, NEW how \in Ended, Exit(a, how),
         how \in Registered \/ pc[a] \notin Registered,
         UNCHANGED <<nodeArray, backlog>>
  PROVE  Registration'
<1>1. \A b \in Addr : pc[b] \in Registered => pc'[b] \in Registered
  BY DEF Exit, TypeOK
<1>2. \A b \in Addr : pc'[b] \in Active => b \in bound'
  BY DEF Exit, TypeOK, Registration, Active, Ended
<1>3. /\ \A i \in DOMAIN nodeArray : nodeArray[i] \in Addr
      /\ \A j \in DOMAIN backlog : backlog[j] \in Addr
  BY DEF TypeOK
<1>4. QED
  BY <1>1, <1>2, <1>3 DEF Registration

\* A node that goes on keeps its port and its registration.
LEMMA ProgressRegistration ==
  ASSUME TypeOK, Registration, NEW a \in Addr, NEW next \in Registered,
         pc' = [pc EXCEPT ![a] = next], a \in bound,
         UNCHANGED <<nodeArray, backlog, bound>>
  PROVE  Registration'
<1>1. \A b \in Addr : pc[b] \in Registered => pc'[b] \in Registered
  BY DEF TypeOK
<1>2. \A b \in Addr : pc'[b] \in Active => b \in bound'
  BY DEF TypeOK, Registration
<1>3. /\ \A i \in DOMAIN nodeArray : nodeArray[i] \in Addr
      /\ \A j \in DOMAIN backlog : backlog[j] \in Addr
  BY DEF TypeOK
<1>4. QED
  BY <1>1, <1>2, <1>3 DEF Registration

\* Every step keeps the registrations apart and on bound ports.
LEMMA RegistrationStep == IInv /\ [Next]_vars => Registration'
<1> SUFFICES ASSUME IInv, [Next]_vars PROVE Registration'
  OBVIOUS
<1> USE DEF IInv, serverVars, tcpVars, udpVars
<1>1. CASE UNCHANGED <<nodeArray, backlog, pc, bound>>
  BY <1>1 DEF Registration
<1>2. CASE AcceptConnection
  <2>1. /\ Head(backlog) \in Addr /\ Tail(backlog) \in Seq(Addr)
        /\ Len(backlog) \in Nat /\ Len(backlog) > 0
        /\ DOMAIN backlog = 1 .. Len(backlog)
        /\ DOMAIN Tail(backlog) = 1 .. Len(backlog) - 1
        /\ \A j \in DOMAIN Tail(backlog) :
              j + 1 \in DOMAIN backlog /\ Tail(backlog)[j] = backlog[j + 1]
        /\ Head(backlog) = backlog[1]
    BY <1>2 DEF AcceptConnection, TypeOK
  <2>2. /\ DOMAIN nodeArray = 1 .. Len(nodeArray) /\ Len(nodeArray) \in Nat
        /\ DOMAIN nodeArray' = 1 .. Len(nodeArray) + 1
        /\ \A i \in DOMAIN nodeArray : nodeArray'[i] = nodeArray[i]
        /\ nodeArray'[Len(nodeArray) + 1] = backlog[1]
    <3>1. /\ nodeArray \in Seq(Addr) /\ backlog[1] \in Addr
          /\ nodeArray' = Append(nodeArray, backlog[1])
      BY <1>2, <2>1 DEF AcceptConnection, TypeOK
    <3>2. QED
      BY <3>1
  <2>3. backlog' = Tail(backlog) /\ pc' = pc /\ bound' = bound
    BY <1>2 DEF AcceptConnection
  <2>4. \A i \in DOMAIN nodeArray' : i \in DOMAIN nodeArray \/ i = Len(nodeArray) + 1
    BY <2>2
  <2>5. \A i, j \in DOMAIN nodeArray' : nodeArray'[i] = nodeArray'[j] => i = j
    BY <2>1, <2>2, <2>4 DEF Registration
  <2>6. \A i, j \in DOMAIN backlog' : backlog'[i] = backlog'[j] => i = j
    BY <2>1, <2>3 DEF Registration
  <2>7. \A i \in DOMAIN nodeArray', j \in DOMAIN backlog' : nodeArray'[i] # backlog'[j]
    BY <2>1, <2>2, <2>3, <2>4 DEF Registration
  <2>8. \A i \in DOMAIN nodeArray' : pc'[nodeArray'[i]] \in Registered
    BY <2>1, <2>2, <2>3, <2>4 DEF Registration
  <2>9. \A j \in DOMAIN backlog' : pc'[backlog'[j]] \in Registered
    BY <2>1, <2>3 DEF Registration
  <2>10. QED
    BY <2>3, <2>5, <2>6, <2>7, <2>8, <2>9 DEF Registration
<1>3. CASE StopSending
  BY <1>3, AddrAssumption, ExitRegistration DEF StopSending, Ended, Registered
<1>4. ASSUME NEW a \in Addr, BindUDP(a) PROVE Registration'
  <2>1. pc[a] \notin Registered /\ UNCHANGED <<nodeArray, backlog>>
    BY <1>4 DEF BindUDP, Registered
  <2>2. CASE Exit(a, "bindFailed")
    BY <2>1, <2>2, ExitRegistration DEF Ended
  <2>3. CASE bound' = bound \cup {a} /\ pc' = [pc EXCEPT ![a] = "bound"]
    <3>1. \A b \in Addr : pc[b] \in Registered => pc'[b] \in Registered
      BY <2>1, <2>3 DEF TypeOK
    <3>2. \A b \in Addr : pc'[b] \in Active => b \in bound'
      BY <2>3 DEF TypeOK, Registration
    <3>3. /\ \A i \in DOMAIN nodeArray : nodeArray[i] \in Addr
          /\ \A j \in DOMAIN backlog : backlog[j] \in Addr
      BY DEF TypeOK
    <3>4. QED
      BY <2>1, <3>1, <3>2, <3>3 DEF Registration
  <2>4. QED
    BY <1>4, <2>2, <2>3 DEF BindUDP
<1>5. ASSUME NEW a \in Addr, ConnectTCP(a) PROVE Registration'
  <2>1. pc[a] = "bound" /\ pc[a] \notin Registered /\ UNCHANGED nodeArray
    BY <1>5 DEF ConnectTCP, AtConnect, Registered
  <2>2. CASE Exit(a, "connectFailed") /\ UNCHANGED backlog
    BY <2>1, <2>2, ExitRegistration DEF Ended
  <2>3. CASE /\ backlog' = Append(backlog, a) /\ pc' = [pc EXCEPT ![a] = "connected"]
             /\ UNCHANGED <<bound, udp>>
    <3>1. /\ DOMAIN backlog = 1 .. Len(backlog) /\ Len(backlog) \in Nat
          /\ DOMAIN backlog' = 1 .. Len(backlog) + 1
          /\ \A j \in DOMAIN backlog : backlog'[j] = backlog[j]
          /\ backlog'[Len(backlog) + 1] = a
      BY <2>3 DEF TypeOK
    <3>2. /\ \A i \in DOMAIN nodeArray : nodeArray[i] \in Addr /\ nodeArray[i] # a
          /\ \A j \in DOMAIN backlog : backlog[j] \in Addr /\ backlog[j] # a
      BY <2>1 DEF TypeOK, Registration
    <3>3. \A j \in DOMAIN backlog' : j \in DOMAIN backlog \/ j = Len(backlog) + 1
      BY <3>1
    <3>4. /\ pc'[a] \in Registered
          /\ \A b \in Addr : pc[b] \in Registered => pc'[b] \in Registered
      BY <2>3 DEF TypeOK, Registered
    <3>5. \A b \in Addr : pc'[b] \in Active => b \in bound'
      BY <2>1, <2>3 DEF TypeOK, Registration, Active
    <3>6. \A i, j \in DOMAIN backlog' : backlog'[i] = backlog'[j] => i = j
      BY <3>1, <3>2, <3>3 DEF Registration
    <3>7. \A i \in DOMAIN nodeArray', j \in DOMAIN backlog' : nodeArray'[i] # backlog'[j]
      BY <2>1, <3>1, <3>2, <3>3 DEF Registration
    <3>8. \A i \in DOMAIN nodeArray' : pc'[nodeArray'[i]] \in Registered
      BY <2>1, <3>2, <3>4 DEF Registration
    <3>9. \A j \in DOMAIN backlog' : pc'[backlog'[j]] \in Registered
      BY <3>1, <3>2, <3>3, <3>4 DEF Registration
    <3>10. \A i, j \in DOMAIN nodeArray' : nodeArray'[i] = nodeArray'[j] => i = j
      BY <2>1 DEF Registration
    <3>11. QED
      BY <3>5, <3>6, <3>7, <3>8, <3>9, <3>10 DEF Registration
  <2>4. QED
    BY <1>5, <2>2, <2>3 DEF ConnectTCP
<1>6. ASSUME NEW a \in Addr, SendEdgeInformation(a) PROVE Registration'
  <2>1. a \in bound /\ UNCHANGED <<nodeArray, backlog>>
    BY <1>6 DEF SendEdgeInformation, Registration, Active
  <2>2. CASE Abort(a)
    BY <2>1, <2>2, ExitRegistration DEF Abort, Ended, Registered
  <2>3. CASE pc' = [pc EXCEPT ![a] = "waiting"] /\ UNCHANGED bound
    BY <2>1, <2>3, ProgressRegistration DEF Registered
  <2>4. QED
    BY <1>6, <2>2, <2>3 DEF SendEdgeInformation
<1>7. ASSUME NEW a \in Addr, ReceiveRoutingTable(a) PROVE Registration'
  <2>1. a \in bound /\ UNCHANGED <<nodeArray, backlog>>
    BY <1>7 DEF ReceiveRoutingTable, Registration, Active
  <2>2. CASE Abort(a)
    BY <2>1, <2>2, ExitRegistration DEF Abort, Ended, Registered
  <2>3. CASE pc' = [pc EXCEPT ![a] = "running"] /\ UNCHANGED bound
    BY <2>1, <2>3, ProgressRegistration DEF Registered
  <2>4. QED
    BY <1>7, <2>2, <2>3 DEF ReceiveRoutingTable
<1>8. ASSUME NEW a \in Addr, ReceiveQuit(a) \/ ReceiveFails(a) PROVE Registration'
  <2>1. PICK how \in {"success", "failure"} : Exit(a, how)
    BY <1>8 DEF ReceiveQuit, ReceiveFails
  <2>2. QED
    BY <1>8, <2>1, ExitRegistration DEF ReceiveQuit, ReceiveFails, Ended, Registered
<1>9. ASSUME NEW a \in Addr, Kill(a) PROVE Registration'
  BY <1>9, ExitRegistration DEF Kill, Ended, Registered
<1>10. QED
  <2>1. UNCHANGED vars => UNCHANGED <<nodeArray, backlog, pc, bound>>
    BY DEF vars
  <2>2. ListenTCP \/ ReceiveReport \/ ComputeTables \/ SendTable \/ ServerSocketFails
          \/ SendLine => UNCHANGED <<nodeArray, backlog, pc, bound>>
    BY DEF ListenTCP, ReceiveReport, ComputeTables, SendTable, ServerSocketFails, SendLine
  <2>3. \A a \in Addr : ReceiveOwn(a) \/ Forward(a) => UNCHANGED <<nodeArray, backlog, pc, bound>>
    BY DEF ReceiveOwn, Forward
  <2>4. QED
    BY <1>1, <1>2, <1>3, <1>4, <1>5, <1>6, <1>7, <1>8, <1>9, <2>1, <2>2, <2>3
       DEF Next, ServerStep, SenderStep, NodeStep

\* As long as there are no tables, a step of a node leaves nothing running.
LEMMA NodesBeforeTables ==
  ASSUME TypeOK, Phases, idxTables = <<>>, NEW a \in Addr,
         SenderStep \/ NodeStep(a) \/ Kill(a)
  PROVE  /\ hops' = {}
         /\ \A b \in Addr : inbox'[b] = <<>> /\ udp'[b] = <<>> /\ pc'[b] # "running"
<1> USE DEF tcpVars
<1>1. /\ hops = {}
      /\ \A b \in Addr : inbox[b] = <<>> /\ udp[b] = <<>> /\ pc[b] # "running"
  BY DEF Phases
<1>2. ~(SenderStep \/ ReceiveQuit(a) \/ ReceiveOwn(a) \/ Forward(a) \/ ReceiveFails(a))
  BY <1>1, AddrAssumption
     DEF SenderStep, SendLine, StopSending, ReceiveQuit, ReceiveOwn, Forward, ReceiveFails,
         Receiving
<1>3. ASSUME NEW how \in Ended, Exit(a, how), UNCHANGED <<inbox, hops>>
      PROVE  /\ hops' = {}
             /\ \A b \in Addr : inbox'[b] = <<>> /\ udp'[b] = <<>> /\ pc'[b] # "running"
  BY <1>1, <1>3 DEF Exit, TypeOK, Ended
<1>4. CASE BindUDP(a)
  BY <1>1, <1>3, <1>4 DEF BindUDP, TypeOK, Ended
<1>5. CASE ConnectTCP(a)
  BY <1>1, <1>3, <1>5 DEF ConnectTCP, TypeOK, Ended
<1>6. CASE SendEdgeInformation(a)
  BY <1>1, <1>3, <1>6 DEF SendEdgeInformation, Abort, TypeOK, Ended
<1>7. CASE ReceiveRoutingTable(a)
  BY <1>1, <1>3, <1>7 DEF ReceiveRoutingTable, Abort, Ended
<1>8. CASE Kill(a)
  BY <1>1, <1>3, <1>8 DEF Kill, Ended
<1>9. QED
  BY <1>2, <1>4, <1>5, <1>6, <1>7, <1>8 DEF NodeStep

\* Every step keeps what has not happened before the tables are computed.
LEMMA PhasesStep == IInv /\ [Next]_vars => Phases'
<1> SUFFICES ASSUME IInv, [Next]_vars PROVE Phases'
  OBVIOUS
<1> USE DEF IInv, serverVars, tcpVars, udpVars
<1>1. CASE UNCHANGED vars
  BY <1>1 DEF vars, Phases
<1>2. CASE ListenTCP
  BY <1>2 DEF ListenTCP, Phases
<1>3. CASE AcceptConnection
  BY <1>3 DEF AcceptConnection, Phases
<1>4. CASE ReceiveReport
  BY <1>4 DEF ReceiveReport, Phases
<1>5. CASE ComputeTables
  <2>1. CASE UNCHANGED idxTables /\ server' = "failure"
    BY <1>5, <2>1 DEF ComputeTables, Phases
  <2>2. ASSUME NEW T \in TableSets, server' = "send",
               idxTables' = [i \in DOMAIN nodeArray |-> ToIndices(T[nodeArray[i]])]
        PROVE  Phases'
    <3>1. /\ Len(nodeArray) = N /\ N \in Nat /\ 0 < N /\ nSent = 0
          /\ DOMAIN nodeArray = 1..N
      BY <1>5, NType DEF ComputeTables, Phases, TypeOK
    <3>2. Len(idxTables') = N /\ idxTables' # <<>>
      BY <2>2, <3>1
    <3>3. UNCHANGED <<nodeArray, nSent>>
      BY <1>5 DEF ComputeTables
    <3>4. QED
      BY <2>2, <3>1, <3>2, <3>3 DEF Phases
  <2>3. QED
    BY <1>5, <2>1, <2>2 DEF ComputeTables
<1>6. CASE SendTable
  <2>1. /\ Len(nodeArray) = N /\ N \in Nat /\ idxTables # <<>> /\ Len(idxTables) = N
        /\ nSent < N /\ nSent \in Nat /\ UNCHANGED <<nodeArray, idxTables>>
    BY <1>6, NType DEF SendTable, Phases, TypeOK
  <2>2. server' = "send" => nSent' < N
    BY <1>6, <2>1 DEF SendTable
  <2>3. server' \in {"send", "success", "failure"}
    BY <1>6 DEF SendTable
  <2>4. QED
    BY <2>1, <2>2, <2>3 DEF Phases
<1>7. CASE ServerSocketFails
  BY <1>7 DEF ServerSocketFails, Phases
<1>8. ASSUME NEW a \in Addr, SenderStep \/ NodeStep(a) \/ Kill(a) PROVE Phases'
  <2>1. UNCHANGED <<server, nodeArray, idxTables, nSent>>
    BY <1>8 DEF SenderStep, SendLine, StopSending, NodeStep, BindUDP, ConnectTCP,
                SendEdgeInformation, ReceiveRoutingTable, ReceiveQuit, ReceiveOwn, Forward,
                ReceiveFails, Kill
  <2>2. idxTables = <<>> =>
          /\ hops' = {}
          /\ \A b \in Addr : inbox'[b] = <<>> /\ udp'[b] = <<>> /\ pc'[b] # "running"
    BY <1>8, NodesBeforeTables
  <2>3. QED
    BY <2>1, <2>2 DEF Phases
<1>9. QED
  BY <1>1, <1>2, <1>3, <1>4, <1>5, <1>6, <1>7, <1>8, AddrAssumption DEF Next, ServerStep

\* What a step keeps as long as the server does nothing.
LEMMA FollowsFrame ==
  ASSUME NEW T \in TableSets, Follows(T), UNCHANGED <<nodeArray, idxTables, nSent>>,
         \A a \in Addr : \A i \in DOMAIN inbox'[a] : inbox'[a][i] = T[a],
         \A a \in Addr : pc'[a] = "running" => table'[a] = T[a],
         \A i \in 1..nSent : \/ table'[nodeArray[i]] = T[nodeArray[i]]
                            \/ inbox'[nodeArray[i]] # <<>>,
         \A a \in Addr : \A i \in DOMAIN udp'[a] :
            udp'[a][i].destination \in DOMAIN T[a] \cup {a},
         \A h \in hops' : h[2] \in Others
  PROVE  Follows(T)'
<1>1. \A i \in DOMAIN idxTables : idxTables'[i] = ToIndices(T[nodeArray[i]])'
  <2>1. nodeArray' = nodeArray /\ idxTables' = idxTables
    OBVIOUS
  <2>2. \A a : IndexOf(a)' = IndexOf(a)
    BY <2>1, Zenon DEF IndexOf
  <2>3. \A t : ToIndices(t)' = ToIndices(t)
    BY <2>1, <2>2, Zenon DEF ToIndices
  <2>4. QED
    BY <2>1, <2>3, Zenon DEF Follows
<1>2. QED
  BY <1>1 DEF Follows

\* The end of a process loses its queue and nothing else.
LEMMA ExitFollows ==
  ASSUME TypeOK, NEW T \in TableSets, Follows(T), NEW a \in Addr, NEW how \in Ended,
         Exit(a, how), UNCHANGED <<nodeArray, idxTables, nSent, inbox, table, hops>>
  PROVE  Follows(T)'
<1>1. \A b \in Addr : pc'[b] = "running" => pc[b] = "running"
  BY DEF Exit, TypeOK, Ended
<1>2. \A b \in Addr : udp'[b] = udp[b] \/ udp'[b] = <<>>
  BY DEF Exit, TypeOK
<1>3. \A b \in Addr : \A i \in DOMAIN udp'[b] :
         udp'[b][i].destination \in DOMAIN T[b] \cup {b}
  BY <1>2 DEF Follows
<1>4. QED
  BY <1>1, <1>3, FollowsFrame DEF Follows

\* A packet that is transmitted to a node the tables lead on from.
LEMMA TransmitFollows ==
  ASSUME TypeOK, NEW T \in TableSets, Follows(T),
         NEW queues \in [Addr -> Seq(Packets)], NEW a \in Addr, NEW b \in Others,
         NEW p \in Packets, Transmit(queues, a, b, p),
         \A c \in Addr : \A i \in DOMAIN queues[c] :
            queues[c][i].destination \in DOMAIN T[c] \cup {c},
         p.destination \in DOMAIN T[b] \cup {b},
         UNCHANGED <<nodeArray, idxTables, nSent, inbox, table, pc>>
  PROVE  Follows(T)'
<1>1. /\ hops' = hops \cup {<<a, b, p.line>>}
      /\ udp' = queues \/ udp' = [queues EXCEPT ![b] = Append(@, p)]
  BY TransmitType
<1>2. \A h \in hops' : h[2] \in Others
  BY <1>1 DEF Follows
<1>3. ASSUME NEW c \in Addr, NEW i \in DOMAIN udp'[c]
      PROVE  udp'[c][i].destination \in DOMAIN T[c] \cup {c}
  <2>1. CASE udp' = queues
    BY <1>3, <2>1
  <2>2. CASE udp' = [queues EXCEPT ![b] = Append(@, p)] /\ c # b
    BY <1>3, <2>2
  <2>3. CASE udp' = [queues EXCEPT ![b] = Append(@, p)] /\ c = b
    <3>1. udp'[c] = Append(queues[b], p) /\ queues[b] \in Seq(Packets)
      BY <2>3
    <3>2. \/ i \in DOMAIN queues[b] /\ udp'[c][i] = queues[b][i]
          \/ udp'[c][i] = p
      BY <1>3, <3>1
    <3>3. QED
      BY <2>3, <3>2
  <2>4. QED
    BY <1>1, <2>1, <2>2, <2>3
<1>4. QED
  BY <1>2, <1>3, FollowsFrame DEF Follows

\* The queues after the oldest datagram of a is taken are as good as before.
LEMMA TakeFollows ==
  ASSUME TypeOK, NEW T \in TableSets, Follows(T), NEW a \in Addr, udp[a] # <<>>
  PROVE  LET queues == [udp EXCEPT ![a] = Tail(@)]
         IN  /\ queues \in [Addr -> Seq(Packets)]
             /\ \A c \in Addr : \A i \in DOMAIN queues[c] :
                   queues[c][i].destination \in DOMAIN T[c] \cup {c}
             /\ Head(udp[a]) \in Packets
             /\ Head(udp[a]).destination \in DOMAIN T[a] \cup {a}
<1> DEFINE queues == [udp EXCEPT ![a] = Tail(@)]
<1>1. /\ udp[a] \in Seq(Packets) /\ udp[a] # <<>>
      /\ Head(udp[a]) = udp[a][1] /\ 1 \in DOMAIN udp[a]
      /\ Tail(udp[a]) \in Seq(Packets)
  BY DEF TypeOK
<1>2. \A i \in DOMAIN Tail(udp[a]) : i + 1 \in DOMAIN udp[a] /\ Tail(udp[a])[i] = udp[a][i + 1]
  BY <1>1
<1>3. queues \in [Addr -> Seq(Packets)]
  BY <1>1 DEF TypeOK
<1>4. \A c \in Addr : queues[c] = IF c = a THEN Tail(udp[a]) ELSE udp[c]
  BY DEF TypeOK
<1>5. ASSUME NEW c \in Addr, NEW i \in DOMAIN queues[c]
      PROVE  queues[c][i].destination \in DOMAIN T[c] \cup {c}
  BY <1>2, <1>4, <1>5 DEF Follows
<1>6. Head(udp[a]) \in Packets
  BY <1>1
<1>7. Head(udp[a]).destination \in DOMAIN T[a] \cup {a}
  BY <1>1 DEF Follows
<1>8. QED
  BY <1>3, <1>5, <1>6, <1>7

\* Every step follows the tables that were computed.
LEMMA ConsistentStep == IInv /\ [Next]_vars => Consistent'
<1> SUFFICES ASSUME IInv, [Next]_vars PROVE Consistent'
  OBVIOUS
<1> USE DEF IInv, serverVars, tcpVars, udpVars
<1>0. PICK T \in TableSets : Follows(T)
  BY DEF Consistent
<1>1. CASE UNCHANGED <<nodeArray, idxTables, nSent, inbox, table, pc, udp, hops>>
  <2>1. Follows(T)'
    BY <1>0, <1>1, FollowsFrame DEF Follows
  <2>2. QED
    BY <2>1 DEF Consistent
<1>2. CASE AcceptConnection
  <2>1. /\ idxTables = <<>> /\ nSent = 0 /\ hops = {}
        /\ \A a \in Addr : inbox[a] = <<>> /\ udp[a] = <<>> /\ pc[a] # "running"
        /\ UNCHANGED <<idxTables, nSent, hops, inbox, udp, pc, table>>
    BY <1>2 DEF AcceptConnection, Phases
  <2>2. Follows(T)'
    BY <2>1 DEF Follows
  <2>3. QED
    BY <2>2 DEF Consistent
<1>3. CASE ComputeTables
  <2>1. CASE UNCHANGED idxTables
    <3>1. Follows(T)'
      BY <1>0, <1>3, <2>1, FollowsFrame DEF ComputeTables, Follows
    <3>2. QED
      BY <3>1 DEF Consistent
  <2>2. ASSUME NEW U \in TableSets,
               idxTables' = [i \in DOMAIN nodeArray |-> ToIndices(U[nodeArray[i]])]
        PROVE  Consistent'
    <3>1. /\ nSent = 0 /\ hops = {}
          /\ \A a \in Addr : inbox[a] = <<>> /\ udp[a] = <<>> /\ pc[a] # "running"
          /\ UNCHANGED <<nodeArray, nSent, hops, inbox, udp, pc, table>>
      BY <1>3 DEF ComputeTables, Phases
    <3>2. \A i \in DOMAIN idxTables' : idxTables'[i] = ToIndices(U[nodeArray[i]])'
      <4>1. nodeArray' = nodeArray
        BY <3>1
      <4>2. \A a : IndexOf(a)' = IndexOf(a)
        BY <4>1, Zenon DEF IndexOf
      <4>3. \A t : ToIndices(t)' = ToIndices(t)
        BY <4>1, <4>2, Zenon DEF ToIndices
      <4>4. \A i \in DOMAIN idxTables' : idxTables'[i] = ToIndices(U[nodeArray[i]])
        BY <2>2
      <4>5. QED
        BY <4>1, <4>3, <4>4, Zenon
    <3>3. Follows(U)'
      BY <3>1, <3>2 DEF Follows
    <3>4. QED
      BY <3>3 DEF Consistent
  <2>3. QED
    BY <1>3, <2>1, <2>2 DEF ComputeTables
<1>4. CASE SendTable
  <2> DEFINE i == nSent + 1
  <2>1. CASE UNCHANGED <<inbox, nSent>>
    <3>1. Follows(T)'
      BY <1>0, <1>4, <2>1, FollowsFrame DEF SendTable, Follows
    <3>2. QED
      BY <3>1 DEF Consistent
  <2>2. CASE inbox' = AfterSend(inbox, i) /\ nSent' = i
    <3>1. /\ i \in 1..N /\ i \in DOMAIN nodeArray /\ i \in DOMAIN idxTables
          /\ Len(nodeArray) = N
      BY <1>4, NType DEF SendTable, Phases, TypeOK
    <3> DEFINE b == nodeArray[i]
    <3>2. b \in Addr /\ T[b] \in Tables
      BY <3>1, TableSetsAssumption DEF TypeOK
    <3>3. ToAddresses(idxTables[i]) = T[b]
      <4>1. idxTables[i] = ToIndices(T[b])
        BY <1>0, <3>1 DEF Follows
      <4>2. ToAddresses(ToIndices(T[b])) = T[b]
        BY <3>1, <3>2, RoundTrip DEF TypeOK, Registration
      <4>3. QED
        BY <4>1, <4>2
    <3>4. /\ inbox[b] \in Seq(Tables)
          /\ inbox' = [inbox EXCEPT ![b] = Append(@, T[b])]
      BY <2>2, <3>2, <3>3 DEF AfterSend, TypeOK
    <3>5. \A a \in Addr : inbox'[a] = IF a = b THEN Append(inbox[b], T[b]) ELSE inbox[a]
      BY <3>4 DEF TypeOK
    <3>6. \A a \in Addr : \A j \in DOMAIN inbox'[a] : inbox'[a][j] = T[a]
      <4>1. \A j \in DOMAIN Append(inbox[b], T[b]) : Append(inbox[b], T[b])[j] = T[b]
        BY <1>0, <3>2, <3>4 DEF Follows
      <4>2. ASSUME NEW a \in Addr, NEW j \in DOMAIN inbox'[a] PROVE inbox'[a][j] = T[a]
        <5>1. CASE a = b
          <6>1. inbox'[a] = Append(inbox[b], T[b])
            BY <3>5, <5>1
          <6>2. QED
            BY <4>1, <4>2, <5>1, <6>1
        <5>2. CASE a # b
          <6>1. inbox'[a] = inbox[a]
            BY <3>5, <5>2
          <6>2. QED
            BY <1>0, <4>2, <6>1 DEF Follows
        <5>3. QED
          BY <5>1, <5>2
      <4>3. QED
        BY <4>2
    <3>7. inbox'[b] # <<>> /\ \A a \in Addr : inbox[a] # <<>> => inbox'[a] # <<>>
      <4>1. Append(inbox[b], T[b]) # <<>>
        BY <3>2, <3>4
      <4>2. QED
        BY <3>2, <3>5, <4>1
    <3>8. UNCHANGED <<nodeArray, idxTables, table, pc, udp, hops>>
      BY <1>4 DEF SendTable
    <3>9. \A j \in 1..nSent' : table'[nodeArray'[j]] = T[nodeArray'[j]] \/ inbox'[nodeArray'[j]] # <<>>
      <4>1. \A j \in 1..nSent' : j = i \/ j \in 1..nSent
        BY <2>2 DEF TypeOK
      <4>2. \A j \in 1..nSent : nodeArray[j] \in Addr
        BY <3>1 DEF TypeOK
      <4>3. QED
        BY <1>0, <3>7, <3>8, <4>1, <4>2 DEF Follows
    <3>10. \A j \in DOMAIN idxTables' : idxTables'[j] = ToIndices(T[nodeArray[j]])'
      <4>1. nodeArray' = nodeArray /\ idxTables' = idxTables
        BY <3>8
      <4>2. \A a : IndexOf(a)' = IndexOf(a)
        BY <4>1, Zenon DEF IndexOf
      <4>3. \A t : ToIndices(t)' = ToIndices(t)
        BY <4>1, <4>2, Zenon DEF ToIndices
      <4>4. QED
        BY <1>0, <4>1, <4>3, Zenon DEF Follows
    <3>11. Follows(T)'
      BY <1>0, <3>6, <3>8, <3>9, <3>10 DEF Follows
    <3>12. QED
      BY <3>11 DEF Consistent
  <2>3. QED
    BY <1>4, <2>1, <2>2 DEF SendTable
<1>5. CASE SendLine
  <2> DEFINE d == Lines[line].destination
             p == [line |-> line, destination |-> d, source |-> Sender]
             b == table[Sender][d]
  <2>1. /\ pc[Sender] = "running" /\ line \in DOMAIN Lines /\ d \in DOMAIN table[Sender]
        /\ Transmit(udp, Sender, b, p)
        /\ UNCHANGED <<nodeArray, idxTables, nSent, inbox, table, pc>>
    BY <1>5, LinesAssumption DEF SendLine, NextHop, TypeOK
  <2>2. table[Sender] = T[Sender] /\ T[Sender] \in Tables /\ Sender \in Addr
    BY <1>0, <2>1, TableSetsAssumption, AddrAssumption DEF Follows
  <2>3. b \in Others /\ d \in Nat
    BY <2>1, <2>2, TableValues, AddrAssumption DEF Others
  <2>4. p \in Packets
    BY <2>1, <2>2, <2>3 DEF Packets
  <2>5. p.destination \in DOMAIN T[b] \cup {b}
    BY <2>1, <2>2, TableSetsAssumption
  <2>6. /\ udp \in [Addr -> Seq(Packets)]
        /\ \A c \in Addr : \A i \in DOMAIN udp[c] :
              udp[c][i].destination \in DOMAIN T[c] \cup {c}
    BY <1>0 DEF Follows, TypeOK
  <2>7. Follows(T)'
    <3> HIDE DEF p, b, d
    <3>1. QED
      BY <1>0, <2>1, <2>2, <2>3, <2>4, <2>5, <2>6, TransmitFollows
  <2>8. QED
    BY <2>7 DEF Consistent
<1>6. CASE StopSending
  <2>1. Follows(T)'
    BY <1>0, <1>6, AddrAssumption, ExitFollows DEF StopSending, Ended
  <2>2. QED
    BY <2>1 DEF Consistent
<1>7. ASSUME NEW a \in Addr, NEW how \in Ended, Exit(a, how),
             UNCHANGED <<nodeArray, idxTables, nSent, inbox, table, hops>>
      PROVE  Consistent'
  <2>1. Follows(T)'
    BY <1>0, <1>7, ExitFollows
  <2>2. QED
    BY <2>1 DEF Consistent
<1>8. ASSUME NEW a \in Addr, NEW next \in {"bound", "connected", "waiting"},
             pc' = [pc EXCEPT ![a] = next],
             UNCHANGED <<nodeArray, idxTables, nSent, inbox, table, udp, hops>>
      PROVE  Consistent'
  <2>1. \A b \in Addr : pc'[b] = "running" => pc[b] = "running"
    BY <1>8 DEF TypeOK
  <2>2. Follows(T)'
    BY <1>0, <1>8, <2>1, FollowsFrame DEF Follows
  <2>3. QED
    BY <2>2 DEF Consistent
<1>9. ASSUME NEW a \in Addr, BindUDP(a) PROVE Consistent'
  BY <1>7, <1>8, <1>9 DEF BindUDP, Ended
<1>10. ASSUME NEW a \in Addr, ConnectTCP(a) PROVE Consistent'
  BY <1>7, <1>8, <1>10 DEF ConnectTCP, Ended
<1>11. ASSUME NEW a \in Addr, SendEdgeInformation(a) PROVE Consistent'
  BY <1>7, <1>8, <1>11 DEF SendEdgeInformation, Abort, Ended
<1>12. ASSUME NEW a \in Addr, ReceiveRoutingTable(a) PROVE Consistent'
  <2>1. CASE Abort(a) /\ UNCHANGED <<table, inbox>>
    BY <1>7, <1>12, <2>1 DEF ReceiveRoutingTable, Abort, Ended
  <2>2. CASE /\ inbox[a] # <<>>
             /\ table' = [table EXCEPT ![a] = Head(inbox[a])]
             /\ inbox' = [inbox EXCEPT ![a] = Tail(@)]
             /\ pc' = [pc EXCEPT ![a] = "running"]
             /\ UNCHANGED <<bound, udp>>
    <3>1. /\ inbox[a] \in Seq(Tables) /\ Head(inbox[a]) = inbox[a][1] /\ 1 \in DOMAIN inbox[a]
          /\ \A i \in DOMAIN Tail(inbox[a]) :
               i + 1 \in DOMAIN inbox[a] /\ Tail(inbox[a])[i] = inbox[a][i + 1]
      BY <2>2 DEF TypeOK
    <3>2. /\ \A b \in Addr : table'[b] = IF b = a THEN Head(inbox[a]) ELSE table[b]
          /\ \A b \in Addr : inbox'[b] = IF b = a THEN Tail(inbox[a]) ELSE inbox[b]
          /\ \A b \in Addr : pc'[b] = IF b = a THEN "running" ELSE pc[b]
      BY <2>2 DEF TypeOK
    <3>3. Head(inbox[a]) = T[a]
      BY <1>0, <3>1 DEF Follows
    <3>4. ASSUME NEW b \in Addr, NEW i \in DOMAIN inbox'[b] PROVE inbox'[b][i] = T[b]
      <4>1. CASE b = a
        <5>1. inbox'[b] = Tail(inbox[a])
          BY <3>2, <4>1
        <5>2. i + 1 \in DOMAIN inbox[a] /\ inbox'[b][i] = inbox[a][i + 1]
          BY <3>1, <3>4, <5>1
        <5>3. QED
          BY <1>0, <4>1, <5>2 DEF Follows
      <4>2. CASE b # a
        <5>1. inbox'[b] = inbox[b]
          BY <3>2, <4>2
        <5>2. QED
          BY <1>0, <3>4, <5>1 DEF Follows
      <4>3. QED
        BY <4>1, <4>2
    <3>5. \A b \in Addr : pc'[b] = "running" => table'[b] = T[b]
      BY <1>0, <3>2, <3>3 DEF Follows
    <3>6. UNCHANGED <<nodeArray, idxTables, nSent, hops>>
      BY <1>12 DEF ReceiveRoutingTable
    <3>7. \A i \in 1..nSent : nodeArray[i] \in Addr
      <4>1. CASE idxTables = <<>>
        BY <4>1 DEF Phases
      <4>2. CASE idxTables # <<>>
        BY <4>2, NType DEF Phases, TypeOK
      <4>3. QED
        BY <4>1, <4>2
    <3>8. \A i \in 1..nSent : table'[nodeArray[i]] = T[nodeArray[i]] \/ inbox'[nodeArray[i]] # <<>>
      BY <1>0, <3>2, <3>3, <3>7 DEF Follows
    <3>9. Follows(T)'
      BY <1>0, <2>2, <3>4, <3>5, <3>6, <3>8, FollowsFrame DEF Follows
    <3>10. QED
      BY <3>9 DEF Consistent
  <2>3. QED
    BY <1>12, <2>1, <2>2 DEF ReceiveRoutingTable
<1>13. ASSUME NEW a \in Addr, ReceiveQuit(a) \/ ReceiveFails(a) PROVE Consistent'
  BY <1>7, <1>13 DEF ReceiveQuit, ReceiveFails, Ended
<1>14. ASSUME NEW a \in Addr, Kill(a) PROVE Consistent'
  BY <1>7, <1>14 DEF Kill, Ended
<1>15. ASSUME NEW a \in Addr, ReceiveOwn(a) PROVE Consistent'
  <2>1. /\ udp[a] # <<>> /\ udp' = [udp EXCEPT ![a] = Tail(@)]
        /\ UNCHANGED <<nodeArray, idxTables, nSent, inbox, table, pc, hops>>
    BY <1>15 DEF ReceiveOwn, Receiving
  <2>2. \A c \in Addr : \A i \in DOMAIN udp'[c] :
           udp'[c][i].destination \in DOMAIN T[c] \cup {c}
    BY <1>0, <2>1, TakeFollows
  <2>3. Follows(T)'
    BY <1>0, <2>1, <2>2, FollowsFrame DEF Follows
  <2>4. QED
    BY <2>3 DEF Consistent
<1>16. ASSUME NEW a \in Addr, Forward(a) PROVE Consistent'
  <2> DEFINE p == Head(udp[a])
             d == p.destination
             queues == [udp EXCEPT ![a] = Tail(@)]
             q == [p EXCEPT !.source = a]
  <2>1. /\ udp[a] # <<>> /\ d \in DOMAIN table[a] /\ Transmit(queues, a, d, q)
        /\ UNCHANGED <<nodeArray, idxTables, nSent, inbox, table, pc>>
    BY <1>16 DEF Forward, Receiving, ForwardPort
  <2>2. /\ queues \in [Addr -> Seq(Packets)]
        /\ \A c \in Addr : \A i \in DOMAIN queues[c] :
              queues[c][i].destination \in DOMAIN T[c] \cup {c}
        /\ p \in Packets
    BY <1>0, <2>1, TakeFollows
  <2>3. q \in Packets /\ q.destination = d
    BY <2>2 DEF Packets
  <2>4. d \in Others
    BY <2>1, TableValues DEF TypeOK
  <2>5. q.destination \in DOMAIN T[d] \cup {d}
    BY <2>3
  <2>6. Follows(T)'
    <3> HIDE DEF p, d, queues, q
    <3>1. QED
      BY <1>0, <2>1, <2>2, <2>3, <2>4, <2>5, TransmitFollows
  <2>7. QED
    BY <2>6 DEF Consistent
<1>17. QED
  <2>1. UNCHANGED vars \/ ListenTCP \/ ReceiveReport \/ ServerSocketFails =>
          UNCHANGED <<nodeArray, idxTables, nSent, inbox, table, pc, udp, hops>>
    BY DEF vars, ListenTCP, ReceiveReport, ServerSocketFails
  <2>2. QED
    BY <1>1, <1>2, <1>3, <1>4, <1>5, <1>6, <1>9, <1>10, <1>11, <1>12, <1>13, <1>14, <1>15,
       <1>16, <2>1 DEF Next, ServerStep, SenderStep, NodeStep

-----------------------------------------------------------------------------
(***************************************************************************)
(* The theorems.                                                           *)
(***************************************************************************)

\* The inductive invariant holds of every reachable state.
THEOREM Invariance == Spec => []IInv
<1>1. IInv /\ [Next]_vars => IInv'
  BY TypeStep, RegistrationStep, PhasesStep, ConsistentStep DEF IInv
<1>2. QED
  BY <1>1, InitInv, PTL DEF Spec

\* All state has its type; in particular every routing table the server keeps
\* in indices has indices of connections for rows and next hops, which needs
\* that all N nodes are connected when the tables are computed.
THEOREM TypeCorrect == Spec => []TypeOK
<1>1. IInv => TypeOK
  BY DEF IInv
<1>2. QED
  BY <1>1, Invariance, PTL

\* No packet is sent to a port its node has not bound, whatever the order in
\* which the nodes start, fail and get their tables.
THEOREM SentToBound == Spec => []NeverSentToUnbound
<1>1. IInv => NeverSentToUnbound
  <2> SUFFICES ASSUME IInv, NEW h \in hops
               PROVE  h[2] \in bound \/ pc[h[2]] \in {"success", "failure", "killed"}
    BY DEF NeverSentToUnbound
  <2> USE DEF IInv
  <2>1. Len(nodeArray) = N
    BY DEF Phases
  <2>2. h[2] \in Addr
    BY DEF Consistent, Follows, Others
  <2>3. PICK i \in 1..N : nodeArray[i] = h[2]
    BY <2>1, <2>2, AllRegistered DEF TypeOK, Registration
  <2>4. pc[h[2]] \in Registered
    <3>1. i \in DOMAIN nodeArray
      BY <2>1, NType DEF TypeOK
    <3>2. QED
      BY <2>3, <3>1 DEF Registration
  <2>5. pc[h[2]] \in Active => h[2] \in bound
    BY <2>2 DEF Registration
  <2>6. QED
    BY <2>4, <2>5 DEF Registered, Active
<1>2. QED
  BY <1>1, Invariance, PTL

\* The nodes work with the tables of one computation, each with its own.
THEOREM OneComputation == Spec => []TablesOfOneComputation
<1>1. IInv => TablesOfOneComputation
  BY DEF IInv, Consistent, Follows, TablesOfOneComputation
<1>2. QED
  BY <1>1, Invariance, PTL

\* A node that is to forward a packet has, or is about to get, a row for it.
THEOREM RowsSuffice == Spec => []RowForEveryPacket
<1>1. IInv => RowForEveryPacket
  <2> SUFFICES ASSUME IInv, NEW a \in Addr, NEW i \in DOMAIN udp[a],
                      udp[a][i].destination # a
               PROVE  \E t \in {table[a]} \cup {inbox[a][j] : j \in DOMAIN inbox[a]}
                               \cup {ToAddresses(idxTables[j]) :
                                       j \in {k \in DOMAIN idxTables :
                                                k > nSent /\ nodeArray[k] = a}} :
                        udp[a][i].destination \in DOMAIN t
    BY DEF RowForEveryPacket
  <2> USE DEF IInv
  <2>1. PICK T \in TableSets : Follows(T)
    BY DEF Consistent
  <2>2. udp[a][i].destination \in DOMAIN T[a]
    BY <2>1 DEF Follows
  <2>3. Len(nodeArray) = N /\ Len(idxTables) = N
    BY DEF Phases
  <2>4. PICK k \in 1..N : nodeArray[k] = a
    BY <2>3, AllRegistered DEF TypeOK, Registration
  <2>5. k \in DOMAIN idxTables
    BY <2>3, NType DEF TypeOK
  <2>6. CASE k <= nSent
    <3>1. k \in 1..nSent
      BY <2>6 DEF TypeOK
    <3>2. CASE table[a] = T[a]
      BY <2>2, <3>2
    <3>3. CASE inbox[a] # <<>>
      <4>1. 1 \in DOMAIN inbox[a]
        BY <3>3 DEF TypeOK
      <4>2. inbox[a][1] = T[a]
        BY <2>1, <4>1 DEF Follows
      <4>3. QED
        BY <2>2, <4>1, <4>2
    <3>4. QED
      BY <2>1, <2>4, <3>1, <3>2, <3>3 DEF Follows
  <2>7. CASE k > nSent
    <3>1. T[a] \in Tables
      BY TableSetsAssumption
    <3>2. ToAddresses(idxTables[k]) = T[a]
      <4>1. idxTables[k] = ToIndices(T[a])
        BY <2>1, <2>4, <2>5 DEF Follows
      <4>2. ToAddresses(ToIndices(T[a])) = T[a]
        BY <2>3, <3>1, RoundTrip DEF TypeOK, Registration
      <4>3. QED
        BY <4>1, <4>2
    <3>3. QED
      BY <2>2, <2>4, <2>5, <2>7, <3>2
  <2>8. QED
    BY <2>6, <2>7, NType DEF TypeOK
<1>2. QED
  BY <1>1, Invariance, PTL

=============================================================================
