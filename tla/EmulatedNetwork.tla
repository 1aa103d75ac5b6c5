--------------------------- MODULE EmulatedNetwork ---------------------------
(***************************************************************************)
(* The processes of home_exam: one routing_server and one node process per *)
(* address.  A node binds its UDP socket, connects to the server over TCP, *)
(* reports its edges and waits for its routing table.  The server accepts  *)
(* the nodes in whatever order they connect, works on the indices of that  *)
(* order, and sends each node its table translated back to addresses.      *)
(* Node 1 then sends the lines of data.txt as UDP packets; the other nodes *)
(* receive and forward them until their QUIT packet arrives.               *)
(*                                                                         *)
(* The computation of the tables is a parameter here: TableSets holds the  *)
(* possible results, by address (Dijkstra breaks ties by index, that is by *)
(* the order of arrival).                                                  *)
(***************************************************************************)
EXTENDS Naturals, Sequences, FiniteSets

CONSTANTS
    Addr,       \* the addresses of the N nodes, address 1 is the sender
    TableSets,  \* the families of routing tables the server may compute
    Lines,      \* data.txt: [destination, message, parses] records, where
                \* parses is FALSE for a line without a space or a newline
    QUIT,       \* the message that makes its destination exit
    Faults      \* the kinds of fault that may occur, see FaultKinds

Sender == 1
Others == Addr \ {Sender}
N == Cardinality(Addr)

(***************************************************************************)
(* "early": a node is started before the server listens; "socket": a       *)
(* system call on a socket fails; "compute": the server rejects the        *)
(* reports or cannot find the routes; "crash": a node is killed;           *)
(* "loss": a datagram is dropped.                                          *)
(***************************************************************************)
FaultKinds == {"early", "socket", "compute", "crash", "loss"}

\* A routing table maps the destinations of its rows to their next hops.
Tables == UNION {[D -> Others] : D \in SUBSET Others}

ASSUME AddrAssumption == Addr \subseteq Nat /\ IsFiniteSet(Addr) /\ Sender \in Addr

ASSUME LinesAssumption ==
    /\ Lines \in Seq([destination : Nat, message : STRING, parses : BOOLEAN])
    /\ QUIT \in STRING

ASSUME FaultsAssumption == Faults \subseteq FaultKinds

\* The rows of one route make a chain: the next hop is the destination or has
\* a row for it.  (RoutingServer implements RouteService, which promises it.)
ASSUME TableSetsAssumption ==
    /\ TableSets \subseteq [Addr -> Tables]
    /\ TableSets # {}
    /\ \A T \in TableSets, a \in Addr : \A d \in DOMAIN T[a] :
         T[a][d] = d \/ d \in DOMAIN T[T[a][d]]

VARIABLES
    server,     \* what the routing_server is doing
    backlog,    \* connections made and not yet accepted, oldest first
    nodeArray,  \* the accepted connections; its order defines the indices
    idxTables,  \* the routing tables the server computed, all in indices
    nSent,      \* how many of them it has sent
    pc,         \* per node, what it is doing, or how it ended
    reported,   \* the nodes whose edge information is in their TCP stream
    inbox,      \* per node, the TCP stream of tables from the server
    table,      \* per node, its routing table (empty before it is received)
    bound,      \* the nodes that hold their UDP port
    udp,        \* per node, the datagrams queued at its UDP socket
    line,       \* the next line of data.txt node 1 reads
    received,   \* per node, the lines it printed as received
    hops        \* every transmission made so far: <<from, to, line>>

serverVars == <<server, backlog, nodeArray, idxTables, nSent>>
tcpVars    == <<reported, inbox, table>>
udpVars    == <<bound, udp, line, received, hops>>
vars       == <<server, backlog, nodeArray, idxTables, nSent, pc, reported,
                inbox, table, bound, udp, line, received, hops>>

EmptyTable == [d \in {} |-> Sender]

ServerStates == {"start", "accept", "receive", "compute", "send",
                 "success", "failure"}

\* (Slip: the sockets stay open when the server gives up.)
ServerGoneOnSuccess == {"success"}
ServerGone == {"success", "failure"}

\* "bindFailed" is exit(-1), "connectFailed" is exit(-2).
Ended      == {"bindFailed", "connectFailed", "success", "failure", "killed"}
Active     == {"bound", "connected", "waiting", "running"}
NodeStates == {"start"} \cup Active \cup Ended

Packets == [line : DOMAIN Lines, destination : Nat, source : Addr]

TypeOK ==
    /\ server \in ServerStates
    /\ backlog \in Seq(Addr)
    /\ nodeArray \in Seq(Addr)
    /\ idxTables \in Seq(UNION {[D -> 1..N] : D \in SUBSET (1..N)})
    /\ nSent \in 0..N
    /\ pc \in [Addr -> NodeStates]
    /\ reported \subseteq Addr
    /\ inbox \in [Addr -> Seq(Tables)]
    /\ table \in [Addr -> Tables]
    /\ bound \subseteq Addr
    /\ udp \in [Addr -> Seq(Packets)]
    /\ line \in 1 .. Len(Lines) + 1
    /\ received \in [Addr -> Seq(DOMAIN Lines)]
    /\ hops \subseteq (Addr \X Nat \X DOMAIN Lines)

Init ==
    /\ server = "start"
    /\ backlog = <<>>
    /\ nodeArray = <<>>
    /\ idxTables = <<>>
    /\ nSent = 0
    /\ pc = [a \in Addr |-> "start"]
    /\ reported = {}
    /\ inbox = [a \in Addr |-> <<>>]
    /\ table = [a \in Addr |-> EmptyTable]
    /\ bound = {}
    /\ udp = [a \in Addr |-> <<>>]
    /\ line = 1
    /\ received = [a \in Addr |-> <<>>]
    /\ hops = {}

-----------------------------------------------------------------------------
(***************************************************************************)
(* The routing server.                                                     *)
(***************************************************************************)

\* getIndexFromAddress: the first position of the address.
IndexOf(a) == CHOOSE i \in DOMAIN nodeArray :
                 /\ nodeArray[i] = a
                 /\ \A j \in DOMAIN nodeArray : nodeArray[j] = a => i <= j

\* (Slip: the next hop is not translated.)
ToIndicesOfDestinationsOnly(t) ==
    [i \in {j \in DOMAIN nodeArray : nodeArray[j] \in DOMAIN t} |-> t[nodeArray[i]]]

\* A table in indices, as createRoutingTableArray leaves it.
ToIndices(t) ==
    [i \in {j \in DOMAIN nodeArray : nodeArray[j] \in DOMAIN t} |->
        IndexOf(t[nodeArray[i]])]

\* (Slip: the next hop is looked up under the destination's index.)
ToAddressesOfDestination(t) == [d \in {nodeArray[i] : i \in DOMAIN t} |-> d]

\* translateTableFromIdxToAddress: the same rows in addresses.
ToAddresses(t) ==
    [d \in {nodeArray[i] : i \in DOMAIN t} |-> nodeArray[t[IndexOf(d)]]]

\* getTCPServerSocket succeeds: the server listens on the base port.
ListenTCP ==
    /\ server = "start"
    /\ server' = "accept"
    /\ UNCHANGED <<backlog, nodeArray, idxTables, nSent, pc, tcpVars, udpVars>>

\* acceptConnection: the oldest pending connection gets the next index.
AcceptConnection ==
    /\ server = "accept"
    /\ backlog # <<>>
    /\ nodeArray' = Append(nodeArray, Head(backlog))
    /\ backlog' = Tail(backlog)
    /\ server' = "receive"
    /\ UNCHANGED <<idxTables, nSent, pc, tcpVars, udpVars>>

\* (Slip: the loop runs once too often, the server accepts another node.)
ReceiveReportOfOneMore ==
    LET a == nodeArray[Len(nodeArray)]
    IN  /\ server = "receive"
        /\ \/ /\ a \in reported
              /\ server' = IF Len(nodeArray) > N THEN "compute" ELSE "accept"
           \/ /\ a \notin reported
              /\ pc[a] \in Ended
              /\ server' = "failure"
        /\ UNCHANGED <<backlog, nodeArray, idxTables, nSent, pc, tcpVars, udpVars>>

\* populateNodeArray, after an accept: the four blocking receives.  They end
\* early when the node is gone, which makes the server give up; after the
\* report of the N-th node the routes are computed.
ReceiveReport ==
    LET a == nodeArray[Len(nodeArray)]
    IN  /\ server = "receive"
        /\ \/ /\ a \in reported
              /\ server' = IF Len(nodeArray) = N THEN "compute" ELSE "accept"
           \/ /\ a \notin reported
              /\ pc[a] \in Ended
              /\ server' = "failure"
        /\ UNCHANGED <<backlog, nodeArray, idxTables, nSent, pc, tcpVars, udpVars>>

\* From checkAllNodesReceived to createRoutingTableArray.
ComputeTables ==
    /\ server = "compute"
    /\ \/ \E T \in TableSets :
            idxTables' = [i \in DOMAIN nodeArray |-> ToIndices(T[nodeArray[i]])]
         /\ server' = "send"
       \/ /\ "compute" \in Faults
          /\ server' = "failure"
          /\ UNCHANGED idxTables
    /\ UNCHANGED <<backlog, nodeArray, nSent, pc, tcpVars, udpVars>>

\* (Slip: the loop continues before it has sent the row count of a leaf.)
AfterSendSkippingLeaves(streams, i) ==
    IF DOMAIN idxTables[i] = {} THEN streams
    ELSE [streams EXCEPT ![nodeArray[i]] = Append(@, ToAddresses(idxTables[i]))]

\* The TCP streams after the i-th table is written to the i-th connection.
AfterSend(streams, i) ==
    [streams EXCEPT ![nodeArray[i]] = Append(@, ToAddresses(idxTables[i]))]

\* sendRoutingTables, one round of its loop.  To a node that is gone the send
\* may fail, by SIGPIPE too, or may still succeed.  After the last round the server closes its
\* sockets and exits.
SendTable ==
    LET i == nSent + 1
    IN  /\ server = "send"
        /\ \/ /\ inbox' = AfterSend(inbox, i)
              /\ nSent' = i
              /\ server' = IF i = N THEN "success" ELSE "send"
           \/ /\ pc[nodeArray[i]] \in Ended \/ "socket" \in Faults
              /\ server' = "failure"
              /\ UNCHANGED <<inbox, nSent>>
        /\ UNCHANGED <<backlog, nodeArray, idxTables, pc, reported, table, udpVars>>

\* A failing call on the server's sockets, among them accept, whose address
\* length argument is never initialised.
ServerSocketFails ==
    /\ "socket" \in Faults
    /\ server \in {"start", "accept", "receive"}
    /\ server' = "failure"
    /\ UNCHANGED <<backlog, nodeArray, idxTables, nSent, pc, tcpVars, udpVars>>

ServerStep == ListenTCP \/ AcceptConnection \/ ReceiveReport \/ ComputeTables
                \/ SendTable \/ ServerSocketFails

-----------------------------------------------------------------------------
(***************************************************************************)
(* A node until it has its routing table.                                  *)
(***************************************************************************)

\* The process of a ends and cleanUpNode closes its sockets.
Exit(a, how) ==
    /\ pc' = [pc EXCEPT ![a] = how]
    /\ bound' = bound \ {a}
    /\ udp' = [udp EXCEPT ![a] = <<>>]

\* A TCP exchange ends badly: main returns failure, or a signal ends the process
\* (SIGPIPE from a send to a closed connection; or cleanUpNode frees the pointer
\* to the rows, which is not initialized before nRows has been received).
Abort(a) == \E how \in {"failure", "killed"} : Exit(a, how)

\* getUDPSocket.  The launch script starts the nodes after the server.
BindUDP(a) ==
    /\ pc[a] = "start"
    /\ server # "start" \/ "early" \in Faults
    /\ \/ /\ bound' = bound \cup {a}
          /\ pc' = [pc EXCEPT ![a] = "bound"]
          /\ UNCHANGED udp
       \/ "socket" \in Faults /\ Exit(a, "bindFailed")
    /\ UNCHANGED <<serverVars, tcpVars, line, received, hops>>

\* (Slip: the node turns to the server before it has bound its port.)
AtConnectOrStart(a) == pc[a] \in {"start", "bound"}

\* The point of main where the node turns to the server.
AtConnect(a) == pc[a] = "bound"

ServerListens == server \notin {"start"} \cup ServerGone

\* getTCPClientSocket: refused unless the server is listening.
ConnectTCP(a) ==
    /\ AtConnect(a)
    /\ \/ /\ ServerListens
          /\ backlog' = Append(backlog, a)
          /\ pc' = [pc EXCEPT ![a] = "connected"]
          /\ UNCHANGED <<bound, udp>>
       \/ /\ ~ServerListens \/ "socket" \in Faults
          /\ Exit(a, "connectFailed")
          /\ UNCHANGED backlog
    /\ UNCHANGED <<server, nodeArray, idxTables, nSent, tcpVars, line, received, hops>>

\* sendEdgeInformation: address, number of neighbors, neighbors, weights.
SendEdgeInformation(a) ==
    /\ pc[a] = "connected"
    /\ \/ /\ reported' = reported \cup {a}
          /\ pc' = [pc EXCEPT ![a] = "waiting"]
          /\ UNCHANGED <<bound, udp>>
       \/ /\ server \in ServerGone \/ "socket" \in Faults
          /\ Abort(a)
          /\ UNCHANGED reported
    /\ UNCHANGED <<serverVars, inbox, table, line, received, hops>>

\* receiveRoutingTable: blocks until the table or the end of the stream.
ReceiveRoutingTable(a) ==
    /\ pc[a] = "waiting"
    /\ \/ /\ inbox[a] # <<>>
          /\ table' = [table EXCEPT ![a] = Head(inbox[a])]
          /\ inbox' = [inbox EXCEPT ![a] = Tail(@)]
          /\ pc' = [pc EXCEPT ![a] = "running"]
          /\ UNCHANGED <<bound, udp>>
       \/ /\ inbox[a] = <<>>
          /\ server \in ServerGone
          /\ Abort(a)
          /\ UNCHANGED <<table, inbox>>
    /\ UNCHANGED <<serverVars, reported, line, received, hops>>

-----------------------------------------------------------------------------
(***************************************************************************)
(* Packets.  A datagram to port basePort + b is queued at the socket of b, *)
(* or vanishes when no process holds that port.                            *)
(***************************************************************************)

Message(p) == Lines[p.line].message

\* (Slip: the newest datagram overtakes the queued ones.)
EnqueueFirst(queues, b, p) ==
    IF b \in bound THEN [queues EXCEPT ![b] = <<p>> \o @] ELSE queues

\* (Slip: the datagram is sent again although it has arrived.)
EnqueueTwice(queues, b, p) ==
    IF b \in bound THEN [queues EXCEPT ![b] = @ \o <<p, p>>] ELSE queues

\* The queues after a datagram p is sent to the port of b.
Enqueue(queues, b, p) ==
    IF b \in bound
    THEN [queues EXCEPT ![b] = Append(@, p)]
    ELSE queues

\* Process a sends p to the port of b; queues are the sockets' queues before.
Transmit(queues, a, b, p) ==
    /\ hops' = hops \cup {<<a, b, p.line>>}
    /\ \/ udp' = Enqueue(queues, b, p)
       \/ "loss" \in Faults /\ udp' = queues

\* extractLengthDestinationAndMessage succeeds on the line.
Parses(l) == Lines[l].parses

\* The line at which node 1 stops reading.
IsOwnQuit(l) ==
    Parses(l) /\ Lines[l].destination = Sender /\ Lines[l].message = QUIT

\* (Slip: the destination of the row is not compared.)
NextHopOfAnyRow(t, d) == t[CHOOSE e \in DOMAIN t : TRUE]

\* The next hop in the row of destination d.
NextHop(t, d) == t[d]

\* One round of prepareAndSendPackets: the packet of a line goes to the port of
\* its next hop.
SendLine ==
    /\ pc[Sender] = "running"
    /\ line <= Len(Lines)
    /\ Parses(line)
    /\ ~IsOwnQuit(line)
    /\ LET d == Lines[line].destination
       IN  /\ d \in DOMAIN table[Sender]
           /\ Transmit(udp, Sender, NextHop(table[Sender], d),
                       [line |-> line, destination |-> d, source |-> Sender])
    /\ line' = line + 1
    /\ UNCHANGED <<serverVars, tcpVars, pc, bound, received>>

\* Node 1 stops reading at its QUIT line, at the end of the file, at a line that
\* does not parse or whose destination has no row, or when a call fails; main
\* returns success in each of these cases.
StopSending ==
    /\ pc[Sender] = "running"
    /\ \/ line > Len(Lines)
       \/ line <= Len(Lines) /\ (IsOwnQuit(line) \/ ~Parses(line))
       \/ line <= Len(Lines) /\ Lines[line].destination \notin DOMAIN table[Sender]
       \/ "socket" \in Faults
    /\ Exit(Sender, "success")
    /\ UNCHANGED <<serverVars, tcpVars, line, received, hops>>

-----------------------------------------------------------------------------
(***************************************************************************)
(* receiveAndForwardPackets: one round handles the oldest queued packet.   *)
(***************************************************************************)

Receiving(a) ==
    /\ a # Sender
    /\ pc[a] = "running"
    /\ udp[a] # <<>>

\* The packet that makes a exit.  It is not printed.
IsQuitFor(a, p) == p.destination = a /\ Message(p) = QUIT

ReceiveQuit(a) ==
    /\ Receiving(a)
    /\ IsQuitFor(a, Head(udp[a]))
    /\ Exit(a, "success")
    /\ UNCHANGED <<serverVars, tcpVars, line, received, hops>>

\* print_received_pkt.
ReceiveOwn(a) ==
    /\ Receiving(a)
    /\ LET p == Head(udp[a])
       IN  /\ ~IsQuitFor(a, p)
           /\ p.destination = a
           /\ received' = [received EXCEPT ![a] = Append(@, p.line)]
    /\ udp' = [udp EXCEPT ![a] = Tail(@)]
    /\ UNCHANGED <<serverVars, tcpVars, pc, bound, line, hops>>

\* The port a packet is forwarded to: that of the destination, not that of
\* the next hop found in the table.
ForwardPort(a, d) == d

\* Send the packet on, with a as its source.
Forward(a) ==
    /\ Receiving(a)
    /\ LET p == Head(udp[a])
       IN  /\ ~IsQuitFor(a, p)
           /\ p.destination # a
           /\ p.destination \in DOMAIN table[a]
           /\ Transmit([udp EXCEPT ![a] = Tail(@)], a,
                       ForwardPort(a, p.destination), [p EXCEPT !.source = a])
    /\ UNCHANGED <<serverVars, tcpVars, pc, bound, line, received>>

\* No row for the destination, or the receive or the send fails.
ReceiveFails(a) ==
    /\ a # Sender
    /\ pc[a] = "running"
    /\ \/ /\ udp[a] # <<>>
          /\ Head(udp[a]).destination \notin DOMAIN table[a] \cup {a}
       \/ "socket" \in Faults
    /\ Exit(a, "failure")
    /\ UNCHANGED <<serverVars, tcpVars, line, received, hops>>

NodeStep(a) ==
    \/ BindUDP(a)
    \/ ConnectTCP(a)
    \/ SendEdgeInformation(a)
    \/ ReceiveRoutingTable(a)
    \/ ReceiveQuit(a)
    \/ ReceiveOwn(a)
    \/ Forward(a)
    \/ ReceiveFails(a)

SenderStep == SendLine \/ StopSending

\* A node process is killed; the kernel closes its sockets.
Kill(a) ==
    /\ "crash" \in Faults
    /\ pc[a] \in Active
    /\ Exit(a, "killed")
    /\ UNCHANGED <<serverVars, tcpVars, line, received, hops>>

Next ==
    \/ ServerStep
    \/ SenderStep
    \/ \E a \in Addr : NodeStep(a) \/ Kill(a)

Spec == Init /\ [][Next]_vars

\* The server waits in accept, or in recv for a report that may still come.
ServerBlocked ==
    \/ server = "accept" /\ backlog = <<>>
    \/ /\ server = "receive"
       /\ nodeArray[Len(nodeArray)] \notin reported
       /\ pc[nodeArray[Len(nodeArray)]] \notin Ended

\* The node waits for a datagram.
NodeBlocked(a) == pc[a] = "running" /\ udp[a] = <<>>

\* Every process that is not blocked is eventually scheduled.  Nothing makes a
\* call fail that only waits.
FairSpec ==
    /\ Spec
    /\ WF_vars(~ServerBlocked /\ ServerStep)
    /\ WF_vars(SenderStep)
    /\ \A a \in Addr : WF_vars(~NodeBlocked(a) /\ NodeStep(a))

-----------------------------------------------------------------------------
(***************************************************************************)
(* Safety.                                                                 *)
(***************************************************************************)

\* No datagram is ever sent to a port its node has not bound: every node binds
\* before it connects, the server sends no table before all N nodes reported,
\* and nobody sends before it has a table (the one-second sleep of node 1 is
\* not what makes this safe).
NeverSentToUnbound ==
    \A h \in hops : h[2] \in bound \/ pc[h[2]] \in {"success", "failure", "killed"}

\* Whatever the order of arrival, the translation to indices and back gives
\* each node the table of its own address, all from one computation.
TablesOfOneComputation ==
    \E T \in TableSets : \A a \in Addr :
        /\ \A i \in DOMAIN inbox[a] : inbox[a][i] = T[a]
        /\ pc[a] = "running" => table[a] = T[a]

\* A packet waits only at its destination or at a node that has, or is about
\* to get, a row for it: forwarding never fails for want of a row, even while
\* tables are still being distributed or a node has just received its own.
RowForEveryPacket ==
    \A a \in Addr : \A i \in DOMAIN udp[a] :
        \/ udp[a][i].destination = a
        \/ \E t \in {table[a]} \cup {inbox[a][j] : j \in DOMAIN inbox[a]}
                    \cup {ToAddresses(idxTables[j]) :
                            j \in {k \in DOMAIN idxTables :
                                     k > nSent /\ nodeArray[k] = a}} :
             udp[a][i].destination \in DOMAIN t

\* Packets travel along edges of the graph only.
NeighborsOnly(Edges) == \A h \in hops : {h[1], h[2]} \in Edges

(***************************************************************************)
(* Implementation of MessageDelivery, and liveness.                        *)
(***************************************************************************)

\* In data.txt, every node but the sender has a QUIT line, and no line goes to
\* it or is first sent to it after a QUIT line of it; all other lines are for
\* nodes, and the sender's own QUIT line is the last.
QuitsAfterTraffic ==
    /\ \A a \in Others : \E q \in DOMAIN Lines :
         Lines[q] = [destination |-> a, message |-> QUIT, parses |-> TRUE]
    /\ \A q \in DOMAIN Lines, T \in TableSets : Lines[q].message = QUIT =>
         \A l \in q + 1 .. Len(Lines) :
            LET d == Lines[l].destination
            IN  /\ d # Lines[q].destination
                /\ d \in DOMAIN T[Sender] => T[Sender][d] # Lines[q].destination
    /\ \A l \in DOMAIN Lines :
         /\ Parses(l)
         /\ Lines[l].destination \in Others \/ (IsOwnQuit(l) /\ l = Len(Lines))

MD == INSTANCE MessageDelivery
        WITH received <- received,
             gone     <- {a \in Addr : pc[a] \in Ended},
             Reliable <- Faults = {}

\* The lines printed at each node are, once each and in file order, the lines
\* addressed to it; without faults none is missing when the node exits.
DeliversMessages == MD!Spec

\* Without faults, and with a data.txt that sends the QUIT lines last, all
\* processes end, and they end well.
AllExit ==
    <>(server = "success" /\ \A a \in Addr : pc[a] = "success")

\* When the server gives up, no node is left blocked in the TCP exchange.
ServerFailureFreesWaiting ==
    \A a \in Addr :
        server = "failure" ~> pc[a] \in Ended \cup {"start", "running"}

\* The accept of the server has no timeout.  It blocks for ever only because a
\* node has ended before it connected, never for another reason; the nodes that
\* did connect then wait for their tables for ever.
AcceptWaitsOnlyForTheDead ==
    server = "accept" ~>
        \/ server # "accept"
        \/ \E a \in Addr : /\ pc[a] \in Ended
                            /\ \A i \in DOMAIN nodeArray : nodeArray[i] # a

=============================================================================
