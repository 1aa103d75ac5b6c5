------------------------------ MODULE PacketLog ------------------------------
(***************************************************************************)
(* The log files of the emulated network: what print_lib prints, when, and *)
(* where.  Every print makes the directories of LOG_DIR, checks the packet *)
(* and appends one piece to the file; the processes share directories, and *)
(* without LOG_DIR the file itself.  The bytes of a packet are modelled as *)
(* far as the check looks at them: the header and the places of the NULs.  *)
(*                                                                         *)
(* Datagrams are neither lost nor reordered here (see EmulatedNetwork).    *)
(***************************************************************************)
EXTENDS Naturals, FiniteSetsExt, SequencesExt

CONSTANTS
    Nodes,    \* the addresses of the nodes
    Server,   \* the routing_server, which has no address
    Layouts,  \* the possible LOG_DIRs: per process a path, <<>> if unset
    Lines,    \* data.txt: [destination, text, strlen] records
    NextHop,  \* the next hop in node 1's table, per destination
    QUIT,     \* a text
    Garbage,  \* where a buffer that was never written may have NULs
    nPrints   \* how often printEdges prints

MAX_MSG_LENGTH == 1024
USHRT_MAX == 65535
Processes == Nodes \cup {Server}

ASSUME LogAssumption ==
    /\ 1 \in Nodes /\ Server \notin Nodes
    /\ Layouts \subseteq [Processes -> Seq(STRING)]
    /\ NextHop \in [Nodes \ {1} -> Nodes \ {1}]
    /\ Lines \in Seq([destination : Nodes, text : STRING, strlen : 0..999])
    /\ Garbage \subseteq SUBSET (6 .. MAX_MSG_LENGTH - 1)
    /\ nPrints \in Nat \ {0}  \* there is node 1

\* What two processes share of their paths, the server has on its path, as in
\* the launch scripts.
ServerMakesShared ==
    \A paths \in Layouts : \A p, q \in Processes :
        \A k \in 1 .. Len(paths[p]) :
            LET shared == SubSeq(paths[p], 1, k)
            IN  p # q /\ IsPrefix(shared, paths[q]) => IsPrefix(shared, paths[Server])

VARIABLES
    logDir,    \* LOG_DIR of the processes
    dirs,      \* the directories that exist
    log,       \* per directory, the lines of its logfile.txt
    stage,     \* what a process is doing: see Stages
    depth,     \* the directory of its path make_directories looks at
    line,      \* what it prints
    unprinted, \* the prints printEdges has left
    tables,    \* the nodes that have their table
    nextLine,  \* the line of data.txt that is read next
    channel,   \* per node, the datagrams on their way to it
    buffer     \* per node, the packet it works on

vars == <<logDir, dirs, log, stage, depth, line, unprinted, tables, nextLine,
          channel, buffer>>

Stages == {"idle", "stat", "mkdir", "write", "send", "ended", "failed"}

\* The header, the message and the places of NUL bytes behind the header.
Packet ==
    [length : 0..USHRT_MAX, destination : Nodes, source : Nodes, line : 0 .. Len(Lines),
     nuls : SUBSET (6..USHRT_MAX)]

Flags == {"INCOMPLETE_PACKET", "BAD_LENGTH", "LEN_SWAP", "TEST_CODE_BUG",
          "MINOR_LENGTH_BUG", "LENGTH_BUG", "STRING_TERM_BUG", "SHORT_STRING_BUG"}

Printed ==
    [op : {"[C]"}] \cup
    [op : {"CREATE", "FWD", "RCV"}, by : Nodes, len : 0..USHRT_MAX, src : Nodes,
     dst : Nodes, flags : SUBSET Flags, msg : DOMAIN Lines, strlen : Nat]

TypeOK ==
    /\ logDir \in Layouts
    /\ \A d \in dirs : \E p \in Processes : IsPrefix(d, logDir[p])
    /\ \A p \in Processes : log[logDir[p]] \in Seq(Printed)
    /\ stage \in [Processes -> Stages]
    /\ \A p \in Processes : depth[p] \in 1 .. Len(logDir[p]) + 1
    /\ line \in [Processes -> Printed]
    /\ unprinted \in 0..nPrints
    /\ tables \subseteq Nodes
    /\ nextLine \in 1 .. Len(Lines) + 1
    /\ channel \in [Nodes -> Seq(Packet)]
    /\ buffer \in [Nodes -> Packet]

\* What is in the buffer before the first packet is anything.
Init ==
    /\ logDir \in Layouts
    /\ dirs = {}
    /\ log = [d \in Range(logDir) |-> <<>>]
    /\ stage = [p \in Processes |-> "idle"]
    /\ depth = [p \in Processes |-> 1]
    /\ line = [p \in Processes |-> [op |-> "[C]"]]
    /\ unprinted = nPrints
    /\ tables = {}
    /\ nextLine = 1
    /\ channel = [a \in Nodes |-> <<>>]
    /\ \E nuls \in [Nodes -> Garbage] :
         buffer = [a \in Nodes |-> [length |-> 0, destination |-> 1, source |-> 1,
                                    line |-> 0, nuls |-> nuls[a]]]

-----------------------------------------------------------------------------
(***************************************************************************)
(* Packets.                                                                *)
(***************************************************************************)

\* (Slip: the terminating NUL is not counted.)
PacketLengthWithoutNul(l) == (6 + Lines[l].strlen) % (USHRT_MAX + 1)

\* extractLengthDestinationAndMessage, into an unsigned short.
PacketLength(l) == (7 + Lines[l].strlen) % (USHRT_MAX + 1)

\* createPacket: an array of that length with the NUL of the text.
Created(l) ==
    [length |-> PacketLength(l), destination |-> Lines[l].destination,
     source |-> 1, line |-> l,
     nuls |-> {6 + Lines[l].strlen} \cap (0 .. PacketLength(l) - 1)]

\* A datagram is received over what was in the buffer before; what it does not
\* reach stays.
Received(old, new) ==
    LET nBytes == IF new.length < MAX_MSG_LENGTH THEN new.length ELSE MAX_MSG_LENGTH
    IN  [new EXCEPT !.nuls = {i \in @ : i < nBytes} \cup {i \in old.nuls : i >= nBytes}]

\* strlen of the message.  (Without a NUL it runs to the end of the buffer.)
StrLen(p) == IF p.nuls = {} THEN MAX_MSG_LENGTH - 6 ELSE Min(p.nuls) - 6

Swapped(s) == (s % 256) * 256 + s \div 256

\* validate_packet.
Validated(p) ==
    LET long   == p.length > 1500
        length == IF ~long THEN p.length
                  ELSE IF Swapped(p.length) > 1500 THEN 1500 ELSE Swapped(p.length)
        slen   == StrLen(p)
        Ending == CASE slen + 7 = length                     -> "TEST_CODE_BUG"
                    [] length >= slen /\ length < slen + 7   -> "MINOR_LENGTH_BUG"
                    [] length > slen + 7                     -> "LENGTH_BUG"
                    [] OTHER                                 -> "STRING_TERM_BUG"
    IN  IF p.length < 6 THEN {"INCOMPLETE_PACKET"}
        ELSE {f \in {"BAD_LENGTH"} : long /\ Swapped(p.length) > 1500}
               \cup {f \in {"LEN_SWAP"} : long /\ Swapped(p.length) <= 1500}
               \cup (IF length - 1 \notin p.nuls THEN {Ending}
                     ELSE {f \in {"SHORT_STRING_BUG"} : length # slen + 7})

\* print_msg.
Message(op, a, p) ==
    [op |-> op, by |-> a, len |-> p.length, src |-> p.source, dst |-> p.destination,
     flags |-> Validated(p), msg |-> p.line, strlen |-> StrLen(p)]

-----------------------------------------------------------------------------
(***************************************************************************)
(* Printing, step by step.                                                 *)
(***************************************************************************)

\* A process calls print_pkt or one of its siblings.
StartPrinting(p, what) ==
    /\ stage' = [stage EXCEPT ![p] = "stat"]
    /\ depth' = [depth EXCEPT ![p] = 1]
    /\ line' = [line EXCEPT ![p] = what]

\* (Slip: only the name behind the last delimiter.)
PathWithoutBase(p) == <<logDir[p][depth[p]]>>

\* The directories up to the delimiter that is looked at.
Path(p) == SubSeq(logDir[p], 1, depth[p])

\* make_directories: is the next directory there?
Stat(p) ==
    /\ stage[p] = "stat"
    /\ \/ /\ depth[p] > Len(logDir[p])
          /\ stage' = [stage EXCEPT ![p] = "write"]
          /\ UNCHANGED depth
       \/ /\ depth[p] <= Len(logDir[p])
          /\ Path(p) \in dirs
          /\ depth' = [depth EXCEPT ![p] = @ + 1]
          /\ UNCHANGED stage
       \/ /\ depth[p] <= Len(logDir[p])
          /\ Path(p) \notin dirs
          /\ stage' = [stage EXCEPT ![p] = "mkdir"]
          /\ UNCHANGED depth
    /\ UNCHANGED <<logDir, dirs, log, line, unprinted, tables, nextLine, channel, buffer>>

\* If not it is made, and the process exits if it exists by now.
Mkdir(p) ==
    /\ stage[p] = "mkdir"
    /\ IF Path(p) \in dirs
       THEN stage' = [stage EXCEPT ![p] = "failed"] /\ UNCHANGED <<dirs, depth>>
       ELSE /\ dirs' = dirs \cup {Path(p)}
            /\ depth' = [depth EXCEPT ![p] = @ + 1]
            /\ stage' = [stage EXCEPT ![p] = "stat"]
    /\ UNCHANGED <<logDir, log, line, unprinted, tables, nextLine, channel, buffer>>

\* The file is opened to append, and written when it is closed.
Write(p) ==
    /\ stage[p] = "write"
    /\ log' = [log EXCEPT ![logDir[p]] = Append(@, line[p])]
    /\ stage' = [stage EXCEPT ![p] = "send"]
    /\ UNCHANGED <<logDir, dirs, depth, line, unprinted, tables, nextLine, channel, buffer>>

-----------------------------------------------------------------------------
(***************************************************************************)
(* What the processes print, and do after printing.                        *)
(***************************************************************************)

\* printEdges, one call of print_weighted_edge.
PrintEdge ==
    /\ stage[Server] = "idle" /\ unprinted > 0
    /\ StartPrinting(Server, [op |-> "[C]"])
    /\ UNCHANGED <<logDir, dirs, log, unprinted, tables, nextLine, channel, buffer>>

EdgePrinted ==
    /\ stage[Server] = "send"
    /\ unprinted' = unprinted - 1
    /\ stage' = [stage EXCEPT ![Server] = "idle"]
    /\ UNCHANGED <<logDir, dirs, log, depth, line, tables, nextLine, channel, buffer>>

\* (Slip: the tables are sent before the edges are printed.)
SendTableFirst(a) ==
    /\ stage[Server] = "idle" /\ a \notin tables
    /\ tables' = tables \cup {a}
    /\ UNCHANGED <<logDir, dirs, log, stage, depth, line, unprinted, nextLine, channel, buffer>>

\* sendRoutingTables, one node (in the order of arrival, which may be any).
SendTable(a) ==
    /\ stage[Server] = "idle" /\ unprinted = 0 /\ a \notin tables
    /\ tables' = tables \cup {a}
    /\ UNCHANGED <<logDir, dirs, log, stage, depth, line, unprinted, nextLine, channel, buffer>>

Working(a) == stage[a] = "idle" /\ a \in tables

\* prepareAndSendPackets: a line of data.txt becomes a packet and is printed ...
CreatePacket ==
    /\ Working(1) /\ nextLine <= Len(Lines)
    /\ Lines[nextLine].destination # 1
    /\ buffer' = [buffer EXCEPT ![1] = Created(nextLine)]
    /\ StartPrinting(1, Message("CREATE", 1, Created(nextLine)))
    /\ UNCHANGED <<logDir, dirs, log, unprinted, tables, nextLine, channel>>

\* ... and sent to the next hop.
SendPacket ==
    /\ stage[1] = "send"
    /\ channel' = [channel EXCEPT ![NextHop[buffer[1].destination]] = Append(@, buffer[1])]
    /\ nextLine' = nextLine + 1
    /\ stage' = [stage EXCEPT ![1] = "idle"]
    /\ UNCHANGED <<logDir, dirs, log, depth, line, unprinted, tables, buffer>>

\* The sender's own QUIT, or the end of data.txt.
StopSending ==
    /\ Working(1)
    /\ \/ nextLine > Len(Lines)
       \/ Lines[nextLine].destination = 1 /\ Lines[nextLine].text = QUIT
    /\ stage' = [stage EXCEPT ![1] = "ended"]
    /\ UNCHANGED <<logDir, dirs, log, depth, line, unprinted, tables, nextLine, channel, buffer>>

\* (Slip: whose QUIT it is is not compared.)
IsAnyQuit(a, p) == Lines[p.line].text = QUIT

IsOwnQuit(a, p) == p.destination = a /\ Lines[p.line].text = QUIT

\* (Slip: a packet to forward is sent on before it is printed, too.)
ReceiveAndSend(a) ==
    /\ a # 1 /\ Working(a) /\ channel[a] # <<>>
    /\ LET p == Received(buffer[a], Head(channel[a]))
           d == p.destination
           sentOn == [channel EXCEPT ![a] = Tail(@)]
       IN  /\ buffer' = [buffer EXCEPT ![a] = p]
           /\ channel' = IF d = a THEN sentOn
                         ELSE [sentOn EXCEPT ![d] = Append(@, [p EXCEPT !.source = a])]
           /\ StartPrinting(a, Message(IF d = a THEN "RCV" ELSE "FWD", a, p))
    /\ UNCHANGED <<logDir, dirs, log, unprinted, tables, nextLine>>

\* receiveAndForwardPackets: a packet is received, which is the end if it is
\* the node's QUIT, and printed ...
Receive(a) ==
    /\ a # 1 /\ Working(a) /\ channel[a] # <<>>
    /\ LET p == Received(buffer[a], Head(channel[a]))
       IN  /\ buffer' = [buffer EXCEPT ![a] = p]
           /\ channel' = [channel EXCEPT ![a] = Tail(@)]
           /\ IF IsOwnQuit(a, p)
              THEN stage' = [stage EXCEPT ![a] = "ended"] /\ UNCHANGED <<depth, line>>
              ELSE StartPrinting(a, Message(IF p.destination = a THEN "RCV" ELSE "FWD", a, p))
    /\ UNCHANGED <<logDir, dirs, log, unprinted, tables, nextLine>>

\* What is sent on has the node as its source.
Forwarded(a, p) == [p EXCEPT !.source = a]

\* ... and sent on unless it has arrived.
SendOn(a) ==
    /\ a # 1 /\ a # Server /\ stage[a] = "send"
    /\ LET p == buffer[a]
       IN  channel' = IF p.destination = a THEN channel
                      ELSE [channel EXCEPT ![p.destination] = Append(@, Forwarded(a, p))]
    /\ stage' = [stage EXCEPT ![a] = "idle"]
    /\ UNCHANGED <<logDir, dirs, log, depth, line, unprinted, tables, nextLine, buffer>>

PrintStep(p) == Stat(p) \/ Mkdir(p) \/ Write(p)
ServerStep == PrintEdge \/ EdgePrinted \/ \E a \in Nodes : SendTable(a)
SenderStep == CreatePacket \/ SendPacket \/ StopSending
ReceiverStep(a) == Receive(a) \/ SendOn(a)

Next ==
    \/ \E p \in Processes : PrintStep(p)
    \/ ServerStep
    \/ SenderStep
    \/ \E a \in Nodes : ReceiverStep(a)

\* No process stops on its own, and none blocks but in recv.
Fairness ==
    /\ \A p \in Processes : WF_vars(PrintStep(p))
    /\ WF_vars(ServerStep)
    /\ WF_vars(SenderStep)
    /\ \A a \in Nodes : WF_vars(ReceiverStep(a))

Spec == Init /\ [][Next]_vars /\ Fairness

-----------------------------------------------------------------------------
(***************************************************************************)
(* Correctness.                                                            *)
(***************************************************************************)

\* No process exits because another made a directory between its stat and its
\* mkdir: what they share is made by the server, before any node may print.
NoMkdirRace == \A p \in Processes : stage[p] # "failed"

\* A printed line tells the truth about its packet, whatever was in the buffer
\* before: the check finds nothing, and the length, the text and the last node
\* are the right ones.
LinesAreTrue ==
    \A p \in Processes : \A i \in DOMAIN log[logDir[p]] :
        LET x == log[logDir[p]][i]
        IN  x.op # "[C]" =>
              /\ x.flags = {}
              /\ x.strlen = Lines[x.msg].strlen
              /\ x.len = x.strlen + 7
              /\ x.dst = Lines[x.msg].destination
              /\ x.src = IF x.op = "CREATE" \/ NextHop[x.dst] = x.by
                         THEN 1 ELSE NextHop[x.dst]

\* The place of the line that a node printed about the text l, 0 if there is none.
PlaceOf(a, l) ==
    LET S == {i \in DOMAIN log[logDir[a]] :
                /\ log[logDir[a]][i].op # "[C]"
                /\ log[logDir[a]][i].by = a /\ log[logDir[a]][i].msg = l}
    IN  IF S = {} THEN 0 ELSE Min(S)

\* The nodes a packet passes.
Way(l) ==
    LET d == Lines[l].destination
    IN  IF NextHop[d] = d THEN <<1, d>> ELSE <<1, NextHop[d], d>>

\* The logs can be read as the way of a packet: when a node has printed it, the
\* node before has; in one file, before; and the edges come before all packets.
LogIsCausal ==
    \A l \in {k \in DOMAIN Lines : Lines[k].destination # 1} :
        \A h \in DOMAIN Way(l) :
            LET here == PlaceOf(Way(l)[h], l)
            IN  here > 0 =>
                  /\ Cardinality({i \in DOMAIN log[logDir[Server]] :
                       log[logDir[Server]][i].op = "[C]" /\
                       (logDir[Server] = logDir[Way(l)[h]] => i < here)}) = nPrints
                  /\ h > 1 =>
                       LET before == PlaceOf(Way(l)[h - 1], l)
                       IN  /\ before > 0
                           /\ logDir[Way(l)[h - 1]] = logDir[Way(l)[h]] => before < here

\* In the end every packet but a QUIT has been printed by its destination, and
\* every node has ended, none of them because of a print.
EveryPacketIsLogged ==
    <>[] /\ \A l \in DOMAIN Lines :
              Lines[l].text # QUIT => PlaceOf(Lines[l].destination, l) > 0
         /\ \A a \in Nodes : stage[a] = "ended"

=============================================================================
