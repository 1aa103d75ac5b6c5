--------------------------- MODULE PacketLogProofs ---------------------------
(***************************************************************************)
(* Proofs about the log files for any nodes, directories, lines and next   *)
(* hops, and any contents of a buffer before its first packet.             *)
(*                                                                         *)
(* The argument: a packet keeps its header and its first NUL wherever it   *)
(* goes (Intact), so that every check finds what was sent.  It is at a     *)
(* node only after the node before has printed it (Arrived), since both    *)
(* programs print before they send.  And all edges are printed before the  *)
(* first table is sent, so before the first packet (EdgesFirst).           *)
(***************************************************************************)
EXTENDS PacketLog, FiniteSetTheorems, WellFoundedInduction, TLAPS

Dest(l) == Lines[l].destination
TextLen(l) == Lines[l].strlen

Printing == {"stat", "mkdir", "write"}

\* The log that each node writes to.
Logs == [a \in Nodes |-> log[logDir[a]]]

\* The node that prints a packet of the line l before the node a does.
NodeBefore(a, l) ==
    IF NextHop[Dest(l)] = a THEN 1 ELSE NextHop[Dest(l)]

\* With the logs g: a has printed the packet of the line l at place i.
PrintedAt(g, a, l, i) ==
    /\ i \in DOMAIN g[a]
    /\ g[a][i].op # "[C]"
    /\ g[a][i].by = a
    /\ g[a][i].msg = l

HasPrinted(g, a, l) == \E i \in DOMAIN g[a] : PrintedAt(g, a, l, i)

\* The packet says what its line says, whatever is behind its first NUL.
Intact(p) ==
    /\ p \in Packet
    /\ p.line \in DOMAIN Lines
    /\ p.destination = Dest(p.line)
    /\ p.destination # 1
    /\ p.length = 7 + TextLen(p.line)
    /\ 6 + TextLen(p.line) \in p.nuls
    /\ \A i \in p.nuls : i >= 6 + TextLen(p.line)

\* A packet that has been sent to a.
Arrived(g, a, p) ==
    /\ Intact(p)
    /\ a \in {p.destination, NextHop[p.destination]}
    /\ p.source = NodeBefore(a, p.line)
    /\ HasPrinted(g, p.source, p.line)

TypeInv ==
    /\ TypeOK
    /\ log \in [Range(logDir) -> Seq(Printed)]
    /\ depth \in [Processes -> Nat]
    /\ \A p \in Processes : stage[p] = "mkdir" => depth[p] <= Len(logDir[p])

\* Until all edges are printed nobody prints but the server; a line of data.txt
\* is printed and sent before the next is read.
Phases ==
    /\ stage[Server] # "idle" => unprinted > 0
    /\ \A a \in Nodes : stage[a] # "idle" => a \in tables
    /\ tables # {} => unprinted = 0
    /\ line[Server].op = "[C]"
    /\ stage[1] \in Printing \cup {"send"} => nextLine \in DOMAIN Lines

Channels ==
    \A a \in Nodes : \A i \in DOMAIN channel[a] : a # 1 /\ Arrived(Logs, a, channel[a][i])

\* The node a, at the stage st of its work on the packet b, prints x.
Purpose(a, b) ==
    IF a = 1 THEN "CREATE" ELSE IF b.destination = a THEN "RCV" ELSE "FWD"

Occupied(g, a, st, x, b) ==
    /\ st \in Printing \cup {"send"} =>
         IF a = 1 THEN Intact(b) /\ b.source = 1 ELSE Arrived(g, a, b)
    /\ st \in Printing => x = Message(Purpose(a, b), a, b)
    /\ st = "send" => HasPrinted(g, a, b.line)

Processing == \A a \in Nodes : Occupied(Logs, a, stage[a], line[a], buffer[a])

\* A line about a packet is true, and comes after that of the node before; D
\* are the directories.
TrueLine(x) ==
    /\ x.flags = {}
    /\ x.strlen = TextLen(x.msg)
    /\ x.len = x.strlen + 7
    /\ x.dst = Dest(x.msg)
    /\ x.src = IF x.op = "CREATE" \/ NextHop[x.dst] = x.by THEN 1 ELSE NextHop[x.dst]

BehindTheOther(g, D, x, i) ==
    LET b == NodeBefore(x.by, x.msg)
    IN  /\ b \in Nodes
        /\ HasPrinted(g, b, x.msg)
        /\ D[b] = D[x.by] => \E j \in 1 .. i - 1 : PrintedAt(g, b, x.msg, j)

GoodLine(g, D, d, x, i) ==
    x.op # "[C]" =>
        /\ x.by \in Nodes /\ D[x.by] = d
        /\ TrueLine(x)
        /\ x.by # 1 => BehindTheOther(g, D, x, i)

PacketLines ==
    \A d \in Range(logDir) : \A i \in DOMAIN log[d] :
        GoodLine(Logs, logDir, d, log[d][i], i)

EdgesIn(s) == {i \in DOMAIN s : s[i].op = "[C]"}

\* The lines about edges come before those about packets.
Sorted(s) == \A i, j \in DOMAIN s : s[j].op = "[C]" /\ i < j => s[i].op = "[C]"

EdgesFirst ==
    /\ Cardinality(EdgesIn(log[logDir[Server]])) =
         nPrints - unprinted + (IF stage[Server] = "send" THEN 1 ELSE 0)
    /\ \A d \in Range(logDir) :
         /\ unprinted > 0 => \A i \in DOMAIN log[d] : log[d][i].op = "[C]"
         /\ Sorted(log[d])

LogInv == TypeInv /\ Phases /\ Channels /\ Processing /\ PacketLines /\ EdgesFirst

\* For the directories: what the server's path needs is there before any node
\* prints, and nobody makes what another has made.
ServerMade ==
    \A k \in 1 .. Len(logDir[Server]) :
        \/ unprinted < nPrints
        \/ stage[Server] \in {"write", "send"}
        \/ stage[Server] \in {"stat", "mkdir"} /\ k < depth[Server]
        => SubSeq(logDir[Server], 1, k) \in dirs

StillMissing ==
    \A p \in Processes : stage[p] = "mkdir" => Path(p) \notin dirs

DirsInv == ServerMade /\ StillMissing /\ NoMkdirRace

-----------------------------------------------------------------------------
(***************************************************************************)
(* Packets: what is created, received and sent on stays intact, and the    *)
(* check of an intact packet finds nothing.                                *)
(***************************************************************************)

LEMMA LineFacts ==
    /\ DOMAIN Lines = 1 .. Len(Lines) /\ Len(Lines) \in Nat
    /\ \A l \in DOMAIN Lines :
         Dest(l) \in Nodes /\ TextLen(l) \in Nat /\ TextLen(l) <= 999
    /\ 1 \in Nodes /\ Server \notin Nodes
    /\ \A d \in Nodes \ {1} : NextHop[d] \in Nodes \ {1}
  <1> DEFINE Line == [destination : Nodes, text : STRING, strlen : 0..999]
  <1>1. Lines \in Seq(Line)
    BY LogAssumption
  <1>2. Line = [destination : Nodes, text : STRING, strlen : 0..999]
    OBVIOUS
  <1> HIDE DEF Line
  <1>3. DOMAIN Lines = 1 .. Len(Lines) /\ Len(Lines) \in Nat /\ \A l \in DOMAIN Lines : Lines[l] \in Line
    BY <1>1
  <1>4. \A x \in Line : x.destination \in Nodes /\ x.strlen \in Nat /\ x.strlen <= 999
    BY <1>2
  <1> QED
    BY <1>3, <1>4, LogAssumption DEF Dest, TextLen

LEMMA ShortLength ==
  ASSUME NEW s \in Nat, s <= 999, NEW m \in Nat, m > 2000
  PROVE  /\ (7 + s) % (m + 1) = 7 + s
         /\ {6 + s} \cap (0 .. (7 + s) - 1) = {6 + s}
         /\ 7 + s \in 0..m
         /\ {6 + s} \in SUBSET (6..m)
  OBVIOUS

LEMMA Widths == USHRT_MAX \in Nat /\ USHRT_MAX > 2000
  BY DEF USHRT_MAX

LEMMA CreatedIntact ==
  ASSUME NEW l \in DOMAIN Lines, Dest(l) # 1
  PROVE  /\ Intact(Created(l))
         /\ Created(l).source = 1 /\ Created(l).line = l
  <1> DEFINE s == TextLen(l)
  <1>1. s \in Nat /\ s <= 999 /\ Dest(l) \in Nodes /\ 1 \in Nodes
    BY LineFacts
  <1>2. l \in 0 .. Len(Lines)
    BY LineFacts
  <1>3. PacketLength(l) = (7 + s) % (USHRT_MAX + 1) /\ Lines[l].strlen = s
    BY DEF PacketLength, TextLen
  <1> HIDE DEF s
  <1>4. /\ (7 + s) % (USHRT_MAX + 1) = 7 + s
        /\ {6 + s} \cap (0 .. (7 + s) - 1) = {6 + s}
        /\ 7 + s \in 0..USHRT_MAX
        /\ {6 + s} \in SUBSET (6..USHRT_MAX)
    BY <1>1, ShortLength, Widths
  <1> DEFINE len == 7 + s
             nuls == {6 + s}
  <1>5. Created(l) = [length |-> len, destination |-> Dest(l),
                      source |-> 1, line |-> l, nuls |-> nuls]
    BY <1>3, <1>4 DEF Created, Dest
  <1>6. 6 + s \in nuls /\ \A i \in nuls : i >= 6 + s
    BY <1>1
  <1>7. len \in 0..USHRT_MAX /\ nuls \in SUBSET (6..USHRT_MAX) /\ len = 7 + s
    BY <1>4
  <1> HIDE DEF len, nuls
  <1>8. Created(l) \in Packet
    BY <1>1, <1>2, <1>5, <1>7 DEF Packet
  <1>9. /\ Created(l).line = l /\ Created(l).source = 1 /\ Created(l).destination = Dest(l)
        /\ Created(l).length = len /\ Created(l).nuls = nuls
    BY <1>5
  <1> QED
    BY <1>6, <1>7, <1>8, <1>9 DEF Intact, s

LEMMA PacketFields ==
  ASSUME NEW p \in Packet
  PROVE  /\ p.length \in 0..USHRT_MAX /\ p.nuls \in SUBSET (6..USHRT_MAX)
         /\ p.destination \in Nodes /\ p.source \in Nodes /\ p.line \in 0..Len(Lines)
  BY DEF Packet

LEMMA ReceivedIntact ==
  ASSUME NEW old \in Packet, NEW new, Intact(new)
  PROVE  /\ Intact(Received(old, new))
         /\ Received(old, new).source = new.source
         /\ Received(old, new).line = new.line
         /\ Received(old, new).destination = new.destination
  <1> DEFINE s == TextLen(new.line)
             left == {i \in new.nuls : i < 7 + s} \cup {i \in old.nuls : i >= 7 + s}
  <1>1. /\ new.line \in DOMAIN Lines /\ new.length = 7 + s /\ 6 + s \in new.nuls
        /\ \A i \in new.nuls : i >= 6 + s
        /\ new \in Packet
    BY DEF Intact
  <1>2. s \in Nat /\ s <= 999
    BY <1>1, LineFacts
  <1>3. new.nuls \in SUBSET (6..USHRT_MAX) /\ old.nuls \in SUBSET (6..USHRT_MAX)
    BY <1>1, PacketFields
  <1> HIDE DEF s
  <1>4. new.length < MAX_MSG_LENGTH
    BY <1>1, <1>2 DEF MAX_MSG_LENGTH
  <1>5. Received(old, new) = [new EXCEPT !.nuls = left]
    BY <1>1, <1>4 DEF Received
  <1>6. left \in SUBSET (6..USHRT_MAX)
    BY <1>3
  <1>7. \A i \in 6..USHRT_MAX : i \in Nat
    BY Widths
  <1>8. 6 + s \in left /\ \A i \in left : i >= 6 + s
    BY <1>1, <1>2, <1>3, <1>7
  <1> HIDE DEF left
  <1>9. /\ [new EXCEPT !.nuls = left] \in Packet
        /\ [new EXCEPT !.nuls = left].nuls = left
        /\ [new EXCEPT !.nuls = left].length = new.length
        /\ [new EXCEPT !.nuls = left].line = new.line
        /\ [new EXCEPT !.nuls = left].destination = new.destination
        /\ [new EXCEPT !.nuls = left].source = new.source
    BY <1>1, <1>6 DEF Packet
  <1>10. new.destination = Dest(new.line) /\ new.destination # 1
    BY DEF Intact
  <1> QED
    BY <1>1, <1>5, <1>8, <1>9, <1>10 DEF Intact, s

LEMMA ForwardedIntact ==
  ASSUME NEW a \in Nodes, NEW p, Intact(p)
  PROVE  /\ Intact(Forwarded(a, p))
         /\ Forwarded(a, p).source = a
         /\ Forwarded(a, p).line = p.line
         /\ Forwarded(a, p).destination = p.destination
  <1>1. p \in Packet
    BY DEF Intact
  <1>2. /\ Forwarded(a, p) \in Packet
        /\ Forwarded(a, p).nuls = p.nuls
        /\ Forwarded(a, p).length = p.length
        /\ Forwarded(a, p).line = p.line
        /\ Forwarded(a, p).destination = p.destination
        /\ Forwarded(a, p).source = a
    BY <1>1 DEF Forwarded, Packet
  <1> QED
    BY <1>2 DEF Intact

LEMMA CheckFindsNothing ==
  ASSUME NEW p, Intact(p)
  PROVE  StrLen(p) = TextLen(p.line) /\ Validated(p) = {}
  <1> DEFINE s == TextLen(p.line)
             nuls == p.nuls
  <1>1. /\ p.line \in DOMAIN Lines /\ p.length = 7 + s /\ 6 + s \in nuls
        /\ \A i \in nuls : i >= 6 + s
        /\ p \in Packet
    BY DEF Intact
  <1>2. s \in Nat /\ s <= 999
    BY <1>1, LineFacts
  <1>3. nuls \in SUBSET (6..USHRT_MAX)
    BY <1>1, PacketFields
  <1>4. \A i \in nuls : i \in Nat
    BY <1>3, Widths
  <1> HIDE DEF s, nuls
  <1>5. Min(nuls) = 6 + s
    <2>1. \A x \in nuls : (\A y \in nuls : x <= y) => x = 6 + s
      BY <1>1, <1>2, <1>4
    <2>2. \A y \in nuls : 6 + s <= y
      BY <1>1, <1>2, <1>4
    <2> QED
      BY <1>1, <2>1, <2>2 DEF Min
  <1>6. nuls # {} /\ (6 + s) - 6 = s /\ (7 + s) - 1 = 6 + s
    BY <1>1, <1>2
  <1>7. StrLen(p) = s
    BY <1>5, <1>6 DEF StrLen, nuls
  <1>8. Validated(p) = {}
    <2>1. ~(p.length > 1500) /\ ~(p.length < 6) /\ p.length = StrLen(p) + 7
      BY <1>1, <1>2, <1>7
    <2>2. p.length - 1 \in p.nuls
      BY <1>1, <1>6 DEF nuls
    <2> QED
      BY <2>1, <2>2 DEF Validated
  <1> QED
    BY <1>7, <1>8 DEF s

LEMMA MessageTrue ==
  ASSUME NEW a \in Nodes, NEW p, Intact(p), NEW op \in {"CREATE", "FWD", "RCV"}
  PROVE  LET x == Message(op, a, p)
         IN  /\ x \in Printed
             /\ x.op = op /\ x.op # "[C]" /\ x.by = a /\ x.msg = p.line
             /\ x.dst = p.destination /\ x.src = p.source
             /\ x.flags = {}
             /\ x.len = p.length /\ x.strlen = TextLen(p.line)
  <1>1. StrLen(p) = TextLen(p.line) /\ Validated(p) = {}
    BY CheckFindsNothing
  <1>2. TextLen(p.line) \in Nat /\ p.line \in DOMAIN Lines /\ p \in Packet
    BY LineFacts DEF Intact
  <1>3. Message(op, a, p) =
          [op |-> op, by |-> a, len |-> p.length, src |-> p.source, dst |-> p.destination,
           flags |-> {}, msg |-> p.line, strlen |-> TextLen(p.line)]
    BY <1>1 DEF Message
  <1>4. Message(op, a, p) \in Printed
    BY <1>2, <1>3, PacketFields DEF Printed
  <1> QED
    BY <1>3, <1>4

-----------------------------------------------------------------------------
(***************************************************************************)
(* What a step leaves as it is.                                            *)
(***************************************************************************)

LEMMA LogDirs ==
  ASSUME TypeInv
  PROVE  /\ logDir \in [Processes -> Seq(STRING)]
         /\ \A p \in Processes : logDir[p] \in Range(logDir)
         /\ Nodes \subseteq Processes /\ Server \in Processes
  <1>1. logDir \in [Processes -> Seq(STRING)]
    BY LogAssumption DEF TypeInv, TypeOK
  <1> QED
    BY <1>1 DEF Range, Processes

\* The logs h continue the logs g.
Continued(g, h) ==
    \A a \in Nodes : \A i \in DOMAIN g[a] : i \in DOMAIN h[a] /\ h[a][i] = g[a][i]

LEMMA PrintedStays ==
  ASSUME NEW g, NEW h, Continued(g, h), NEW a \in Nodes
  PROVE  /\ \A l, i : PrintedAt(g, a, l, i) => PrintedAt(h, a, l, i)
         /\ \A l : HasPrinted(g, a, l) => HasPrinted(h, a, l)
  BY DEF Continued, PrintedAt, HasPrinted

LEMMA ArrivedStays ==
  ASSUME NEW g, NEW h, Continued(g, h), NEW a, NEW p, Arrived(g, a, p)
  PROVE  Arrived(h, a, p)
  <1>1. p.source \in Nodes
    BY PacketFields DEF Arrived, Intact
  <1> QED
    BY <1>1, PrintedStays DEF Arrived

LEMMA OccupiedStays ==
  ASSUME NEW g, NEW h, Continued(g, h), NEW a \in Nodes, NEW x, NEW b, NEW st, NEW st2,
         Occupied(g, a, st, x, b),
         \/ st2 = st
         \/ st \in Printing /\ st2 \in Printing
         \/ st2 \in {"idle", "ended", "failed"}
  PROVE  Occupied(h, a, st2, x, b)
  BY PrintedStays, ArrivedStays DEF Occupied, Printing

LEMMA BehindStays ==
  ASSUME NEW g, NEW h, Continued(g, h), NEW D, NEW d, NEW x, NEW i, GoodLine(g, D, d, x, i)
  PROVE  GoodLine(h, D, d, x, i)
  <1>1. BehindTheOther(g, D, x, i) => BehindTheOther(h, D, x, i)
    BY PrintedStays DEF BehindTheOther
  <1> QED
    BY <1>1 DEF GoodLine

LEMMA LogsKept ==
  ASSUME UNCHANGED <<log, logDir>>
  PROVE  Logs' = Logs /\ Continued(Logs, Logs)
  BY DEF Logs, Continued

LEMMA LinesKept ==
  ASSUME PacketLines, UNCHANGED <<log, logDir>>
  PROVE  PacketLines'
  BY LogsKept DEF PacketLines

LEMMA ChannelsKept ==
  ASSUME Channels, UNCHANGED <<log, logDir, channel>>
  PROVE  Channels'
  BY LogsKept DEF Channels

LEMMA EdgesKept ==
  ASSUME EdgesFirst, UNCHANGED <<log, logDir, unprinted>>,
         stage[Server] = "send" <=> stage'[Server] = "send"
  PROVE  EdgesFirst'
  BY DEF EdgesFirst, EdgesIn

LEMMA PathsArePrefixes ==
  ASSUME NEW S, NEW s \in Seq(S), NEW k \in 1 .. Len(s)
  PROVE  /\ IsPrefix(SubSeq(s, 1, k), s)
         /\ SubSeq(s, 1, k) \in Seq(S) /\ Len(SubSeq(s, 1, k)) = k
  BY DEF IsPrefix

LEMMA DepthKept ==
  ASSUME TypeInv, NEW p \in Processes,
         \/ UNCHANGED depth
         \/ depth' = [depth EXCEPT ![p] = 1]
         \/ depth[p] <= Len(logDir[p]) /\ depth' = [depth EXCEPT ![p] = @ + 1]
  PROVE  /\ depth' \in [Processes -> Nat]
         /\ \A q \in Processes : depth'[q] \in 1 .. Len(logDir[q]) + 1
  <1>1. \A q \in Processes : Len(logDir[q]) \in Nat
    BY LogDirs
  <1>2. depth \in [Processes -> Nat] /\ \A q \in Processes : depth[q] \in 1 .. Len(logDir[q]) + 1
    BY DEF TypeInv, TypeOK
  <1> QED
    BY <1>1, <1>2

-----------------------------------------------------------------------------
(***************************************************************************)
(* One lemma per step.                                                     *)
(***************************************************************************)

LEMMA StatKeeps ==
  ASSUME LogInv, NEW p \in Processes, Stat(p)
  PROVE  LogInv'
  <1> USE DEF LogInv
  <1>1. /\ UNCHANGED <<logDir, dirs, log, line, unprinted, tables, nextLine, channel, buffer>>
        /\ stage[p] = "stat"
        /\ stage' \in [Processes -> Stages] /\ stage \in [Processes -> Stages]
        /\ stage'[p] \in Printing
        /\ \A q \in Processes \ {p} : stage'[q] = stage[q]
    BY DEF Stat, TypeInv, TypeOK, Stages, Printing
  <1>2. TypeInv'
    <2>1. depth' \in [Processes -> Nat] /\ \A q \in Processes : depth'[q] \in 1 .. Len(logDir[q]) + 1
      BY DepthKept DEF Stat
    <2>2. \A q \in Processes : stage'[q] = "mkdir" => depth'[q] <= Len(logDir[q])
      BY <1>1, LogDirs DEF Stat, TypeInv, TypeOK
    <2> QED
      BY <1>1, <2>1, <2>2 DEF TypeInv, TypeOK
  <1>3. Phases'
    BY <1>1, LogDirs, LineFacts DEF Phases, Printing
  <1>4. Channels'
    BY <1>1, ChannelsKept
  <1>5. Processing'
    <2> SUFFICES ASSUME NEW a \in Nodes
                 PROVE  Occupied(Logs', a, stage'[a], line'[a], buffer'[a])
      BY DEF Processing
    <2>1. Occupied(Logs, a, stage[a], line[a], buffer[a])
      BY DEF Processing
    <2>2. \/ stage'[a] = stage[a]
          \/ stage[a] \in Printing /\ stage'[a] \in Printing
          \/ stage'[a] \in {"idle", "ended", "failed"}
      BY <1>1, LogDirs DEF Printing
    <2> QED
      BY <1>1, <2>1, <2>2, LogsKept, OccupiedStays
  <1>6. PacketLines'
    BY <1>1, LinesKept
  <1>7. EdgesFirst'
    BY <1>1, EdgesKept, LogDirs DEF Printing
  <1> QED
    BY <1>2, <1>3, <1>4, <1>5, <1>6, <1>7

LEMMA MkdirKeeps ==
  ASSUME LogInv, NEW p \in Processes, Mkdir(p)
  PROVE  LogInv'
  <1> USE DEF LogInv
  <1>1. /\ UNCHANGED <<logDir, log, line, unprinted, tables, nextLine, channel, buffer>>
        /\ stage[p] = "mkdir"
        /\ stage' \in [Processes -> Stages] /\ stage \in [Processes -> Stages]
        /\ stage'[p] \in {"stat", "failed"}
        /\ \A q \in Processes \ {p} : stage'[q] = stage[q]
    BY DEF Mkdir, TypeInv, TypeOK, Stages
  <1>2. TypeInv'
    <2>1. depth[p] <= Len(logDir[p]) /\ depth[p] \in 1 .. Len(logDir[p]) + 1
      BY <1>1 DEF TypeInv, TypeOK
    <2>5. depth' \in [Processes -> Nat] /\ \A q \in Processes : depth'[q] \in 1 .. Len(logDir[q]) + 1
      BY <2>1, DepthKept DEF Mkdir
    <2>2. \A q \in Processes : stage'[q] = "mkdir" => depth'[q] <= Len(logDir[q])
      BY <1>1, LogDirs DEF Mkdir, TypeInv, TypeOK
    <2>3. IsPrefix(Path(p), logDir[p])
      <3>1. Len(logDir[p]) \in Nat /\ depth[p] \in 1 .. Len(logDir[p]) /\ logDir[p] \in Seq(STRING)
        BY <2>1, LogDirs
      <3> QED
        BY <3>1, PathsArePrefixes DEF Path
    <2>4. \A d \in dirs' : \E q \in Processes : IsPrefix(d, logDir[q])
      BY <2>3 DEF Mkdir, TypeInv, TypeOK
    <2> QED
      BY <1>1, <2>2, <2>4, <2>5 DEF TypeInv, TypeOK
  <1>3. Phases'
    BY <1>1, LogDirs, LineFacts DEF Phases, Printing
  <1>4. Channels'
    BY <1>1, ChannelsKept
  <1>5. Processing'
    <2> SUFFICES ASSUME NEW a \in Nodes
                 PROVE  Occupied(Logs', a, stage'[a], line'[a], buffer'[a])
      BY DEF Processing
    <2>1. Occupied(Logs, a, stage[a], line[a], buffer[a])
      BY DEF Processing
    <2>2. \/ stage'[a] = stage[a]
          \/ stage[a] \in Printing /\ stage'[a] \in Printing
          \/ stage'[a] \in {"idle", "ended", "failed"}
      BY <1>1, LogDirs DEF Printing
    <2> QED
      BY <1>1, <2>1, <2>2, LogsKept, OccupiedStays
  <1>6. PacketLines'
    BY <1>1, LinesKept
  <1>7. EdgesFirst'
    BY <1>1, EdgesKept, LogDirs
  <1> QED
    BY <1>2, <1>3, <1>4, <1>5, <1>6, <1>7

\* What is appended to a log changes nothing before it.
LEMMA Appended ==
  ASSUME TypeInv, NEW p \in Processes, logDir' = logDir,
         log' = [log EXCEPT ![logDir[p]] = Append(@, line[p])]
  PROVE  LET d0 == logDir[p]
             n0 == Len(log[d0])
         IN  /\ n0 \in Nat /\ DOMAIN log[d0] = 1..n0
             /\ DOMAIN log'[d0] = 1 .. n0 + 1
             /\ \A i \in 1..n0 : log'[d0][i] = log[d0][i]
             /\ log'[d0][n0 + 1] = line[p]
             /\ \A d \in Range(logDir) : d # d0 => log'[d] = log[d]
             /\ log' \in [Range(logDir) -> Seq(Printed)]
  <1> DEFINE d0 == logDir[p]
             s == log[d0]
             x == line[p]
  <1>1. d0 \in Range(logDir) /\ s \in Seq(Printed) /\ x \in Printed
    BY LogDirs DEF TypeInv, TypeOK
  <1>2. /\ log' = [log EXCEPT ![d0] = Append(s, x)]
        /\ log \in [Range(logDir) -> Seq(Printed)]
    BY DEF TypeInv
  <1> HIDE DEF d0, s, x
  <1>3. /\ Len(s) \in Nat /\ DOMAIN s = 1 .. Len(s)
        /\ Append(s, x) \in Seq(Printed)
        /\ DOMAIN Append(s, x) = 1 .. Len(s) + 1
        /\ \A i \in 1 .. Len(s) : Append(s, x)[i] = s[i]
        /\ Append(s, x)[Len(s) + 1] = x
    BY <1>1
  <1>4. /\ log'[d0] = Append(s, x)
        /\ \A d \in Range(logDir) : d # d0 => log'[d] = log[d]
        /\ log' \in [Range(logDir) -> Seq(Printed)]
    BY <1>1, <1>2, <1>3
  <1> QED
    BY <1>3, <1>4 DEF d0, s, x

\* The line a node writes.
LEMMA NodesLine ==
  ASSUME TypeInv, NEW p \in Nodes, stage[p] \in Printing, Occupied(Logs, p, stage[p], line[p], buffer[p])
  PROVE  /\ Intact(buffer[p])
         /\ line[p].op # "[C]" /\ line[p].by = p /\ line[p].msg = buffer[p].line
         /\ TrueLine(line[p])
         /\ p # 1 => Arrived(Logs, p, buffer[p])
  <1> DEFINE b == buffer[p]
             op == Purpose(p, buffer[p])
  <1>1. /\ p = 1 => b.source = 1
        /\ p # 1 => Arrived(Logs, p, b)
        /\ line[p] = Message(op, p, b)
    BY DEF Occupied, Printing, Arrived
  <1>2. op \in {"CREATE", "FWD", "RCV"} /\ (op = "CREATE" <=> p = 1)
    BY DEF Purpose
  <1>3. Intact(b)
    BY DEF Occupied, Arrived
  <1> HIDE DEF b, op
  <1>4. LET x == Message(op, p, b)
        IN  /\ x \in Printed
            /\ x.op = op /\ x.op # "[C]" /\ x.by = p /\ x.msg = b.line
            /\ x.dst = b.destination /\ x.src = b.source
            /\ x.flags = {}
            /\ x.len = b.length /\ x.strlen = TextLen(b.line)
    BY <1>2, <1>3, MessageTrue
  <1>5. /\ b.destination = Dest(b.line) /\ b.length = 7 + TextLen(b.line)
        /\ b.line \in DOMAIN Lines
    BY <1>3 DEF Intact
  <1>6. TextLen(b.line) \in Nat
    BY <1>5, LineFacts
  <1>7. p # 1 => b.source = NodeBefore(p, b.line)
    BY <1>1 DEF Arrived
  <1>8. p = 1 => b.source = 1
    BY <1>1
  <1>9. TrueLine(Message(op, p, b))
    BY <1>2, <1>4, <1>5, <1>6, <1>7, <1>8 DEF TrueLine, NodeBefore
  <1> QED
    BY <1>1, <1>3, <1>4, <1>9 DEF b

\* A write by p: the logs go on, with the line of p at the end of one.
LEMMA WriteAppends ==
  ASSUME TypeInv, NEW p \in Processes, Write(p)
  PROVE  /\ Continued(Logs, Logs')
         /\ p \in Nodes /\ line[p].op # "[C]" /\ line[p].by = p =>
              HasPrinted(Logs', p, line[p].msg)
  <1> DEFINE d0 == logDir[p]
             n0 == Len(log[d0])
             x == line[p]
  <1>1. logDir' = logDir /\ log' = [log EXCEPT ![logDir[p]] = Append(@, line[p])]
    BY DEF Write
  <1>2. /\ n0 \in Nat /\ DOMAIN log[d0] = 1..n0
        /\ DOMAIN log'[d0] = 1 .. n0 + 1
        /\ \A i \in 1..n0 : log'[d0][i] = log[d0][i]
        /\ log'[d0][n0 + 1] = x
        /\ \A d \in Range(logDir) : d # d0 => log'[d] = log[d]
    BY <1>1, Appended
  <1>3. \A a \in Nodes : logDir[a] \in Range(logDir)
    BY LogDirs
  <1>4. \A a \in Nodes : Logs[a] = log[logDir[a]] /\ Logs'[a] = log'[logDir[a]]
    BY <1>1 DEF Logs
  <1> HIDE DEF n0, x
  <1>5. \A i \in 1..n0 : i \in 1 .. n0 + 1
    BY <1>2
  <1>6. Continued(Logs, Logs')
    BY <1>2, <1>3, <1>4, <1>5 DEF Continued
  <1>7. ASSUME p \in Nodes, x.op # "[C]", x.by = p
        PROVE  HasPrinted(Logs', p, x.msg)
    <2>1. n0 + 1 \in 1 .. n0 + 1
      BY <1>2
    <2> QED
      BY <1>2, <1>4, <1>7, <2>1 DEF PrintedAt, HasPrinted
  <1> QED
    BY <1>6, <1>7 DEF x

LEMMA WriteKeepsLines ==
  ASSUME LogInv, NEW p \in Processes, Write(p)
  PROVE  PacketLines'
  <1> USE DEF LogInv
  <1> DEFINE d0 == logDir[p]
             n0 == Len(log[d0])
             New == line[p]
             g == Logs
             h == Logs'
             b == buffer[p]
  <1>1. /\ logDir' = logDir /\ log' = [log EXCEPT ![logDir[p]] = Append(@, line[p])]
        /\ stage[p] = "write"
    BY DEF Write
  <1>2. /\ n0 \in Nat /\ DOMAIN log[d0] = 1..n0
        /\ DOMAIN log'[d0] = 1 .. n0 + 1
        /\ \A i \in 1..n0 : log'[d0][i] = log[d0][i]
        /\ log'[d0][n0 + 1] = New
        /\ \A d \in Range(logDir) : d # d0 => log'[d] = log[d]
    BY <1>1, Appended
  <1>3. Continued(g, h)
    BY WriteAppends
  <1>4. GoodLine(h, logDir, d0, New, n0 + 1)
    <2> SUFFICES ASSUME New.op # "[C]" PROVE GoodLine(h, logDir, d0, New, n0 + 1)
      BY DEF GoodLine
    <2>1. p \in Nodes
      BY DEF Phases, Processes
    <2>2. Occupied(Logs, p, stage[p], line[p], buffer[p])
      BY <2>1 DEF Processing
    <2>3. /\ Intact(b)
          /\ New.by = p /\ New.msg = b.line
          /\ TrueLine(New)
          /\ p # 1 => Arrived(g, p, b)
      BY <1>1, <2>1, <2>2, NodesLine DEF Printing
    <2>4. ASSUME p # 1 PROVE BehindTheOther(h, logDir, New, n0 + 1)
      <3> DEFINE c == NodeBefore(p, New.msg)
      <3>1. b.source = c /\ HasPrinted(g, c, New.msg)
        BY <2>3, <2>4 DEF Arrived
      <3>2. c \in Nodes
        BY <2>3, <3>1, PacketFields DEF Intact
      <3>3. g[c] = log[logDir[c]]
        BY <3>2 DEF Logs
      <3> HIDE DEF c, n0, New, g, h, b
      <3>4. HasPrinted(h, c, New.msg)
        BY <1>3, <3>1, <3>2, PrintedStays
      <3>5. ASSUME logDir[c] = d0
            PROVE  \E j \in 1 .. (n0 + 1) - 1 : PrintedAt(h, c, New.msg, j)
        <4>1. PICK j \in DOMAIN g[c] : PrintedAt(g, c, New.msg, j)
          BY <3>1 DEF HasPrinted
        <4>2. j \in 1 .. (n0 + 1) - 1
          BY <1>2, <3>3, <3>5, <4>1
        <4> QED
          BY <1>3, <3>2, <4>1, <4>2, PrintedStays
      <3> QED
        BY <2>3, <3>2, <3>4, <3>5 DEF BehindTheOther, c
    <2> HIDE DEF n0, New, g, h, b
    <2> QED
      BY <2>1, <2>3, <2>4 DEF GoodLine
  <1>5. ASSUME NEW d \in Range(logDir), NEW i \in DOMAIN log'[d]
        PROVE  GoodLine(h, logDir, d, log'[d][i], i)
    <2> DEFINE x == log'[d][i]
    <2>1. \/ i \in DOMAIN log[d] /\ x = log[d][i]
          \/ d = d0 /\ i = n0 + 1
      <3> HIDE DEF n0, New
      <3>1. CASE d = d0
        <4>1. i \in 1 .. n0 + 1
          BY <1>2, <3>1
        <4>2. i \in 1..n0 \/ i = n0 + 1
          BY <1>2, <4>1
        <4> QED
          BY <1>2, <3>1, <4>2
      <3> QED
        BY <1>2, <3>1
    <2>2. CASE i \in DOMAIN log[d] /\ x = log[d][i]
      <3>1. GoodLine(g, logDir, d, log[d][i], i)
        BY <2>2 DEF PacketLines
      <3> HIDE DEF g, h
      <3> QED
        BY <1>3, <2>2, <3>1, BehindStays
    <2>3. CASE d = d0 /\ i = n0 + 1
      <3> HIDE DEF g, h, n0, New
      <3> QED
        BY <1>2, <1>4, <2>3
    <2> QED
      BY <2>1, <2>2, <2>3
  <1> QED
    BY <1>1, <1>5 DEF PacketLines

LEMMA WriteKeepsEdges ==
  ASSUME LogInv, NEW p \in Processes, Write(p)
  PROVE  EdgesFirst'
  <1> USE DEF LogInv
  <1> DEFINE d0 == logDir[p]
             s == log[d0]
             n0 == Len(s)
             New == line[p]
             t == log'[d0]
  <1>1. /\ logDir' = logDir /\ log' = [log EXCEPT ![logDir[p]] = Append(@, line[p])]
        /\ stage[p] = "write" /\ stage' = [stage EXCEPT ![p] = "send"]
        /\ unprinted' = unprinted
        /\ stage \in [Processes -> Stages]
    BY DEF Write, TypeInv, TypeOK
  <1>2. /\ n0 \in Nat /\ DOMAIN s = 1..n0
        /\ DOMAIN t = 1 .. n0 + 1
        /\ \A i \in 1..n0 : t[i] = s[i]
        /\ t[n0 + 1] = New
        /\ \A d \in Range(logDir) : d # d0 => log'[d] = log[d]
    BY <1>1, Appended
  <1>3. /\ unprinted \in Nat /\ nPrints \in Nat
        /\ d0 \in Range(logDir) /\ logDir[Server] \in Range(logDir) /\ Server \in Processes
    BY LogDirs, LogAssumption DEF TypeInv, TypeOK
  <1>4. /\ Sorted(s)
        /\ unprinted > 0 => \A i \in DOMAIN s : s[i].op = "[C]"
    BY <1>3 DEF EdgesFirst
  <1> HIDE DEF s, t, n0, New
  <1>5. \A i \in 1 .. n0 + 1 : i \in 1..n0 \/ i = n0 + 1
    BY <1>2
  <1>6. n0 + 1 \notin 1..n0 /\ \A i \in 1..n0 : i \in Nat /\ i < n0 + 1 /\ i \in 1 .. n0 + 1
    BY <1>2
  <1>7. CASE p = Server
    <2>1. unprinted > 0 /\ New.op = "[C]"
      BY <1>1, <1>7 DEF Phases, New
    <2>2. \A i \in DOMAIN t : t[i].op = "[C]"
      BY <1>2, <1>4, <1>5, <2>1
    <2>3. Sorted(t)
      BY <2>2 DEF Sorted
    <2>4. EdgesIn(t) = EdgesIn(s) \cup {n0 + 1}
      BY <1>2, <1>5, <1>6, <2>1, <2>2 DEF EdgesIn
    <2>5. IsFiniteSet(EdgesIn(s)) /\ n0 + 1 \notin EdgesIn(s)
      <3>1. EdgesIn(s) \in SUBSET (1..n0) /\ IsFiniteSet(1..n0)
        BY <1>2, FS_Interval DEF EdgesIn
      <3> QED
        BY <1>6, <3>1, FS_Subset
    <2>6. Cardinality(EdgesIn(t)) = Cardinality(EdgesIn(s)) + 1
      BY <2>4, <2>5, FS_AddElement
    <2>7. Cardinality(EdgesIn(s)) = nPrints - unprinted
      BY <1>1, <1>3, <1>7 DEF EdgesFirst, s
    <2>8. stage'[Server] = "send"
      BY <1>1, <1>3, <1>7
    <2>9. Cardinality(EdgesIn(log'[logDir'[Server]])) = nPrints - unprinted' + 1
      BY <1>1, <1>7, <2>6, <2>7 DEF t
    <2>10. ASSUME NEW d \in Range(logDir')
           PROVE  /\ unprinted' > 0 => \A i \in DOMAIN log'[d] : log'[d][i].op = "[C]"
                  /\ Sorted(log'[d])
      BY <1>1, <1>2, <2>2, <2>3 DEF EdgesFirst, t
    <2> QED
      BY <2>8, <2>9, <2>10 DEF EdgesFirst
  <1>8. CASE p # Server
    <2>1. p \in Nodes
      BY <1>8 DEF Processes
    <2>2. unprinted = 0
      BY <1>1, <2>1 DEF Phases
    <2>3. New.op # "[C]"
      <3>1. Occupied(Logs, p, stage[p], line[p], buffer[p])
        BY <2>1 DEF Processing
      <3> QED
        BY <1>1, <2>1, <3>1, NodesLine DEF Printing, New
    <2>4. EdgesIn(t) = EdgesIn(s)
      BY <1>2, <1>5, <1>6, <2>3 DEF EdgesIn
    <2>5. Sorted(t)
      <3> SUFFICES ASSUME NEW i \in DOMAIN t, NEW j \in DOMAIN t, t[j].op = "[C]", i < j
                   PROVE  t[i].op = "[C]"
        BY DEF Sorted
      <3>1. j \in 1..n0
        BY <1>2, <1>5, <2>3
      <3>2. i \in 1..n0
        BY <1>2, <1>5, <3>1
      <3> QED
        BY <1>2, <1>4, <3>1, <3>2 DEF Sorted
    <2>6. stage'[Server] = stage[Server]
      BY <1>1, <1>3, <1>8
    <2>7. EdgesIn(log'[logDir[Server]]) = EdgesIn(log[logDir[Server]])
      BY <1>2, <1>3, <2>4 DEF s, t
    <2>8. ASSUME NEW d \in Range(logDir') PROVE Sorted(log'[d])
      BY <1>1, <1>2, <2>5 DEF EdgesFirst, t
    <2>9. ~(unprinted' > 0)
      BY <1>1, <2>2
    <2> QED
      BY <1>1, <2>6, <2>7, <2>8, <2>9 DEF EdgesFirst
  <1> QED
    BY <1>7, <1>8

LEMMA WriteKeeps ==
  ASSUME LogInv, NEW p \in Processes, Write(p)
  PROVE  LogInv'
  <1> USE DEF LogInv
  <1>1. /\ UNCHANGED <<logDir, dirs, depth, line, unprinted, tables, nextLine, channel, buffer>>
        /\ log' = [log EXCEPT ![logDir[p]] = Append(@, line[p])]
        /\ stage[p] = "write" /\ stage' = [stage EXCEPT ![p] = "send"]
        /\ stage \in [Processes -> Stages]
    BY DEF Write, TypeInv, TypeOK
  <1>2. TypeInv'
    <2>1. log' \in [Range(logDir) -> Seq(Printed)]
      BY <1>1, Appended
    <2>2. stage' \in [Processes -> Stages]
      BY <1>1 DEF Stages
    <2>3. \A q \in Processes : log'[logDir[q]] \in Seq(Printed)
      BY <2>1, LogDirs
    <2>4. \A q \in Processes : stage'[q] = "mkdir" => stage[q] = "mkdir"
      BY <1>1
    <2> QED
      BY <1>1, <2>1, <2>2, <2>3, <2>4 DEF TypeInv, TypeOK
  <1>3. Phases'
    BY <1>1, LogDirs, LineFacts DEF Phases, Printing
  <1>4. Continued(Logs, Logs')
    BY WriteAppends
  <1>5. Channels'
    BY <1>1, <1>4, ArrivedStays DEF Channels
  <1>6. Processing'
    <2> SUFFICES ASSUME NEW a \in Nodes
                 PROVE  Occupied(Logs', a, stage'[a], line'[a], buffer'[a])
      BY DEF Processing
    <2>1. Occupied(Logs, a, stage[a], line[a], buffer[a])
      BY DEF Processing
    <2>2. CASE a # p
      BY <1>1, <1>4, <2>1, <2>2, LogDirs, OccupiedStays
    <2>3. CASE a = p
      <3>1. /\ Intact(buffer[p])
            /\ line[p].op # "[C]" /\ line[p].by = p /\ line[p].msg = buffer[p].line
            /\ p # 1 => Arrived(Logs, p, buffer[p])
        BY <1>1, <2>1, <2>3, NodesLine DEF Printing
      <3>2. HasPrinted(Logs', p, line[p].msg)
        BY <2>3, <3>1, WriteAppends
      <3>3. p # 1 => Arrived(Logs', p, buffer[p])
        BY <1>4, <3>1, ArrivedStays
      <3>4. p = 1 => buffer[p].source = 1
        BY <1>1, <2>1, <2>3 DEF Occupied, Printing
      <3>5. stage'[a] = "send"
        BY <1>1, <2>3
      <3> QED
        BY <1>1, <2>3, <3>1, <3>2, <3>3, <3>4, <3>5 DEF Occupied, Printing
    <2> QED
      BY <2>2, <2>3
  <1>7. PacketLines'
    BY WriteKeepsLines
  <1>8. EdgesFirst'
    BY WriteKeepsEdges
  <1> QED
    BY <1>2, <1>3, <1>5, <1>6, <1>7, <1>8

LEMMA OthersOccupied ==
  ASSUME Processing, UNCHANGED <<log, logDir>>, NEW p,
         \A a \in Nodes \ {p} :
           stage'[a] = stage[a] /\ line'[a] = line[a] /\ buffer'[a] = buffer[a],
         p \in Nodes => Occupied(Logs, p, stage'[p], line'[p], buffer'[p])
  PROVE  Processing'
  BY LogsKept DEF Processing

LEMMA NobodyStarts ==
  ASSUME TypeInv, stage' \in [Processes -> Stages], UNCHANGED <<logDir, depth>>,
         \A q \in Processes : stage'[q] = "mkdir" => stage[q] = "mkdir"
  PROVE  \A q \in Processes : stage'[q] = "mkdir" => depth'[q] <= Len(logDir'[q])
  BY DEF TypeInv

\* A process starts to print.
LEMMA Starts ==
  ASSUME TypeInv, NEW p \in Processes, NEW x \in Printed, UNCHANGED logDir, StartPrinting(p, x)
  PROVE  /\ stage' \in [Processes -> Stages]
         /\ depth' \in [Processes -> Nat] /\ \A q \in Processes : depth'[q] \in 1 .. Len(logDir[q]) + 1
         /\ \A q \in Processes : stage'[q] = "mkdir" => depth'[q] <= Len(logDir'[q])
         /\ line' \in [Processes -> Printed]
         /\ stage'[p] = "stat" /\ line'[p] = x
         /\ \A q \in Processes \ {p} : stage'[q] = stage[q] /\ line'[q] = line[q]
  <1>1. /\ stage \in [Processes -> Stages] /\ line \in [Processes -> Printed]
        /\ depth \in [Processes -> Nat]
        /\ stage' = [stage EXCEPT ![p] = "stat"]
        /\ depth' = [depth EXCEPT ![p] = 1]
        /\ line' = [line EXCEPT ![p] = x]
    BY DEF StartPrinting, TypeInv, TypeOK
  <1>2. stage' \in [Processes -> Stages] /\ line' \in [Processes -> Printed]
    BY <1>1 DEF Stages
  <1>3. depth' \in [Processes -> Nat] /\ \A q \in Processes : depth'[q] \in 1 .. Len(logDir[q]) + 1
    BY <1>1, DepthKept
  <1>4. \A q \in Processes \ {p} :
          stage'[q] = stage[q] /\ depth'[q] = depth[q] /\ line'[q] = line[q]
    BY <1>1
  <1>5. stage'[p] = "stat" /\ line'[p] = x
    BY <1>1
  <1>6. \A q \in Processes : stage'[q] = "mkdir" => depth'[q] <= Len(logDir'[q])
    BY <1>4, <1>5 DEF TypeInv
  <1> QED
    BY <1>2, <1>3, <1>4, <1>5, <1>6

LEMMA PrintEdgeKeeps ==
  ASSUME LogInv, PrintEdge
  PROVE  LogInv'
  <1> USE DEF LogInv
  <1> DEFINE x == [op |-> "[C]"]
  <1>1. /\ UNCHANGED <<logDir, dirs, log, unprinted, tables, nextLine, channel, buffer>>
        /\ stage[Server] = "idle" /\ unprinted > 0
        /\ StartPrinting(Server, x)
    BY DEF PrintEdge
  <1>2. x \in Printed /\ x.op = "[C]"
    BY DEF Printed
  <1> HIDE DEF x
  <1>3. /\ stage' \in [Processes -> Stages]
        /\ depth' \in [Processes -> Nat] /\ \A q \in Processes : depth'[q] \in 1 .. Len(logDir[q]) + 1
        /\ \A q \in Processes : stage'[q] = "mkdir" => depth'[q] <= Len(logDir'[q])
        /\ line' \in [Processes -> Printed]
        /\ stage'[Server] = "stat" /\ line'[Server] = x
        /\ \A q \in Processes \ {Server} : stage'[q] = stage[q] /\ line'[q] = line[q]
    BY <1>1, <1>2, Starts, LogDirs
  <1>4. TypeInv'
    BY <1>1, <1>3 DEF TypeInv, TypeOK
  <1>5. \A a \in Nodes : stage'[a] = stage[a] /\ line'[a] = line[a]
    BY <1>3, LogAssumption, LogDirs
  <1>6. Phases'
    BY <1>1, <1>2, <1>3, <1>5, LineFacts DEF Phases
  <1>7. Processing'
    BY <1>1, <1>5, LogAssumption, OthersOccupied
  <1> QED
    BY <1>1, <1>3, <1>4, <1>6, <1>7, ChannelsKept, LinesKept, EdgesKept

LEMMA EdgePrintedKeeps ==
  ASSUME LogInv, EdgePrinted
  PROVE  LogInv'
  <1> USE DEF LogInv
  <1>1. /\ UNCHANGED <<logDir, dirs, log, depth, line, tables, nextLine, channel, buffer>>
        /\ stage[Server] = "send" /\ stage' = [stage EXCEPT ![Server] = "idle"]
        /\ unprinted' = unprinted - 1
        /\ stage \in [Processes -> Stages] /\ unprinted \in 0..nPrints /\ nPrints \in Nat
    BY LogAssumption DEF EdgePrinted, TypeInv, TypeOK
  <1>2. unprinted > 0
    BY <1>1 DEF Phases
  <1>3. unprinted' \in 0..nPrints
    BY <1>1, <1>2
  <1>4. /\ stage' \in [Processes -> Stages] /\ stage'[Server] = "idle"
        /\ \A q \in Processes \ {Server} : stage'[q] = stage[q]
    BY <1>1, LogDirs DEF Stages
  <1>5. TypeInv'
    <2>1. \A q \in Processes : stage'[q] = "mkdir" => stage[q] = "mkdir"
      BY <1>4
    <2> QED
      BY <1>1, <1>3, <1>4, <2>1, NobodyStarts DEF TypeInv, TypeOK
  <1>6. \A a \in Nodes : stage'[a] = stage[a]
    BY <1>4, LogAssumption, LogDirs
  <1>7. Phases'
    BY <1>1, <1>2, <1>4, <1>6, LineFacts DEF Phases
  <1>8. Processing'
    BY <1>1, <1>6, LogAssumption, OthersOccupied
  <1>9. EdgesFirst'
    <2>1. Cardinality(EdgesIn(log[logDir[Server]])) = nPrints - unprinted + 1
      BY <1>1 DEF EdgesFirst
    <2>2. nPrints - unprinted + 1 = nPrints - unprinted' + 0
      BY <1>1
    <2>3. unprinted' > 0 => unprinted > 0
      BY <1>1
    <2> QED
      BY <1>1, <1>4, <2>1, <2>2, <2>3 DEF EdgesFirst
  <1> QED
    BY <1>1, <1>5, <1>7, <1>8, <1>9, ChannelsKept, LinesKept

LEMMA SendTableKeeps ==
  ASSUME LogInv, NEW a \in Nodes, SendTable(a)
  PROVE  LogInv'
  <1> USE DEF LogInv
  <1>1. /\ UNCHANGED <<logDir, dirs, log, stage, depth, line, unprinted, nextLine, channel, buffer>>
        /\ tables' = tables \cup {a} /\ unprinted = 0
    BY DEF SendTable
  <1>2. TypeInv'
    BY <1>1 DEF TypeInv, TypeOK
  <1>3. Phases'
    BY <1>1 DEF Phases
  <1>4. Processing'
    BY <1>1, LogsKept DEF Processing
  <1> QED
    BY <1>1, <1>2, <1>3, <1>4, ChannelsKept, LinesKept, EdgesKept

LEMMA CreatePacketKeeps ==
  ASSUME LogInv, CreatePacket
  PROVE  LogInv'
  <1> USE DEF LogInv
  <1> DEFINE b == Created(nextLine)
             x == Message("CREATE", 1, b)
  <1>1. /\ UNCHANGED <<logDir, dirs, log, unprinted, tables, nextLine, channel>>
        /\ 1 \in tables
        /\ Dest(nextLine) # 1 /\ nextLine <= Len(Lines)
        /\ buffer' = [buffer EXCEPT ![1] = b] /\ buffer \in [Nodes -> Packet]
        /\ StartPrinting(1, x)
    BY DEF CreatePacket, Working, Dest, TypeInv, TypeOK
  <1>2. nextLine \in DOMAIN Lines /\ 1 \in Nodes /\ 1 \in Processes /\ Server # 1
    <2>1. nextLine \in 1 .. Len(Lines) + 1
      BY DEF TypeInv, TypeOK
    <2> QED
      BY <1>1, <2>1, LineFacts, LogDirs
  <1>3. Intact(b) /\ b.source = 1
    BY <1>1, <1>2, CreatedIntact
  <1>4. x \in Printed
    BY <1>2, <1>3, MessageTrue
  <1> HIDE DEF b
  <1>5. /\ stage' \in [Processes -> Stages]
        /\ depth' \in [Processes -> Nat] /\ \A q \in Processes : depth'[q] \in 1 .. Len(logDir[q]) + 1
        /\ \A q \in Processes : stage'[q] = "mkdir" => depth'[q] <= Len(logDir'[q])
        /\ line' \in [Processes -> Printed]
        /\ stage'[1] = "stat" /\ line'[1] = x
        /\ \A q \in Processes \ {1} : stage'[q] = stage[q] /\ line'[q] = line[q]
    BY <1>1, <1>2, <1>4, Starts
  <1>6. buffer' \in [Nodes -> Packet] /\ buffer'[1] = b /\ \A a \in Nodes \ {1} : buffer'[a] = buffer[a]
    BY <1>1, <1>2, <1>3 DEF Intact
  <1>7. TypeInv'
    BY <1>1, <1>5, <1>6 DEF TypeInv, TypeOK
  <1>8. Phases'
    BY <1>1, <1>2, <1>5, LogDirs DEF Phases
  <1>9. Processing'
    <2>1. Occupied(Logs, 1, stage'[1], line'[1], buffer'[1])
      BY <1>3, <1>5, <1>6 DEF Occupied, Purpose
    <2> QED
      BY <1>1, <1>5, <1>6, <2>1, LogDirs, OthersOccupied
  <1> QED
    BY <1>1, <1>2, <1>5, <1>7, <1>8, <1>9, ChannelsKept, LinesKept, EdgesKept, LogDirs

LEMMA StopSendingKeeps ==
  ASSUME LogInv, StopSending
  PROVE  LogInv'
  <1> USE DEF LogInv
  <1>1. /\ UNCHANGED <<logDir, dirs, log, depth, line, unprinted, tables, nextLine, channel, buffer>>
        /\ 1 \in tables
        /\ stage' = [stage EXCEPT ![1] = "ended"] /\ stage \in [Processes -> Stages]
        /\ 1 \in Nodes /\ 1 \in Processes /\ Server # 1 /\ Server \in Processes
    BY LineFacts, LogDirs DEF StopSending, Working, TypeInv, TypeOK
  <1>2. /\ stage' \in [Processes -> Stages] /\ stage'[1] = "ended"
        /\ \A q \in Processes \ {1} : stage'[q] = stage[q]
    BY <1>1 DEF Stages
  <1>3. TypeInv'
    <2>1. \A q \in Processes : stage'[q] = "mkdir" => stage[q] = "mkdir"
      BY <1>2
    <2> QED
      BY <1>1, <1>2, <2>1, NobodyStarts DEF TypeInv, TypeOK
  <1>4. Phases'
    BY <1>1, <1>2, LogDirs DEF Phases, Printing
  <1>5. Processing'
    <2>1. Occupied(Logs, 1, stage'[1], line'[1], buffer'[1])
      BY <1>2 DEF Occupied, Printing
    <2> QED
      BY <1>1, <1>2, <2>1, LogDirs, OthersOccupied
  <1> QED
    BY <1>1, <1>2, <1>3, <1>4, <1>5, ChannelsKept, LinesKept, EdgesKept

LEMMA Queued ==
  ASSUME TypeInv, Channels, UNCHANGED <<log, logDir>>,
         NEW a \in Nodes, a # 1, NEW p, Arrived(Logs, a, p),
         channel' = [channel EXCEPT ![a] = Append(@, p)]
  PROVE  Channels' /\ channel' \in [Nodes -> Seq(Packet)]
  <1> DEFINE s == channel[a]
  <1>1. channel \in [Nodes -> Seq(Packet)] /\ s \in Seq(Packet) /\ p \in Packet
    BY DEF TypeInv, TypeOK, Arrived, Intact
  <1>2. \A i \in DOMAIN s : Arrived(Logs, a, s[i])
    BY DEF Channels
  <1>3. /\ channel'[a] = Append(s, p)
        /\ \A c \in Nodes \ {a} : channel'[c] = channel[c]
        /\ DOMAIN channel' = Nodes
    BY <1>1
  <1> HIDE DEF s
  <1>4. /\ Append(s, p) \in Seq(Packet)
        /\ \A i \in DOMAIN Append(s, p) : (i \in DOMAIN s /\ Append(s, p)[i] = s[i]) \/ Append(s, p)[i] = p
    BY <1>1
  <1>5. \A i \in DOMAIN Append(s, p) : Arrived(Logs, a, Append(s, p)[i])
    BY <1>2, <1>4
  <1>6. channel' \in [Nodes -> Seq(Packet)]
    BY <1>1, <1>4 DEF s
  <1> QED
    BY <1>3, <1>5, <1>6, LogsKept DEF Channels

LEMMA Dequeued ==
  ASSUME TypeInv, Channels, UNCHANGED <<log, logDir>>, NEW a \in Nodes, channel[a] # <<>>,
         channel' = [channel EXCEPT ![a] = Tail(@)]
  PROVE  /\ Channels' /\ channel' \in [Nodes -> Seq(Packet)]
         /\ a # 1 /\ Arrived(Logs, a, Head(channel[a]))
  <1> DEFINE s == channel[a]
  <1>1. channel \in [Nodes -> Seq(Packet)] /\ s \in Seq(Packet) /\ s # <<>>
    BY DEF TypeInv, TypeOK
  <1>2. \A i \in DOMAIN s : a # 1 /\ Arrived(Logs, a, s[i])
    BY DEF Channels
  <1>3. /\ channel'[a] = Tail(s)
        /\ \A c \in Nodes \ {a} : channel'[c] = channel[c]
    BY <1>1
  <1> HIDE DEF s
  <1>4. /\ Tail(s) \in Seq(Packet)
        /\ \A i \in DOMAIN Tail(s) : i + 1 \in DOMAIN s /\ Tail(s)[i] = s[i + 1]
        /\ 1 \in DOMAIN s /\ Head(s) = s[1]
    BY <1>1
  <1>5. \A i \in DOMAIN Tail(s) : Arrived(Logs, a, Tail(s)[i])
    BY <1>2, <1>4
  <1>6. channel' \in [Nodes -> Seq(Packet)]
    BY <1>1, <1>4 DEF s
  <1>7. a # 1
    BY <1>2, <1>4
  <1>8. Channels'
    BY <1>3, <1>5, <1>7, LogsKept DEF Channels
  <1> QED
    BY <1>2, <1>4, <1>6, <1>7, <1>8 DEF s

LEMMA SendPacketKeeps ==
  ASSUME LogInv, SendPacket
  PROVE  LogInv'
  <1> USE DEF LogInv
  <1> DEFINE b == buffer[1]
             a == NextHop[b.destination]
  <1>1. /\ UNCHANGED <<logDir, dirs, log, depth, line, unprinted, tables, buffer>>
        /\ channel' = [channel EXCEPT ![a] = Append(@, b)]
        /\ nextLine' = nextLine + 1
        /\ stage[1] = "send"
        /\ stage' = [stage EXCEPT ![1] = "idle"] /\ stage \in [Processes -> Stages]
        /\ 1 \in Nodes /\ 1 \in Processes /\ Server # 1 /\ Server \in Processes
    BY LineFacts, LogDirs DEF SendPacket, TypeInv, TypeOK
  <1>2. Occupied(Logs, 1, stage[1], line[1], b)
    BY <1>1 DEF Processing
  <1>3. Intact(b) /\ b.source = 1 /\ HasPrinted(Logs, 1, b.line)
    BY <1>1, <1>2 DEF Occupied, Printing
  <1>4. a \in Nodes \ {1} /\ Arrived(Logs, a, b)
    <2>1. b.destination \in Nodes \ {1}
      BY <1>3, PacketFields DEF Intact
    <2>2. a \in Nodes \ {1}
      BY <2>1, LineFacts
    <2>3. NodeBefore(a, b.line) = 1
      BY <1>3 DEF NodeBefore, Intact
    <2> QED
      BY <1>3, <2>2, <2>3 DEF Arrived
  <1> HIDE DEF a, b
  <1>5. Channels' /\ channel' \in [Nodes -> Seq(Packet)]
    BY <1>1, <1>4, Queued
  <1>6. /\ stage' \in [Processes -> Stages] /\ stage'[1] = "idle"
        /\ \A q \in Processes \ {1} : stage'[q] = stage[q]
    BY <1>1 DEF Stages
  <1>7. nextLine' \in 1 .. Len(Lines) + 1
    <2>1. nextLine \in DOMAIN Lines
      BY <1>1 DEF Phases, Printing
    <2> QED
      BY <1>1, <2>1, LineFacts
  <1>8. TypeInv'
    <2>1. \A q \in Processes : stage'[q] = "mkdir" => stage[q] = "mkdir"
      BY <1>6
    <2> QED
      BY <1>1, <1>5, <1>6, <1>7, <2>1, NobodyStarts DEF TypeInv, TypeOK
  <1>9. Phases'
    BY <1>1, <1>6, LogDirs DEF Phases, Printing
  <1>10. Processing'
    <2>1. Occupied(Logs, 1, stage'[1], line'[1], buffer'[1])
      BY <1>6 DEF Occupied, Printing
    <2> QED
      BY <1>1, <1>6, <2>1, LogDirs, OthersOccupied
  <1> QED
    BY <1>1, <1>5, <1>6, <1>8, <1>9, <1>10, LinesKept, EdgesKept

LEMMA SendOnKeeps ==
  ASSUME LogInv, NEW a \in Nodes, SendOn(a)
  PROVE  LogInv'
  <1> USE DEF LogInv
  <1> DEFINE b == buffer[a]
             d == b.destination
             f == Forwarded(a, b)
  <1>1. /\ UNCHANGED <<logDir, dirs, log, depth, line, unprinted, tables, nextLine, buffer>>
        /\ channel' = IF d = a THEN channel ELSE [channel EXCEPT ![d] = Append(@, f)]
        /\ a # 1 /\ stage[a] = "send"
        /\ stage' = [stage EXCEPT ![a] = "idle"] /\ stage \in [Processes -> Stages]
        /\ a \in Processes /\ Server # a /\ Server \in Processes
    BY LineFacts, LogDirs DEF SendOn, TypeInv, TypeOK
  <1>2. Occupied(Logs, a, stage[a], line[a], b)
    BY DEF Processing
  <1>3. Arrived(Logs, a, b) /\ HasPrinted(Logs, a, b.line)
    BY <1>1, <1>2 DEF Occupied, Printing
  <1>4. Intact(b) /\ d \in Nodes /\ d # 1 /\ d = Dest(b.line)
    BY <1>3, PacketFields DEF Arrived, Intact
  <1>5. d # a => Arrived(Logs, d, f)
    <2>1. /\ Intact(f) /\ f.source = a /\ f.line = b.line /\ f.destination = d
      BY <1>4, ForwardedIntact
    <2>2. d # a => NextHop[d] = a /\ NodeBefore(d, b.line) = a
      BY <1>3, <1>4 DEF Arrived, NodeBefore
    <2> HIDE DEF f, b, d
    <2> QED
      BY <1>3, <2>1, <2>2 DEF Arrived
  <1> HIDE DEF f, d, b
  <1>6. Channels' /\ channel' \in [Nodes -> Seq(Packet)]
    <2>1. CASE d = a
      BY <1>1, <2>1, ChannelsKept DEF TypeInv, TypeOK
    <2>2. CASE d # a
      BY <1>1, <1>4, <1>5, <2>2, Queued
    <2> QED
      BY <2>1, <2>2
  <1>7. /\ stage' \in [Processes -> Stages] /\ stage'[a] = "idle"
        /\ \A q \in Processes \ {a} : stage'[q] = stage[q]
    BY <1>1 DEF Stages
  <1>8. TypeInv'
    <2>1. \A q \in Processes : stage'[q] = "mkdir" => stage[q] = "mkdir"
      BY <1>7
    <2> QED
      BY <1>1, <1>6, <1>7, <2>1, NobodyStarts DEF TypeInv, TypeOK
  <1>9. Phases'
    BY <1>1, <1>7, LogDirs, LineFacts DEF Phases, Printing
  <1>10. Processing'
    <2>1. Occupied(Logs, a, stage'[a], line'[a], buffer'[a])
      BY <1>7 DEF Occupied, Printing
    <2> QED
      BY <1>1, <1>7, <2>1, LogDirs, OthersOccupied
  <1> QED
    BY <1>1, <1>6, <1>7, <1>8, <1>9, <1>10, LinesKept, EdgesKept

LEMMA ReceiveKeeps ==
  ASSUME LogInv, NEW a \in Nodes, Receive(a)
  PROVE  LogInv'
  <1> USE DEF LogInv
  <1> DEFINE b == Received(buffer[a], Head(channel[a]))
             x == Message(IF b.destination = a THEN "RCV" ELSE "FWD", a, b)
  <1>1. /\ UNCHANGED <<logDir, dirs, log, unprinted, tables, nextLine>>
        /\ channel' = [channel EXCEPT ![a] = Tail(@)] /\ channel[a] # <<>>
        /\ buffer' = [buffer EXCEPT ![a] = b] /\ buffer \in [Nodes -> Packet]
        /\ a \in tables
        /\ stage \in [Processes -> Stages]
        /\ \/ stage' = [stage EXCEPT ![a] = "ended"] /\ UNCHANGED <<depth, line>>
           \/ StartPrinting(a, x)
    BY DEF Receive, Working, TypeInv, TypeOK
  <1>2. a # 1 /\ a \in Processes /\ Server # a /\ Server \in Processes
    BY LineFacts, LogDirs DEF Receive
  <1>3. Channels' /\ channel' \in [Nodes -> Seq(Packet)] /\ Arrived(Logs, a, Head(channel[a]))
    BY <1>1, Dequeued
  <1>4. Arrived(Logs, a, b)
    <2> DEFINE new == Head(channel[a])
    <2>1. Intact(new) /\ buffer[a] \in Packet
      BY <1>1, <1>3 DEF Arrived
    <2>2. /\ Intact(b) /\ b.source = new.source /\ b.line = new.line
          /\ b.destination = new.destination
      BY <2>1, ReceivedIntact
    <2> HIDE DEF b, new
    <2> QED
      BY <1>3, <2>2 DEF Arrived, new
  <1>5. x \in Printed /\ x = Message(Purpose(a, b), a, b)
    <2>1. Intact(b)
      BY <1>4 DEF Arrived
    <2> HIDE DEF b
    <2>2. x = Message(Purpose(a, b), a, b)
      BY <1>2 DEF Purpose
    <2>3. Purpose(a, b) \in {"CREATE", "FWD", "RCV"}
      BY DEF Purpose
    <2> QED
      BY <2>1, <2>2, <2>3, MessageTrue
  <1> HIDE DEF b, x
  <1>6. /\ stage' \in [Processes -> Stages]
        /\ depth' \in [Processes -> Nat] /\ \A q \in Processes : depth'[q] \in 1 .. Len(logDir[q]) + 1
        /\ \A q \in Processes : stage'[q] = "mkdir" => depth'[q] <= Len(logDir'[q])
        /\ line' \in [Processes -> Printed]
        /\ stage'[a] = "ended" \/ (stage'[a] = "stat" /\ line'[a] = x)
        /\ \A q \in Processes \ {a} : stage'[q] = stage[q] /\ line'[q] = line[q]
    <2>1. CASE StartPrinting(a, x)
      BY <1>1, <1>2, <1>5, <2>1, Starts
    <2>2. CASE stage' = [stage EXCEPT ![a] = "ended"] /\ UNCHANGED <<depth, line>>
      <3>1. /\ stage' \in [Processes -> Stages] /\ stage'[a] = "ended"
            /\ \A q \in Processes \ {a} : stage'[q] = stage[q]
        BY <1>1, <1>2, <2>2 DEF Stages
      <3>2. \A q \in Processes : stage'[q] = "mkdir" => stage[q] = "mkdir"
        BY <3>1
      <3>3. /\ depth \in [Processes -> Nat] /\ \A q \in Processes : depth[q] \in 1 .. Len(logDir[q]) + 1
            /\ line \in [Processes -> Printed]
        BY DEF TypeInv, TypeOK
      <3>4. \A q \in Processes : stage'[q] = "mkdir" => depth'[q] <= Len(logDir'[q])
        BY <1>1, <2>2, <3>2 DEF TypeInv
      <3> QED
        BY <1>1, <2>2, <3>1, <3>3, <3>4
    <2> QED
      BY <1>1, <2>1, <2>2
  <1>7. buffer' \in [Nodes -> Packet] /\ buffer'[a] = b /\ \A c \in Nodes \ {a} : buffer'[c] = buffer[c]
    BY <1>1, <1>4 DEF Arrived, Intact
  <1>8. TypeInv'
    BY <1>1, <1>3, <1>6, <1>7 DEF TypeInv, TypeOK
  <1>9. Phases'
    BY <1>1, <1>2, <1>6, LogDirs, LineFacts DEF Phases, Printing
  <1>10. Processing'
    <2>1. Occupied(Logs, a, stage'[a], line'[a], buffer'[a])
      BY <1>2, <1>4, <1>5, <1>6, <1>7 DEF Occupied, Printing
    <2> QED
      BY <1>1, <1>6, <1>7, <2>1, LogDirs, OthersOccupied
  <1> QED
    BY <1>1, <1>2, <1>3, <1>6, <1>8, <1>9, <1>10, LinesKept, EdgesKept


-----------------------------------------------------------------------------
(***************************************************************************)
(* The invariant.                                                          *)
(***************************************************************************)

LEMMA EmptyBuffers ==
  ASSUME NEW nuls \in [Nodes -> Garbage],
         buffer = [a \in Nodes |-> [length |-> 0, destination |-> 1, source |-> 1,
                                    line |-> 0, nuls |-> nuls[a]]]
  PROVE  buffer \in [Nodes -> Packet]
  <1>1. ASSUME NEW m \in Nat, m > 2000
        PROVE  6 .. MAX_MSG_LENGTH - 1 \subseteq 6..m /\ 0 \in 0..m
    BY <1>1 DEF MAX_MSG_LENGTH
  <1>2. 6 .. MAX_MSG_LENGTH - 1 \subseteq 6..USHRT_MAX /\ 0 \in 0..USHRT_MAX
    BY <1>1, Widths
  <1>3. \A a \in Nodes : nuls[a] \in SUBSET (6..USHRT_MAX)
    <2>1. \A a \in Nodes : nuls[a] \in SUBSET (6 .. MAX_MSG_LENGTH - 1)
      BY LogAssumption
    <2> QED
      BY <1>2, <2>1
  <1>4. 0 \in 0 .. Len(Lines)
    BY LineFacts
  <1> QED
    BY <1>2, <1>3, <1>4, LineFacts DEF Packet

LEMMA LogInvInitially == Init => LogInv
  <1> SUFFICES ASSUME Init
               PROVE  LogInv
    OBVIOUS
  <1>1. /\ logDir \in [Processes -> Seq(STRING)]
        /\ \A p \in Processes : logDir[p] \in Range(logDir)
        /\ Nodes \subseteq Processes /\ Server \in Processes
    BY LogAssumption DEF Init, Range, Processes
  <1>2. /\ log = [d \in Range(logDir) |-> <<>>]
        /\ stage = [p \in Processes |-> "idle"]
        /\ depth = [p \in Processes |-> 1]
        /\ line = [p \in Processes |-> [op |-> "[C]"]]
        /\ channel = [a \in Nodes |-> <<>>]
        /\ unprinted = nPrints /\ nPrints \in Nat \ {0} /\ tables = {} /\ nextLine = 1
        /\ dirs = {} /\ logDir \in Layouts
    BY LogAssumption DEF Init
  <1>3. [op |-> "[C]"] \in Printed
    BY DEF Printed
  <1>4. buffer \in [Nodes -> Packet]
    BY EmptyBuffers DEF Init
  <1>5. log \in [Range(logDir) -> Seq(Printed)] /\ \A d \in Range(logDir) : log[d] = <<>>
    BY <1>2
  <1>6. TypeInv
    <2>1. /\ stage \in [Processes -> Stages] /\ depth \in [Processes -> Nat]
          /\ line \in [Processes -> Printed]
          /\ channel \in [Nodes -> Seq(Packet)]
          /\ \A p \in Processes : log[logDir[p]] \in Seq(Printed)
      BY <1>1, <1>2, <1>3, <1>5 DEF Stages
    <2>2. \A p \in Processes : depth[p] \in 1 .. Len(logDir[p]) + 1 /\ stage[p] # "mkdir"
      BY <1>1, <1>2
    <2>3. nextLine \in 1 .. Len(Lines) + 1 /\ unprinted \in 0..nPrints
      BY <1>2, LineFacts
    <2> QED
      BY <1>2, <1>4, <1>5, <2>1, <2>2, <2>3 DEF TypeInv, TypeOK
  <1>7. Phases
    BY <1>1, <1>2, LineFacts DEF Phases, Printing
  <1>8. Channels
    BY <1>2 DEF Channels
  <1>9. Processing
    BY <1>1, <1>2 DEF Processing, Occupied, Printing
  <1>10. PacketLines
    BY <1>5 DEF PacketLines
  <1>11. EdgesFirst
    <2>1. Cardinality(EdgesIn(log[logDir[Server]])) = 0
      <3>1. EdgesIn(<<>>) = {}
        BY DEF EdgesIn
      <3> QED
        BY <1>1, <1>5, <3>1, FS_EmptySet
    <2>2. \A d \in Range(logDir) : Sorted(log[d]) /\ \A i \in DOMAIN log[d] : log[d][i].op = "[C]"
      BY <1>5 DEF Sorted
    <2>3. stage[Server] # "send" /\ nPrints - unprinted + 0 = 0
      BY <1>1, <1>2
    <2> QED
      BY <2>1, <2>2, <2>3 DEF EdgesFirst
  <1> QED
    BY <1>6, <1>7, <1>8, <1>9, <1>10, <1>11 DEF LogInv

LEMMA LogInvStutters ==
  ASSUME LogInv, UNCHANGED vars
  PROVE  LogInv'
  <1> USE DEF vars, LogInv
  <1>1. Logs' = Logs
    BY LogsKept
  <1>2. TypeInv' /\ Phases'
    BY DEF TypeInv, TypeOK, Phases
  <1>3. Channels' /\ PacketLines' /\ EdgesFirst'
    BY ChannelsKept, LinesKept, EdgesKept
  <1>4. Processing'
    BY <1>1 DEF Processing
  <1> QED
    BY <1>2, <1>3, <1>4

LEMMA LogInvStep == LogInv /\ [Next]_vars => LogInv'
  <1> SUFFICES ASSUME LogInv, [Next]_vars
               PROVE  LogInv'
    OBVIOUS
  <1>1. ASSUME NEW p \in Processes, PrintStep(p)
        PROVE  LogInv'
    BY <1>1, StatKeeps, MkdirKeeps, WriteKeeps DEF PrintStep
  <1>2. CASE ServerStep
    BY <1>2, PrintEdgeKeeps, EdgePrintedKeeps, SendTableKeeps DEF ServerStep
  <1>3. CASE SenderStep
    BY <1>3, CreatePacketKeeps, SendPacketKeeps, StopSendingKeeps DEF SenderStep
  <1>4. ASSUME NEW a \in Nodes, ReceiverStep(a)
        PROVE  LogInv'
    BY <1>4, ReceiveKeeps, SendOnKeeps DEF ReceiverStep
  <1>5. CASE UNCHANGED vars
    BY <1>5, LogInvStutters
  <1> QED
    BY <1>1, <1>2, <1>3, <1>4, <1>5 DEF Next

\* The inductive invariant behind the theorems below: every packet on its way
\* says what its line of data.txt says, and the node before has printed it.
THEOREM LogInvariance == Spec => []LogInv
  BY LogInvInitially, LogInvStep, PTL DEF Spec

\* The state is well typed: lengths stay in their 16 bits, no process looks for
\* a directory that is not on its path, no log holds a line that none printed.
THEOREM LogTypeCorrect == Spec => []TypeOK
  <1>1. LogInv => TypeOK
    BY DEF LogInv, TypeInv
  <1> QED
    BY <1>1, LogInvariance, PTL

\* Every printed line about a packet tells the truth: validate_packet finds
\* nothing, whatever was in the buffer before, and the length, the text, the
\* destination and the last node are those of the packet.
THEOREM PrintedLinesAreTrue == Spec => []LinesAreTrue
  <1>1. ASSUME LogInv
        PROVE  LinesAreTrue
    <2> SUFFICES ASSUME NEW p \in Processes, NEW i \in DOMAIN log[logDir[p]],
                        log[logDir[p]][i].op # "[C]"
                 PROVE  LET x == log[logDir[p]][i]
                        IN  /\ x.flags = {}
                            /\ x.strlen = Lines[x.msg].strlen
                            /\ x.len = x.strlen + 7
                            /\ x.dst = Lines[x.msg].destination
                            /\ x.src = IF x.op = "CREATE" \/ NextHop[x.dst] = x.by
                                       THEN 1 ELSE NextHop[x.dst]
      BY DEF LinesAreTrue
    <2>1. logDir[p] \in Range(logDir)
      BY <1>1, LogDirs DEF LogInv
    <2>2. TrueLine(log[logDir[p]][i])
      BY <1>1, <2>1 DEF LogInv, PacketLines, GoodLine
    <2> QED
      BY <2>2 DEF TrueLine, Dest, TextLen
  <1> QED
    BY <1>1, LogInvariance, PTL

-----------------------------------------------------------------------------
(***************************************************************************)
(* The order of the lines.                                                 *)
(***************************************************************************)

\* Every set of natural numbers has a least one.
LEMMA LeastNumber ==
  ASSUME NEW S, S \subseteq Nat, S # {}
  PROVE  Min(S) \in S /\ \A i \in S : Min(S) <= i
  <1> DEFINE R == OpToRel(<, Nat)
  <1>1. IsWellFoundedOn(R, Nat)
    BY NatLessThanWellFounded
  <1>2. R = {ss \in Nat \X Nat : ss[1] < ss[2]}
    BY DEF OpToRel
  <1> HIDE DEF R
  <1>3. PICK m \in S : \A y \in S : <<y, m>> \notin R
    BY <1>1, WFMin
  <1>4. ASSUME NEW y \in S
        PROVE  m <= y
    <2>1. m \in Nat /\ y \in Nat
      OBVIOUS
    <2>2. ~ (y < m)
      BY <1>2, <1>3, <2>1
    <2> QED
      BY <2>1, <2>2
  <1> QED
    BY <1>4 DEF Min

\* The place of a line is that of the first line printed.
LEMMA FirstPlace ==
  ASSUME TypeInv, NEW a \in Nodes, NEW l
  PROVE  /\ PlaceOf(a, l) > 0 => PrintedAt(Logs, a, l, PlaceOf(a, l))
         /\ \A i : PrintedAt(Logs, a, l, i) => PlaceOf(a, l) > 0 /\ PlaceOf(a, l) <= i
         /\ PlaceOf(a, l) \in Nat
  <1> DEFINE s == log[logDir[a]]
             S == {i \in DOMAIN s : s[i].op # "[C]" /\ s[i].by = a /\ s[i].msg = l}
  <1>1. s \in Seq(Printed) /\ Logs[a] = s
    BY LogDirs DEF TypeInv, TypeOK, Logs
  <1>2. \A i : PrintedAt(Logs, a, l, i) <=> i \in S
    BY <1>1 DEF PrintedAt
  <1>3. PlaceOf(a, l) = IF S = {} THEN 0 ELSE Min(S)
    BY DEF PlaceOf
  <1> HIDE DEF s
  <1>4. S \subseteq Nat /\ \A i \in S : i > 0
    BY <1>1
  <1> HIDE DEF S
  <1>5. CASE S = {}
    BY <1>2, <1>3, <1>5
  <1>6. CASE S # {}
    <2>1. PlaceOf(a, l) \in S /\ \A i \in S : PlaceOf(a, l) <= i
      BY <1>3, <1>4, <1>6, LeastNumber
    <2> QED
      BY <1>2, <1>4, <2>1
  <1> QED
    BY <1>5, <1>6

\* What comes before on the way of a packet is the node that printed it before.
LEMMA WayBack ==
  ASSUME NEW l \in DOMAIN Lines, Dest(l) # 1, NEW h \in DOMAIN Way(l)
  PROVE  /\ Way(l)[h] \in Nodes
         /\ h > 1 => /\ Way(l)[h] # 1
                     /\ Way(l)[h - 1] = NodeBefore(Way(l)[h], l)
  <1> DEFINE d == Dest(l)
             n == NextHop[d]
  <1>1. 1 \in Nodes /\ d \in Nodes \ {1} /\ n \in Nodes \ {1}
    BY LineFacts
  <1>2. Way(l) = IF n = d THEN <<1, d>> ELSE <<1, n, d>>
    BY DEF Way, Dest
  <1>3. \A a : NodeBefore(a, l) = IF n = a THEN 1 ELSE n
    BY DEF NodeBefore
  <1> HIDE DEF d, n
  <1>4. CASE n = d
    <2>1. Way(l) = <<1, d>> /\ h \in {1, 2}
      BY <1>2, <1>4
    <2>2. CASE h = 1
      BY <1>1, <2>1, <2>2
    <2>3. CASE h = 2
      BY <1>1, <1>3, <1>4, <2>1, <2>3
    <2> QED
      BY <2>1, <2>2, <2>3
  <1>5. CASE n # d
    <2>1. Way(l) = <<1, n, d>> /\ h \in {1, 2, 3}
      BY <1>2, <1>5
    <2>2. CASE h = 1
      BY <1>1, <2>1, <2>2
    <2>3. CASE h = 2
      BY <1>1, <1>3, <2>1, <2>3
    <2>4. CASE h = 3
      BY <1>1, <1>3, <1>5, <2>1, <2>4
    <2> QED
      BY <2>1, <2>2, <2>3, <2>4
  <1> QED
    BY <1>4, <1>5

\* When a packet is in a log, all edges are, and in the same log before it.
LEMMA EdgesBefore ==
  ASSUME LogInv, NEW a \in Nodes, NEW l, NEW here, PrintedAt(Logs, a, l, here)
  PROVE  Cardinality({i \in DOMAIN log[logDir[Server]] :
           log[logDir[Server]][i].op = "[C]" /\
           (logDir[Server] = logDir[a] => i < here)}) = nPrints
  <1> USE DEF LogInv
  <1> DEFINE s == log[logDir[Server]]
             g == log[logDir[a]]
  <1>1. /\ g \in Seq(Printed) /\ s \in Seq(Printed)
        /\ logDir[a] \in Range(logDir) /\ logDir[Server] \in Range(logDir)
        /\ Logs[a] = g
    BY LogDirs DEF TypeInv, TypeOK, Logs
  <1>2. here \in DOMAIN g /\ g[here].op # "[C]"
    BY <1>1 DEF PrintedAt
  <1>3. unprinted \in Nat /\ nPrints \in Nat
    BY LogAssumption DEF TypeInv, TypeOK
  <1>4. unprinted = 0
    BY <1>1, <1>2, <1>3 DEF EdgesFirst
  <1>5. stage[Server] = "idle"
    BY <1>4 DEF Phases
  <1>6. Cardinality(EdgesIn(s)) = nPrints
    BY <1>3, <1>4, <1>5 DEF EdgesFirst
  <1>7. Sorted(s)
    BY <1>1 DEF EdgesFirst
  <1>8. logDir[Server] = logDir[a] => s = g
    OBVIOUS
  <1> HIDE DEF s, g
  <1>9. ASSUME NEW i \in DOMAIN s, s[i].op = "[C]", s = g
        PROVE  i < here
    <2>1. i \in Nat /\ here \in Nat
      BY <1>1, <1>2
    <2>2. i # here
      BY <1>2, <1>9
    <2>3. ~ (here < i)
      BY <1>2, <1>7, <1>9 DEF Sorted
    <2> QED
      BY <2>1, <2>2, <2>3
  <1>10. {i \in DOMAIN s : s[i].op = "[C]" /\ (logDir[Server] = logDir[a] => i < here)}
           = EdgesIn(s)
    BY <1>8, <1>9 DEF EdgesIn
  <1> QED
    BY <1>6, <1>10 DEF s

\* When a node has printed a packet, the node before has, and in the same log
\* before.
LEMMA NodeBeforeFirst ==
  ASSUME LogInv, NEW a \in Nodes, a # 1, NEW l, NEW here, PrintedAt(Logs, a, l, here)
  PROVE  LET before == PlaceOf(NodeBefore(a, l), l)
         IN  before > 0 /\ (logDir[NodeBefore(a, l)] = logDir[a] => before < here)
  <1> USE DEF LogInv
  <1> DEFINE b == NodeBefore(a, l)
             x == log[logDir[a]][here]
  <1>1. /\ logDir[a] \in Range(logDir) /\ Logs[a] = log[logDir[a]]
        /\ log[logDir[a]] \in Seq(Printed)
    BY LogDirs DEF Logs, TypeInv, TypeOK
  <1>2. here \in DOMAIN log[logDir[a]] /\ x.op # "[C]" /\ x.by = a /\ x.msg = l
    BY <1>1 DEF PrintedAt
  <1>3. GoodLine(Logs, logDir, logDir[a], x, here)
    BY <1>1, <1>2 DEF PacketLines
  <1> HIDE DEF x
  <1>4. BehindTheOther(Logs, logDir, x, here)
    BY <1>2, <1>3 DEF GoodLine
  <1>5. /\ b \in Nodes /\ HasPrinted(Logs, b, l)
        /\ logDir[b] = logDir[a] => \E j \in 1 .. here - 1 : PrintedAt(Logs, b, l, j)
    BY <1>2, <1>4 DEF BehindTheOther
  <1>6. here \in Nat
    BY <1>1, <1>2
  <1> HIDE DEF b
  <1>7. PlaceOf(b, l) \in Nat /\ \A i : PrintedAt(Logs, b, l, i) => PlaceOf(b, l) > 0 /\ PlaceOf(b, l) <= i
    BY <1>5, FirstPlace
  <1>8. PlaceOf(b, l) > 0
    BY <1>5, <1>7 DEF HasPrinted
  <1>9. logDir[b] = logDir[a] => PlaceOf(b, l) < here
    BY <1>5, <1>6, <1>7
  <1> QED
    BY <1>8, <1>9 DEF b

\* The logs can be read as the ways of the packets: a node prints a packet after
\* the node before it on the way, and all edges come before, although the
\* processes neither wait for each other nor lock a file they share.
THEOREM LogsAreCausal == Spec => []LogIsCausal
  <1>1. ASSUME LogInv
        PROVE  LogIsCausal
    <2> SUFFICES ASSUME NEW l \in DOMAIN Lines, Dest(l) # 1, NEW h \in DOMAIN Way(l),
                        PlaceOf(Way(l)[h], l) > 0
                 PROVE  LET here == PlaceOf(Way(l)[h], l)
                        IN  /\ Cardinality({i \in DOMAIN log[logDir[Server]] :
                                 log[logDir[Server]][i].op = "[C]" /\
                                 (logDir[Server] = logDir[Way(l)[h]] => i < here)}) = nPrints
                            /\ h > 1 =>
                                 LET before == PlaceOf(Way(l)[h - 1], l)
                                 IN  /\ before > 0
                                     /\ logDir[Way(l)[h - 1]] = logDir[Way(l)[h]]
                                          => before < here
      BY DEF LogIsCausal, Dest
    <2> DEFINE a == Way(l)[h]
    <2>1. a \in Nodes /\ (h > 1 => a # 1 /\ Way(l)[h - 1] = NodeBefore(a, l))
      BY WayBack
    <2>2. PrintedAt(Logs, a, l, PlaceOf(a, l))
      BY <1>1, <2>1, FirstPlace DEF LogInv
    <2> QED
      BY <1>1, <2>1, <2>2, EdgesBefore, NodeBeforeFirst
  <1> QED
    BY <1>1, LogInvariance, PTL

-----------------------------------------------------------------------------
(***************************************************************************)
(* The directories.                                                        *)
(***************************************************************************)

\* Two processes that would make the same directory share it with the server.
LEMMA SharedWithServer ==
  ASSUME ServerMakesShared, TypeInv, NEW p \in Processes, NEW q \in Processes, p # q,
         depth[p] <= Len(logDir[p]), depth[q] <= Len(logDir[q]), Path(p) = Path(q)
  PROVE  /\ depth[p] \in 1 .. Len(logDir[Server])
         /\ Path(p) = SubSeq(logDir[Server], 1, depth[p])
  <1> DEFINE s == logDir[p]
             t == logDir[q]
             u == logDir[Server]
             k == depth[p]
             shared == SubSeq(s, 1, k)
  <1>1. s \in Seq(STRING) /\ t \in Seq(STRING) /\ u \in Seq(STRING) /\ logDir \in Layouts
    BY LogDirs DEF TypeInv, TypeOK
  <1>2. /\ k \in Nat /\ k \in 1 .. Len(s) + 1 /\ k <= Len(s)
        /\ depth[q] \in 1 .. Len(t) + 1 /\ depth[q] <= Len(t)
    BY DEF TypeInv, TypeOK
  <1>3. k \in 1 .. Len(s) /\ depth[q] \in 1 .. Len(t)
    BY <1>1, <1>2
  <1>4. shared = Path(p) /\ SubSeq(t, 1, depth[q]) = Path(q)
    BY DEF Path
  <1>5. IsPrefix(SubSeq(t, 1, depth[q]), t) /\ Len(shared) = k /\ shared \in Seq(STRING)
    BY <1>1, <1>3, PathsArePrefixes
  <1>6. IsPrefix(shared, t)
    BY <1>4, <1>5
  <1>7. IsPrefix(shared, u)
    BY <1>1, <1>3, <1>6 DEF ServerMakesShared
  <1> HIDE DEF s, t, u, k
  <1>8. k <= Len(u) /\ SubSeq(shared, 1, k) = SubSeq(u, 1, k)
    BY <1>5, <1>7 DEF IsPrefix
  <1>9. SubSeq(shared, 1, k) = shared
    BY <1>2, <1>5
  <1> HIDE DEF shared
  <1> QED
    BY <1>1, <1>3, <1>4, <1>8, <1>9 DEF k, u, s

LEMMA MkdirKeepsDirs ==
  ASSUME ServerMakesShared, LogInv, DirsInv, NEW p \in Processes, Mkdir(p)
  PROVE  DirsInv'
  <1> USE DEF LogInv, DirsInv
  <1>1. /\ stage[p] = "mkdir" /\ Path(p) \notin dirs
        /\ UNCHANGED <<logDir, log, line, unprinted, tables, nextLine, channel, buffer>>
        /\ stage \in [Processes -> Stages] /\ depth \in [Processes -> Nat]
        /\ depth[p] <= Len(logDir[p])
    BY DEF Mkdir, StillMissing, TypeInv, TypeOK
  <1>2. /\ dirs' = dirs \cup {Path(p)}
        /\ depth' = [depth EXCEPT ![p] = @ + 1]
        /\ stage' = [stage EXCEPT ![p] = "stat"]
    BY <1>1 DEF Mkdir
  <1>3. /\ stage'[p] = "stat" /\ depth'[p] = depth[p] + 1
        /\ \A q \in Processes \ {p} : stage'[q] = stage[q] /\ depth'[q] = depth[q]
    BY <1>1, <1>2
  <1>4. ASSUME NEW q \in Processes \ {p}, stage[q] = "mkdir"
        PROVE  Path(q) # Path(p)
    <2>1. SUFFICES ASSUME Path(q) = Path(p)
                   PROVE  FALSE
      OBVIOUS
    <2>2. depth[q] <= Len(logDir[q])
      BY <1>4 DEF TypeInv
    <2>3. p \in Nodes /\ q \in Nodes /\ unprinted = 0
      BY <1>1, <1>4, LogDirs DEF Phases, Processes
    <2>4. unprinted < nPrints
      BY <2>3, LogAssumption
    <2>5. depth[p] \in 1 .. Len(logDir[Server]) /\ Path(p) = SubSeq(logDir[Server], 1, depth[p])
      BY <1>1, <2>1, <2>2, SharedWithServer
    <2>6. Path(p) \in dirs
      BY <2>4, <2>5 DEF ServerMade
    <2> QED
      BY <1>1, <2>6
  <1>5. StillMissing'
    <2> SUFFICES ASSUME NEW q \in Processes, stage'[q] = "mkdir"
                 PROVE  Path(q)' \notin dirs'
      BY DEF StillMissing
    <2>1. q # p /\ stage[q] = "mkdir" /\ Path(q)' = Path(q)
      BY <1>1, <1>3 DEF Path
    <2>2. Path(q) \notin dirs
      BY <2>1 DEF StillMissing
    <2> QED
      BY <1>2, <1>4, <2>1, <2>2
  <1>6. ServerMade'
    <2> SUFFICES ASSUME NEW k \in 1 .. Len(logDir[Server]),
                        \/ unprinted < nPrints
                        \/ stage'[Server] \in {"write", "send"}
                        \/ stage'[Server] \in {"stat", "mkdir"} /\ k < depth'[Server]
                 PROVE  SubSeq(logDir[Server], 1, k) \in dirs'
      BY <1>1 DEF ServerMade
    <2>1. \/ unprinted < nPrints
          \/ stage[Server] \in {"write", "send"}
          \/ stage[Server] \in {"stat", "mkdir"} /\ k < depth[Server]
          \/ p = Server /\ k = depth[Server]
      <3>1. CASE p = Server
        <4>1. k \in Nat /\ depth[Server] \in Nat
          BY <1>1, LogDirs
        <4> QED
          BY <1>1, <1>3, <3>1, <4>1
      <3>2. CASE p # Server
        BY <1>3, <3>2, LogDirs
      <3> QED
        BY <3>1, <3>2
    <2>2. CASE p = Server /\ k = depth[Server]
      BY <1>2, <2>2 DEF Path
    <2>3. CASE ~ (p = Server /\ k = depth[Server])
      BY <1>2, <2>1, <2>3 DEF ServerMade
    <2> QED
      BY <2>2, <2>3
  <1>7. NoMkdirRace'
    BY <1>3 DEF NoMkdirRace
  <1> QED
    BY <1>5, <1>6, <1>7

LEMMA StatKeepsDirs ==
  ASSUME LogInv, DirsInv, NEW p \in Processes, Stat(p)
  PROVE  DirsInv'
  <1> USE DEF LogInv, DirsInv
  <1>1. /\ stage[p] = "stat" /\ UNCHANGED <<logDir, dirs, unprinted>>
        /\ stage \in [Processes -> Stages] /\ depth \in [Processes -> Nat]
        /\ \A q \in Processes : Len(logDir[q]) \in Nat
    BY LogDirs DEF Stat, TypeInv, TypeOK
  <1>2. \/ /\ depth[p] > Len(logDir[p]) /\ stage'[p] = "write" /\ depth'[p] = depth[p]
        \/ /\ Path(p) \in dirs /\ stage'[p] = "stat" /\ depth'[p] = depth[p] + 1
        \/ /\ Path(p) \notin dirs /\ stage'[p] = "mkdir" /\ depth'[p] = depth[p]
    BY <1>1 DEF Stat
  <1>3. \A q \in Processes \ {p} : stage'[q] = stage[q] /\ depth'[q] = depth[q]
    BY <1>1 DEF Stat
  <1>4. StillMissing'
    <2> SUFFICES ASSUME NEW q \in Processes, stage'[q] = "mkdir"
                 PROVE  Path(q)' \notin dirs'
      BY DEF StillMissing
    <2>1. depth'[q] = depth[q] /\ Path(q) \notin dirs
      BY <1>2, <1>3 DEF StillMissing
    <2> QED
      BY <1>1, <2>1 DEF Path
  <1>5. ServerMade'
    <2> SUFFICES ASSUME NEW k \in 1 .. Len(logDir[Server]),
                        \/ unprinted < nPrints
                        \/ stage'[Server] \in {"write", "send"}
                        \/ stage'[Server] \in {"stat", "mkdir"} /\ k < depth'[Server]
                 PROVE  SubSeq(logDir[Server], 1, k) \in dirs
      BY <1>1 DEF ServerMade
    <2>1. CASE p = Server
      <3>1. k \in Nat /\ depth[p] \in Nat /\ k <= Len(logDir[p])
        BY <1>1, <2>1
      <3>2. \/ unprinted < nPrints
            \/ stage[p] = "stat" /\ k < depth[p]
            \/ k = depth[p] /\ Path(p) \in dirs
        BY <1>1, <1>2, <2>1, <3>1
      <3> QED
        BY <1>1, <2>1, <3>2 DEF ServerMade, Path
    <2>2. CASE p # Server
      BY <1>3, <2>2, LogDirs DEF ServerMade
    <2> QED
      BY <2>1, <2>2
  <1>6. NoMkdirRace'
    BY <1>2, <1>3 DEF NoMkdirRace
  <1> QED
    BY <1>4, <1>5, <1>6

\* A step that makes no directory, of a process that is not going to.
LEMMA DirsKept ==
  ASSUME LogInv, DirsInv, UNCHANGED <<logDir, dirs>>,
         \A p \in Processes :
           stage'[p] \notin {"mkdir", "failed"} \/ (stage'[p] = stage[p] /\ depth'[p] = depth[p]),
         \/ UNCHANGED <<unprinted, stage[Server], depth[Server]>>
         \/ stage[Server] \in {"write", "send"}
         \/ unprinted' = unprinted /\ stage'[Server] = "stat" /\ depth'[Server] = 1
  PROVE  DirsInv'
  <1> USE DEF LogInv, DirsInv
  <1>1. StillMissing'
    BY DEF StillMissing, Path
  <1>2. NoMkdirRace'
    BY DEF NoMkdirRace
  <1>3. ServerMade'
    BY LogDirs DEF ServerMade
  <1> QED
    BY <1>1, <1>2, <1>3

LEMMA DirsInvStep ==
  ASSUME ServerMakesShared, LogInv, DirsInv, [Next]_vars
  PROVE  DirsInv'
  <1> USE DEF LogInv
  <1>1. /\ stage \in [Processes -> Stages] /\ depth \in [Processes -> Nat]
        /\ 1 \in Processes /\ 1 # Server /\ Nodes \subseteq Processes /\ Server \in Processes
        /\ Server \notin Nodes
    BY LogDirs, LineFacts DEF TypeInv, TypeOK
  <1>2. ASSUME NEW p \in Processes, PrintStep(p)
        PROVE  DirsInv'
    <2>1. CASE Stat(p)
      BY <2>1, StatKeepsDirs
    <2>2. CASE Mkdir(p)
      BY <2>2, MkdirKeepsDirs
    <2>3. CASE Write(p)
      BY <1>1, <2>3, DirsKept DEF Write
    <2> QED
      BY <1>2, <2>1, <2>2, <2>3 DEF PrintStep
  <1>3. CASE ServerStep
    <2>1. CASE PrintEdge
      BY <1>1, <2>1, DirsKept DEF PrintEdge, StartPrinting
    <2>2. CASE EdgePrinted
      BY <1>1, <2>2, DirsKept DEF EdgePrinted
    <2>3. ASSUME NEW a \in Nodes, SendTable(a)
          PROVE  DirsInv'
      BY <1>1, <2>3, DirsKept DEF SendTable
    <2> QED
      BY <1>3, <2>1, <2>2, <2>3 DEF ServerStep
  <1>4. CASE SenderStep
    <2>1. CASE CreatePacket
      BY <1>1, <2>1, DirsKept DEF CreatePacket, StartPrinting
    <2>2. CASE SendPacket
      BY <1>1, <2>2, DirsKept DEF SendPacket
    <2>3. CASE StopSending
      BY <1>1, <2>3, DirsKept DEF StopSending
    <2> QED
      BY <1>4, <2>1, <2>2, <2>3 DEF SenderStep
  <1>5. ASSUME NEW a \in Nodes, ReceiverStep(a)
        PROVE  DirsInv'
    <2>1. CASE Receive(a)
      <3>1. /\ UNCHANGED <<logDir, dirs, unprinted>>
            /\ stage'[a] \in {"ended", "stat"}
            /\ \A q \in Processes \ {a} : stage'[q] = stage[q] /\ depth'[q] = depth[q]
        BY <1>1, <2>1 DEF Receive, StartPrinting
      <3> QED
        BY <1>1, <3>1, DirsKept
    <2>2. CASE SendOn(a)
      BY <1>1, <2>2, DirsKept DEF SendOn
    <2> QED
      BY <1>5, <2>1, <2>2 DEF ReceiverStep
  <1>6. CASE UNCHANGED vars
    BY <1>1, <1>6, DirsKept DEF vars
  <1> QED
    BY <1>2, <1>3, <1>4, <1>5, <1>6 DEF Next

\* No process exits because another made a directory between its stat and its
\* mkdir, as long as the server makes what two processes share.
THEOREM NobodyRaces ==
  ASSUME ServerMakesShared
  PROVE  Spec => []NoMkdirRace
  <1>1. Init => DirsInv
    <2> SUFFICES ASSUME Init
                 PROVE  DirsInv
      OBVIOUS
    <2>1. /\ \A p \in Processes : stage[p] = "idle"
          /\ Server \in Processes /\ ~ (unprinted < nPrints)
      BY LogAssumption DEF Init, Processes
    <2> QED
      BY <2>1 DEF DirsInv, ServerMade, StillMissing, NoMkdirRace
  <1>2. LogInv /\ DirsInv /\ [Next]_vars => DirsInv'
    BY DirsInvStep
  <1>3. DirsInv => NoMkdirRace
    BY DEF DirsInv
  <1> QED
    BY <1>1, <1>2, <1>3, LogInvariance, PTL DEF Spec
=============================================================================
