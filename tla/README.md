# Verification of the IN2140 programs

TLA+ models, model-checking runs and machine-checked proofs for the two
programs of this repository that have a logic of their own:

* **home_exam**, an emulated network. A `routing_server` collects the edges of a
  graph from `node` processes over TCP, computes shortest paths, and sends each
  node its routing table. Node 1 then sends the lines of `data.txt` as UDP
  packets; the other nodes print, forward, or exit on `QUIT`.
* **obligatory_assignment**, a register of routers. `router_operation` reads a
  binary file, executes commands on an array of routers and their links, and
  writes the array to `storedBinFile`.

Paths below are relative to `src/`. `PROJECT.json` maps every definition that
models code to its lines.

## 1. Inventory

| component | state | operations | what makes it correct |
|---|---|---|---|
| routing_server, connections (`routing_server.c`, `routing_server_communication.c`) | accepted sockets in order of arrival, tables by index, progress of the send loop | listen, accept, receive a report, compute, translate and send a table, give up | every node gets the table of its own address, all tables are of one computation; a server that gives up leaves nobody blocked |
| node (`node.c`, `node_communication.c`) | UDP socket, TCP connection, routing table, position in `data.txt` | bind, connect, report, receive the table; send a line (node 1); print, forward, quit (others); clean up | a message is printed once, at its destination, in order; nothing is sent to a port nobody has bound; every process ends |
| validation and matrix (`validation.c`, `adjacency_matrix.c`) | edge counters, invalid edges, matrix | count a report, compare it with the first one, check for missing reports, build the matrix | exactly the edges whose two ends agree are used; bad edges never stop the server |
| Dijkstra (`dijkstra.c`) | distances, visited nodes, routes | visit the nearest node, register its route, relax its edges | distances are minimal, routes are as long as the distances say |
| routing tables (`route.c`) | rows per node, pairs already written | write the rows of one source on one route; print path lengths | rows lead along shortest paths, fit into the tables, and agree with the printout |
| server memory (`dynamic_memory.c`, `routing_server.c`) | heap blocks, the pointers of `main` and of the functions it calls, sockets | allocate, hand over, free, close, on every path to the end | no block is shared or freed twice, every socket is closed, memory is released |
| packet log (`print_lib.c`) | directories and log files that processes share, packet buffers | look for and make directories, check a packet, append to a file | a print never ends a process, every line is true, the logs can be read as the way of a packet |
| router array (`router.c`, `utils.c`) | routers with id, flag, name and link slots | print, set_flag, set_model, add_link, delete_router, exist_route | ids stay unique, deletion and `set_flag` are exact, the search answers reachability and ends |
| register program (`router_operation.c`, `command.c`, `binary_file.c`) | the array, the command file, the stored file | read a file, run commands, write the file | what a run stores the next run reads back; a torn file that is read has every router and lacks only links; all commands are executed |

Interaction. In home_exam the processes share nothing: nodes and server exchange
TCP byte streams, nodes exchange UDP datagrams, and the kernel queues both; they
also write to log files in directories that they share. The server's components
call each other in sequence on arrays in memory. In the register everything is
sequential; runs interact only through the file.

What is hard: the order in which nodes connect (it defines all indices), tables
that arrive while packets are already under way, a process that dies or a call
that fails between two steps, lost datagrams, arrays at their limits, routes and
distances that are computed separately, arrays that change hands between
functions, buffers that are used again, moving array elements when routers are
deleted, cyclic links, and files that were not written to their end. The
`hazards` of `PROJECT.json` list these at their lines.

## 2. Modules

| module | models | proofs in |
|---|---|---|
| `EmulatedNetwork` | the server process and all node processes, sockets and faults | `EmulatedNetworkProofs`, `DeliveryProofs` |
| `MessageDelivery` | nothing in the code: the abstract promise of the network, which `EmulatedNetwork` implements | `DeliveryProofs` |
| `EdgeValidation` | `checkAllNodesReceived`, `createAdjacencyMatrix` | `EdgeValidationProofs` |
| `ShortestPaths` | `dijkstra` | `RoutingServerProofs` |
| `RoutingTables` | `createRoutingTableArray`, `printEdges`; extends `ShortestPaths`, whose result is its input | `RoutingServerProofs` |
| `RoutingServer` | `main` of the server from the last report to the first table: composes the three modules above | `RoutingServerProofs` |
| `RouteService` | nothing in the code: what the server promises to the nodes, which `RoutingServer` implements | `RoutingServerProofs` |
| `ServerMemory` | the heap and the sockets of the routing_server | `ServerMemoryProofs` |
| `PacketLog` | `print_lib` and the prints of all processes | `PacketLogProofs` |
| `RouteSearch` | `existsRoute` and `DFS`, the recursion as a stack of frames | `RouteSearchProofs` |
| `RouterFlags` | the flag byte, as operators | `RouterRegisterProofs` |
| `RouterRegister` | `router_operation`; extends `RouteSearch` and `RouterFlags`, its `exist_route` runs the steps of `RouteSearch` | `RouterRegisterProofs` |
| `MC...` | instances: sets of addresses, graphs, files, commands, directories | |

Operators whose comment starts with "(Slip: ...)" are not part of the models.
Each is a plausible error in the definition that follows it, kept to show that
the properties would notice it; `PROJECT.json` names the pairs under `mutants`.

### 2.1 EmulatedNetwork

A node is one process: `pc[a]` says how far its `main` is ("start", "bound",
"connected", "waiting", "running") or how it ended (exit codes -1 and -2 are
"bindFailed" and "connectFailed"; "killed" is an end by a signal). The server
is one process: `server` is the phase of its `main`.

* `BindUDP`, `ConnectTCP`, `SendEdgeInformation`, `ReceiveRoutingTable` are the
  calls of the node's `main` in their order. A node blocked in a call is an
  action that is not enabled.
* `ListenTCP`, `AcceptConnection`, `ReceiveReport`, `ComputeTables`, `SendTable`
  are the server's. `backlog` is the kernel's queue of connections; `nodeArray`
  the accepted ones, whose positions are the indices. A report is several sends
  and receives; it is one step because the server receives only from the
  connection it accepted last and nobody else sees the bytes. A node that dies
  half way through has not reported, and the server gives up.
* `ToIndices` is the map from addresses to positions that the server's arrays
  imply, `ToAddresses` is `translateTableFromIdxToAddress`.
* `SendLine` is a round of `prepareAndSendPackets`, `StopSending` all ways out of
  it (`main` returns success for each). `ReceiveQuit`, `ReceiveOwn`, `Forward`
  and `ReceiveFails` are the branches of a round of `receiveAndForwardPackets`.
* A datagram is queued at the receiver's socket (`udp`), lost (fault "loss"), or
  vanishes because the port is not bound. Between two sockets of one host the
  queue is first in, first out.
* Faults are switched on by the constant `Faults`: nodes started before the
  server listens, failing socket calls (among them `accept`, whose length
  argument is not initialised), a computation that is rejected, killed nodes,
  lost datagrams.

The computation of the tables is a parameter (`TableSets`), a set of possible
results, because Dijkstra breaks ties by index. `TableSetsAssumption` says what
is needed of the result: the next hop of a row is its destination or has a row
for it. Tables that lead along paths, as `RouteService` promises them, are such.

### 2.2 EdgeValidation, ShortestPaths, RoutingTables, RoutingServer

`EdgeValidation` takes one report per step. The counters keep their order,
because the bounds check of the search depends on positions. An edge is the set
of its two ends. `ShortestPaths` takes one iteration of `dijkstra` per step: the
choice of the node, `registerRoute` and the relaxation. `RoutingTables` continues
where it ends; a step is a round of the middle loop of `createRoutingTableArray`
(the inner loop is the sequence `NewDestinations`). Positions in a route are
counted from 1.

`RoutingServer` runs the three one after the other as `main` does.
`EdgeValidation` works on addresses and `ShortestPaths` on indices, so the action
between them (`StartDijkstra`) looks up the index of address 1 and turns the
matrix over; `NoSource` is the case that no node has address 1. The reports come
node after node in the order of arrival, `indexToAddress`.

`RouteService` knows no counters, indices or matrices. From the reports it
announces, in one step, tables whose rows for each destination are those of one
shortest path over the edges that both ends reported once with the same weight;
or it gives up, for one of four reasons that can be read off the reports: a
stranger was named, so many edges were named that they fill the counters, a node
cannot be reached, node 1 is missing. One of the two happens in the end.
`ImplementsService` maps the server's state to it.

### 2.3 ServerMemory

A heap block is named after the place in the code that allocates it, so that a
place that allocates twice without a free in between would show as a lost block.
A pointer leads to a place, is NULL, or is garbage (three structs of `main` are
not initialised). One action per call of `main`, with an alternative for every
allocation, socket or receive call in it that may fail, and what is freed,
closed and overwritten then. The number of rows of a table decides what
`translateTableFromIdxToAddress` allocates and forgets; which nodes are leaves is
chosen at the start.

### 2.4 PacketLog

A print is several steps: for every directory of `LOG_DIR` a `stat` and, if that
fails, a `mkdir`, then the append. In between the other processes go on. A
process that finds a directory made between its `stat` and its `mkdir` exits
("failed"). Of a packet the model keeps what `validate_packet` looks at: the
length field with its width, the addresses and the places of NUL bytes; a
datagram overwrites the front of the receive buffer and leaves the rest. What a
buffer holds before its first datagram is anything (`Garbage`), since the array is
not initialised. `ServerMakesShared` is what the launch scripts do: directories
that two processes share are also on the server's path.

### 2.5 RouteSearch, RouterFlags, RouterRegister

`RouteSearch` is one call of `DFS` or one return per step, so the depth of the
recursion is visible. `RouterRegister` has one action per command, one for the
start of a run and one for its end. A command that fails ends the run with
nothing written. A name is represented by its length, because the length byte of
the file wraps around. A file is what the bytes say: the record count, the
records, the links and whether a newline follows them, and nothing else.

`Faults` says what may go wrong with the file in `Store`: nothing is opened
("open": memory, the directory or `fopen`), a write fails and is noticed ("write"),
the process is killed ("kill"), or `fclose` fails to write the rest of the buffer,
which nobody notices ("close"; `binary_file.c:274`: the run returns success and is
in the state "unflushed"). What is left is one of the
`Beginnings` of the file, cut at any byte, because the size of the buffer of stdio
is not fixed in the model. Where the cut is within a record or within a link does
not matter to `readBinaryFile`, which fails in each case; a cut behind the newline
before a link does, as the reader takes it for the end of the file
(`binary_file.c:157-169`).

Undefined behaviour is a choice of outcomes: the
uninitialised pointer `getCommand` tests for `set_model`, the array that
`realloc` to 0 bytes has freed, names freed before they were read, a length
byte of 0.

## 3. Runs

| run | instance | shows |
|---|---|---|
| `Network_nofaults` | addresses 1, 11, 13, 19; diamond with two possible results, and a chain; seven lines; no faults | `TypeOK`, `RowForEveryPacket`, `TablesOfOneComputation`; implements `MessageDelivery` (reliable); `AllExit` |
| `Network_faults` | three nodes, direct or through one another; six lines, one torn; all faults | `NeverSentToUnbound`; implements `MessageDelivery` (lossy); `ServerFailureFreesWaiting`; `AcceptWaitsOnlyForTheDead` |
| `Network_neighbors` | the chain | disagreement: packets skip nodes |
| `Server_all` | four nodes: the correct reports of all graphs with weights up to 3; of all graphs with weight 1 also with one report changed or one dropped; all reports of three of the nodes with up to two edges each (repeated, of a stranger, of itself, two weights); any node or none has address 1 | `ServerTypeOK`, `InvalidAreThoseNotDual`, `MatrixIsTheGraph`, `FailsOnlyForAReason`, `RoutesFormTree`, `NoShortcut`, `RowsFit`, `PrintoutAgreesWithTables`; implements `RouteService`; `EndsInAnAnswer` |
| `Validation_graphs` | the correct reports of all graphs of four nodes | disagreement: complete graphs are rejected |
| `Memory_server` | four nodes, any of them leaves, every allocation and call failing | `TypeOK`, `PointersOwnBlocks`, `OnlyGarbageIsFreedWrongly`, `LeaksAccountedFor`, `SocketsAreClosed` |
| `Memory_released` | the same | disagreement: memory is lost |
| `Log_shared` | nodes 1, 11, 13 in a row and the server; directories below a shared one as in the launch scripts, one file, or directories of their own; six lines, the longest before the shortest | `TypeOK`, `NoMkdirRace`, `LinesAreTrue`, `LogIsCausal`, `EveryPacketIsLogged` |
| `Search_all` | all arrays of three routers with two slots and links to any of four ids, one of them unknown | `AnswerIsRight`, `CallsFormSimplePath`, `SearchEnds`; the type invariant of the search is a part of `TypeOK` in `Register_all` |
| `Register_all` | two files, three slots, names at the limits of the length byte, every fault; two runs, two commands of any kind in total | `TypeOK`, `IdsUnique`, `NoHiddenLinks`, `FreedNameIsAlone`, `SavedIsReadBack`, `DeleteIsExact`, `SetFlagIsExact`, `TornFilesLackLinksOnly` |
| `Register_dangling`, `Register_survivor` | two files, two slots, one run of two commands, no faults | two disagreements with the assignment |

Bounds. Four nodes are the smallest number with two shortest paths of two hops
between the same nodes, with a forward after a forward on the way to a QUIT, and
with a row that serves two routes. Weights up to 3 give ties between paths of
one, two and three edges, and detours shorter than the direct edge. Where node 1
is not the first node to arrive, or is missing, `Server_all` has only the correct
reports with weights 1 and 3 (`MCInit`), which keep ties and detours. Three nodes
are enough for the faults: one to send, one to forward, one to receive. The
seven lines end in the QUIT lines, leaves first, as in the test data; one
destination gets two messages, so order matters. In `Memory_server` four nodes
allow a leaf before, between and after nodes with rows, and a failure before,
at and after the first of a loop. In `Log_shared`, `nPrints = 2` is an edge after
the first; the text of 999 bytes is the longest that fits into a packet.
`MaxCommands = 2` (over both runs) allows two deletions out of three routers, and,
as the files have links already, a link to be doubled and its target to be
deleted; with `MaxRuns = 2` the second run starts on what the first stored, torn
or not. `MAX_NEIGHBORS` is 2 or
3 instead of 10, so that full routers occur; no other line of the code depends on
the number. The names have 254, 255, 256 and 257 bytes: the longest that
can be written, and those whose length byte is 0, 1 (as that of the empty name)
and 2. Nothing in the
network model is bounded beyond its constants.

Deadlock is not checked: every process ends, and a run ends.

## 4. Fairness

`EmulatedNetwork!FairSpec` has weak fairness for the server, for the sender and
for each node: they are operating-system processes, and one that is not blocked
in a call is scheduled. A process that only waits, the server in `accept` or
`recv`, a node in `recvfrom`, is not made to fail (`ServerBlocked`,
`NodeBlocked`), and nothing is assumed of other faults. `AllExit` is stated without
faults and for a `data.txt` that asks no node to leave while it is still needed
(`QuitsAfterTraffic`, checked of the instance by an assumption).
`ServerFailureFreesWaiting` and `AcceptWaitsOnlyForTheDead` hold under all faults:
the second says that the one wait nobody bounds, `accept`, lasts for ever only if
a node has died before it connected.

`PacketLog!Spec` has the same fairness for the steps of its processes.
`RoutingServer!ServerSpec` and `RouteSearch!SearchSpec` have weak fairness of a
single sequential computation that does not block. `ServerMemory` and
`RouterRegister` have no liveness property: their loops are bounded by counters.

## 5. Proofs

Everything here is for all values of the constants that satisfy the named
assumptions.

**The network** (`EmulatedNetworkProofs`; any addresses, tables, lines, faults):
`TypeCorrect`, `SentToBound`, `OneComputation`, `RowsSuffice` are `TypeOK`,
`NeverSentToUnbound`, `TablesOfOneComputation` and `RowForEveryPacket`. The last
three are not inductive. The invariant `IInv` (theorem `Invariance`) adds three
facts. *Registration*: accepted and waiting connections are of different nodes
that have bound their port, and an active node holds its port. *Phases*: the
counts of accepted nodes, computed and sent tables fit the phase of the server,
and before the tables are computed nobody runs and nothing has been sent; with N
different nodes accepted, all of `Addr` is bound, which is why nothing is ever
sent to an unbound port. *Consistent*: there is one `T` in `TableSets` of which
every table in the server, in a stream or at a node is the translation, packets
sent so far wait only where `T` has a row for them, and hops lead to addresses.
The step from the translation of a translation back to the table uses that the
accepted nodes are all of `Addr`, without repetition. `TableSetsAssumption` gives
the row at the next hop.

**Delivery under faults** (`DeliveryProofs`; theorem `DeliveryUnderFaults`): with
any faults the network implements `MessageDelivery` in its lossy form. The
invariant `Delivering` says that a packet waits at its destination or at the next
hop node 1 has for it, and nowhere else. So the packets for one node form a
pipeline of at most two queues, between what the node has printed and the lines
not yet read; it is in file order, and since queues are first in, first out, no
step lets one packet pass another.

**Delivery without faults** (`DeliveryProofs`; theorem `ReliableDelivery`): if nothing fails and `data.txt` keeps the rule
`QuitsAfterTraffic`, the network implements `MessageDelivery` in its reliable
form. `Healthy` says that processes end only when their work is done; this needs
that a node waiting for its table has been, or will be, sent one, and that the
server does not send to the dead. `Lossless` says that what was sent is printed
or in flight, that a packet at its destination is behind none that was sent there
afterwards, and that nothing is left, in flight or in the file, for those who
have left. The step that needs all of it is `ReceiveQuit`: closing the socket
loses only the QUIT packet (`QuitIsLast`).

**Validation** (`EdgeValidationProofs`; any nodes, any reports in any order):
`TypeCorrect`; `ExactlyDisagreements`, `MatrixCorrect`, `InvalidEdgesFit` are
`InvalidAreThoseNotDual`, `MatrixIsTheGraph` and `FailsOnlyForAReason`. The first
speaks of the end of the loops only, so it says nothing of the states on the way.
The invariant adds: *Counted*, a counter has seen one report, or two that agree
and is unmarked, or several that are not two agreeing ones and is marked;
*CountersOfEdges*, every edge seen has exactly one counter, within the array;
*InvalidCounted*, only edges with a counter are marked, each once; *Progress*, how
far each loop is. That invalid edges fit into their array follows by counting
(`ShorterSequence`). That the last weight a node reported is the agreed one
(`EntryIsAgreed`) uses that an agreed edge was reported once from each end.

**Dijkstra** (`RoutingServerProofs`; any number of nodes, any symmetric matrix
without self loops whose sums do not overflow): `TreeOfRoutes` and `NoShorterWay`
are `RoutesFormTree` and `NoShortcut`. The invariant `DijkstraInv`: nodes are
visited in the order of their distances, the edges of visited nodes are relaxed,
and the distance of an unvisited node was set through an edge of a visited one.
The interesting step is `registerRoute`, which does not use the node that set the
distance but looks for the closest visited neighbor anew; both give the same
distance.

**Routing tables** (`RoutingServerProofs`): since
routes are a tree, the route to a node on a route is the part of it up to that
node. So a pair of source and destination has the same next hop in every route
that holds both, and the rows written so far can be read off the positions of the
loops: they are those of the pairs in the routes walked so far. That is the
invariant behind `RowsFit` (a source has at most one row for each other node),
`PrintoutAgreesWithTables` and the refinement below.

**The composition** (`RoutingServerProofs`; any number of nodes, any reports in
any order of arrival): `ServerTypeCorrect`, `ServerRowsFit`,
`ServerPrintsItsTables`, `ServerRoutesFormTree`, `ServerRoutesShortest` are the
invariants of `Server_all`, now of the server as a whole. `DijkstraAlwaysFed` is
the link: whatever is reported, `dijkstra` gets the matrix that its proof assumes.
It uses `MatrixIsTheGraph` for the symmetry and the weights, and that the indices
are a bijection to the addresses. `ServerImplementsService` is the safety part of
`ImplementsService`: only the step that ends the last loop, or gives up, is a step
of `RouteService`, and all others stutter. For the tables: a chain of entries of
the matrix is a path of agreed edges, and back; the distance is the length of the
route; and by `NoShortcut` no path over agreed edges is shorter, so the rows are
those of a shortest path. For giving up: each of the four exits of the code is
traced to the reports that cause it.

**The memory of the server** (`ServerMemoryProofs`; any number of nodes, any
leaves, any failing call): all invariants of `Memory_server`
(`MemoryTypeCorrect`, `PointersOwnTheirBlocks`, `NothingIsFreedTwice`,
`LeaksAreThoseListed`, `AllSocketsAreClosed`). The properties speak of the end of
a run or of pointers one by one. The invariant `MemInv` says exactly what is
allocated at each call of `main`: the complete blocks of the pointers, each of one
pointer; the arrays that a function has replaced by its own; the rows of the nodes
read so far; and the translated rows of each round before a leaf's. A call that
fails leaves this state half way through, so the ways to a failing end use a
weaker one: `Releasable`, nothing is allocated but what will still be freed and
what `LeaksAccountedFor` lists, and every free keeps it so
(`FreeReleases`, `AllReleased`).

**The packet log** (`PacketLogProofs`; any nodes, directories, lines, next hops and
contents of fresh buffers): `LogTypeCorrect`, `PrintedLinesAreTrue` and
`LogsAreCausal` are `TypeOK`, `LinesAreTrue` and `LogIsCausal`. The invariant
`LogInv` says of a packet, wherever it is, that its header is that of its line and
its first NUL is that of the text (`Intact`): a datagram that is shorter than the
one before leaves old NULs behind its own only. So the check finds nothing
(`CheckFindsNothing`). A packet that is queued for a node, or that the node works
on, has been printed by the node before (`Arrived`), which is why the order of the
logs is causal although no process waits for another. *Phases* and *EdgesFirst*
say that the server is done with printing when the first table is sent.
`NobodyRaces` is `NoMkdirRace`, under `ServerMakesShared`: before any node prints,
all directories of the server's path exist (`ServerMade`), so two nodes that
reach the same missing directory would share it with the server, which would have
made it. Without that assumption the property fails: two neighbors of node 1 that
share a directory of which the server knows nothing race for it.

**exist_route** (`RouteSearchProofs`; any register, dangling links and cycles
included): `SearchAnswersRight` and `RecursionIsBounded` are `AnswerIsRight` and
`CallsFormSimplePath`. The invariant `SearchInv`: the frames are a simple path of
links, every visited id is one the start leads to, and the links of a visited
router without a frame are visited. When the last call returns without success
the visited ids are closed under links.

**The register** (`RouterRegisterProofs`; any number of routers, slots, commands
and runs, any flags, names and links, any `Faults`): all properties of `Register_all`
(`RegisterTypeCorrect`, `IdsStayUnique`, `LinksAreNeverHidden`,
`FreedNamesAreAlone`, `SavedRegistersAreReadBack`, `DeletionIsExact`,
`SetFlagChangesOneProperty`, `TornFilesKeepAllRouters`), and `RoutesAreToldRight`,
the answers of `exist_route` between the other commands. `FilesAssumption` and
`RegistersAssumption` say that the files a run is given are of routers, with
unique ids. The invariant `RegisterInv` adds that every file has unique ids too,
without which a run could start with a router twice; that a search is active only
while a run is, so that nothing moves a router during it; and that `SearchInv`
holds. `SavedRegistersAreReadBack` is the longest argument: links are written
router after router and read one by one, so after the links of the first routers
are read, these have their slots, in order, and the others none
(`LinksAreReadBack`); this uses that no link is hidden behind a free slot and that
ids are unique. The same lemma says of the first k links, for every k, that they
are the links of the first routers and some of the next one's, which is what
`TornFilesKeepAllRouters` needs (`BeginningIsReadBack`); that a beginning of a file
has no id twice keeps the invariant (`BeginningIsOK`). Induction over the routers and links is replaced by the least
counterexample (`LeastNumber`, `Upwards`), which needs no operator as a parameter.
`DeletionIsExact` tells where each router was before (`DeletedMoves`) and counts
links (`LinksOfDeleted`).

Only model-checked: the liveness properties `AllExit`,
`ServerFailureFreesWaiting`, `AcceptWaitsOnlyForTheDead`, `EndsInAnAnswer`,
`SearchEnds` and `EveryPacketIsLogged`, because the prover has no rule for
fairness. The liveness part of `ImplementsService`, that an answer is given at
all, is checked for the same reason and not proved.

## 6. Disagreements found

Each is shown by a run that expects a violation; `PROJECT.json` quotes the lines.

1. `Network_neighbors`: a forwarding node looks up the next hop but sends to the
   destination's port (`node_communication.c:263`), so packets skip nodes.
2. `Validation_graphs`: a complete graph is rejected by an off-by-one in a bounds
   check (`validation.c:42`).
3. `Register_dangling`: deleting a router removes one link to it per router (`router.c:221`).
4. `Register_survivor`: deleting the first of two routers keeps it and drops the
   other (`router.c:234`).
5. `Memory_released`: a server that succeeds loses the node array, the arrays of
   `main` that functions replace by their own, and translated rows before a leaf's
   table (`dynamic_memory.c:285`, `adjacency_matrix.c:14`, `dijkstra.c:110`,
   `route.c:148`, `routing_server_communication.c:254`). `LeaksAccountedFor` says
   that nothing else is lost.

Six more are part of the models but have no run of their own. A torn file that
ends in the newline before a link is read as if it were whole
(`binary_file.c:168`), although the links are to end with a newline of their own
(`binary_file.c:456`, `:195`); `TornFilesLackLinksOnly` says that links are all that
is lost unnoticed. A run returns success although `fclose` could not write the file
(`binary_file.c:274`); this end is the state "unflushed", of which `SavedIsReadBack`
does not speak. A last line
without newline is not executed (`router_operation.c:74`). A node does not print
its QUIT packet (`node_communication.c:231`), while `assignment.md:204` has every
packet for the node printed. One unreachable node leaves all nodes without tables
(`dijkstra.c:177`), although `route.c:95` skips such nodes; `Unreachable` in
`RouteService!GiveUp` states what the code does. Names of 254 bytes and more give
lines longer than the 256 bytes of the file format (`binary_file.c:393`);
`SavedIsReadBack` says from which length on they are no longer read back.

## 7. Not modelled

* Argument parsing (`node_parser.c`) and the splitting of a command line into
  words (`command.c`): string handling whose result is the input of the models.
* The memory of a `node` and of `router_operation`, beyond what decides how a run
  ends; the creation of the directory of `storedBinFile`, beyond that it may fail.
* What happens on a socket after a partial `send`: abstracted to a failing call.
* The tests and scripts. From the scripts the models take the order in which
  processes start, and the directories of the log files.
* `src/utils`, and the exercises and demonstrations under
  `programming_assignments`, `network_theory_assignments` and
  `os_theory_assignments`: stand-alone programs for one lesson each, most without
  state or concurrency.

## 8. Plan

Done: the modules, runs and proofs above. Next, in this order:

1. The parsing of commands and arguments, as far as it decides what is executed.
