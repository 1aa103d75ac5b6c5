----------------------------- MODULE RouterRegister -----------------------------
(***************************************************************************)
(* router_operation: a run reads a file of routers into the register,      *)
(* executes commands on it and writes it to storedBinFile, from where a    *)
(* later run may read it.  The first command that fails ends the run with  *)
(* nothing written.                                                        *)
(*                                                                         *)
(* The name of a router (producerModel) is represented by its length, NULL *)
(* by null.  A file is what the bytes say: the number of records, the      *)
(* records, the links as pairs of ids, and whether a newline follows, and  *)
(* nothing else.                                                           *)
(***************************************************************************)
EXTENDS RouteSearch, RouterFlags, SequencesExt

CONSTANTS
    Names,       \* the lengths of the names that set_model is given
    FlagArgs,    \* the pairs of a flag and a value that set_flag is given
    Faults,      \* what may go wrong with the file that is written (Store)
    MaxCommands, \* the number of commands in all runs
    MaxRuns      \* the number of runs

null == -1

Router == [routerId : RouterId, flag : Byte, producerModel : Nat \cup {null},
           neighbors : [Slots -> RouterId \cup {free}]]

ASSUME FilesAssumption == Registers \subseteq Seq(Router)
ASSUME BoundsAssumption ==
    /\ RouterId # {}
    /\ Names \subseteq Nat
    /\ FlagArgs \subseteq Int \X Int
    /\ Faults \subseteq {"open", "write", "kill", "close"}
    /\ MaxCommands \in Nat /\ MaxRuns \in Nat

VARIABLES
    state,       \* what main is doing, or how the last run ended
    command,     \* the last command that was run, and the router it is about
    unread,      \* the command file has a last line that is not read
    storedFile,  \* the file in storedBinFile
    commands,    \* the number of commands so far
    runs

mainVars == <<state, command, unread, storedFile, commands, runs>>
allVars == <<routers, searchVars, mainVars>>

Ids(rs) == {rs[r].routerId : r \in DOMAIN rs}

-----------------------------------------------------------------------------
(***************************************************************************)
(* The operations on the array.                                            *)
(***************************************************************************)

\* findFreeNeighbor: the number of slots before the first free one.
FreeNeighbor(nb) ==
    CHOOSE i \in 0 .. MAX_NEIGHBORS :
        /\ i = MAX_NEIGHBORS \/ nb[i] = free
        /\ \A j \in 0 .. i - 1 : nb[j] # free

\* (Slip: the slot after the free one is taken.)
WithLinkTooFar(nb, to) ==
    [nb EXCEPT ![IF FreeNeighbor(nb) + 1 \in Slots THEN FreeNeighbor(nb) + 1
                 ELSE FreeNeighbor(nb)] = to]

\* The slots with a link to `to` in the first free one.
WithLink(nb, to) == [nb EXCEPT ![FreeNeighbor(nb)] = to]

\* (Slip: the links behind the removed one are cut off.)
WithoutLinksFrom(nb, to) ==
    [i \in Slots |-> IF \E j \in 0 .. i : nb[j] = to THEN free ELSE nb[i]]

\* The slots without the first link to `to`: the last link takes its place.
WithoutLink(nb, to) ==
    LET hits == {i \in 0 .. FreeNeighbor(nb) - 1 : nb[i] = to}
        hit  == CHOOSE i \in hits : \A j \in hits : i <= j
        last == FreeNeighbor(nb) - 1
    IN  IF hits = {} THEN nb ELSE [nb EXCEPT ![hit] = nb[last], ![last] = free]

\* (Slip: the last of the remaining routers is copied, not the last one.)
WithoutRouterByNewN(rs, hit) ==
    LET n == Len(rs) - 1
    IN  [r \in 1 .. n |-> IF r = hit THEN rs[n] ELSE rs[r]]

\* (Slip: the first router is never overwritten.)
WithoutRouterButFirst(rs, hit) ==
    LET n     == Len(rs) - 1
        freed == [rs EXCEPT ![hit].producerModel = null]
    IN  [r \in 1 .. n |-> IF r = hit /\ hit # 1 THEN freed[n + 1] ELSE freed[r]]

\* The array of the remaining routers when the one at hit is deleted: the last
\* one moves into the hole, except that the first of two stays where it is,
\* its name freed.
WithoutRouter(rs, hit) ==
    LET n     == Len(rs) - 1
        freed == [rs EXCEPT ![hit].producerModel = null]
    IN  [r \in 1 .. n |->
            IF r = hit /\ ~(hit = 1 /\ n = 1) THEN freed[n + 1] ELSE freed[r]]

-----------------------------------------------------------------------------
(***************************************************************************)
(* The file.                                                               *)
(***************************************************************************)

NoFile == [n |-> 0, records |-> <<>>, links |-> <<>>, ended |-> FALSE]

\* The length byte of a name, the null character counted.
CharLen(rt) == (rt.producerModel + 1) % 256

\* A record in the file; its name is as long as the length byte says.
Record(rt) == [routerId |-> rt.routerId, flag |-> rt.flag, charLen |-> CharLen(rt)]

\* (Slip: the links of a router are written from the last to the first.)
LinksBackwards(rs) ==
    FlattenSeq([r \in DOMAIN rs |->
        LET k == FreeNeighbor(rs[r].neighbors)
        IN  [i \in 1 .. k |-> <<rs[r].routerId, rs[r].neighbors[k - i]>>]])

\* writeNeighbors: the links of a router up to its first free slot.
LinksWritten(rs) ==
    FlattenSeq([r \in DOMAIN rs |->
        [i \in 1 .. FreeNeighbor(rs[r].neighbors) |->
            <<rs[r].routerId, rs[r].neighbors[i - 1]>>]])

\* The routers whose record cannot be written: fwrite of 0 bytes, or of the
\* (size_t)-1 bytes that a length byte of 0 asks for, is a failure, and there is
\* no strlen of NULL.
Unwritable(rs) == {r \in DOMAIN rs : rs[r].producerModel = null \/ CharLen(rs[r]) <= 1}

\* The file after writeBinaryFile if nothing goes wrong with the file itself.  It
\* stops in the first such record, or is killed there by strlen, the few bytes
\* before a name that is NULL still in the buffer.
Written(rs) ==
    LET bad == Unwritable(rs)
        fst == CHOOSE r \in bad : \A q \in bad : r <= q
    IN  IF bad = {}
        THEN [n |-> Len(rs), records |-> [r \in DOMAIN rs |-> Record(rs[r])],
              links |-> LinksWritten(rs), ended |-> TRUE]
        ELSE IF rs[fst].producerModel = null THEN NoFile
        ELSE [n |-> Len(rs), records |-> [r \in 1 .. fst |-> Record(rs[r])],
              links |-> <<>>, ended |-> FALSE]

\* The beginnings of a file: what is left of it when not all of its bytes are
\* written.  Any number of bytes may be, as the buffer of stdio has any size; a
\* record or a link that is not complete is not read.  Behind a link there may be
\* the newline of the next one and nothing else.
Beginnings(file) ==
    {NoFile}
    \cup {[n |-> file.n, records |-> recs, links |-> <<>>, ended |-> FALSE] :
            recs \in Prefixes(file.records)}
    \cup {[n |-> file.n, records |-> file.records, links |-> lks, ended |-> e] :
            lks \in Prefixes(file.links), e \in {FALSE, file.ended}}

NoLinks == [i \in Slots |-> free]

\* The slots of the router id when addLink has been called for every one of the
\* links that begins with it, in their order.
LinksRead(links, id) ==
    LET nb[k \in 0 .. Len(links)] ==
            IF k = 0 THEN NoLinks
            ELSE IF links[k][1] = id THEN WithLink(nb[k - 1], links[k][2])
            ELSE nb[k - 1]
    IN  nb[Len(links)]

\* addLink finds a free slot for the k-th link.
Fits(links, k) ==
    FreeNeighbor(LinksRead(SubSeq(links, 1, k - 1), links[k][1])) < MAX_NEIGHBORS

\* All records of the file are there, and their names can be read.
RecordsReadable(file) ==
    /\ Len(file.records) = file.n
    /\ \A r \in DOMAIN file.records : file.records[r].charLen >= 2

\* (Slip: the end of the file ends the routers as it ends the links.)
ReadableToItsEnd(file) == \A r \in DOMAIN file.records : file.records[r].charLen >= 2

\* readBinaryFile succeeds.  The newline that ends the file may be that of a link
\* that is not there.
Readable(file) ==
    /\ RecordsReadable(file)
    /\ file.ended
    /\ \A k \in DOMAIN file.links :
         HasRouter(file.records, file.links[k][1]) /\ Fits(file.links, k)

\* The register that is read.
ReadFrom(file) ==
    [r \in DOMAIN file.records |->
        LET rec == file.records[r]
        IN  [routerId |-> rec.routerId, flag |-> rec.flag,
             producerModel |-> rec.charLen - 1,
             neighbors |-> LinksRead(file.links, rec.routerId)]]

\* How a run ends that cannot read its file: when a record is missing, main
\* frees the names of routers that were never initialized.
EndOfRead(file) ==
    IF file = NoFile \/ RecordsReadable(file) THEN {"failed"} ELSE {"failed", "crashed"}

-----------------------------------------------------------------------------
(***************************************************************************)
(* The run.                                                                *)
(***************************************************************************)

NoCommand == [name |-> "none", routerId |-> null]

\* No search is active (the locals of existsRoute are gone).
NoSearch(from, to, vis, stk, res) ==
    /\ from = CHOOSE id \in RouterId : TRUE
    /\ to = from /\ vis = {} /\ stk = <<>> /\ res = "idle"

Init ==
    /\ routers = <<>>
    /\ NoSearch(fromRouterId, toRouterId, visited, stack, result)
    /\ state = "idle"
    /\ command = NoCommand
    /\ unread = FALSE
    /\ storedFile = NoFile
    /\ commands = 0
    /\ runs = 0

\* A run starts: it reads a file it is given, or the one that was stored.
Start ==
    /\ state # "running"
    /\ runs < MaxRuns
    /\ \E file \in {Written(rs) : rs \in Registers} \cup {storedFile} :
         \/ Readable(file) /\ state' = "running" /\ routers' = ReadFrom(file)
         \/ ~Readable(file) /\ state' \in EndOfRead(file) /\ routers' = <<>>
    /\ command' = NoCommand
    /\ unread' = FALSE
    /\ runs' = runs + 1
    /\ UNCHANGED <<searchVars, storedFile, commands>>

\* A command about the router id is executed.
Command(name, id) ==
    /\ state = "running" /\ result = "idle" /\ ~unread
    /\ commands < MaxCommands
    /\ commands' = commands + 1
    /\ command' = [name |-> name, routerId |-> id]
    /\ UNCHANGED <<unread, storedFile, runs>>

\* A command that succeeds changes the register and nothing else.
Changes(rs) == routers' = rs /\ UNCHANGED <<state, searchVars>>

\* A command that fails ends the run; nothing is written.
Fails == state' = "failed" /\ UNCHANGED <<routers, searchVars>>

PrintRouter(id) ==
    /\ Command("print", id)
    /\ \/ HasRouter(routers, id) /\ Changes(routers)
       \/ ~HasRouter(routers, id) /\ Fails

\* (Slip: the other bits of the flag are not kept.)
SetFlagAnew(id, flag, value) ==
    /\ Command("set_flag", id)
    /\ \/ /\ HasRouter(routers, id) /\ Accepts(flag, value)
          /\ Changes([routers EXCEPT ![FindRouterId(routers, id)].flag =
                        WithFlag(0, flag, value)])
       \/ ~(HasRouter(routers, id) /\ Accepts(flag, value)) /\ Fails

SetFlag(id, flag, value) ==
    /\ Command("set_flag", id)
    /\ \/ /\ HasRouter(routers, id) /\ Accepts(flag, value)
          /\ Changes([routers EXCEPT ![FindRouterId(routers, id)].flag =
                        WithFlag(@, flag, value)])
       \/ ~(HasRouter(routers, id) /\ Accepts(flag, value)) /\ Fails

\* getCommand reads an uninitialized pointer of the array for the arguments of
\* set_model, and gives up if that is NULL; then main frees the array's pointers.
SetModel(id, name) ==
    /\ Command("set_model", id)
    /\ \/ /\ HasRouter(routers, id)
          /\ Changes([routers EXCEPT ![FindRouterId(routers, id)].producerModel = name])
       \/ ~HasRouter(routers, id) /\ Fails
       \/ state' \in {"failed", "crashed"} /\ UNCHANGED <<routers, searchVars>>

AddLink(from, to) ==
    /\ Command("add_link", from)
    /\ LET r == FindRouterId(routers, from)
       IN  \/ /\ HasRouter(routers, from)
              /\ FreeNeighbor(routers[r].neighbors) < MAX_NEIGHBORS
              /\ Changes([routers EXCEPT ![r].neighbors = WithLink(@, to)])
           \/ /\ HasRouter(routers, from) =>
                    FreeNeighbor(routers[r].neighbors) = MAX_NEIGHBORS
              /\ Fails

\* deleteRouter.  Deleting the only router, realloc to 0 bytes frees the array
\* and returns NULL: the command fails, and the array is freed again.
DeleteRouter(id) ==
    /\ Command("delete_router", id)
    /\ \/ /\ HasRouter(routers, id) /\ Len(routers) > 1
          /\ Changes(WithoutRouter([r \in DOMAIN routers |->
                        [routers[r] EXCEPT !.neighbors = WithoutLink(@, id)]],
                      FindRouterId(routers, id)))
       \/ ~HasRouter(routers, id) /\ Fails
       \/ /\ HasRouter(routers, id) /\ Len(routers) = 1
          /\ state' \in {"failed", "crashed"}
          /\ UNCHANGED <<routers, searchVars>>

\* exist_route starts the search of RouteSearch ...
ExistRoute(from, to) ==
    /\ Command("exist_route", from)
    /\ fromRouterId' = from /\ toRouterId' = to
    /\ visited' = {} /\ stack' = <<>> /\ result' = "called"
    /\ UNCHANGED <<routers, state>>

Search == SearchStep /\ UNCHANGED <<routers, mainVars>>

\* ... and reports its result.
RouteReported ==
    /\ result \in {"exists", "absent", "failed"}
    /\ state' = IF result = "failed" THEN "failed" ELSE "running"
    /\ NoSearch(fromRouterId', toRouterId', visited', stack', result')
    /\ UNCHANGED <<routers, command, unread, storedFile, commands, runs>>

\* The last line of the command file does not end in a newline: getline reaches
\* the end of the file, and main leaves the loop without looking at the line.
LastLineUnread ==
    /\ state = "running" /\ result = "idle" /\ ~unread
    /\ unread' = TRUE
    /\ UNCHANGED <<routers, searchVars, state, command, storedFile, commands, runs>>

\* How the run ends when nothing goes wrong with the file.
EndOfStore ==
    LET bad == Unwritable(routers)
        fst == CHOOSE r \in bad : \A q \in bad : r <= q
    IN  IF bad = {} THEN {"succeeded"}
        ELSE IF routers[fst].producerModel = null THEN {"crashed"}
        ELSE IF CharLen(routers[fst]) = 0 THEN {"failed", "crashed"}
        ELSE {"failed"}

\* The commands are done: writeBinaryFile.  A directory cannot be made or the
\* file not be opened; a write fails; the process is killed; or fclose cannot write
\* what is left in the buffer.  As nobody looks at its result, main then returns
\* success all the same: the run ends as "unflushed".
Store ==
    /\ state = "running" /\ result = "idle"
    /\ \/ storedFile' = Written(routers) /\ state' \in EndOfStore
       \/ "open" \in Faults /\ state' = "failed" /\ UNCHANGED storedFile
       \/ /\ "write" \in Faults
          /\ storedFile' \in Beginnings(Written(routers)) /\ state' = "failed"
       \/ /\ "kill" \in Faults
          /\ storedFile' \in {storedFile} \cup Beginnings(Written(routers))
          /\ state' = "crashed"
       \/ /\ "close" \in Faults
          /\ storedFile' \in Beginnings(Written(routers))
          /\ \/ Unwritable(routers) = {} /\ state' = "unflushed"
             \/ Unwritable(routers) # {} /\ state' \in EndOfStore
    /\ command' = NoCommand /\ unread' = FALSE
    /\ UNCHANGED <<routers, searchVars, commands, runs>>

Next ==
    \/ Start
    \/ \E id \in RouterId :
         \/ PrintRouter(id)
         \/ \E arg \in FlagArgs : SetFlag(id, arg[1], arg[2])
         \/ \E name \in Names : SetModel(id, name)
         \/ \E to \in RouterId : AddLink(id, to) \/ ExistRoute(id, to)
         \/ DeleteRouter(id)
    \/ Search
    \/ RouteReported
    \/ LastLineUnread
    \/ Store

Spec == Init /\ [][Next]_allVars

-----------------------------------------------------------------------------
(***************************************************************************)
(* Correctness.                                                            *)
(***************************************************************************)

TypeOK ==
    /\ SearchTypeOK
    /\ routers \in Seq(Router)
    /\ state \in {"idle", "running", "succeeded", "unflushed", "failed", "crashed"}
    /\ command.routerId \in RouterId \cup {null}
    /\ unread \in BOOLEAN
    /\ Len(storedFile.records) <= storedFile.n
    /\ commands \in 0 .. MaxCommands
    /\ runs \in 0 .. MaxRuns

\* Filling the holes of deleted routers never duplicates a router, nor does a
\* round trip through the file.
IdsUnique ==
    \A q, r \in DOMAIN routers : routers[q].routerId = routers[r].routerId => q = r

\* No link is behind a free slot, where print, the search and the file would
\* not see it.
NoHiddenLinks ==
    \A r \in DOMAIN routers : \A i, j \in Slots :
        i < j /\ routers[r].neighbors[i] = free => routers[r].neighbors[j] = free

\* A name that deleteRouter freed is met by nobody else, as long as there is
\* more than one router left.
FreedNameIsAlone ==
    \A r \in DOMAIN routers : routers[r].producerModel = null => Len(routers) = 1

LinkCount(rt, to) == Cardinality({i \in Slots : rt.neighbors[i] = to})

\* Deleting a router takes it, and one link to it, from every router that had
\* one, and keeps all other routers and links (unless it is the first of two).
DeleteIsExact ==
    [][(/\ routers' # routers /\ command'.name = "delete_router"
        /\ Len(routers) > 2 \/ routers[1].routerId # command'.routerId) =>
       LET gone == command'.routerId
       IN  /\ Ids(routers') = Ids(routers) \ {gone}
           /\ \A q \in DOMAIN routers, r \in DOMAIN routers' :
                 routers[q].routerId = routers'[r].routerId =>
                   /\ routers'[r].flag = routers[q].flag
                   /\ routers'[r].producerModel = routers[q].producerModel
                   /\ \A to \in RouterId :
                        LinkCount(routers'[r], to) =
                          LinkCount(routers[q], to)
                            - (IF to = gone /\ LinkCount(routers[q], to) > 0 THEN 1 ELSE 0)
      ]_allVars

\* What print shows of one property of the router id is the value, the rest of
\* it and of the register is unchanged.
FlagSet(id, flag, value) ==
    \E r \in DOMAIN routers :
        /\ routers[r].routerId = id
        /\ routers' = [routers EXCEPT ![r].flag = routers'[r].flag]
        /\ Accepts(flag, value)
        /\ Printed(routers'[r].flag) = [Printed(routers[r].flag) EXCEPT ![flag] = value]

\* A set_flag that changes anything changes what print shows of the property it
\* names to the value it is given, and nothing else: the modification number is
\* stored with its bits in reverse order next to the bits of the other properties.
SetFlagIsExact ==
    [][\A id \in RouterId, arg \in FlagArgs :
          routers' # routers /\ SetFlag(id, arg[1], arg[2]) =>
            FlagSet(id, arg[1], arg[2])]_allVars

\* A name as a file holds it: length bytes wrap around, longer names are cut.
Cut(rt) == [rt EXCEPT !.producerModel = CharLen(rt) - 1]

\* A run that ends with success, and whose fclose has written everything, leaves a
\* file from which the next run reads the same register, but for names of more
\* than 254 bytes.
SavedIsReadBack ==
    state = "succeeded" =>
        /\ Readable(storedFile)
        /\ ReadFrom(storedFile) = [r \in DOMAIN routers |-> Cut(routers[r])]

\* The first j slots of nb.
FirstOf(nb, j) == [i \in Slots |-> IF i < j THEN nb[i] ELSE free]

\* The routers as a file holds them, with the links up to the k-th of the q-th
\* router.
UpTo(rs, q, k) ==
    [r \in DOMAIN rs |->
        [Cut(rs[r]) EXCEPT !.neighbors = IF r < q THEN @
                                         ELSE IF r = q THEN FirstOf(@, k) ELSE NoLinks]]

LackLinksOnly(got, rs) ==
    \E q \in 1 .. Len(rs) + 1, k \in 0 .. MAX_NEIGHBORS : got = UpTo(rs, q, k)

\* Whatever happens while a register is written, a file that a later run reads
\* has all of its routers, with their flags and names, and their links up to some
\* link: a torn file never shows a router that was not there, nor loses one.
TornFilesLackLinksOnly ==
    [][storedFile' # storedFile /\ Readable(storedFile') =>
       LackLinksOnly(ReadFrom(storedFile'), routers)]_allVars

Deleted ==
    state = "running" /\ routers # <<>> /\ command.name = "delete_router"

\* After delete_router, no router has a link to the deleted one.
DeletedIsUnreferenced ==
    Deleted => \A r \in DOMAIN routers : LinkCount(routers[r], command.routerId) = 0

\* After delete_router, the router is no longer in the register.
DeletedIsGone == Deleted => ~HasRouter(routers, command.routerId)

=============================================================================
