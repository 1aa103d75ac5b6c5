--------------------------- MODULE MessageDelivery ---------------------------
(***************************************************************************)
(* What the emulated network promises to the author of data.txt, without   *)
(* servers, sockets, routing tables or hops: every node is handed the      *)
(* lines addressed to it, once each and in file order, until it leaves.    *)
(*                                                                         *)
(* When Reliable is TRUE no line is skipped and a receiving node leaves    *)
(* exactly when its QUIT line is the next one; when it is FALSE lines may  *)
(* be skipped (datagrams get lost) and nodes may leave at any time.        *)
(***************************************************************************)
EXTENDS Naturals, Sequences

CONSTANTS
    Addr,      \* the addresses of the nodes
    Lines,     \* data.txt: a sequence of [destination, message] records
    QUIT,      \* the message that asks its destination to leave
    Reliable   \* TRUE iff nothing may be lost

VARIABLES
    received,  \* per address, the numbers of the lines handed to it
    gone       \* the addresses of the nodes that have left

vars == <<received, gone>>

Sender == 1

\* The lines addressed to a that come after everything a has received.
Pending(a) ==
    {l \in DOMAIN Lines : /\ Lines[l].destination = a
                          /\ \A i \in DOMAIN received[a] : received[a][i] < l}

\* The lines of Pending(a) that a may be handed next.
Candidates(a) ==
    IF Reliable THEN {l \in Pending(a) : \A k \in Pending(a) : l <= k}
                ELSE Pending(a)

Init ==
    /\ received = [a \in Addr |-> <<>>]
    /\ gone = {}

Deliver(a) ==
    /\ a \notin gone
    /\ \E l \in Candidates(a) :
         /\ Lines[l].message # QUIT
         /\ received' = [received EXCEPT ![a] = Append(@, l)]
    /\ UNCHANGED gone

Leave(a) ==
    /\ a \notin gone
    /\ (Reliable /\ a # Sender) =>
         \E l \in Candidates(a) : Lines[l].message = QUIT
    /\ gone' = gone \cup {a}
    /\ UNCHANGED received

Next == \E a \in Addr : Deliver(a) \/ Leave(a)

Spec == Init /\ [][Next]_vars

=============================================================================
