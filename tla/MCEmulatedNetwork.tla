--------------------------- MODULE MCEmulatedNetwork ---------------------------
(***************************************************************************)
(* Instances of EmulatedNetwork.  The diamond 1-11, 1-13, 11-19, 13-19 has *)
(* two shortest-path trees (Dijkstra picks by order of arrival), the chain *)
(* 1-11-13-19 needs two forwards to reach 19.                              *)
(***************************************************************************)
EXTENDS EmulatedNetwork, TLC

MCAddr == {1, 11, 13, 19}

Leaf == EmptyTable

DiamondVia11 == (1 :> (11 :> 11 @@ 13 :> 13 @@ 19 :> 11)) @@ (11 :> (19 :> 19))
                  @@ (13 :> Leaf) @@ (19 :> Leaf)
DiamondVia13 == (1 :> (11 :> 11 @@ 13 :> 13 @@ 19 :> 13)) @@ (13 :> (19 :> 19))
                  @@ (11 :> Leaf) @@ (19 :> Leaf)
Chain == (1 :> (11 :> 11 @@ 13 :> 11 @@ 19 :> 11))
           @@ (11 :> (13 :> 13 @@ 19 :> 13))
           @@ (13 :> (19 :> 19)) @@ (19 :> Leaf)

Diamond == {DiamondVia11, DiamondVia13}
AnyTopology == Diamond \cup {Chain}
OnlyChain == {Chain}

ChainEdges == {{1, 11}, {11, 13}, {13, 19}}

To(d, m) == [destination |-> d, message |-> m, parses |-> TRUE]
Torn == [destination |-> 0, message |-> "", parses |-> FALSE]

\* Leaves first, as in messages_1.txt and messages_2.txt.
MCLines == <<To(19, "hello"), To(11, "hello"), To(19, "again"),
             To(19, "QUIT"), To(13, "QUIT"), To(11, "QUIT"), To(1, "QUIT")>>

\* Three nodes: 13 is reached directly or through 11.
SmallAddr == {1, 11, 13}
StarOrPath ==
    {(1 :> (11 :> 11 @@ 13 :> 13)) @@ (11 :> Leaf) @@ (13 :> Leaf),
     (1 :> (11 :> 11 @@ 13 :> 11)) @@ (11 :> (13 :> 13)) @@ (13 :> Leaf)}
SmallLines == <<To(13, "hello"), To(13, "again"), To(13, "QUIT"), To(11, "QUIT"),
                To(1, "hello"), Torn>>

NoFaults == {}

ASSUME MCQuitsAfterTraffic == Faults = {} => QuitsAfterTraffic

ChainNeighborsOnly == NeighborsOnly(ChainEdges)

=============================================================================
