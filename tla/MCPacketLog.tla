----------------------------- MODULE MCPacketLog -----------------------------
(***************************************************************************)
(* An instance of PacketLog: nodes 1, 11 and 13 in a row, with the log     *)
(* directories of the launch scripts (run_1.sh), one shared file, and      *)
(* directories of their own.                                               *)
(***************************************************************************)
EXTENDS PacketLog, TLC

MCNodes == {1, 11, 13}
MCServer == 0

Name == 1 :> "1" @@ 11 :> "11" @@ 13 :> "13" @@ MCServer :> "routing_server"

MCLayouts ==
    {[p \in Processes |-> <<"log_1", Name[p]>>],
     [p \in Processes |-> <<>>],
     [p \in Processes |-> <<Name[p]>>]}

MCGarbage == {{}, {7}}

MCNextHop == 11 :> 11 @@ 13 :> 11

\* The longest text before a short one and an empty one, on the same way.
MCLines ==
    <<[destination |-> 13, text |-> "long", strlen |-> 999],
      [destination |-> 11, text |-> "", strlen |-> 0],
      [destination |-> 13, text |-> "hi", strlen |-> 2],
      [destination |-> 13, text |-> QUIT, strlen |-> 4],
      [destination |-> 11, text |-> QUIT, strlen |-> 4],
      [destination |-> 1, text |-> QUIT, strlen |-> 4]>>

ASSUME SharedAssumption == ServerMakesShared

=============================================================================
