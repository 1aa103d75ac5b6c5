---------------------------- MODULE MCRouterRegister ----------------------------
(***************************************************************************)
(* Instances of RouterRegister.  The names of the files have 5 bytes.      *)
(***************************************************************************)
EXTENDS RouterRegister

\* The flag: active, unused bit 3 set, modification number 10.
RouterWith(id, links) ==
    [routerId |-> id, flag |-> WithFlag(9, 4, 10), producerModel |-> 5,
     neighbors |-> [i \in Slots |-> IF i < Len(links) THEN links[i + 1] ELSE free]]

\* Three routers in a cycle, the second one full and with a link to itself.
Triangle == <<RouterWith(2, <<0>>), RouterWith(0, <<1, 2, 0>>), RouterWith(1, <<0>>)>>

\* Two routers, one link.
Couple == <<RouterWith(1, <<>>), RouterWith(0, <<1>>)>>

MCRegisters == {Triangle, Couple}

\* The longest that can be written, the two that wrap to lengths 0 and 1 (as does
\* the empty one), and the first that is cut to a single byte.
MCNames == {254, 255, 256, 257}

MCFlagArgs == {<<1, 1>>, <<0, 0>>, <<4, 14>>, <<3, 0>>, <<0, 2>>}
OneFlagArg == {<<4, 14>>}

=============================================================================
