--------------------------- MODULE MCConnectRouting ---------------------------
(***************************************************************************)
(* CONNECTs of the three versions with and without their fields, user      *)
(* names with and without a tenant, properties of two lengths, one packet  *)
(* whose remaining length takes two bytes, and streams that are no CONNECT.*)
(***************************************************************************)
EXTENDS ConnectRouting

A == 97
Dot == 46
\* A tenant, and rows that no user name can choose.
MCRouteTable == {<<A>>, <<98, Dot, A>>, <<9>>}

Users == {<<A, Dot, 1>>, <<A - 32, Dot>>, <<A>>, <<Dot, A>>, <<98, Dot, A, Dot>>, <<9, Dot>>}
Plain == [level : {3, 4}, props : {<<>>}, id : {<<>>, <<7>>},
          will : {<<>>, <<[topic |-> <<9>>, message |-> <<>>]>>},
          user : {<<>>} \cup {<<u>> : u \in Users}, password : {<<>>, <<<<3, 4>>>>}]

Long(n) == [i \in 1 .. n |-> 33]
MCPackets ==
    {p \in Plain : p.user = <<>> => p.password = <<>>}
    \cup [level : {5}, props : {<<>>, <<34, 0, 1>>}, id : {<<>>, <<7>>}, will : {<<>>},
          user : {<<>>, <<<<A, Dot, 1>>>>}, password : {<<>>}]
    \cup [level : {5}, props : {<<>>}, id : {<<7>>},
          will : {<<[topic |-> <<9>>, message |-> <<>>]>>},
          user : {<<>>, <<<<A, Dot, 1>>>>}, password : {<<>>}]
    \cup [level : {4}, props : {<<>>}, id : {<<7>>}, will : {<<>>},
          user : {<<<<A, Dot, 1>>>>}, password : {<<Long(120)>>}]
    \cup [level : {5}, props : {Long(130)}, id : {<<>>}, will : {<<>>},
          user : {<<<<A, Dot, 1>>>>}, password : {<<>>}]

\* The wills of version 5, from clients that wait for the CONNACK.
WillPackets == {p \in MCPackets : ~ Known(p)}
WaitForConnack == {<<>>}
NoGarbage == {}

\* Behind a CONNECT: nothing, or a packet sent before the CONNACK.
MCFollows == {<<>>, <<192, 0>>}

MCGarbage ==
    {<<22, 3, 1, 0, 40>>,                           \* not a CONNECT
     <<16, 128, 128, 128, 1, 0>>,                   \* four bytes of remaining length
     <<16, 255, 255, 127, 0>>,                      \* longer than the buffer may be
     <<16, 12, 0, 4, 72, 84, 84, 80, 4, 2, 0, 60, 0, 0>>,   \* not MQTT
     <<16, 4>> \o Field(MQTT) \o <<4, 128, 0, 60, 0, 0, 0, 3, A, Dot, 1, 9, 9>>,     \* a length too short
     <<16, 20, 0, 4, 77, 81, 84, 84, 5, 2, 0, 60, 128, 128, 128, 0>> \o Long(6)}
=============================================================================
