---------------------------- MODULE MCPacketBuffer ----------------------------
EXTENDS PacketBuffer

(* Bytes of four values: an int is 8 bits wide, a short string is overlong *)
(* from 16 bytes on.                                                       *)
Text(n) == [i \in 1 .. n |-> 1 + (i % 3)]

SmallFields ==
    {[type |-> "tiny", value |-> <<v>>] : v \in {1, 3}}
    \cup {[type |-> "short", value |-> <<v>>] : v \in {7, -1}}
    \cup {[type |-> "int", value |-> <<v>>] : v \in {-128, 100}}
    \cup {[type |-> "big", value |-> <<v>>] : v \in {-32768, 30000}}
    \cup {[type |-> "char", value |-> Text(n)] : n \in {0, 3}}
    \cup {[type |-> "string", value |-> Text(n)] : n \in {0, 5}}
    \cup {[type |-> "shortstring", value |-> Text(n)] : n \in {2, 17}}

SmallLimits  == {-1, 0, 3, 20}
SmallKinds   == {<<1, 1>>, <<0, 1>>}
SmallForeign == {0, 9, 10, 14, 127, 128, 129, 140, 200, 255}
==============================================================================
