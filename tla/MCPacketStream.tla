---------------------------- MODULE MCPacketStream ----------------------------
(* Three packets with bodies of 0, 1 and 3 bytes, behind headers of two    *)
(* bytes; the longest body needs two write() calls.                        *)
EXTENDS PacketStream

MCBodySizes == {0, 1, 3}
==============================================================================
