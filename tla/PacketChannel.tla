---------------------------- MODULE PacketChannel ----------------------------
(***************************************************************************)
(* What SendPacket and ReceivePacket promise together: the packets that    *)
(* come out are those that went in, whole, in order, each once, up to the  *)
(* point where the connection fails.                                       *)
(***************************************************************************)
EXTENDS Naturals, Sequences

CONSTANT Frames     \* the packets, as they look on the wire

VARIABLES
    sent,       \* packets SendPacket has returned TRUE for
    rcvd,       \* packets ReceivePacket has returned TRUE for
    open        \* the connection works

vars == <<sent, rcvd, open>>

Init == sent = <<>> /\ rcvd = <<>> /\ open = TRUE

Send ==
    /\ open
    /\ \E f \in Frames : sent' = Append(sent, f)
    /\ UNCHANGED <<rcvd, open>>

Receive ==
    /\ Len(rcvd) < Len(sent)
    /\ rcvd' = Append(rcvd, sent[Len(rcvd) + 1])
    /\ UNCHANGED <<sent, open>>

Fail ==
    /\ open' = FALSE
    /\ UNCHANGED <<sent, rcvd>>

Next == Send \/ Receive \/ Fail

Spec == Init /\ [][Next]_vars
==============================================================================
