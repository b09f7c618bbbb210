----------------------------- MODULE PacketStream -----------------------------
(***************************************************************************)
(* CPacket::SendPacket and CPacket::ReceivePacket (Packet.cpp) at the two  *)
(* ends of a TCP connection that delivers bytes in pieces of any size.     *)
(*                                                                         *)
(* SendPacket writes the header with one write() and the body with as many *)
(* as it takes; ReceivePacket reads the header with one read() that must   *)
(* return all of it, and the body with as many as it takes.  The module    *)
(* asks whether packets survive every way of cutting the stream up.        *)
(***************************************************************************)
EXTENDS Naturals, Sequences

CONSTANTS
    HeaderSize,     \* 10 in the code
    PacketSize,     \* most bytes of one write() of the body, PACKET_SIZE
    BodySizes,      \* lengths of the bodies that are sent
    MaxSent         \* bound of the model: packets sent on the connection

ASSUME SizeAssumption ==
    /\ HeaderSize \in Nat \ {0}
    /\ PacketSize \in Nat \ {0}
    /\ BodySizes \subseteq Nat
    /\ MaxSent \in Nat

(* A packet, its bytes on the wire, and the part of them that is header.   *)
(* A byte is known by its packet and its place in it.                      *)
Packets   == [id : 1 .. MaxSent, size : BodySizes]
Frame(p)  == [i \in 1 .. HeaderSize + p.size |-> [packet |-> p, at |-> i]]
Header(p) == SubSeq(Frame(p), 1, HeaderSize)

VARIABLES
    sending,    \* the packet SendPacket is busy with, or <<>>
    total,      \* totalsend: bytes of its body already written
    pipe,       \* bytes written and not yet read
    open,       \* the connection still works
    reading,    \* where ReceivePacket is
    length,     \* m_nDataLength
    head,       \* the header it has read
    data,       \* the first m_nDataPointer bytes of m_strData
    sent,       \* frames of the packets SendPacket returned TRUE for
    rcvd        \* and those ReceivePacket returned TRUE for

sender   == <<sending, total, sent>>
receiver == <<reading, length, head, data, rcvd>>
vars     == <<sender, receiver, pipe, open>>

Min2(a, b) == IF a < b THEN a ELSE b
Drop(s, n) == SubSeq(s, n + 1, Len(s))

Bytes == [packet : Packets, at : Nat]

TypeOK ==
    /\ sending \in Packets \cup {<<>>}
    /\ sending = <<>> => total = 0
    /\ sending # <<>> => total \in 0 .. sending.size - 1
    /\ pipe \in Seq(Bytes)
    /\ open \in BOOLEAN
    /\ reading \in {"header", "body", "failed"}
    /\ length \in BodySizes \cup {0}
    /\ head \in Seq(Bytes) /\ data \in Seq(Bytes)
    /\ reading = "body" => Len(head) = HeaderSize /\ Len(data) < length
    /\ sent \in Seq(Seq(Bytes)) /\ rcvd \in Seq(Seq(Bytes))

Init ==
    /\ sending = <<>> /\ total = 0 /\ sent = <<>>
    /\ reading = "header" /\ length = 0 /\ head = <<>> /\ data = <<>> /\ rcvd = <<>>
    /\ pipe = <<>>
    /\ open = TRUE
------------------------------------------------------------------------------
(* m more bytes of the body of p have been written: SendPacket goes on, or *)
(* returns TRUE.                                                           *)
Written(p, m) ==
    IF m = p.size
    THEN sending' = <<>> /\ total' = 0 /\ sent' = Append(sent, Frame(p))
    ELSE sending' = p /\ total' = m /\ UNCHANGED sent

(* Faulty variant of the next definition, used by no specification: the    *)
(* length of the packet is taken for the length of its body.               *)
AnnouncedForgetsHeader(h) ==
    IF \E p \in Packets : h = Header(p) THEN {h[1].packet.size + HeaderSize} ELSE BodySizes

(* What a header makes ReceivePacket expect.  If the bytes are not those   *)
(* of a header they may say anything.                                      *)
Announced(h) ==
    IF \E p \in Packets : h = Header(p) THEN {h[1].packet.size} ELSE BodySizes

(* The header h and the n announced bytes d of the body have been read as  *)
(* far as they go: ReceivePacket goes on, or returns TRUE.                 *)
Read(h, n, d) ==
    IF Len(d) = n
    THEN /\ rcvd' = Append(rcvd, h \o d)
         /\ reading' = "header" /\ length' = 0 /\ head' = <<>> /\ data' = <<>>
    ELSE /\ reading' = "body" /\ length' = n /\ head' = h /\ data' = d
         /\ UNCHANGED rcvd

(* Faulty variants of the steps below; no specification uses them.         *)

(* totalsend advances by what was asked for, not by what was written.      *)
SendBodyIgnoresShort ==
    /\ open /\ sending # <<>>
    /\ LET n == Min2(PacketSize, sending.size - total)
           at == HeaderSize + total
       IN  /\ \E m \in 1 .. n : pipe' = pipe \o SubSeq(Frame(sending), at + 1, at + m)
           /\ Written(sending, total + n)
    /\ UNCHANGED <<receiver, open>>

(* Every read() of the body asks for all of it again.                      *)
ReadBodyAsksForAll ==
    /\ reading = "body"
    /\ \E m \in 1 .. Min2(length, Len(pipe)) :
          /\ pipe' = Drop(pipe, m)
          /\ LET d == data \o SubSeq(pipe, 1, m)
             IN  Read(head, IF Len(d) > length THEN Len(d) ELSE length, d)
    /\ UNCHANGED <<sender, open>>
------------------------------------------------------------------------------
SendHeader ==
    /\ open /\ sending = <<>> /\ Len(sent) < MaxSent
    /\ \E n \in BodySizes :
          LET p == [id |-> Len(sent) + 1, size |-> n]
          IN  /\ pipe' = pipe \o Header(p)
              /\ Written(p, 0)
    /\ UNCHANGED <<receiver, open>>

(* One write() of the body, which may write less than it was given.        *)
SendBody ==
    /\ open /\ sending # <<>>
    /\ \E m \in 1 .. Min2(PacketSize, sending.size - total) :
          LET at == HeaderSize + total
          IN  /\ pipe' = pipe \o SubSeq(Frame(sending), at + 1, at + m)
              /\ Written(sending, total + m)
    /\ UNCHANGED <<receiver, open>>

(* A header is accepted only if one read() returns all of it; the caller   *)
(* of a failed ReceivePacket closes the connection.                        *)
ReadHeader ==
    /\ reading = "header"
    /\ \E m \in 1 .. Min2(HeaderSize, Len(pipe)) :
          /\ pipe' = Drop(pipe, m)
          /\ LET h == SubSeq(pipe, 1, m)
             IN  IF m = HeaderSize
                 THEN /\ \E n \in Announced(h) : Read(h, n, <<>>)
                      /\ UNCHANGED open
                 ELSE /\ reading' = "failed"
                      /\ open' = FALSE
                      /\ UNCHANGED <<length, head, data, rcvd>>
    /\ UNCHANGED sender

ReadBody ==
    /\ reading = "body"
    /\ \E m \in 1 .. Min2(length - Len(data), Len(pipe)) :
          /\ pipe' = Drop(pipe, m)
          /\ Read(head, length, data \o SubSeq(pipe, 1, m))
    /\ UNCHANGED <<sender, open>>

(* read() returns 0 or an error.                                           *)
ReadNothing ==
    /\ reading \in {"header", "body"} /\ pipe = <<>> /\ ~ open
    /\ reading' = "failed"
    /\ UNCHANGED <<length, head, data, rcvd, sender, pipe, open>>

(* SendPacket returns FALSE: write() took less than the whole header, or   *)
(* nothing at all.  The caller closes the connection.                      *)
SendFails ==
    /\ open /\ Len(sent) < MaxSent
    /\ open' = FALSE
    /\ IF sending = <<>>
       THEN \E n \in BodySizes, m \in 0 .. HeaderSize - 1 :
                pipe' = pipe \o SubSeq(Header([id |-> Len(sent) + 1, size |-> n]), 1, m)
       ELSE UNCHANGED pipe
    /\ UNCHANGED <<sender, receiver>>

(* The connection breaks, or is closed between two packets.  With SO_LINGER *)
(* at 0 close() may drop what is on its way.                               *)
Break ==
    /\ open
    /\ open' = FALSE
    /\ \E m \in 0 .. Len(pipe) : pipe' = SubSeq(pipe, 1, m)
    /\ UNCHANGED <<sender, receiver>>
------------------------------------------------------------------------------
Sender   == SendHeader \/ SendBody
Receiver == ReadHeader \/ ReadBody \/ ReadNothing

Next == Sender \/ SendFails \/ Receiver \/ Break

(* Neither end stops while it can go on: SendPacket and ReceivePacket loop *)
(* until they are done or fail.                                            *)
Fairness == WF_vars(Sender) /\ WF_vars(Receiver)

Spec == Init /\ [][Next]_vars /\ Fairness
------------------------------------------------------------------------------
(* However reads and writes cut the stream up, ReceivePacket returns the   *)
(* packets that were sent: none is lost in between, split, merged with     *)
(* the next or made up from the middle of another.                         *)
Channel == INSTANCE PacketChannel WITH Frames <- {Frame(p) : p \in Packets}

ImplementsChannel == Channel!Spec

(* ReceivePacket looks for a header only where one begins, and what it has *)
(* of a body belongs to the header it read.                                *)
InFrame ==
    /\ reading = "header" /\ pipe # <<>> => pipe[1].at = 1
    /\ reading = "body" =>
          LET p == head[1].packet
          IN  /\ length = p.size
              /\ head \o data = SubSeq(Frame(p), 1, HeaderSize + Len(data))
              /\ pipe # <<>> => pipe[1] = Frame(p)[HeaderSize + Len(data) + 1]

(* As long as the connection holds and no header arrives in two pieces,    *)
(* every packet arrives.                                                   *)
Delivers == []open => <>(Len(rcvd) = MaxSent)
==============================================================================
