--------------------------- MODULE PacketStreamProofs ---------------------------
(* Proofs about SendPacket and ReceivePacket, for packets of any size and  *)
(* any way of cutting the stream up.                                       *)
EXTENDS PacketStream, SequenceTheorems, TLAPS

(* The bytes of a packet on the wire.                                      *)
Size(p) == HeaderSize + p.size

(* Every byte has its place in its packet, the packet goes on after it,    *)
(* and after its last byte comes the first of the next.                    *)
Placed(s) == \A i \in 1 .. Len(s) : s[i].at \in 1 .. Size(s[i].packet)

GoesOn(s) ==
    \A i, j \in 1 .. Len(s) : i <= j /\ s[i].at + (j - i) <= Size(s[i].packet) =>
        s[j].packet = s[i].packet /\ s[j].at = s[i].at + (j - i)

NextBegins(s) ==
    \A i, j \in 1 .. Len(s) : i <= j /\ s[i].at + (j - i) = Size(s[i].packet) + 1 =>
        s[j].at = 1 /\ s[j].packet.id = s[i].packet.id + 1

Chain(s) == Placed(s) /\ GoesOn(s) /\ NextBegins(s)

(* After s comes the byte at place a + 1 of the packet with number n.      *)
Before(s, n, a) ==
    \A i \in 1 .. Len(s) :
        /\ s[i].at + (Len(s) - i) < Size(s[i].packet) =>
               s[i].packet.id = n /\ s[i].at + (Len(s) - i) = a
        /\ s[i].at + (Len(s) - i) = Size(s[i].packet) => a = 0 /\ n = s[i].packet.id + 1
------------------------------------------------------------------------------
(* The numbers of a packet.                                                *)
LEMMA PacketNumbers ==
    ASSUME NEW p \in Packets
    PROVE  /\ p # <<>> /\ p.id \in Nat /\ p.id >= 1 /\ p.id <= MaxSent
           /\ p.size \in BodySizes /\ p.size \in Nat
           /\ Size(p) \in Nat /\ Size(p) >= HeaderSize /\ HeaderSize \in Nat /\ HeaderSize >= 1
<1>1. p.id \in 1 .. MaxSent /\ p.size \in BodySizes /\ p.size \in Nat
  BY SizeAssumption DEF Packets
<1>2. DOMAIN p = {"id", "size"} /\ DOMAIN <<>> = {}
  BY DEF Packets
<1>3. p # <<>>
  BY <1>2
<1> QED
  BY <1>1, <1>3, SizeAssumption DEF Size

(* A byte is its packet and its place.                                     *)
LEMMA ByteFields ==
    ASSUME NEW b \in Bytes
    PROVE  b.packet \in Packets /\ b.at \in Nat /\ b = [packet |-> b.packet, at |-> b.at]
BY DEF Bytes

(* The frame of a packet, and what a read or a write takes from it.        *)
LEMMA FrameBytes ==
    ASSUME NEW p \in Packets
    PROVE  /\ Frame(p) \in Seq(Bytes) /\ Len(Frame(p)) = Size(p)
           /\ \A i \in 1 .. Size(p) : Frame(p)[i] = [packet |-> p, at |-> i]
<1>1. Size(p) \in Nat
  BY PacketNumbers
<1>2. Frame(p) = [i \in 1 .. Size(p) |-> [packet |-> p, at |-> i]]
  BY DEF Frame, Size
<1>3. \A i \in 1 .. Size(p) : [packet |-> p, at |-> i] \in Bytes
  BY <1>1 DEF Bytes
<1> QED
  BY <1>1, <1>2, <1>3

(* What a read or a write takes from the middle of a frame.                *)
LEMMA Piece ==
    ASSUME NEW p \in Packets, NEW a \in Nat, NEW m \in Nat, a + m <= Size(p)
    PROVE  /\ SubSeq(Frame(p), a + 1, a + m) \in Seq(Bytes)
           /\ Len(SubSeq(Frame(p), a + 1, a + m)) = m
           /\ \A k \in 1 .. m :
                SubSeq(Frame(p), a + 1, a + m)[k] = [packet |-> p, at |-> a + k]
<1> DEFINE f == Frame(p)
           first == a + 1
           last == a + m
<1>1. Size(p) \in Nat /\ first \in Int /\ last \in Int
  BY PacketNumbers
<1>2. \A i \in first .. last : f[i] \in Bytes /\ f[i] = [packet |-> p, at |-> i]
  <2> SUFFICES ASSUME NEW i \in first .. last
               PROVE  f[i] \in Bytes /\ f[i] = [packet |-> p, at |-> i]
    OBVIOUS
  <2>1. i \in 1 .. Size(p) /\ i \in Nat
    BY <1>1
  <2> QED
    BY <2>1, FrameBytes DEF Bytes
<1> HIDE DEF f, first, last
<1>3. /\ SubSeq(f, first, last) \in Seq(Bytes)
      /\ Len(SubSeq(f, first, last)) = IF first <= last THEN last - first + 1 ELSE 0
      /\ \A i \in 1 .. last - first + 1 : SubSeq(f, first, last)[i] = f[first + i - 1]
  <2>1. \A i \in first .. last : f[i] \in Bytes
    BY <1>2
  <2> QED
    BY <1>1, <2>1, SubSeqProperties
<1>4. Len(SubSeq(f, first, last)) = m
  BY <1>3 DEF first, last
<1>5. ASSUME NEW k \in 1 .. m
      PROVE  SubSeq(f, first, last)[k] = [packet |-> p, at |-> a + k]
  <2>1. k \in 1 .. last - first + 1 /\ first + k - 1 = a + k /\ a + k \in first .. last
    BY DEF first, last
  <2> QED
    BY <1>2, <1>3, <2>1
<1> QED
  BY <1>3, <1>4, <1>5 DEF f, first, last

(* What is left of a stream after a read.                                  *)
LEMMA Dropped ==
    ASSUME NEW s \in Seq(Bytes), NEW m \in 0 .. Len(s)
    PROVE  /\ Drop(s, m) \in Seq(Bytes) /\ Len(Drop(s, m)) = Len(s) - m
           /\ \A i \in 1 .. Len(s) - m : Drop(s, m)[i] = s[i + m]
<1>1. Len(s) \in Nat /\ \A i \in m + 1 .. Len(s) : s[i] \in Bytes
  BY ElementOfSeq, LenProperties
<1>2. /\ SubSeq(s, m + 1, Len(s)) \in Seq(Bytes)
      /\ Len(SubSeq(s, m + 1, Len(s))) = IF m + 1 <= Len(s) THEN Len(s) - (m + 1) + 1 ELSE 0
      /\ \A i \in 1 .. Len(s) - (m + 1) + 1 : SubSeq(s, m + 1, Len(s))[i] = s[m + 1 + i - 1]
  BY <1>1, SubSeqProperties
<1>3. \A i \in 1 .. Len(s) - m : SubSeq(s, m + 1, Len(s))[i] = s[i + m]
  <2> SUFFICES ASSUME NEW i \in 1 .. Len(s) - m PROVE SubSeq(s, m + 1, Len(s))[i] = s[i + m]
    OBVIOUS
  <2>1. i \in 1 .. Len(s) - (m + 1) + 1 /\ m + 1 + i - 1 = i + m
    BY <1>1
  <2> QED
    BY <1>2, <2>1
<1> QED
  BY <1>1, <1>2, <1>3 DEF Drop

(* And what a read takes.                                                  *)
LEMMA Taken ==
    ASSUME NEW s \in Seq(Bytes), NEW m \in 0 .. Len(s)
    PROVE  /\ SubSeq(s, 1, m) \in Seq(Bytes) /\ Len(SubSeq(s, 1, m)) = m
           /\ \A i \in 1 .. m : SubSeq(s, 1, m)[i] = s[i]
<1>1. Len(s) \in Nat /\ \A i \in 1 .. m : s[i] \in Bytes
  BY ElementOfSeq, LenProperties
<1>2. /\ SubSeq(s, 1, m) \in Seq(Bytes)
      /\ Len(SubSeq(s, 1, m)) = IF 1 <= m THEN m - 1 + 1 ELSE 0
      /\ \A i \in 1 .. m - 1 + 1 : SubSeq(s, 1, m)[i] = s[1 + i - 1]
  BY <1>1, SubSeqProperties
<1> QED
  BY <1>1, <1>2

(* The numbers of the bytes of a stream.                                   *)
LEMMA StreamNumbers ==
    ASSUME NEW s \in Seq(Bytes)
    PROVE  /\ Len(s) \in Nat
           /\ \A i \in 1 .. Len(s) :
                /\ s[i].packet \in Packets /\ s[i].at \in Nat
                /\ Size(s[i].packet) \in Nat /\ s[i].packet.id \in Nat
<1>1. Len(s) \in Nat
  BY LenProperties
<1> SUFFICES ASSUME NEW i \in 1 .. Len(s)
             PROVE  /\ s[i].packet \in Packets /\ s[i].at \in Nat
                    /\ Size(s[i].packet) \in Nat /\ s[i].packet.id \in Nat
  BY <1>1
<1>2. s[i].packet \in Packets /\ s[i].at \in Nat
  BY ElementOfSeq, ByteFields
<1> QED
  BY <1>2, PacketNumbers

(* A read leaves a chain and takes one.                                    *)
LEMMA ChainDropped ==
    ASSUME NEW s \in Seq(Bytes), NEW m \in 0 .. Len(s), Chain(s)
    PROVE  Chain(Drop(s, m)) /\ \A n, a \in Nat : Before(s, n, a) => Before(Drop(s, m), n, a)
<1> DEFINE d == Drop(s, m)
<1>1. d \in Seq(Bytes) /\ Len(d) = Len(s) - m /\ \A i \in 1 .. Len(s) - m : d[i] = s[i + m]
  BY Dropped
<1>2. Len(s) \in Nat /\ m \in Nat
  BY StreamNumbers
<1> HIDE DEF d
<1>3. Placed(d)
  <2> SUFFICES ASSUME NEW i \in 1 .. Len(d) PROVE d[i].at \in 1 .. Size(d[i].packet)
    BY DEF Placed
  <2>1. d[i] = s[i + m] /\ i + m \in 1 .. Len(s)
    BY <1>1, <1>2
  <2> QED
    BY <2>1 DEF Chain, Placed
<1>4. GoesOn(d)
  <2> SUFFICES ASSUME NEW i \in 1 .. Len(d), NEW j \in 1 .. Len(d), i <= j,
                      d[i].at + (j - i) <= Size(d[i].packet)
               PROVE  d[j].packet = d[i].packet /\ d[j].at = d[i].at + (j - i)
    BY DEF GoesOn
  <2>1. /\ d[i] = s[i + m] /\ d[j] = s[j + m] /\ i + m <= j + m
        /\ i + m \in 1 .. Len(s) /\ j + m \in 1 .. Len(s) /\ (j + m) - (i + m) = j - i
    BY <1>1, <1>2
  <2> QED
    BY <2>1 DEF Chain, GoesOn
<1>5. NextBegins(d)
  <2> SUFFICES ASSUME NEW i \in 1 .. Len(d), NEW j \in 1 .. Len(d), i <= j,
                      d[i].at + (j - i) = Size(d[i].packet) + 1
               PROVE  d[j].at = 1 /\ d[j].packet.id = d[i].packet.id + 1
    BY DEF NextBegins
  <2>1. /\ d[i] = s[i + m] /\ d[j] = s[j + m] /\ i + m <= j + m
        /\ i + m \in 1 .. Len(s) /\ j + m \in 1 .. Len(s) /\ (j + m) - (i + m) = j - i
    BY <1>1, <1>2
  <2> QED
    BY <2>1 DEF Chain, NextBegins
<1>6. ASSUME NEW n \in Nat, NEW a \in Nat, Before(s, n, a)
      PROVE  Before(d, n, a)
  <2> SUFFICES ASSUME NEW i \in 1 .. Len(d)
               PROVE  /\ d[i].at + (Len(d) - i) < Size(d[i].packet) =>
                           d[i].packet.id = n /\ d[i].at + (Len(d) - i) = a
                      /\ d[i].at + (Len(d) - i) = Size(d[i].packet) =>
                           a = 0 /\ n = d[i].packet.id + 1
    BY DEF Before
  <2>1. d[i] = s[i + m] /\ i + m \in 1 .. Len(s) /\ Len(s) - (i + m) = Len(d) - i
    BY <1>1, <1>2
  <2> QED
    BY <1>6, <2>1 DEF Before
<1> QED
  BY <1>3, <1>4, <1>5, <1>6 DEF Chain, d

(* The beginning of a chain of bytes is one.                               *)
LEMMA ChainTaken ==
    ASSUME NEW s \in Seq(Bytes), NEW m \in 0 .. Len(s), Chain(s)
    PROVE  Chain(SubSeq(s, 1, m))
<1> DEFINE d == SubSeq(s, 1, m)
<1>1. d \in Seq(Bytes) /\ Len(d) = m /\ \A i \in 1 .. m : d[i] = s[i]
  BY Taken
<1>2. Len(s) \in Nat /\ \A i \in 1 .. m : i \in 1 .. Len(s)
  BY StreamNumbers
<1> HIDE DEF d
<1>3. Placed(d)
  BY <1>1, <1>2 DEF Chain, Placed
<1>4. GoesOn(d)
  <2>1. \A i, j \in 1 .. m : i \in 1 .. Len(s) /\ j \in 1 .. Len(s) /\ d[i] = s[i] /\ d[j] = s[j]
    BY <1>1, <1>2
  <2> QED
    BY <1>1, <2>1 DEF Chain, GoesOn
<1>5. NextBegins(d)
  <2>1. \A i, j \in 1 .. m : i \in 1 .. Len(s) /\ j \in 1 .. Len(s) /\ d[i] = s[i] /\ d[j] = s[j]
    BY <1>1, <1>2
  <2> QED
    BY <1>1, <2>1 DEF Chain, NextBegins
<1> QED
  BY <1>3, <1>4, <1>5 DEF Chain, d

(* A write of the next piece of a packet continues a stream.               *)
Continues(s, p, a) ==
    /\ Before(s, p.id, a)
    /\ \A i \in 1 .. Len(s) : s[i].packet.id = p.id => s[i].packet = p

IsPiece(t, p, a, m) ==
    /\ t \in Seq(Bytes) /\ Len(t) = m
    /\ \A k \in 1 .. m : t[k] = [packet |-> p, at |-> a + k]

Continued(s, d, p, a, m) ==
    /\ d \in Seq(Bytes) /\ Len(d) = Len(s) + m
    /\ \A i \in 1 .. Len(s) : d[i] = s[i]
    /\ \A i \in Len(s) + 1 .. Len(s) + m : d[i] = [packet |-> p, at |-> a + (i - Len(s))]
    /\ Chain(d)
    /\ m > 0 /\ a + m < Size(p) => Before(d, p.id, a + m)
    /\ m > 0 /\ a + m = Size(p) => Before(d, p.id + 1, 0)

(* A place of a packet of z bytes that is written is not after its end.    *)
LEMMA PastTheEnd ==
    ASSUME NEW x \in Nat, NEW z \in Nat, NEW l \in Nat, NEW i \in Nat, NEW j \in Nat,
           NEW a \in Nat, NEW m \in Nat,
           x + (l - i) = a, x + (j - i) = z + 1, j <= l + m, a + m <= z
    PROVE  FALSE
OBVIOUS

(* A chain goes on with bytes that belong after it.                        *)
LEMMA ChainWritten ==
    ASSUME NEW s \in Seq(Bytes), NEW t \in Seq(Bytes), NEW p \in Packets,
           NEW a \in Nat, NEW m \in Nat, a + m <= Size(p),
           Chain(s), Continues(s, p, a), IsPiece(t, p, a, m)
    PROVE  Continued(s, s \o t, p, a, m)
<1>0. /\ Before(s, p.id, a) /\ Len(t) = m
      /\ \A i \in 1 .. Len(s) : s[i].packet.id = p.id => s[i].packet = p
      /\ \A k \in 1 .. m : t[k] = [packet |-> p, at |-> a + k]
  BY DEF Continues, IsPiece
<1> DEFINE d == s \o t
<1>1. Size(p) \in Nat /\ p.id \in Nat
  BY PacketNumbers
<1>2. /\ Len(s) \in Nat
      /\ \A i \in 1 .. Len(s) : /\ s[i].at \in Nat
                                /\ Size(s[i].packet) \in Nat /\ s[i].packet.id \in Nat
  BY StreamNumbers
<1>3. /\ d \in Seq(Bytes) /\ Len(d) = Len(s) + m
      /\ \A i \in 1 .. Len(s) + m : d[i] = IF i <= Len(s) THEN s[i] ELSE t[i - Len(s)]
  BY <1>0, ConcatProperties
<1> HIDE DEF d
<1>4. \A i \in 1 .. Len(s) : d[i] = s[i]
  BY <1>2, <1>3
<1>5. \A i \in Len(s) + 1 .. Len(s) + m : d[i] = [packet |-> p, at |-> a + (i - Len(s))]
  <2> SUFFICES ASSUME NEW i \in Len(s) + 1 .. Len(s) + m
               PROVE  d[i] = [packet |-> p, at |-> a + (i - Len(s))]
    OBVIOUS
  <2>1. i \in 1 .. Len(s) + m /\ ~ (i <= Len(s)) /\ i - Len(s) \in 1 .. m
    BY <1>2
  <2> QED
    BY <1>0, <1>3, <2>1
<1>6. \A i \in Len(s) + 1 .. Len(s) + m : d[i].packet = p /\ d[i].at = a + (i - Len(s))
  <2> SUFFICES ASSUME NEW i \in Len(s) + 1 .. Len(s) + m
               PROVE  d[i].packet = p /\ d[i].at = a + (i - Len(s))
    OBVIOUS
  <2>1. d[i] = [packet |-> p, at |-> a + (i - Len(s))]
    BY <1>5
  <2> QED
    BY <2>1
<1>7. \A i \in 1 .. Len(d) : i \in 1 .. Len(s) \/ i \in Len(s) + 1 .. Len(s) + m
  BY <1>2, <1>3
<1>8. Placed(d)
  <2> SUFFICES ASSUME NEW i \in 1 .. Len(d) PROVE d[i].at \in 1 .. Size(d[i].packet)
    BY DEF Placed
  <2>1. CASE i \in 1 .. Len(s)
    BY <1>4, <2>1 DEF Chain, Placed
  <2>2. CASE i \in Len(s) + 1 .. Len(s) + m
    BY <1>1, <1>2, <1>6, <2>2
  <2> QED
    BY <1>7, <2>1, <2>2
<1>9. GoesOn(d)
  <2> SUFFICES ASSUME NEW i \in 1 .. Len(d), NEW j \in 1 .. Len(d), i <= j,
                      d[i].at + (j - i) <= Size(d[i].packet)
               PROVE  d[j].packet = d[i].packet /\ d[j].at = d[i].at + (j - i)
    BY DEF GoesOn
  <2>1. CASE j \in 1 .. Len(s)
    <3>1. i \in 1 .. Len(s)
      BY <1>2, <2>1
    <3> QED
      BY <1>4, <2>1, <3>1 DEF Chain, GoesOn
  <2>2. CASE i \in 1 .. Len(s) /\ j \in Len(s) + 1 .. Len(s) + m
    <3>1. s[i].at + (Len(s) - i) < Size(s[i].packet)
      <4> DEFINE x == s[i].at
                 z == Size(s[i].packet)
                 l == Len(s)
      <4>1. d[i] = s[i]
        BY <1>4, <2>2
      <4>2. x \in Nat /\ z \in Nat /\ l \in Nat /\ i \in Nat /\ j \in Nat /\ j > l
            /\ x + (j - i) <= z
        BY <1>2, <2>2, <4>1
      <4> HIDE DEF x, z, l
      <4>3. x + (l - i) < z
        BY <4>2
      <4> QED
        BY <4>3 DEF x, z, l
    <3>2. s[i].packet.id = p.id /\ s[i].at + (Len(s) - i) = a
      BY <1>0, <2>2, <3>1 DEF Before
    <3>3. s[i].packet = p /\ d[i] = s[i]
      BY <1>0, <1>4, <2>2, <3>2
    <3>4. d[j].packet = p /\ d[j].at = a + (j - Len(s))
      BY <1>6, <2>2
    <3>5. a + (j - Len(s)) = s[i].at + (j - i)
      <4>1. s[i].at \in Nat /\ i \in Nat /\ j \in Nat /\ Len(s) \in Nat
        BY <1>2, <2>2
      <4> DEFINE x == s[i].at
                 l == Len(s)
      <4>2. x \in Nat /\ l \in Nat /\ x + (l - i) = a
        BY <3>2, <4>1
      <4> HIDE DEF x, l
      <4>3. a + (j - l) = x + (j - i)
        BY <4>1, <4>2
      <4> QED
        BY <4>3 DEF x, l
    <3> QED
      BY <3>3, <3>4, <3>5
  <2>3. CASE i \in Len(s) + 1 .. Len(s) + m /\ j \in Len(s) + 1 .. Len(s) + m
    <3>1. /\ d[i].packet = p /\ d[i].at = a + (i - Len(s))
          /\ d[j].packet = p /\ d[j].at = a + (j - Len(s))
      BY <1>6, <2>3
    <3> DEFINE l == Len(s)
    <3>2. l \in Nat /\ i \in Int /\ j \in Int
      BY <1>2, <2>3
    <3> HIDE DEF l
    <3>3. a + (j - l) = (a + (i - l)) + (j - i)
      BY <3>2
    <3> QED
      BY <3>1, <3>3 DEF l
  <2> QED
    BY <1>2, <1>7, <2>1, <2>2, <2>3
<1>10. NextBegins(d)
  <2> SUFFICES ASSUME NEW i \in 1 .. Len(d), NEW j \in 1 .. Len(d), i <= j,
                      d[i].at + (j - i) = Size(d[i].packet) + 1
               PROVE  d[j].at = 1 /\ d[j].packet.id = d[i].packet.id + 1
    BY DEF NextBegins
  <2>1. CASE j \in 1 .. Len(s)
    <3>1. i \in 1 .. Len(s)
      BY <1>2, <2>1
    <3> QED
      BY <1>4, <2>1, <3>1 DEF Chain, NextBegins
  <2>2. CASE i \in 1 .. Len(s) /\ j \in Len(s) + 1 .. Len(s) + m
    <3>1. d[i] = s[i] /\ d[j].packet = p /\ d[j].at = a + (j - Len(s))
      BY <1>4, <1>6, <2>2
    <3>2. s[i].at + (Len(s) - i) <= Size(s[i].packet)
      <4> DEFINE x == s[i].at
                 z == Size(s[i].packet)
                 l == Len(s)
      <4>1. x \in Nat /\ z \in Nat /\ l \in Nat /\ i \in Nat /\ j \in Nat /\ j > l
            /\ x + (j - i) = z + 1
        BY <1>2, <2>2, <3>1
      <4> HIDE DEF x, z, l
      <4>2. x + (l - i) <= z
        BY <4>1
      <4> QED
        BY <4>2 DEF x, z, l
    <3>3. ~ (s[i].at + (Len(s) - i) < Size(s[i].packet))
      <4> SUFFICES ASSUME s[i].at + (Len(s) - i) < Size(s[i].packet) PROVE FALSE
        OBVIOUS
      <4>1. s[i].packet.id = p.id /\ s[i].at + (Len(s) - i) = a
        BY <1>0, <2>2 DEF Before
      <4>2. s[i].packet = p
        BY <1>0, <2>2, <4>1
      <4>3. s[i].at + (j - i) = Size(p) + 1
        BY <3>1, <4>2
      <4> DEFINE x == s[i].at
                 z == Size(p)
                 l == Len(s)
      <4>4. /\ x \in Nat /\ z \in Nat /\ l \in Nat /\ i \in Nat /\ j \in Nat
            /\ x + (l - i) = a /\ x + (j - i) = z + 1 /\ j <= l + m
        BY <1>1, <1>2, <2>2, <4>1, <4>3
      <4>5. a + m <= z
        OBVIOUS
      <4> HIDE DEF x, z, l
      <4> QED
        BY <4>4, <4>5, PastTheEnd
    <3>7. /\ s[i].at \in Nat /\ Size(s[i].packet) \in Nat
          /\ i \in Nat /\ j \in Nat /\ Len(s) \in Nat /\ j > Len(s)
      <4>1. s[i].at \in Nat /\ Size(s[i].packet) \in Nat
        BY <1>2, <2>2
      <4> DEFINE l == Len(s)
      <4>2. l \in Nat /\ i \in 1 .. l /\ j \in l + 1 .. l + m
        BY <1>2, <2>2
      <4> HIDE DEF l
      <4>3. i \in Nat /\ j \in Nat /\ j > l
        BY <4>2
      <4> QED
        BY <4>1, <4>2, <4>3 DEF l
    <3>4. s[i].at + (Len(s) - i) = Size(s[i].packet)
      <4> DEFINE x == s[i].at + (Len(s) - i)
                 z == Size(s[i].packet)
      <4>1. x \in Int /\ z \in Int /\ x <= z /\ ~ (x < z)
        BY <3>2, <3>3, <3>7
      <4> HIDE DEF x, z
      <4>2. x = z
        BY <4>1
      <4> QED
        BY <4>2 DEF x, z
    <3>5. a = 0 /\ p.id = s[i].packet.id + 1
      BY <1>0, <2>2, <3>4 DEF Before
    <3>6. j = Len(s) + 1
      <4>1. s[i].at + (j - i) = Size(s[i].packet) + 1
        BY <3>1
      <4> DEFINE x == s[i].at
                 z == Size(s[i].packet)
                 l == Len(s)
      <4>2. /\ x \in Nat /\ z \in Nat /\ l \in Nat /\ i \in Nat /\ j \in Nat
            /\ x + (l - i) = z /\ x + (j - i) = z + 1
        BY <3>4, <3>7, <4>1
      <4> HIDE DEF x, z, l
      <4>3. j = l + 1
        BY <4>2
      <4> QED
        BY <4>3 DEF l
    <3> QED
      BY <1>2, <3>1, <3>5, <3>6
  <2>3. CASE i \in Len(s) + 1 .. Len(s) + m /\ j \in Len(s) + 1 .. Len(s) + m
    <3>1. d[i].packet = p /\ d[i].at = a + (i - Len(s))
      BY <1>6, <2>3
    <3> DEFINE l == Len(s)
               z == Size(p)
    <3>2. /\ l \in Nat /\ i \in Int /\ j \in Int /\ z \in Nat /\ j <= l + m
          /\ (a + (i - l)) + (j - i) = z + 1
      BY <1>1, <1>2, <2>3, <3>1
    <3>3. a + m <= z
      OBVIOUS
    <3> HIDE DEF l, z
    <3> QED
      BY <3>2, <3>3
  <2> QED
    BY <1>2, <1>7, <2>1, <2>2, <2>3
<1>11. ASSUME m > 0, NEW n, NEW b,
              \/ a + m < Size(p) /\ n = p.id /\ b = a + m
              \/ a + m = Size(p) /\ n = p.id + 1 /\ b = 0
       PROVE  Before(d, n, b)
  <2> SUFFICES ASSUME NEW i \in 1 .. Len(d)
               PROVE  /\ d[i].at + (Len(d) - i) < Size(d[i].packet) =>
                           d[i].packet.id = n /\ d[i].at + (Len(d) - i) = b
                      /\ d[i].at + (Len(d) - i) = Size(d[i].packet) =>
                           b = 0 /\ n = d[i].packet.id + 1
    BY DEF Before
  <2>1. CASE i \in Len(s) + 1 .. Len(s) + m
    <3>1. d[i].packet = p /\ d[i].at + (Len(d) - i) = a + m
      BY <1>2, <1>3, <1>6, <2>1
    <3> QED
      BY <1>1, <1>11, <3>1
  <2>2. CASE i \in 1 .. Len(s)
    <3>1. d[i] = s[i] /\ d[i].at + (Len(d) - i) = s[i].at + (Len(s) - i) + m
      <4> DEFINE x == s[i].at
                 l == Len(s)
      <4>1. d[i] = s[i] /\ Len(d) = l + m /\ x \in Nat /\ l \in Nat /\ i \in Nat
        BY <1>2, <1>3, <1>4, <2>2
      <4>2. d[i].at = x
        BY <4>1
      <4> HIDE DEF x, l
      <4>3. x + ((l + m) - i) = x + (l - i) + m
        BY <4>1
      <4> QED
        BY <4>1, <4>2, <4>3 DEF x, l
    <3>2. CASE s[i].at + (Len(s) - i) < Size(s[i].packet)
      <4>1. s[i].packet = p /\ s[i].at + (Len(s) - i) = a
        BY <1>0, <2>2, <3>2 DEF Before
      <4>2. d[i].packet = p /\ d[i].at + (Len(d) - i) = a + m
        BY <1>2, <3>1, <4>1
      <4> QED
        BY <1>1, <1>11, <4>2
    <3>3. CASE ~ (s[i].at + (Len(s) - i) < Size(s[i].packet))
      <4>1. s[i].at + (Len(s) - i) + m > Size(s[i].packet)
        BY <1>2, <1>11, <2>2, <3>3
      <4>2. s[i].at \in Nat /\ Size(s[i].packet) \in Nat /\ i \in Nat /\ Len(s) \in Nat
        BY <1>2, <2>2
      <4>3. /\ ~ (d[i].at + (Len(d) - i) < Size(d[i].packet))
            /\ ~ (d[i].at + (Len(d) - i) = Size(d[i].packet))
        BY <3>1, <4>1, <4>2
      <4> QED
        BY <4>3
    <3> QED
      BY <3>2, <3>3
  <2> QED
    BY <1>7, <2>1, <2>2
<1>12. m > 0 /\ a + m < Size(p) => Before(d, p.id, a + m)
  BY <1>11
<1>13. m > 0 /\ a + m = Size(p) => Before(d, p.id + 1, 0)
  BY <1>11
<1> QED
  BY <1>3, <1>4, <1>5, <1>8, <1>9, <1>10, <1>12, <1>13 DEF Chain, Continued, d
------------------------------------------------------------------------------
(* The byte at this place of p is of a packet that has been sent, or of    *)
(* the one being sent, which is not complete yet.                          *)
Known(p, at) ==
    \/ p.id <= Len(sent) /\ sent[p.id] = Frame(p)
    \/ p.id = Len(sent) + 1 /\ at < Size(p) /\ (open => sending = p)

Sending ==
    /\ Len(sent) <= MaxSent
    /\ sending # <<>> => sending.id = Len(sent) + 1

(* The stream is a piece of the packets in the order they are sent, and    *)
(* ends where SendPacket goes on.                                          *)
Piped ==
    /\ Chain(pipe)
    /\ \A i \in 1 .. Len(pipe) : Known(pipe[i].packet, pipe[i].at)
    /\ open /\ sending = <<>> => Before(pipe, Len(sent) + 1, 0)
    /\ open /\ sending # <<>> => Before(pipe, sending.id, HeaderSize + total)

(* And it begins where ReceivePacket goes on.                              *)
AtHeader ==
    /\ pipe # <<>> => pipe[1].at = 1 /\ pipe[1].packet.id = Len(rcvd) + 1
    /\ pipe = <<>> /\ open => sending = <<>> /\ Len(rcvd) = Len(sent)

InBody(p) ==
    /\ length = p.size /\ p.id = Len(rcvd) + 1
    /\ head \o data = SubSeq(Frame(p), 1, HeaderSize + Len(data))
    /\ Known(p, HeaderSize + Len(data))
    /\ pipe # <<>> => pipe[1] = [packet |-> p, at |-> HeaderSize + Len(data) + 1]
    /\ pipe = <<>> /\ open => sending = p /\ total = Len(data)

Reading ==
    /\ Len(rcvd) <= Len(sent) /\ \A k \in 1 .. Len(rcvd) : rcvd[k] = sent[k]
    /\ reading = "header" => AtHeader
    /\ reading = "body" => \E p \in Packets : InBody(p)
    /\ open => reading # "failed"

IInv == TypeOK /\ Sending /\ Piped /\ Reading
------------------------------------------------------------------------------
(* Nothing has been sent at first.                                         *)
LEMMA InitInv == Init => IInv
<1> SUFFICES ASSUME Init PROVE IInv
  OBVIOUS
<1>1. /\ sending = <<>> /\ total = 0 /\ sent = <<>> /\ reading = "header" /\ length = 0
      /\ head = <<>> /\ data = <<>> /\ rcvd = <<>> /\ pipe = <<>>
  BY DEF Init
<1>2. Len(<<>>) = 0 /\ <<>> \in Seq(Bytes) /\ <<>> \in Seq(Seq(Bytes))
  BY EmptySeq
<1>3. open \in BOOLEAN
  BY DEF Init
<1>4. TypeOK
  BY <1>1, <1>2, <1>3 DEF TypeOK
<1>5. Sending
  BY <1>1, <1>2, SizeAssumption DEF Sending
<1>6. Piped
  BY <1>1, <1>2 DEF Piped, Chain, Placed, GoesOn, NextBegins, Before
<1>7. Reading
  BY <1>1, <1>2 DEF Reading, AtHeader
<1> QED
  BY <1>4, <1>5, <1>6, <1>7 DEF IInv

(* Numbers of the state.                                                   *)
LEMMA StateNumbers ==
    ASSUME TypeOK
    PROVE  /\ Len(pipe) \in Nat /\ Len(sent) \in Nat /\ Len(rcvd) \in Nat
           /\ Len(head) \in Nat /\ Len(data) \in Nat /\ length \in Nat
           /\ pipe # <<>> <=> Len(pipe) > 0
           /\ pipe \in Seq(Bytes) /\ head \in Seq(Bytes) /\ data \in Seq(Bytes)
           /\ sent \in Seq(Seq(Bytes)) /\ rcvd \in Seq(Seq(Bytes))
<1>1. /\ pipe \in Seq(Bytes) /\ head \in Seq(Bytes) /\ data \in Seq(Bytes)
      /\ sent \in Seq(Seq(Bytes)) /\ rcvd \in Seq(Seq(Bytes))
  BY DEF TypeOK
<1>2. length \in Nat
  BY SizeAssumption DEF TypeOK
<1>3. pipe # <<>> <=> Len(pipe) > 0
  BY <1>1, EmptySeq
<1> QED
  BY <1>1, <1>2, <1>3, LenProperties

(* What a read of m bytes finds that begins at place c + 1 of packet p.    *)
LEMMA TakePiece ==
    ASSUME IInv, NEW p \in Packets, NEW c \in Nat, NEW m \in 1 .. Len(pipe), c + m <= Size(p),
           pipe[1].packet = p, pipe[1].at = c + 1
    PROVE  /\ SubSeq(pipe, 1, m) = SubSeq(Frame(p), c + 1, c + m)
           /\ Known(p, c + m)
           /\ m < Len(pipe) /\ c + m < Size(p) =>
                pipe[m + 1] = [packet |-> p, at |-> c + m + 1]
           /\ m < Len(pipe) /\ c + m = Size(p) =>
                pipe[m + 1].at = 1 /\ pipe[m + 1].packet.id = p.id + 1
           /\ m = Len(pipe) /\ open /\ c + m < Size(p) =>
                sending = p /\ c + m = HeaderSize + total
           /\ m = Len(pipe) /\ open /\ c + m = Size(p) =>
                sending = <<>> /\ p.id = Len(sent)
<1>1. /\ Len(pipe) \in Nat /\ pipe \in Seq(Bytes) /\ 1 \in 1 .. Len(pipe) /\ m \in Nat
      /\ Size(p) \in Nat /\ p.id \in Nat /\ HeaderSize \in Nat /\ HeaderSize >= 1
      /\ Len(sent) \in Nat
  BY StateNumbers, PacketNumbers DEF IInv
<1>2. Chain(pipe) /\ \A i \in 1 .. Len(pipe) : Known(pipe[i].packet, pipe[i].at)
  BY DEF IInv, Piped
<1>3. ASSUME NEW j \in 1 .. Len(pipe), c + j <= Size(p)
      PROVE  pipe[j].packet = p /\ pipe[j].at = c + j
  <2>1. 1 <= j /\ (c + 1) + (j - 1) = c + j
    BY <1>1
  <2> QED
    BY <1>1, <1>2, <1>3, <2>1 DEF Chain, GoesOn
<1>0. /\ SubSeq(Frame(p), c + 1, c + m) \in Seq(Bytes)
      /\ Len(SubSeq(Frame(p), c + 1, c + m)) = m
      /\ \A i \in 1 .. m : SubSeq(Frame(p), c + 1, c + m)[i] = [packet |-> p, at |-> c + i]
  <2>1. m \in Nat /\ c + m <= Size(p)
    BY <1>1
  <2> QED
    BY <2>1, Piece
<1>4. SubSeq(pipe, 1, m) = SubSeq(Frame(p), c + 1, c + m)
  <2> DEFINE s == SubSeq(pipe, 1, m)
             t == SubSeq(Frame(p), c + 1, c + m)
  <2>1. s \in Seq(Bytes) /\ Len(s) = m /\ \A i \in 1 .. m : s[i] = pipe[i]
    BY <1>1, Taken
  <2>2. t \in Seq(Bytes) /\ Len(t) = m /\ \A i \in 1 .. m : t[i] = [packet |-> p, at |-> c + i]
    BY <1>0
  <2> HIDE DEF s, t
  <2>3. ASSUME NEW i \in 1 .. Len(s) PROVE s[i] = t[i]
    <3>1. i \in 1 .. m /\ i \in 1 .. Len(pipe) /\ c + i <= Size(p)
      BY <1>1, <2>1
    <3>2. pipe[i] \in Bytes
      BY <1>1, <3>1, ElementOfSeq
    <3>3. pipe[i] = [packet |-> p, at |-> c + i]
      BY <1>3, <3>1, <3>2, ByteFields
    <3> QED
      BY <2>1, <2>2, <3>1, <3>3
  <2>4. s = t
    BY <2>1, <2>2, <2>3, SeqEqual
  <2> QED
    BY <2>4 DEF s, t
<1>5. Known(p, c + m)
  BY <1>2, <1>3
<1>6. ASSUME m < Len(pipe), c + m < Size(p)
      PROVE  pipe[m + 1] = [packet |-> p, at |-> c + m + 1]
  <2>1. m + 1 \in 1 .. Len(pipe) /\ c + (m + 1) <= Size(p) /\ c + (m + 1) = c + m + 1
    BY <1>1, <1>6
  <2>2. pipe[m + 1].packet = p /\ pipe[m + 1].at = c + m + 1
    BY <1>3, <2>1
  <2>3. pipe[m + 1] \in Bytes
    BY <1>1, <2>1, ElementOfSeq
  <2> QED
    BY <2>2, <2>3, ByteFields
<1>7. ASSUME m < Len(pipe), c + m = Size(p)
      PROVE  pipe[m + 1].at = 1 /\ pipe[m + 1].packet.id = p.id + 1
  <2>1. m + 1 \in 1 .. Len(pipe) /\ 1 <= m + 1 /\ (c + 1) + ((m + 1) - 1) = Size(p) + 1
    BY <1>1, <1>7
  <2> QED
    BY <1>1, <1>2, <2>1 DEF Chain, NextBegins
<1>8. m = Len(pipe) => (c + 1) + (Len(pipe) - 1) = c + m
  BY <1>1
<1>9. ASSUME m = Len(pipe), open, c + m < Size(p)
      PROVE  sending = p /\ c + m = HeaderSize + total
  <2>1. CASE sending = <<>>
    <3>1. Before(pipe, Len(sent) + 1, 0)
      BY <1>9, <2>1 DEF IInv, Piped
    <3>2. c + m = 0
      BY <1>1, <1>8, <1>9, <3>1 DEF Before
    <3> QED
      BY <1>1, <3>2
  <2>2. CASE sending # <<>>
    <3>1. Before(pipe, sending.id, HeaderSize + total)
      BY <1>9, <2>2 DEF IInv, Piped
    <3>2. p.id = sending.id /\ c + m = HeaderSize + total
      BY <1>1, <1>8, <1>9, <3>1 DEF Before
    <3>3. p.id = Len(sent) + 1
      BY <2>2, <3>2 DEF IInv, Sending
    <3>4. sending = p
      BY <1>1, <1>5, <1>9, <3>3 DEF Known
    <3> QED
      BY <3>2, <3>4
  <2> QED
    BY <2>1, <2>2
<1>10. ASSUME m = Len(pipe), open, c + m = Size(p)
       PROVE  sending = <<>> /\ p.id = Len(sent)
  <2>1. CASE sending = <<>>
    <3>1. Before(pipe, Len(sent) + 1, 0)
      BY <1>10, <2>1 DEF IInv, Piped
    <3>2. Len(sent) + 1 = p.id + 1
      BY <1>1, <1>8, <1>10, <3>1 DEF Before
    <3> QED
      BY <1>1, <2>1, <3>2
  <2>2. CASE sending # <<>>
    <3>1. Before(pipe, sending.id, HeaderSize + total)
      BY <1>10, <2>2 DEF IInv, Piped
    <3>2. HeaderSize + total = 0
      BY <1>1, <1>8, <1>10, <3>1 DEF Before
    <3>3. total \in Nat
      <4>1. sending \in Packets
        BY <2>2 DEF IInv, TypeOK
      <4> QED
        BY <2>2, <4>1, PacketNumbers DEF IInv, TypeOK
    <3> QED
      BY <1>1, <3>2, <3>3
  <2> QED
    BY <2>1, <2>2
<1> QED
  BY <1>4, <1>5, <1>6, <1>7, <1>9, <1>10

(* Places in a packet of z bytes with a header of h.                       *)
LEMMA Places ==
    ASSUME NEW z \in Nat, NEW h \in Nat, NEW w \in Nat, NEW u \in Nat,
           z = h + w, u <= z, u >= h
    PROVE  /\ u = z => u - h = w
           /\ u # z => u < z /\ u - h # w /\ u - h \in 0 .. w - 1
OBVIOUS

(* The fields of a byte.                                                   *)
LEMMA PacketAndPlace ==
    \A q, n, b : b = [packet |-> q, at |-> n] => b.packet = q /\ b.at = n
OBVIOUS

(* A step of SendPacket that writes m bytes from place a + 1 of p on.      *)
LEMMA WriteStep ==
    ASSUME IInv, open, NEW p \in Packets, p.id = Len(sent) + 1,
           NEW a \in Nat, NEW m \in Nat, m > 0, a + m <= Size(p), a + m >= HeaderSize,
           \/ sending = <<>> /\ a = 0
           \/ sending = p /\ a = HeaderSize + total,
           pipe' = pipe \o SubSeq(Frame(p), a + 1, a + m),
           Written(p, (a + m) - HeaderSize),
           UNCHANGED <<receiver, open>>
    PROVE  IInv' /\ (sent' = sent \/ sent' = Append(sent, Frame(p)))
<1>1. /\ Len(pipe) \in Nat /\ pipe \in Seq(Bytes) /\ sent \in Seq(Seq(Bytes))
      /\ Size(p) \in Nat /\ p.id \in Nat /\ p.id <= MaxSent /\ p.size \in Nat
      /\ HeaderSize \in Nat /\ HeaderSize >= 1 /\ Len(sent) \in Nat /\ p # <<>>
      /\ Size(p) = HeaderSize + p.size
  BY StateNumbers, PacketNumbers DEF IInv, Size
<1>2. UNCHANGED <<reading, length, head, data, rcvd, open>>
  BY DEF receiver
<1> DEFINE complete == a + m = Size(p)
<1>3. /\ complete => (a + m) - HeaderSize = p.size
      /\ ~ complete => /\ a + m < Size(p) /\ (a + m) - HeaderSize # p.size
                       /\ (a + m) - HeaderSize \in 0 .. p.size - 1
  <2>1. a + m \in Nat /\ a + m <= Size(p) /\ a + m >= HeaderSize
    OBVIOUS
  <2>2. /\ Size(p) \in Nat /\ HeaderSize \in Nat /\ p.size \in Nat
        /\ Size(p) = HeaderSize + p.size
    BY <1>1
  <2>3. /\ a + m = Size(p) => (a + m) - HeaderSize = p.size
        /\ a + m # Size(p) => /\ a + m < Size(p) /\ (a + m) - HeaderSize # p.size
                             /\ (a + m) - HeaderSize \in 0 .. p.size - 1
    <3> DEFINE u == a + m
               z == Size(p)
               h == HeaderSize
               w == p.size
    <3>1. u \in Nat /\ z \in Nat /\ h \in Nat /\ w \in Nat /\ z = h + w /\ u <= z /\ u >= h
      BY <2>1, <2>2
    <3> HIDE DEF u, z, h, w
    <3>2. /\ u = z => u - h = w
          /\ u # z => u < z /\ u - h # w /\ u - h \in 0 .. w - 1
      BY <3>1, Places
    <3> QED
      BY <3>2 DEF u, z, h, w
  <2> QED
    BY <2>3
<1> HIDE DEF complete
<1>4. complete => sending' = <<>> /\ total' = 0 /\ sent' = Append(sent, Frame(p))
  BY <1>3 DEF Written
<1>5. ~ complete => sending' = p /\ total' = (a + m) - HeaderSize /\ sent' = sent
  BY <1>3 DEF Written
<1>6. Append(sent, Frame(p)) \in Seq(Seq(Bytes)) /\ Len(Append(sent, Frame(p))) = Len(sent) + 1
      /\ (\A k \in 1 .. Len(sent) : Append(sent, Frame(p))[k] = sent[k])
      /\ Append(sent, Frame(p))[p.id] = Frame(p)
  BY <1>1, FrameBytes, AppendProperties
<1>7. /\ sent' \in Seq(Seq(Bytes)) /\ Len(sent') \in Nat /\ Len(sent') >= Len(sent)
      /\ \A k \in 1 .. Len(sent) : sent'[k] = sent[k]
      /\ complete => Len(sent') = p.id /\ sent'[p.id] = Frame(p)
  <2>1. CASE complete
    <3>1. sent' = Append(sent, Frame(p))
      BY <1>4, <2>1
    <3>2. Len(sent) + 1 \in Nat /\ Len(sent) + 1 >= Len(sent) /\ p.id = Len(sent) + 1
      BY <1>1
    <3> QED
      BY <1>6, <3>1, <3>2
  <2>2. CASE ~ complete
    <3>1. sent' = sent /\ Len(sent) >= Len(sent)
      BY <1>1, <1>5, <2>2
    <3> QED
      BY <1>1, <2>2, <3>1
  <2> QED
    BY <2>1, <2>2
<1>8. \A i \in 1 .. Len(pipe) : pipe[i].packet \in Packets /\ Known(pipe[i].packet, pipe[i].at)
  BY <1>1, StreamNumbers DEF IInv, Piped
<1>9. \A i \in 1 .. Len(pipe) : pipe[i].packet.id = p.id => pipe[i].packet = p
  <2> SUFFICES ASSUME NEW i \in 1 .. Len(pipe), pipe[i].packet.id = p.id
               PROVE  pipe[i].packet = p
    OBVIOUS
  <2>1. pipe[i].packet # <<>> /\ ~ (pipe[i].packet.id <= Len(sent))
    BY <1>1, <1>8, PacketNumbers
  <2>2. sending = pipe[i].packet
    BY <1>8, <2>1 DEF Known
  <2> QED
    BY <2>1, <2>2
<1>10. Before(pipe, p.id, a)
  <2>1. CASE sending = <<>> /\ a = 0
    <3>1. Before(pipe, Len(sent) + 1, 0)
      BY <2>1 DEF IInv, Piped
    <3> QED
      BY <2>1, <3>1, Zenon
  <2>2. CASE sending = p /\ a = HeaderSize + total
    <3>1. Before(pipe, sending.id, HeaderSize + total)
      BY <1>1, <2>2 DEF IInv, Piped
    <3> QED
      BY <2>2, <3>1, Zenon
  <2> QED
    BY <2>1, <2>2
<1>11. /\ SubSeq(Frame(p), a + 1, a + m) \in Seq(Bytes)
       /\ Len(SubSeq(Frame(p), a + 1, a + m)) = m
       /\ \A k \in 1 .. m :
            SubSeq(Frame(p), a + 1, a + m)[k] = [packet |-> p, at |-> a + k]
  BY <1>1, Piece
<1>12. /\ pipe' \in Seq(Bytes) /\ Len(pipe') = Len(pipe) + m
       /\ \A i \in 1 .. Len(pipe) : pipe'[i] = pipe[i]
       /\ \A i \in Len(pipe) + 1 .. Len(pipe) + m :
            pipe'[i] = [packet |-> p, at |-> a + (i - Len(pipe))]
       /\ Chain(pipe')
       /\ a + m < Size(p) => Before(pipe', p.id, a + m)
       /\ a + m = Size(p) => Before(pipe', p.id + 1, 0)
  <2> DEFINE t == SubSeq(Frame(p), a + 1, a + m)
  <2>1. Chain(pipe)
    BY DEF IInv, Piped
  <2>2. /\ t \in Seq(Bytes) /\ Len(t) = m
        /\ \A k \in 1 .. m : t[k] = [packet |-> p, at |-> a + k]
    BY <1>11
  <2>3. pipe' = pipe \o t
    OBVIOUS
  <2> HIDE DEF t
  <2>4. Continued(pipe, pipe \o t, p, a, m)
    <3>1. pipe \in Seq(Bytes) /\ a + m <= Size(p)
      BY <1>1
    <3>2. Continues(pipe, p, a) /\ IsPiece(t, p, a, m)
      BY <1>9, <1>10, <2>2 DEF Continues, IsPiece
    <3> QED
      BY <2>1, <2>2, <3>1, <3>2, ChainWritten
  <2> QED
    BY <2>3, <2>4 DEF Continued
<1>13. ASSUME NEW q \in Packets, NEW at, Known(q, at) PROVE Known(q, at)'
  <2>1. q.id \in Nat /\ q.id >= 1 /\ q # <<>>
    BY PacketNumbers
  <2>2. CASE q.id <= Len(sent) /\ sent[q.id] = Frame(q)
    <3>1. q.id \in 1 .. Len(sent) /\ q.id <= Len(sent')
      BY <1>1, <1>7, <2>1, <2>2
    <3>2. sent'[q.id] = Frame(q)
      BY <1>7, <2>2, <3>1
    <3> QED
      BY <3>1, <3>2 DEF Known
  <2>3. CASE q.id = Len(sent) + 1 /\ at < Size(q) /\ sending = q
    <3>1. q = p
      BY <2>1, <2>3
    <3>2. CASE complete
      <4>1. p.id <= Len(sent') /\ sent'[p.id] = Frame(p)
        BY <1>1, <1>7, <3>2
      <4> QED
        BY <3>1, <4>1 DEF Known
    <3>3. CASE ~ complete
      BY <1>5, <2>3, <3>1, <3>3 DEF Known
    <3> QED
      BY <3>2, <3>3
  <2> QED
    BY <1>13, <2>2, <2>3 DEF Known
<1>14. ASSUME NEW k \in 1 .. m PROVE Known(p, a + k)'
  <2>1. CASE complete
    <3>1. p.id <= Len(sent') /\ sent'[p.id] = Frame(p)
      BY <1>1, <1>7, <2>1
    <3> QED
      BY <3>1 DEF Known
  <2>2. CASE ~ complete
    <3>1. a + k < Size(p)
      BY <1>1, <1>3, <2>2
    <3> QED
      BY <1>5, <2>2, <3>1 DEF Known
  <2> QED
    BY <2>1, <2>2
<1>15. TypeOK'
  <2>1. sending' \in Packets \cup {<<>>}
    BY <1>4, <1>5
  <2>2. /\ sending' = <<>> => total' = 0
        /\ sending' # <<>> => total' \in 0 .. sending'.size - 1
    <3>1. CASE complete
      BY <1>4, <3>1
    <3>2. CASE ~ complete
      <4>1. (a + m) - HeaderSize \in 0 .. p.size - 1
        BY <1>3, <3>2
      <4> QED
        BY <1>1, <1>5, <3>2, <4>1
    <3> QED
      BY <3>1, <3>2
  <2> QED
    BY <1>2, <1>7, <1>12, <2>1, <2>2 DEF IInv, TypeOK
<1>16. Sending'
  BY <1>1, <1>4, <1>5, <1>7 DEF IInv, Sending
<1>17. Piped'
  <2>1. ASSUME NEW i \in 1 .. Len(pipe') PROVE Known(pipe[i].packet, pipe[i].at)'
    <3>1. PICK q \in Packets, l \in Nat :
            pipe'[i].packet = q /\ pipe'[i].at = l /\ Known(q, l)'
      <4>1. CASE i \in 1 .. Len(pipe)
        <5>1. PICK q \in Packets, l \in Nat : q = pipe[i].packet /\ l = pipe[i].at
          BY <1>1, <4>1, StreamNumbers
        <5>2. Known(q, l)
          BY <1>8, <4>1, <5>1
        <5>3. Known(q, l)'
          BY <1>13, <5>2
        <5>4. pipe'[i].packet = q /\ pipe'[i].at = l
          BY <1>12, <4>1, <5>1
        <5> QED
          BY <5>3, <5>4
      <4>2. CASE i \in Len(pipe) + 1 .. Len(pipe) + m
        <5>1. PICK k \in 1 .. m : k = i - Len(pipe)
          <6>1. i - Len(pipe) \in 1 .. m
            BY <1>1, <4>2
          <6> QED
            BY <6>1
        <5>2. pipe'[i] = [packet |-> p, at |-> a + k]
          BY <1>12, <4>2, <5>1
        <5>3. Known(p, a + k)' /\ a + k \in Nat
          <6>1. a + k \in Nat
            BY <1>1
          <6> QED
            BY <1>14, <6>1
        <5>4. pipe'[i].packet = p /\ pipe'[i].at = a + k
          BY <5>2, PacketAndPlace
        <5> QED
          BY <5>3, <5>4
      <4>3. i \in 1 .. Len(pipe) + m
        BY <1>12
      <4>4. i \in 1 .. Len(pipe) \/ i \in Len(pipe) + 1 .. Len(pipe) + m
        BY <1>1, <4>3
      <4> QED
        BY <4>1, <4>2, <4>4
    <3> QED
      BY <3>1 DEF Known
  <2>2. sending' = <<>> => Before(pipe', Len(sent') + 1, 0)
    <3> SUFFICES ASSUME sending' = <<>> PROVE Before(pipe', Len(sent') + 1, 0)
      OBVIOUS
    <3>1. complete
      BY <1>1, <1>5
    <3>2. Len(sent') = p.id /\ Before(pipe', p.id + 1, 0)
      BY <1>7, <1>12, <3>1 DEF complete
    <3> QED
      BY <3>2
  <2>3. sending' # <<>> => Before(pipe', sending'.id, HeaderSize + total')
    <3> SUFFICES ASSUME sending' # <<>> PROVE Before(pipe', sending'.id, HeaderSize + total')
      OBVIOUS
    <3>1. ~ complete
      BY <1>4
    <3>2. sending' = p /\ HeaderSize + total' = a + m /\ a + m < Size(p)
      BY <1>1, <1>3, <1>5, <3>1
    <3> QED
      BY <1>12, <3>2
  <2>4. Chain(pipe)'
    BY <1>12 DEF Chain, Placed, GoesOn, NextBegins
  <2>5. (open /\ sending = <<>> => Before(pipe, Len(sent) + 1, 0))'
    BY <2>2 DEF Before
  <2>6. (open /\ sending # <<>> => Before(pipe, sending.id, HeaderSize + total))'
    BY <2>3 DEF Before
  <2>7. (\A i \in 1 .. Len(pipe) : Known(pipe[i].packet, pipe[i].at))'
    BY <2>1
  <2> QED
    BY <2>4, <2>5, <2>6, <2>7 DEF Piped
<1>18. Reading'
  <2>1. /\ pipe' # <<>>
        /\ pipe # <<>> => pipe'[1] = pipe[1]
        /\ pipe = <<>> => pipe'[1] = [packet |-> p, at |-> a + 1]
    <3>1. pipe' # <<>>
      <4>1. Len(pipe') # 0
        BY <1>1, <1>12
      <4> QED
        BY <4>1, EmptySeq
    <3>2. pipe # <<>> => 1 \in 1 .. Len(pipe)
      BY <1>1, StateNumbers DEF IInv
    <3>3. pipe = <<>> => Len(pipe) = 0
      BY EmptySeq
    <3>4. pipe = <<>> => pipe'[1] = [packet |-> p, at |-> a + (1 - 0)]
      <4> SUFFICES ASSUME pipe = <<>> PROVE pipe'[1] = [packet |-> p, at |-> a + (1 - 0)]
        OBVIOUS
      <4>1. 1 \in Len(pipe) + 1 .. Len(pipe) + m /\ Len(pipe) = 0
        BY <3>3
      <4> QED
        BY <1>12, <4>1
    <3>5. pipe # <<>> => pipe'[1] = pipe[1]
      BY <1>12, <3>2
    <3>6. a + (1 - 0) = a + 1
      OBVIOUS
    <3> QED
      BY <3>1, <3>4, <3>5, <3>6
  <2>2. Len(rcvd') <= Len(sent') /\ \A k \in 1 .. Len(rcvd') : rcvd'[k] = sent'[k]
    <3>1. Len(rcvd) \in Nat /\ Len(rcvd) <= Len(sent) /\ \A k \in 1 .. Len(rcvd) : rcvd[k] = sent[k]
      BY StateNumbers DEF IInv, Reading
    <3>2. Len(rcvd) <= Len(sent') /\ \A k \in 1 .. Len(rcvd) : k \in 1 .. Len(sent)
      <4>1. Len(sent) \in Nat /\ Len(sent') \in Nat /\ Len(sent') >= Len(sent)
        BY <1>1, <1>7
      <4> QED
        BY <3>1, <4>1
    <3>3. \A k \in 1 .. Len(rcvd) : rcvd[k] = sent'[k]
      BY <1>7, <3>1, <3>2
    <3> QED
      BY <1>2, <3>2, <3>3
  <2>3. reading' = "header" => AtHeader'
    <3> SUFFICES ASSUME reading = "header" PROVE AtHeader'
      BY <1>2
    <3>1. AtHeader
      BY DEF IInv, Reading
    <3>2. pipe'[1].at = 1 /\ pipe'[1].packet.id = Len(rcvd) + 1
      <4>1. CASE pipe # <<>>
        BY <2>1, <3>1, <4>1 DEF AtHeader
      <4>2. CASE pipe = <<>>
        <5>1. a = 0 /\ Len(rcvd) = Len(sent)
          BY <1>1, <3>1, <4>2 DEF AtHeader
        <5> QED
          BY <2>1, <4>2, <5>1
      <4> QED
        BY <4>1, <4>2
    <3> QED
      BY <1>2, <2>1, <3>2 DEF AtHeader
  <2>4. reading' = "body" => \E q \in Packets : InBody(q)'
    <3> SUFFICES ASSUME reading = "body" PROVE \E q \in Packets : InBody(q)'
      BY <1>2
    <3>1. PICK q \in Packets : InBody(q)
      BY DEF IInv, Reading
    <3>2. pipe'[1] = [packet |-> q, at |-> HeaderSize + Len(data) + 1]
      <4>1. CASE pipe # <<>>
        BY <2>1, <3>1, <4>1 DEF InBody
      <4>2. CASE pipe = <<>>
        <5>1. sending = q /\ total = Len(data)
          BY <3>1, <4>2 DEF InBody
        <5>2. q = p /\ a = HeaderSize + Len(data)
          BY <5>1, PacketNumbers
        <5> QED
          BY <2>1, <4>2, <5>2
      <4> QED
        BY <4>1, <4>2
    <3>3. Known(q, HeaderSize + Len(data))'
      <4>1. Known(q, HeaderSize + Len(data))
        BY <3>1 DEF InBody
      <4> QED
        BY <1>2, <1>13, <4>1
    <3>4. InBody(q)'
      BY <1>2, <2>1, <3>1, <3>2, <3>3 DEF InBody
    <3> QED
      BY <3>4
  <2>5. open' => reading' # "failed"
    BY <1>2 DEF IInv, Reading
  <2> QED
    BY <2>2, <2>3, <2>4, <2>5 DEF Reading
<1> QED
  BY <1>4, <1>5, <1>15, <1>16, <1>17, <1>18 DEF IInv

(* What is left in the stream is as known as before.                       *)
LEMMA KnownKept ==
    ASSUME NEW q, NEW at, Known(q, at), sent' = sent, open' => open /\ sending' = sending
    PROVE  Known(q, at)'
BY DEF Known

(* Bytes read from the front leave a chain, and the sender its place.      *)
LEMMA PipeDropped ==
    ASSUME IInv, NEW m \in 0 .. Len(pipe), pipe' = Drop(pipe, m),
           UNCHANGED sender, open' => open
    PROVE  pipe' \in Seq(Bytes) /\ Piped' /\ Sending'
<1>1. UNCHANGED <<sending, total, sent>>
  BY DEF sender
<1>2. pipe \in Seq(Bytes) /\ Len(pipe) \in Nat /\ Len(sent) \in Nat /\ HeaderSize \in Nat
  BY StateNumbers, SizeAssumption DEF IInv
<1>3. /\ pipe' \in Seq(Bytes) /\ Len(pipe') = Len(pipe) - m
      /\ \A i \in 1 .. Len(pipe) - m : pipe'[i] = pipe[i + m]
  BY <1>2, Dropped
<1>4. /\ Chain(Drop(pipe, m))
      /\ \A n, a \in Nat : Before(pipe, n, a) => Before(Drop(pipe, m), n, a)
  BY <1>2, ChainDropped DEF IInv, Piped
<1>5. Chain(pipe)'
  <2>1. Chain(pipe')
    BY <1>4
  <2> QED
    BY <2>1 DEF Chain, Placed, GoesOn, NextBegins
<1>6. ASSUME NEW i \in 1 .. Len(pipe') PROVE Known(pipe[i].packet, pipe[i].at)'
  <2>1. i + m \in 1 .. Len(pipe) /\ pipe'[i] = pipe[i + m]
    BY <1>2, <1>3
  <2>2. PICK q, l : q = pipe[i + m].packet /\ l = pipe[i + m].at
    OBVIOUS
  <2>3. Known(q, l)
    BY <2>1, <2>2 DEF IInv, Piped
  <2>4. Known(q, l)'
    BY <1>1, <2>3, KnownKept
  <2>5. pipe'[i].packet = q /\ pipe'[i].at = l
    BY <2>1, <2>2
  <2> QED
    BY <2>4, <2>5 DEF Known
<1>7. (open /\ sending = <<>> => Before(pipe, Len(sent) + 1, 0))'
  <2> SUFFICES ASSUME open', sending = <<>> PROVE Before(pipe', Len(sent) + 1, 0)
    BY <1>1 DEF Before
  <2>1. Before(pipe, Len(sent) + 1, 0) /\ Len(sent) + 1 \in Nat
    BY <1>2 DEF IInv, Piped
  <2> QED
    BY <1>4, <2>1
<1>8. (open /\ sending # <<>> => Before(pipe, sending.id, HeaderSize + total))'
  <2> SUFFICES ASSUME open', sending # <<>> PROVE Before(pipe', sending.id, HeaderSize + total)
    BY <1>1 DEF Before
  <2>1. sending \in Packets
    BY DEF IInv, TypeOK
  <2>2. sending.id \in Nat /\ HeaderSize + total \in Nat
    BY <1>2, <2>1, PacketNumbers DEF IInv, TypeOK
  <2>3. Before(pipe, sending.id, HeaderSize + total)
    BY DEF IInv, Piped
  <2> QED
    BY <1>4, <2>2, <2>3
<1>9. Piped'
  BY <1>5, <1>6, <1>7, <1>8 DEF Piped
<1> QED
  BY <1>1, <1>3, <1>9 DEF IInv, Sending

(* A step of ReceivePacket that reads m bytes from place c + 1 of p on.    *)
LEMMA ReadStep ==
    ASSUME IInv, NEW p \in Packets, p.id = Len(rcvd) + 1,
           NEW c \in Nat, NEW m \in 1 .. Len(pipe), c + m <= Size(p), c + m >= HeaderSize,
           pipe[1].packet = p, pipe[1].at = c + 1,
           NEW h \in Seq(Bytes), NEW d \in Seq(Bytes), Len(h) = HeaderSize,
           Len(d) = (c + m) - HeaderSize, h \o d = SubSeq(Frame(p), 1, c + m),
           Read(h, p.size, d), pipe' = Drop(pipe, m), UNCHANGED <<sender, open>>
    PROVE  /\ IInv'
           /\ \/ rcvd' = rcvd
              \/ Len(rcvd) < Len(sent) /\ rcvd' = Append(rcvd, sent[Len(rcvd) + 1])
<1>1. /\ pipe \in Seq(Bytes) /\ Len(pipe) \in Nat /\ Len(sent) \in Nat /\ Len(rcvd) \in Nat
      /\ HeaderSize \in Nat /\ HeaderSize >= 1 /\ m \in Nat
      /\ Size(p) \in Nat /\ p.size \in Nat /\ p.size \in BodySizes
      /\ Size(p) = HeaderSize + p.size /\ rcvd \in Seq(Seq(Bytes))
  <2>1. TypeOK /\ Size(p) = HeaderSize + p.size
    BY DEF IInv, Size
  <2>2. m \in Nat
    BY <2>1, StateNumbers
  <2> QED
    BY <2>1, <2>2, StateNumbers, PacketNumbers
<1>2. UNCHANGED <<sending, total, sent, open>>
  BY DEF sender
<1>3. /\ Known(p, c + m)
      /\ m < Len(pipe) /\ c + m < Size(p) =>
           pipe[m + 1] = [packet |-> p, at |-> c + m + 1]
      /\ m < Len(pipe) /\ c + m = Size(p) =>
           pipe[m + 1].at = 1 /\ pipe[m + 1].packet.id = p.id + 1
      /\ m = Len(pipe) /\ open /\ c + m < Size(p) =>
           sending = p /\ c + m = HeaderSize + total
      /\ m = Len(pipe) /\ open /\ c + m = Size(p) =>
           sending = <<>> /\ p.id = Len(sent)
  BY TakePiece
<1>4. pipe' \in Seq(Bytes) /\ Piped' /\ Sending'
  <2>1. m \in 0 .. Len(pipe)
    BY <1>1
  <2> QED
    BY <1>2, <2>1, PipeDropped
<1>5. /\ Len(pipe') = Len(pipe) - m
      /\ pipe' # <<>> => m < Len(pipe) /\ pipe'[1] = pipe[m + 1]
      /\ pipe' = <<>> => m = Len(pipe)
  <2>1. /\ Len(Drop(pipe, m)) = Len(pipe) - m
        /\ \A i \in 1 .. Len(pipe) - m : Drop(pipe, m)[i] = pipe[i + m]
    <3>1. m \in 0 .. Len(pipe)
      BY <1>1
    <3> QED
      BY <1>1, <3>1, Dropped
  <2>2. pipe' = <<>> <=> Len(pipe') = 0
    BY <1>4, EmptySeq
  <2>3. pipe' = <<>> => m = Len(pipe)
    BY <1>1, <2>1, <2>2
  <2>4. pipe' # <<>> => m < Len(pipe)
    BY <1>1, <2>1, <2>2
  <2>5. m < Len(pipe) => Drop(pipe, m)[1] = pipe[1 + m] /\ 1 + m = m + 1
    <3>1. m < Len(pipe) => 1 \in 1 .. Len(pipe) - m /\ 1 + m = m + 1
      BY <1>1
    <3> QED
      BY <2>1, <3>1
  <2> QED
    BY <2>1, <2>3, <2>4, <2>5
<1>6. /\ Len(d) = p.size <=> c + m = Size(p)
      /\ Len(d) # p.size => c + m < Size(p) /\ Len(d) < p.size
      /\ HeaderSize + Len(d) = c + m
  <2> DEFINE u == c + m
             z == Size(p)
             w == p.size
             l == Len(d)
  <2>1. /\ u \in Nat /\ z \in Nat /\ w \in Nat /\ HeaderSize \in Nat
        /\ z = HeaderSize + w /\ u <= z /\ u >= HeaderSize /\ l = u - HeaderSize
    BY <1>1
  <2> HIDE DEF u, z, w, l
  <2>2. (l = w <=> u = z) /\ (l # w => u < z /\ l < w) /\ HeaderSize + l = u
    BY <2>1
  <2> QED
    BY <2>2 DEF u, z, w, l
<1>7. CASE Len(d) = p.size
  <2>1. /\ rcvd' = Append(rcvd, h \o d)
        /\ reading' = "header" /\ length' = 0 /\ head' = <<>> /\ data' = <<>>
    BY <1>7 DEF Read
  <2>2. h \o d = Frame(p)
    <3>1. c + m = Len(Frame(p)) /\ Frame(p) \in Seq(Bytes)
      BY <1>6, <1>7, FrameBytes
    <3> QED
      BY <3>1, SubSeqFull
  <2>3. p.id <= Len(sent) /\ sent[p.id] = Frame(p)
    BY <1>1, <1>3, <1>6, <1>7 DEF Known
  <2>4. /\ rcvd' \in Seq(Seq(Bytes)) /\ Len(rcvd') = Len(rcvd) + 1
        /\ \A k \in 1 .. Len(rcvd) : rcvd'[k] = rcvd[k]
        /\ rcvd'[Len(rcvd) + 1] = Frame(p)
    <3>1. Frame(p) \in Seq(Bytes) /\ rcvd' = Append(rcvd, Frame(p))
      BY <2>1, <2>2, FrameBytes
    <3> QED
      BY <1>1, <3>1, AppendProperties
  <2>5. TypeOK'
    <3>1. <<>> \in Seq(Bytes)
      BY EmptySeq
    <3> QED
      BY <1>2, <1>4, <2>1, <2>4, <3>1 DEF IInv, TypeOK
  <2>6. AtHeader'
    <3>1. pipe' # <<>> => pipe'[1].at = 1 /\ pipe'[1].packet.id = Len(rcvd') + 1
      BY <1>3, <1>5, <1>6, <1>7, <2>4
    <3>2. pipe' = <<>> /\ open' => sending' = <<>> /\ Len(rcvd') = Len(sent')
      BY <1>2, <1>3, <1>5, <1>6, <1>7, <2>4
    <3> QED
      BY <3>1, <3>2 DEF AtHeader
  <2>7. Len(rcvd') <= Len(sent') /\ \A k \in 1 .. Len(rcvd') : rcvd'[k] = sent'[k]
    <3>1. Len(rcvd') <= Len(sent)
      BY <1>1, <2>3, <2>4
    <3>2. ASSUME NEW k \in 1 .. Len(rcvd') PROVE rcvd'[k] = sent[k]
      <4>1. CASE k \in 1 .. Len(rcvd)
        BY <2>4, <4>1 DEF IInv, Reading
      <4>2. CASE k = Len(rcvd) + 1
        BY <2>3, <2>4, <4>2
      <4> QED
        BY <1>1, <2>4, <4>1, <4>2
    <3> QED
      BY <1>2, <3>1, <3>2
  <2>8. Reading'
    BY <2>1, <2>6, <2>7 DEF Reading
  <2>9. Len(rcvd) < Len(sent) /\ rcvd' = Append(rcvd, sent[Len(rcvd) + 1])
    BY <1>1, <2>1, <2>2, <2>3
  <2> QED
    BY <1>4, <2>5, <2>8, <2>9 DEF IInv
<1>8. CASE Len(d) # p.size
  <2>1. /\ reading' = "body" /\ length' = p.size /\ head' = h /\ data' = d
        /\ rcvd' = rcvd
    BY <1>8 DEF Read
  <2>2. c + m < Size(p) /\ Len(d) < p.size /\ HeaderSize + Len(d) = c + m
    BY <1>6, <1>8
  <2>3. TypeOK'
    BY <1>1, <1>2, <1>4, <2>1, <2>2 DEF IInv, TypeOK
  <2>4. InBody(p)'
    <3>1. head' \o data' = SubSeq(Frame(p), 1, HeaderSize + Len(data'))
      BY <2>1, <2>2
    <3>2. Known(p, HeaderSize + Len(data))'
      <4>1. Known(p, c + m)'
        BY <1>2, <1>3, KnownKept
      <4>2. HeaderSize + Len(data') = c + m
        BY <2>1, <2>2
      <4> QED
        BY <4>1, <4>2 DEF Known
    <3>3. pipe' # <<>> => pipe'[1] = [packet |-> p, at |-> HeaderSize + Len(data') + 1]
      BY <1>3, <1>5, <2>1, <2>2
    <3>4. pipe' = <<>> /\ open' => sending' = p /\ total' = Len(data')
      <4> SUFFICES ASSUME pipe' = <<>>, open' PROVE sending = p /\ total = Len(d)
        BY <1>2, <2>1
      <4>1. sending = p /\ c + m = HeaderSize + total
        BY <1>2, <1>3, <1>5, <2>2
      <4>2. total \in Nat
        BY <1>1, <4>1, PacketNumbers DEF IInv, TypeOK
      <4>3. Len(d) \in Nat
        BY LenProperties
      <4> QED
        BY <1>1, <2>2, <4>1, <4>2, <4>3
    <3>5. length' = p.size /\ p.id = Len(rcvd') + 1
      BY <2>1
    <3> QED
      BY <3>1, <3>2, <3>3, <3>4, <3>5 DEF InBody
  <2>5. Reading'
    <3>1. Len(rcvd') <= Len(sent') /\ \A k \in 1 .. Len(rcvd') : rcvd'[k] = sent'[k]
      BY <1>2, <2>1 DEF IInv, Reading
    <3>2. \E q \in Packets : InBody(q)'
      BY <2>4
    <3> QED
      BY <2>1, <3>1, <3>2 DEF Reading
  <2> QED
    BY <1>4, <2>1, <2>3, <2>5 DEF IInv
<1> QED
  BY <1>7, <1>8

(* A step of the sender.                                                   *)
LEMMA SendHeaderStep ==
    IInv /\ SendHeader =>
        IInv' /\ (sent' = sent \/ \E p \in Packets : sent' = Append(sent, Frame(p)))
<1> SUFFICES ASSUME IInv, SendHeader
             PROVE  IInv' /\ (sent' = sent \/ \E p \in Packets : sent' = Append(sent, Frame(p)))
  OBVIOUS
<1>1. PICK n \in BodySizes :
        /\ pipe' = pipe \o Header([id |-> Len(sent) + 1, size |-> n])
        /\ Written([id |-> Len(sent) + 1, size |-> n], 0)
  BY DEF SendHeader
<1>2. PICK p : p = [id |-> Len(sent) + 1, size |-> n]
  OBVIOUS
<1>3. open /\ sending = <<>> /\ Len(sent) < MaxSent /\ UNCHANGED <<receiver, open>>
  BY DEF SendHeader
<1>4. p \in Packets /\ p.id = Len(sent) + 1
  <2>1. Len(sent) + 1 \in 1 .. MaxSent
    BY <1>3, SizeAssumption, StateNumbers DEF IInv
  <2> QED
    BY <1>2, <2>1 DEF Packets
<1>5. /\ 0 + HeaderSize <= Size(p) /\ 0 + HeaderSize >= HeaderSize /\ HeaderSize > 0
      /\ HeaderSize \in Nat /\ 0 \in Nat /\ (0 + HeaderSize) - HeaderSize = 0
      /\ 0 + 1 = 1 /\ 0 + HeaderSize = HeaderSize
  BY <1>4, PacketNumbers
<1>6. pipe' = pipe \o SubSeq(Frame(p), 0 + 1, 0 + HeaderSize)
  BY <1>1, <1>2, <1>5 DEF Header
<1>7. Written(p, (0 + HeaderSize) - HeaderSize)
  BY <1>1, <1>2, <1>5
<1> QED
  BY <1>3, <1>4, <1>5, <1>6, <1>7, WriteStep

(* A write of the body, which may end the packet.                          *)
LEMMA SendBodyStep ==
    IInv /\ SendBody =>
        IInv' /\ (sent' = sent \/ \E p \in Packets : sent' = Append(sent, Frame(p)))
<1> SUFFICES ASSUME IInv, SendBody
             PROVE  IInv' /\ (sent' = sent \/ \E p \in Packets : sent' = Append(sent, Frame(p)))
  OBVIOUS
<1>1. PICK m \in 1 .. Min2(PacketSize, sending.size - total) :
        /\ pipe' = pipe \o SubSeq(Frame(sending), HeaderSize + total + 1, HeaderSize + total + m)
        /\ Written(sending, total + m)
  BY DEF SendBody
<1>2. open /\ sending # <<>> /\ UNCHANGED <<receiver, open>>
  BY DEF SendBody
<1>3. sending \in Packets /\ sending.id = Len(sent) + 1
  BY <1>2 DEF IInv, TypeOK, Sending
<1>4. total \in 0 .. sending.size - 1
  BY <1>2 DEF IInv, TypeOK
<1>5. /\ HeaderSize \in Nat /\ sending.size \in Nat /\ Size(sending) = HeaderSize + sending.size
      /\ PacketSize \in Nat
  BY <1>3, PacketNumbers, SizeAssumption DEF Size
<1>6. PICK a, w : a = HeaderSize + total /\ w = sending.size
  OBVIOUS
<1>7. /\ a \in Nat /\ m \in Nat /\ m > 0 /\ a + m <= Size(sending) /\ a + m >= HeaderSize
      /\ (a + m) - HeaderSize = total + m
  <2>1. w \in Nat /\ total \in 0 .. w - 1 /\ m \in 1 .. Min2(PacketSize, w - total)
    BY <1>4, <1>5, <1>6
  <2>2. m \in Nat /\ m > 0 /\ m <= w - total /\ total \in Nat
    BY <1>5, <2>1 DEF Min2
  <2>3. Size(sending) = HeaderSize + w
    BY <1>5, <1>6
  <2> QED
    BY <1>5, <1>6, <2>2, <2>3
<1>8. pipe' = pipe \o SubSeq(Frame(sending), a + 1, a + m)
  BY <1>1, <1>6
<1>9. Written(sending, (a + m) - HeaderSize)
  BY <1>1, <1>7
<1> QED
  BY <1>2, <1>3, <1>6, <1>7, <1>8, <1>9, WriteStep

(* SendPacket fails: what has been written of a header stays unknown to    *)
(* everybody.                                                              *)
LEMMA SendFailsStep == IInv /\ SendFails => IInv'
<1> SUFFICES ASSUME IInv, SendFails PROVE IInv'
  OBVIOUS
<1>1. /\ open /\ open' = FALSE /\ Len(sent) < MaxSent
      /\ UNCHANGED <<sending, total, sent, reading, length, head, data, rcvd>>
  BY DEF SendFails, sender, receiver
<1>2. /\ pipe \in Seq(Bytes) /\ Len(pipe) \in Nat /\ Len(sent) \in Nat
      /\ HeaderSize \in Nat /\ HeaderSize >= 1 /\ MaxSent \in Nat
  BY StateNumbers, SizeAssumption DEF IInv
<1>3. CASE sending = <<>>
  <2>1. PICK n \in BodySizes, m \in 0 .. HeaderSize - 1 :
          pipe' = pipe \o SubSeq(Header([id |-> Len(sent) + 1, size |-> n]), 1, m)
    BY <1>3 DEF SendFails
  <2>2. PICK p : p = [id |-> Len(sent) + 1, size |-> n]
    OBVIOUS
  <2>3. p \in Packets /\ p.id = Len(sent) + 1
    <3>1. Len(sent) + 1 \in 1 .. MaxSent
      BY <1>1, <1>2
    <3> QED
      BY <2>2, <3>1 DEF Packets
  <2>4. /\ Size(p) \in Nat /\ Size(p) >= HeaderSize /\ m \in Nat /\ m < HeaderSize
        /\ 0 + m <= Size(p) /\ 0 + HeaderSize <= Size(p) /\ 0 + 1 = 1
        /\ 0 + HeaderSize = HeaderSize
    BY <1>2, <2>3, PacketNumbers
  <2> DEFINE t == SubSeq(Header(p), 1, m)
  <2>5. IsPiece(t, p, 0, m)
    <3> DEFINE f == Header(p)
    <3>1. /\ f \in Seq(Bytes) /\ Len(f) = HeaderSize
          /\ \A k \in 1 .. HeaderSize : f[k] = [packet |-> p, at |-> 0 + k]
      <4>1. f = SubSeq(Frame(p), 0 + 1, 0 + HeaderSize)
        BY <2>4 DEF Header
      <4>2. HeaderSize \in Nat /\ 0 \in Nat /\ 0 + HeaderSize <= Size(p)
        BY <1>2, <2>4
      <4>3. /\ SubSeq(Frame(p), 0 + 1, 0 + HeaderSize) \in Seq(Bytes)
            /\ Len(SubSeq(Frame(p), 0 + 1, 0 + HeaderSize)) = HeaderSize
            /\ \A k \in 1 .. HeaderSize :
                 SubSeq(Frame(p), 0 + 1, 0 + HeaderSize)[k] = [packet |-> p, at |-> 0 + k]
        BY <2>3, <4>2, Piece, Zenon
      <4> HIDE DEF f
      <4> QED
        BY <4>1, <4>3, Zenon
    <3> HIDE DEF f
    <3>2. m \in 0 .. Len(f)
      BY <1>2, <2>4, <3>1
    <3>3. /\ SubSeq(f, 1, m) \in Seq(Bytes) /\ Len(SubSeq(f, 1, m)) = m
          /\ \A k \in 1 .. m : SubSeq(f, 1, m)[k] = f[k]
      BY <3>1, <3>2, Taken
    <3>4. \A k \in 1 .. m : k \in 1 .. HeaderSize
      BY <1>2, <2>4
    <3>5. \A k \in 1 .. m : SubSeq(f, 1, m)[k] = [packet |-> p, at |-> 0 + k]
      BY <3>1, <3>3, <3>4
    <3>6. IsPiece(SubSeq(f, 1, m), p, 0, m)
      BY <3>3, <3>5 DEF IsPiece
    <3> QED
      BY <3>6 DEF f
  <2>6. pipe' = pipe \o t
    BY <2>1, <2>2
  <2> HIDE DEF t
  <2>7. Continues(pipe, p, 0)
    <3>1. Before(pipe, p.id, 0)
      BY <1>1, <1>3, <2>3 DEF IInv, Piped
    <3>2. ASSUME NEW i \in 1 .. Len(pipe), pipe[i].packet.id = p.id PROVE FALSE
      <4>1. pipe[i].packet \in Packets /\ Known(pipe[i].packet, pipe[i].at)
        BY <1>2, StreamNumbers DEF IInv, Piped
      <4>2. ~ (pipe[i].packet.id <= Len(sent)) /\ pipe[i].packet # <<>>
        BY <1>2, <2>3, <3>2, <4>1, PacketNumbers
      <4> QED
        BY <1>1, <1>3, <4>1, <4>2 DEF Known
    <3> QED
      BY <3>1, <3>2 DEF Continues
  <2>8. Continued(pipe, pipe', p, 0, m)
    <3>1. t \in Seq(Bytes) /\ Chain(pipe) /\ 0 \in Nat
      BY <2>5 DEF IsPiece, IInv, Piped
    <3> QED
      BY <1>2, <2>3, <2>4, <2>5, <2>6, <2>7, <3>1, ChainWritten
  <2>9. /\ pipe' \in Seq(Bytes) /\ Len(pipe') = Len(pipe) + m /\ Chain(pipe')
        /\ \A i \in 1 .. Len(pipe) : pipe'[i] = pipe[i]
        /\ \A i \in Len(pipe) + 1 .. Len(pipe) + m :
             pipe'[i] = [packet |-> p, at |-> 0 + (i - Len(pipe))]
    BY <2>8 DEF Continued
  <2>10. Chain(pipe)'
    BY <2>9 DEF Chain, Placed, GoesOn, NextBegins
  <2>11. ASSUME NEW i \in 1 .. Len(pipe') PROVE Known(pipe[i].packet, pipe[i].at)'
    <3>1. CASE i \in 1 .. Len(pipe)
      <4>1. PICK q, l : q = pipe[i].packet /\ l = pipe[i].at
        OBVIOUS
      <4>2. Known(q, l)
        BY <3>1, <4>1 DEF IInv, Piped
      <4>3. Known(q, l)'
        BY <1>1, <4>2, KnownKept
      <4>4. pipe'[i].packet = q /\ pipe'[i].at = l
        BY <2>9, <3>1, <4>1
      <4> QED
        BY <4>3, <4>4 DEF Known
    <3>2. CASE i \in Len(pipe) + 1 .. Len(pipe) + m
      <4>1. PICK k : k = i - Len(pipe)
        OBVIOUS
      <4>2. pipe'[i] = [packet |-> p, at |-> 0 + k]
        BY <2>9, <3>2, <4>1
      <4>3. pipe'[i].packet = p /\ pipe'[i].at = 0 + k
        BY <4>2, PacketAndPlace
      <4>4. 0 + k < Size(p)
        BY <1>2, <2>4, <3>2, <4>1
      <4> QED
        BY <1>1, <2>3, <4>3, <4>4 DEF Known
    <3>3. i \in 1 .. Len(pipe) \/ i \in Len(pipe) + 1 .. Len(pipe) + m
      BY <1>2, <2>4, <2>9
    <3> QED
      BY <3>1, <3>2, <3>3
  <2>12. TypeOK'
    BY <1>1, <2>9 DEF IInv, TypeOK
  <2>13. Piped' /\ Sending'
    BY <1>1, <2>10, <2>11 DEF IInv, Piped, Sending
  <2>14. pipe # <<>> => pipe' # <<>> /\ pipe'[1] = pipe[1]
    <3>1. pipe # <<>> => 1 \in 1 .. Len(pipe) /\ Len(pipe') # 0
      BY <1>2, <2>4, <2>9, StateNumbers DEF IInv
    <3> QED
      BY <2>9, <3>1, EmptySeq
  <2>15. pipe = <<>> /\ pipe' # <<>> => pipe'[1].packet = p /\ pipe'[1].at = 1
    <3> SUFFICES ASSUME pipe = <<>>, pipe' # <<>> PROVE pipe'[1].packet = p /\ pipe'[1].at = 1
      OBVIOUS
    <3>1. Len(pipe) = 0 /\ Len(pipe') # 0
      <4>1. Len(pipe') # 0
        BY <2>9, EmptySeq
      <4> QED
        BY <4>1, EmptySeq
    <3>2. 1 \in Len(pipe) + 1 .. Len(pipe) + m /\ 0 + (1 - Len(pipe)) = 1
      BY <2>4, <2>9, <3>1
    <3>3. pipe'[1] = [packet |-> p, at |-> 1]
      BY <2>9, <3>2
    <3> QED
      BY <3>3
  <2>16. reading = "body" => pipe # <<>>
    <3>1. ASSUME reading = "body", pipe = <<>> PROVE FALSE
      <4>1. PICK q \in Packets : InBody(q)
        BY <3>1 DEF IInv, Reading
      <4> QED
        BY <1>1, <1>3, <3>1, <4>1, PacketNumbers DEF InBody
    <3> QED
      BY <3>1
  <2>17. reading = "header" => AtHeader'
    <3> SUFFICES ASSUME reading = "header" PROVE AtHeader'
      OBVIOUS
    <3>1. AtHeader
      BY DEF IInv, Reading
    <3>2. CASE pipe # <<>>
      BY <1>1, <2>14, <3>1, <3>2 DEF AtHeader
    <3>3. CASE pipe = <<>>
      BY <1>1, <2>3, <2>15, <3>1, <3>3 DEF AtHeader
    <3> QED
      BY <3>2, <3>3
  <2>18. reading = "body" => \E q \in Packets : InBody(q)'
    <3> SUFFICES ASSUME reading = "body" PROVE \E q \in Packets : InBody(q)'
      OBVIOUS
    <3>1. PICK q \in Packets : InBody(q)
      BY DEF IInv, Reading
    <3>2. Known(q, HeaderSize + Len(data))'
      BY <1>1, <3>1, KnownKept DEF InBody, Known
    <3>3. pipe' # <<>> /\ pipe'[1] = pipe[1] /\ pipe # <<>>
      BY <2>14, <2>16
    <3> QED
      BY <1>1, <3>1, <3>2, <3>3 DEF InBody
  <2>19. Reading'
    BY <1>1, <2>17, <2>18 DEF IInv, Reading
  <2> QED
    BY <2>12, <2>13, <2>19 DEF IInv
<1>4. CASE sending # <<>>
  <2>1. UNCHANGED pipe
    BY <1>4 DEF SendFails
  <2>2. TypeOK' /\ Sending'
    BY <1>1, <2>1 DEF IInv, TypeOK, Sending
  <2>3. ASSUME NEW q, NEW l, Known(q, l) PROVE Known(q, l)'
    BY <1>1, <2>3, KnownKept
  <2>4. Piped'
    BY <1>1, <2>1, <2>3 DEF IInv, Piped, Known
  <2>5. Reading'
    <3>1. reading = "header" => AtHeader'
      BY <1>1, <2>1 DEF IInv, Reading, AtHeader
    <3>2. reading = "body" => \E q \in Packets : InBody(q)'
      <4> SUFFICES ASSUME reading = "body" PROVE \E q \in Packets : InBody(q)'
        OBVIOUS
      <4>1. PICK q \in Packets : InBody(q)
        BY DEF IInv, Reading
      <4> QED
        BY <1>1, <2>1, <4>1 DEF InBody, Known
    <3> QED
      BY <1>1, <3>1, <3>2 DEF IInv, Reading
  <2> QED
    BY <2>2, <2>4, <2>5 DEF IInv
<1> QED
  BY <1>3, <1>4

(* The connection breaks.                                                  *)
LEMMA BreakStep == IInv /\ Break => IInv'
<1> SUFFICES ASSUME IInv, Break PROVE IInv'
  OBVIOUS
<1>1. /\ open /\ open' = FALSE
      /\ UNCHANGED <<sending, total, sent, reading, length, head, data, rcvd>>
  BY DEF Break, sender, receiver
<1>2. PICK m \in 0 .. Len(pipe) : pipe' = SubSeq(pipe, 1, m)
  BY DEF Break
<1>3. pipe \in Seq(Bytes) /\ Len(pipe) \in Nat
  BY StateNumbers DEF IInv
<1>4. pipe' \in Seq(Bytes) /\ Len(pipe') = m /\ \A i \in 1 .. m : pipe'[i] = pipe[i]
  BY <1>2, <1>3, Taken
<1>5. Chain(pipe)'
  <2>1. Chain(pipe')
    BY <1>2, <1>3, ChainTaken DEF IInv, Piped
  <2> QED
    BY <2>1 DEF Chain, Placed, GoesOn, NextBegins
<1>6. ASSUME NEW i \in 1 .. Len(pipe') PROVE Known(pipe[i].packet, pipe[i].at)'
  <2>1. i \in 1 .. Len(pipe) /\ pipe'[i] = pipe[i]
    BY <1>3, <1>4
  <2>2. PICK q, l : q = pipe[i].packet /\ l = pipe[i].at
    OBVIOUS
  <2>3. Known(q, l)
    BY <2>1, <2>2 DEF IInv, Piped
  <2>4. Known(q, l)'
    BY <1>1, <2>3, KnownKept
  <2>5. pipe'[i].packet = q /\ pipe'[i].at = l
    BY <2>1, <2>2
  <2> QED
    BY <2>4, <2>5 DEF Known
<1>7. pipe' # <<>> => pipe # <<>> /\ pipe'[1] = pipe[1]
  <2> SUFFICES ASSUME pipe' # <<>> PROVE pipe # <<>> /\ pipe'[1] = pipe[1]
    OBVIOUS
  <2>1. m # 0
    BY <1>4, EmptySeq
  <2>2. 1 \in 1 .. m /\ Len(pipe) # 0
    BY <1>3, <2>1
  <2> QED
    BY <1>4, <2>2, EmptySeq
<1>8. TypeOK' /\ Sending' /\ Piped'
  BY <1>1, <1>4, <1>5, <1>6 DEF IInv, TypeOK, Sending, Piped
<1>9. reading = "header" => AtHeader'
  BY <1>1, <1>7 DEF IInv, Reading, AtHeader
<1>10. reading = "body" => \E q \in Packets : InBody(q)'
  <2> SUFFICES ASSUME reading = "body" PROVE \E q \in Packets : InBody(q)'
    OBVIOUS
  <2>1. PICK q \in Packets : InBody(q)
    BY DEF IInv, Reading
  <2>2. Known(q, HeaderSize + Len(data))'
    BY <1>1, <2>1 DEF InBody, Known
  <2> QED
    BY <1>1, <1>7, <2>1, <2>2 DEF InBody
<1>11. Reading'
  BY <1>1, <1>9, <1>10 DEF IInv, Reading
<1> QED
  BY <1>8, <1>11 DEF IInv

(* Bytes can be put together in any grouping.                              *)
LEMMA Regrouped ==
    ASSUME NEW s \in Seq(Bytes), NEW t \in Seq(Bytes), NEW u \in Seq(Bytes)
    PROVE  (s \o t) \o u = s \o (t \o u)
BY ConcatAssociative

(* Read: what a step of ReceivePacket does to the packets received.        *)
Received ==
    \/ rcvd' = rcvd
    \/ Len(rcvd) < Len(sent) /\ rcvd' = Append(rcvd, sent[Len(rcvd) + 1])

(* A whole header is that of the next packet, and announces its length.    *)
LEMMA ReadHeaderStep == IInv /\ ReadHeader => IInv' /\ Received
<1> SUFFICES ASSUME IInv, ReadHeader PROVE IInv' /\ Received
  OBVIOUS
<1>1. PICK m \in 1 .. Min2(HeaderSize, Len(pipe)) :
        /\ pipe' = Drop(pipe, m)
        /\ IF m = HeaderSize
           THEN /\ \E n \in Announced(SubSeq(pipe, 1, m)) : Read(SubSeq(pipe, 1, m), n, <<>>)
                /\ UNCHANGED open
           ELSE /\ reading' = "failed"
                /\ open' = FALSE
                /\ UNCHANGED <<length, head, data, rcvd>>
  BY DEF ReadHeader
<1>2. reading = "header" /\ UNCHANGED sender
  BY DEF ReadHeader
<1>3. /\ pipe \in Seq(Bytes) /\ Len(pipe) \in Nat /\ HeaderSize \in Nat /\ HeaderSize >= 1
      /\ m \in 1 .. Len(pipe) /\ m \in 0 .. Len(pipe) /\ m \in Nat
  BY StateNumbers, SizeAssumption DEF IInv, Min2
<1>4. CASE m # HeaderSize
  <2>1. /\ reading' = "failed" /\ open' = FALSE
        /\ UNCHANGED <<length, head, data, rcvd, sending, total, sent>>
    BY <1>1, <1>2, <1>4 DEF sender
  <2>2. pipe' \in Seq(Bytes) /\ Piped' /\ Sending'
    BY <1>1, <1>2, <1>3, <2>1, PipeDropped
  <2>3. TypeOK'
    BY <2>1, <2>2 DEF IInv, TypeOK
  <2>4. Reading'
    BY <2>1 DEF IInv, Reading
  <2> QED
    BY <2>1, <2>2, <2>3, <2>4 DEF IInv, Received
<1>5. CASE m = HeaderSize
  <2>1. pipe # <<>> /\ 1 \in 1 .. Len(pipe)
    BY <1>3, EmptySeq
  <2>2. PICK p \in Packets : p = pipe[1].packet
    BY <1>3, <2>1, StreamNumbers
  <2>3. p.id = Len(rcvd) + 1 /\ pipe[1].at = 0 + 1
    BY <1>2, <2>1, <2>2 DEF IInv, Reading, AtHeader
  <2>4. /\ 0 + HeaderSize <= Size(p) /\ 0 + HeaderSize >= HeaderSize /\ 0 \in Nat
        /\ (0 + HeaderSize) - HeaderSize = 0 /\ 0 + HeaderSize = HeaderSize /\ 0 + 1 = 1
    BY <2>2, PacketNumbers
  <2> DEFINE h == SubSeq(pipe, 1, HeaderSize)
  <2>5. h = SubSeq(Frame(p), 0 + 1, 0 + HeaderSize)
    <3>1. HeaderSize \in 1 .. Len(pipe) /\ pipe[1].packet = p
      BY <1>3, <1>5, <2>2
    <3> QED
      BY <2>3, <2>4, <3>1, TakePiece
  <2>6. h = Header(p)
    BY <2>4, <2>5 DEF Header
  <2>7. h \in Seq(Bytes) /\ Len(h) = HeaderSize /\ h[1] = pipe[1]
    <3>1. 1 \in 1 .. HeaderSize /\ HeaderSize \in 0 .. Len(pipe)
      BY <1>3, <1>5
    <3> QED
      BY <1>3, <3>1, Taken
  <2>8. UNCHANGED open /\ pipe' = Drop(pipe, HeaderSize)
        /\ \E n \in Announced(h) : Read(h, n, <<>>)
    BY <1>1, <1>5
  <2> HIDE DEF h
  <2>9. Announced(h) = {p.size}
    BY <2>2, <2>6, <2>7 DEF Announced
  <2>10. Read(h, p.size, <<>>)
    BY <2>8, <2>9
  <2>11. /\ <<>> \in Seq(Bytes) /\ Len(<<>>) = (0 + HeaderSize) - HeaderSize
         /\ h \o <<>> = SubSeq(Frame(p), 1, 0 + HeaderSize)
    BY <2>4, <2>5, <2>7, EmptySeq, ConcatEmptySeq
  <2>12. HeaderSize \in 1 .. Len(pipe) /\ pipe[1].packet = p
    BY <1>3, <1>5, <2>2
  <2> QED
    BY <1>2, <2>3, <2>4, <2>7, <2>8, <2>10, <2>11, <2>12, ReadStep DEF Received
<1> QED
  BY <1>4, <1>5

(* What is read of a body is the next of it.                               *)
LEMMA ReadBodyStep == IInv /\ ReadBody => IInv' /\ Received
<1> SUFFICES ASSUME IInv, ReadBody PROVE IInv' /\ Received
  OBVIOUS
<1>1. PICK m \in 1 .. Min2(length - Len(data), Len(pipe)) :
        /\ pipe' = Drop(pipe, m)
        /\ Read(head, length, data \o SubSeq(pipe, 1, m))
  BY DEF ReadBody
<1>2. reading = "body" /\ UNCHANGED <<sender, open>>
  BY DEF ReadBody
<1>3. PICK p \in Packets : InBody(p)
  BY <1>2 DEF IInv, Reading
<1>4. /\ pipe \in Seq(Bytes) /\ Len(pipe) \in Nat /\ data \in Seq(Bytes) /\ Len(data) \in Nat
      /\ head \in Seq(Bytes) /\ Len(head) = HeaderSize /\ HeaderSize \in Nat /\ HeaderSize >= 1
      /\ p.size \in Nat /\ length = p.size /\ p.id = Len(rcvd) + 1
      /\ Size(p) = HeaderSize + p.size /\ Len(data) < p.size
  BY <1>2, <1>3, StateNumbers, PacketNumbers DEF IInv, TypeOK, InBody, Size
<1>5. m \in 1 .. Len(pipe) /\ m \in Nat /\ m <= p.size - Len(data) /\ m \in 0 .. Len(pipe)
  BY <1>4 DEF Min2
<1>6. PICK c \in Nat : c = HeaderSize + Len(data)
  BY <1>4
<1>7. /\ c + m <= Size(p) /\ c + m >= HeaderSize /\ c <= Size(p)
      /\ (c + m) - HeaderSize = Len(data) + m
  BY <1>4, <1>5, <1>6
<1>8. pipe[1].packet = p /\ pipe[1].at = c + 1
  <2>1. pipe # <<>>
    BY <1>4, <1>5, EmptySeq
  <2>2. pipe[1] = [packet |-> p, at |-> c + 1]
    BY <1>3, <1>6, <2>1 DEF InBody
  <2> QED
    BY <2>2, PacketAndPlace
<1> DEFINE s == SubSeq(pipe, 1, m)
           f == Frame(p)
<1>9. s \in Seq(Bytes) /\ Len(s) = m /\ s = SubSeq(f, c + 1, c + m)
  BY <1>4, <1>5, <1>7, <1>8, Taken, TakePiece
<1>10. head \o data = SubSeq(f, 1, c)
  BY <1>3, <1>6 DEF InBody
<1>11. f \in Seq(Bytes) /\ Len(f) = Size(p)
  BY FrameBytes
<1>12. Read(head, p.size, data \o s)
  BY <1>1, <1>4
<1> HIDE DEF s, f
<1>13. data \o s \in Seq(Bytes) /\ Len(data \o s) = (c + m) - HeaderSize
  BY <1>4, <1>7, <1>9, ConcatProperties
<1>14. head \o (data \o s) = SubSeq(f, 1, c + m)
  <2>1. head \o (data \o s) = (head \o data) \o s
    <3>1. head \in Seq(Bytes) /\ data \in Seq(Bytes) /\ s \in Seq(Bytes)
      BY <1>4, <1>9
    <3>2. (head \o data) \o s = head \o (data \o s)
      BY <3>1, Regrouped
    <3> QED
      BY <3>2
  <2>2. 1 \in 1 .. Len(f) + 1 /\ c \in 1 - 1 .. Len(f) /\ c + m \in c .. Len(f)
    BY <1>5, <1>7, <1>11
  <2>3. SubSeq(f, 1, c) \o SubSeq(f, c + 1, c + m) = SubSeq(f, 1, c + m)
    BY <1>11, <2>2, ConcatAdjacentSubSeq
  <2> QED
    BY <1>9, <1>10, <2>1, <2>3
<1>15. head \o (data \o s) = SubSeq(Frame(p), 1, c + m)
  BY <1>14 DEF f
<1> QED
  BY <1>1, <1>2, <1>4, <1>5, <1>7, <1>8, <1>12, <1>13, <1>15, ReadStep DEF Received

(* The end of the stream: ReceivePacket fails and hands nothing out.      *)
LEMMA ReadNothingStep == IInv /\ ReadNothing => IInv' /\ Received
<1> SUFFICES ASSUME IInv, ReadNothing PROVE IInv' /\ Received
  OBVIOUS
<1>1. /\ reading' = "failed" /\ ~ open
      /\ UNCHANGED <<length, head, data, rcvd, sending, total, sent, pipe, open>>
  BY DEF ReadNothing, sender
<1>2. TypeOK' /\ Sending'
  BY <1>1 DEF IInv, TypeOK, Sending
<1>3. Piped'
  BY <1>1 DEF IInv, Piped, Known
<1>4. Reading'
  BY <1>1 DEF IInv, Reading
<1> QED
  BY <1>1, <1>2, <1>3, <1>4 DEF IInv, Received

(* Every step keeps the invariant and is one of the abstract channel.      *)
LEMMA NextStep == IInv /\ [Next]_vars => IInv' /\ [Channel!Next]_(Channel!vars)
<1> SUFFICES ASSUME IInv, [Next]_vars PROVE IInv' /\ [Channel!Next]_(Channel!vars)
  OBVIOUS
<1>1. ASSUME IInv', UNCHANGED <<rcvd, open>>, open,
             sent' = sent \/ \E p \in Packets : sent' = Append(sent, Frame(p))
      PROVE  [Channel!Next]_(Channel!vars)
  <2>1. CASE sent' = sent
    BY <1>1, <2>1 DEF Channel!vars
  <2>2. CASE \E p \in Packets : sent' = Append(sent, Frame(p))
    <3>1. \E f \in {Frame(p) : p \in Packets} : sent' = Append(sent, f)
      BY <2>2
    <3>2. Channel!Send
      BY <1>1, <3>1 DEF Channel!Send
    <3> QED
      BY <3>2 DEF Channel!Next
  <2> QED
    BY <1>1, <2>1, <2>2
<1>2. ASSUME Received, UNCHANGED <<sent, open>>
      PROVE  [Channel!Next]_(Channel!vars)
  BY <1>2 DEF Received, Channel!Next, Channel!Receive, Channel!vars
<1>3. ASSUME open' = FALSE, UNCHANGED <<sent, rcvd>>
      PROVE  [Channel!Next]_(Channel!vars)
  BY <1>3 DEF Channel!Next, Channel!Fail
<1>4. CASE SendHeader
  <2>1. IInv' /\ (sent' = sent \/ \E p \in Packets : sent' = Append(sent, Frame(p)))
    BY <1>4, SendHeaderStep
  <2>2. open /\ UNCHANGED <<rcvd, open>>
    BY <1>4 DEF SendHeader, receiver
  <2> QED
    BY <1>1, <2>1, <2>2
<1>5. CASE SendBody
  <2>1. IInv' /\ (sent' = sent \/ \E p \in Packets : sent' = Append(sent, Frame(p)))
    BY <1>5, SendBodyStep
  <2>2. open /\ UNCHANGED <<rcvd, open>>
    BY <1>5 DEF SendBody, receiver
  <2> QED
    BY <1>1, <2>1, <2>2
<1>6. CASE SendFails
  <2>1. open' = FALSE /\ UNCHANGED <<sent, rcvd>>
    BY <1>6 DEF SendFails, sender, receiver
  <2> QED
    BY <1>3, <1>6, <2>1, SendFailsStep
<1>7. CASE Break
  <2>1. open' = FALSE /\ UNCHANGED <<sent, rcvd>>
    BY <1>7 DEF Break, sender, receiver
  <2> QED
    BY <1>3, <1>7, <2>1, BreakStep
<1>8. CASE ReadHeader
  <2>1. IInv' /\ Received
    BY <1>8, ReadHeaderStep
  <2>2. UNCHANGED sent /\ (UNCHANGED open \/ (open' = FALSE /\ UNCHANGED rcvd))
    BY <1>8 DEF ReadHeader, sender
  <2> QED
    BY <1>2, <1>3, <2>1, <2>2
<1>9. CASE ReadBody
  <2>1. UNCHANGED <<sent, open>>
    BY <1>9 DEF ReadBody, sender
  <2> QED
    BY <1>2, <1>9, <2>1, ReadBodyStep
<1>10. CASE ReadNothing
  <2>1. UNCHANGED <<sent, open>>
    BY <1>10 DEF ReadNothing, sender
  <2> QED
    BY <1>2, <1>10, <2>1, ReadNothingStep
<1>11. CASE UNCHANGED vars
  <2>1. UNCHANGED <<sending, total, sent, reading, length, head, data, rcvd, pipe, open>>
    BY <1>11 DEF vars, sender, receiver
  <2>2. TypeOK' /\ Sending' /\ Piped'
    BY <2>1 DEF IInv, TypeOK, Sending, Piped, Known, Before, Chain, Placed, GoesOn, NextBegins
  <2>3. Reading'
    BY <2>1 DEF IInv, Reading, AtHeader, InBody, Known
  <2>4. [Channel!Next]_(Channel!vars)
    BY <2>1 DEF Channel!vars
  <2> QED
    BY <2>2, <2>3, <2>4 DEF IInv
<1> QED
  BY <1>4, <1>5, <1>6, <1>7, <1>8, <1>9, <1>10, <1>11 DEF Next, Sender, Receiver
------------------------------------------------------------------------------
(* The invariant of the connection.                                        *)
THEOREM Invariance == Spec => []IInv
BY InitInv, NextStep, PTL DEF Spec

(* The state of both ends and the stream between them keeps its types.     *)
THEOREM TypeCorrect == Spec => []TypeOK
<1>1. IInv => TypeOK
  BY DEF IInv
<1> QED
  BY <1>1, Invariance, PTL

(* ReceivePacket never takes bytes for a header that are not one, and      *)
(* never bytes of another packet for a body.                               *)
THEOREM StaysInFrame == Spec => []InFrame
<1>1. IInv => InFrame
  <2> SUFFICES ASSUME IInv PROVE InFrame
    OBVIOUS
  <2>1. reading = "header" /\ pipe # <<>> => pipe[1].at = 1
    BY DEF IInv, Reading, AtHeader
  <2>2. CASE reading = "body"
    <3>1. PICK p \in Packets : InBody(p)
      BY <2>2 DEF IInv, Reading
    <3>2. /\ head \in Seq(Bytes) /\ data \in Seq(Bytes) /\ Len(head) = HeaderSize
          /\ Len(data) \in Nat /\ Len(data) < p.size /\ p.size \in Nat
          /\ HeaderSize \in Nat /\ HeaderSize >= 1 /\ Size(p) = HeaderSize + p.size
      BY <2>2, <3>1, StateNumbers, PacketNumbers DEF IInv, TypeOK, InBody, Size
    <3>3. PICK c \in Nat : c = HeaderSize + Len(data)
      BY <3>2
    <3>4. c >= 1 /\ c < Size(p) /\ 0 + c <= Size(p) /\ 0 + 1 = 1 /\ 0 + c = c /\ 0 \in Nat
      BY <3>2, <3>3
    <3>5. head[1].packet = p
      <4>1. (head \o data)[1] = head[1]
        <5>1. 1 \in 1 .. Len(head) + Len(data) /\ 1 <= Len(head)
          BY <3>2
        <5> QED
          BY <3>2, <5>1, ConcatProperties
      <4>2. SubSeq(Frame(p), 0 + 1, 0 + c)[1] = [packet |-> p, at |-> 0 + 1]
        <5>1. 1 \in 1 .. c
          BY <3>4
        <5> QED
          BY <3>4, <5>1, Piece, Zenon
      <4>3. head \o data = SubSeq(Frame(p), 0 + 1, 0 + c)
        BY <3>1, <3>3, <3>4 DEF InBody
      <4>4. head[1] = [packet |-> p, at |-> 0 + 1]
        BY <4>1, <4>2, <4>3
      <4> QED
        BY <4>4, PacketAndPlace
    <3>6. Frame(p)[c + 1] = [packet |-> p, at |-> c + 1]
      <4>1. c + 1 \in 1 .. Size(p)
        BY <3>2, <3>3, <3>4
      <4> QED
        BY <4>1, FrameBytes
    <3>7. /\ length = p.size
          /\ head \o data = SubSeq(Frame(p), 1, HeaderSize + Len(data))
          /\ pipe # <<>> => pipe[1] = Frame(p)[HeaderSize + Len(data) + 1]
      BY <3>1, <3>3, <3>6 DEF InBody
    <3> QED
      BY <2>2, <3>5, <3>7 DEF InFrame
  <2>3. CASE reading # "body"
    BY <2>1, <2>3 DEF InFrame
  <2> QED
    BY <2>2, <2>3
<1> QED
  BY <1>1, Invariance, PTL

(* What comes out of ReceivePacket is what went into SendPacket, packet by *)
(* packet, in order, each once.                                            *)
THEOREM StreamIsChannel == Spec => ImplementsChannel
<1>1. Init => Channel!Init
  BY DEF Init, Channel!Init
<1>2. IInv /\ [Next]_vars => [Channel!Next]_(Channel!vars)
  BY NextStep
<1> QED
  BY <1>1, <1>2, Invariance, PTL DEF Spec, ImplementsChannel, Channel!Spec
==============================================================================
