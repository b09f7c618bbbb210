----------------------------- MODULE PacketBuffer -----------------------------
(***************************************************************************)
(* The buffer of CPacket and its typed reads and writes (Packet.cpp).      *)
(*                                                                         *)
(* A packet is filled by calls of WriteTinyInt .. WriteShortString, for    *)
(* which CheckDataBuffer makes room, is sent, and is emptied by calls of   *)
(* ReadTinyInt .. ReadString at the other end.  The reader need not know   *)
(* what was written: it asks for a field of some type, and CPacket must    *)
(* refuse what is not there.                                               *)
(*                                                                         *)
(* Widths are those of the code, in bytes of Byte values.                  *)
(***************************************************************************)
EXTENDS Integers, Sequences

CONSTANTS
    Byte,           \* values of a byte, 256
    BaseSize,       \* BUFFER_BASE_SIZE
    HeaderSize,     \* 10 in the code
    Kinds,          \* pairs of a category and a command
    Fields,         \* fields that are written
    Limits,         \* sizes and maximum sizes the reader passes
    Foreign,        \* lengths other programs may announce
    MaxFields       \* bound of the model: fields of a packet

Width   == [tiny |-> 1, short |-> 2, int |-> 4, big |-> 8, shortstring |-> 2, string |-> 4]
Numbers == {"tiny", "short", "int", "big"}
Texts   == {"shortstring", "string"}
Types   == Numbers \cup Texts \cup {"char"}

(* How many values two and four bytes have.                                *)
Short == Byte * Byte
Long  == Short * Short

(* A field is a number, in a tuple of its own, or some bytes; strlen gives *)
(* an int.                                                                 *)
ASSUME BufferAssumption ==
    /\ Byte \in Nat /\ Byte > 1 /\ Byte % 2 = 0
    /\ BaseSize \in Nat \ {0} /\ HeaderSize \in 0 .. (Long \div 2)
    /\ Kinds \subseteq Int \X Int
    /\ Fields \subseteq [type : Types, value : Seq(Int)]
    /\ \A f \in Fields : IF f.type \in Numbers THEN Len(f.value) = 1
                                              ELSE f.value \in Seq(0 .. Byte - 1)
    /\ \A f \in Fields : f.type \in Texts => Len(f.value) < Long \div 2
    /\ Limits \subseteq Int
    /\ Foreign \subseteq Nat
    /\ MaxFields \in Nat

VARIABLES
    category, command,  \* m_nCategory, m_nCommand
    length, pointer,    \* m_nDataLength, m_nDataPointer
    data,               \* m_strData
    todo,               \* what a write has still to copy
    role,               \* what is done with the packet
    written,            \* history: the fields written
    results,            \* history: the values read, while the reader agrees
    agreed,             \* history: it has asked for what was written
    announced           \* history: the packet's length by its header

header == <<category, command>>
buffer == <<length, pointer, data>>
buffer_vars == <<header, buffer, todo, role, written, results, agreed, announced>>

Junk == -1              \* a byte that was never written

BufferTypeOK ==
    /\ category \in Int /\ command \in Int
    /\ length \in Nat /\ pointer \in Nat
    /\ data \in [0 .. length - 1 -> Int]
    /\ todo \in Seq(Seq(Int))
    /\ role \in {"write", "read", "foreign", "refused"}
    /\ written \in Seq(Fields)
    /\ results \in Seq(Seq(Int))
    /\ agreed \in BOOLEAN
    /\ announced \in Nat

BufferInit ==
    /\ \E k \in Kinds : category = k[1] /\ command = k[2]
    /\ length = 0 /\ pointer = 0 /\ data = [i \in 0 .. -1 |-> Junk]
    /\ todo = <<>> /\ role = "write"
    /\ written = <<>> /\ results = <<>> /\ agreed = TRUE /\ announced = 0
------------------------------------------------------------------------------
(* How many values n bytes have.                                           *)
Values(n) ==
    CASE n = 1 -> Byte [] n = 2 -> Short [] n = 4 -> Long [] n = 8 -> Long * Long

(* htons, htonl, and WriteBigInt with two calls of it: v modulo the width, *)
(* most significant byte first.                                            *)
Pair(v) == <<(v \div Byte) % Byte, v % Byte>>
Quad(v) == Pair(v \div Short) \o Pair(v)

BytesOf(v, n) ==
    CASE n = 1 -> <<v % Byte>>
      [] n = 2 -> Pair(v)
      [] n = 4 -> Quad(v)
      [] n = 8 -> Quad(v \div Long) \o Quad(v)

(* ntohs and ntohl of the bytes from the i-th on, and all of a number.     *)
PairValue(s, i) == s[i] * Byte + s[i + 1]
QuadValue(s, i) == PairValue(s, i) * Short + PairValue(s, i + 2)

Unsigned(s) ==
    CASE Len(s) = 1 -> s[1]
      [] Len(s) = 2 -> PairValue(s, 1)
      [] Len(s) = 4 -> QuadValue(s, 1)
      [] Len(s) = 8 -> QuadValue(s, 1) * Long + QuadValue(s, 5)

(* What a signed variable of that width holds.                             *)
Signed(s) ==
    LET n == Values(Len(s))
        u == Unsigned(s)
    IN  IF u < n \div 2 THEN u ELSE u - n

(* Faulty variants of the next three, used by no specification.            *)

(* ReadShortInt keeps the sign.                                            *)
NumberSignsShort(t, s) == Signed(s)

(* WriteString writes the terminating zero as well.                        *)
EncodingTerminates(f) ==
    CASE f.type \in Numbers -> <<BytesOf(f.value[1], Width[f.type])>>
      [] f.type \in Texts   -> <<BytesOf(Len(f.value), Width[f.type]), Append(f.value, 0)>>
      [] f.type = "char"    -> <<f.value>>

(* The length is compared with 10 as the unsigned number it is.            *)
BodySizeUnsigned(h) == {Unsigned(h) - HeaderSize}

(* ReadShortInt converts through an unsigned type, the others through a    *)
(* signed one.                                                             *)
Number(t, s) == IF t = "short" THEN Unsigned(s) ELSE Signed(s)

(* What the write of field f copies, part by part.                         *)
Encoding(f) ==
    CASE f.type \in Numbers -> <<BytesOf(f.value[1], Width[f.type])>>
      [] f.type \in Texts   -> <<BytesOf(Len(f.value), Width[f.type]), f.value>>
      [] f.type = "char"    -> <<f.value>>

(* What the header's length makes of m_nDataLength.  The subtraction may   *)
(* overflow; it then wraps, or is still less than 0 for the compiler.      *)
BodySize(h) ==
    LET n == Signed(h) - HeaderSize
    IN  IF n < - (Long \div 2) THEN {n, n + Long} ELSE {n}
------------------------------------------------------------------------------
(* Faulty variants of the actions below; no specification uses them.       *)

(* The old buffer is dropped before it is copied.                          *)
CheckDataBufferForgets ==
    /\ todo # <<>> /\ length - pointer < Len(Head(todo))
    /\ length' = IF length = 0 THEN BaseSize ELSE 2 * length
    /\ data' = [i \in 0 .. length' - 1 |-> Junk]
    /\ UNCHANGED <<header, pointer, todo, role, written, results, agreed, announced>>
------------------------------------------------------------------------------
(* A call of WriteTinyInt .. WriteShortString.                             *)
Write(f) ==
    /\ role = "write" /\ todo = <<>> /\ Len(written) < MaxFields
    /\ todo' = Encoding(f)
    /\ written' = Append(written, f)
    /\ UNCHANGED <<header, buffer, role, results, agreed, announced>>

(* One turn of the loop of CheckDataBuffer.                                *)
CheckDataBuffer ==
    /\ todo # <<>> /\ length - pointer < Len(Head(todo))
    /\ length' = IF length = 0 THEN BaseSize ELSE 2 * length
    /\ data' = [i \in 0 .. length' - 1 |-> IF i < pointer THEN data[i] ELSE Junk]
    /\ UNCHANGED <<header, pointer, todo, role, written, results, agreed, announced>>

CopyPart ==
    /\ todo # <<>> /\ length - pointer >= Len(Head(todo))
    /\ data' = [i \in 0 .. length - 1 |->
                   IF i - pointer \in 0 .. Len(Head(todo)) - 1
                   THEN Head(todo)[i - pointer + 1] ELSE data[i]]
    /\ pointer' = pointer + Len(Head(todo))
    /\ todo' = Tail(todo)
    /\ UNCHANGED <<header, length, role, written, results, agreed, announced>>

(* ReceivePacket reads a header that announces the length in bytes h, and  *)
(* the body from what follows.                                             *)
Receive(h, stream, next) ==
    /\ announced' = Unsigned(h)
    /\ \E n \in BodySize(h) :
          IF n < 0 THEN role' = "refused" /\ UNCHANGED buffer
          ELSE /\ role' = next
               /\ length' = n /\ pointer' = 0
               /\ data' = [i \in 0 .. n - 1 |-> stream[i]]

(* SendPacket and ReceivePacket.  How the bytes travel is in PacketStream. *)
Transfer ==
    /\ role = "write" /\ todo = <<>>
    /\ IF category = 0 \/ command = 0
       THEN role' = "refused" /\ UNCHANGED <<header, buffer, announced>>
       ELSE /\ category' = Signed(BytesOf(category, 1))
            /\ command' = Signed(BytesOf(command, 1))
            /\ Receive(BytesOf(pointer + HeaderSize, 4), data, "read")
    /\ UNCHANGED <<todo, written, results, agreed>>

(* The packet comes from another program, with any length and content.     *)
ReceiveForeign ==
    /\ role = "write" /\ written = <<>>
    /\ \E n \in Foreign :
          Receive(BytesOf(n, 4), [i \in 0 .. n |-> i % Byte], "foreign")
    /\ UNCHANGED <<header, todo, written, results, agreed>>
------------------------------------------------------------------------------
(* CheckDataExists.                                                        *)
Exists(n) == length - pointer >= n

(* The text of that size after its length fits, and in the caller's array. *)
Fits(start, size, max) == length - start >= size /\ size >= 0 /\ size <= max

Slice(start, n) == [i \in 1 .. n |-> data[start + i - 1]]

(* The reader is asking for the type, and size, of the next written field. *)
Asked(t) == Len(results) < Len(written) /\ written[Len(results) + 1].type = t

Give(n, value, same) ==
    /\ pointer' = pointer + n
    /\ results' = IF agreed /\ same THEN Append(results, value) ELSE results
    /\ agreed' = (agreed /\ same)
    /\ UNCHANGED role

(* The read returns FALSE, having consumed n bytes.                        *)
Refuse(n, same) ==
    /\ role' = "refused"
    /\ pointer' = pointer + n
    /\ agreed' = (agreed /\ same)
    /\ UNCHANGED results

Reading == role \in {"read", "foreign"}

(* ReadTinyInt, ReadShortInt, ReadInt, and ReadBigInt, which is two calls  *)
(* of ReadInt.                                                             *)
ReadNumber(t) ==
    /\ Reading
    /\ IF Exists(Width[t])
       THEN Give(Width[t], <<Number(t, Slice(pointer, Width[t]))>>, Asked(t))
       ELSE Refuse(IF t = "big" /\ Exists(Width.int) THEN Width.int ELSE 0, Asked(t))
    /\ UNCHANGED <<header, length, data, todo, written, announced>>

ReadChar(size) ==
    /\ Reading
    /\ LET same == Asked("char") /\ Len(written[Len(results) + 1].value) = size
       IN  IF Exists(size) /\ size >= 0
           THEN Give(size, Slice(pointer, size), same)
           ELSE Refuse(0, same)
    /\ UNCHANGED <<header, length, data, todo, written, announced>>

(* ReadString and ReadShortString.                                         *)
ReadText(t, max) ==
    /\ Reading
    /\ IF ~ Exists(Width[t]) THEN Refuse(0, Asked(t))
       ELSE LET start == pointer + Width[t]
                size  == Number(IF t = "string" THEN "int" ELSE "short",
                                Slice(pointer, Width[t]))
            IN  IF Fits(start, size, max)
                THEN Give(Width[t] + size, Slice(start, size), Asked(t))
                ELSE Refuse(Width[t], Asked(t))
    /\ UNCHANGED <<header, length, data, todo, written, announced>>

IsEOD == length = pointer

Filling == CheckDataBuffer \/ CopyPart

BufferNext ==
    \/ \E f \in Fields : Write(f)
    \/ Filling
    \/ Transfer \/ ReceiveForeign
    \/ \E t \in Numbers : ReadNumber(t)
    \/ \E size \in Limits : ReadChar(size)
    \/ \E t \in Texts, max \in Limits : ReadText(t, max)

BufferSpec == BufferInit /\ [][BufferNext]_buffer_vars
------------------------------------------------------------------------------
(* Whatever is written and whatever the reader asks for, the pointer stays *)
(* in the buffer, and the bytes that are sent or read are bytes that were  *)
(* written.                                                                *)
Bounds ==
    /\ BufferTypeOK
    /\ pointer <= length
    /\ \A i \in 0 .. (IF Reading THEN length ELSE pointer) - 1 : data[i] # Junk

(* What a reader gets for a field: the number modulo what its type holds.  *)
Canonical(f) ==
    LET range == Values(Width[f.type])
        half  == IF f.type = "short" THEN 0 ELSE range \div 2
    IN  IF f.type \in Numbers THEN <<((f.value[1] + half) % range) - half>> ELSE f.value

(* WriteShortString keeps only 16 bits of the length.                      *)
Overlong(f) == f.type = "shortstring" /\ Len(f.value) >= Short

Before == {i \in 1 .. Len(results) : \A j \in 1 .. i : ~ Overlong(written[j])}

(* A reader that asks for what was written gets what was written, in the   *)
(* order it was written, across every growth of the buffer.                *)
RoundTrip == \A i \in Before : results[i] = Canonical(written[i])

NoOverlong == \A i \in 1 .. Len(written) : ~ Overlong(written[i])

(* Such a reader gets all of the packet and nothing else: IsEOD is true    *)
(* when everything has been read, and not before, and the only thing the   *)
(* reader is refused is a text it has no room for.                         *)
AllOfIt ==
    agreed /\ NoOverlong =>
        /\ role = "read" =>
               (IsEOD <=> \A i \in Len(results) + 1 .. Len(written) :
                              written[i].type = "char" /\ written[i].value = <<>>)
        /\ role = "refused" /\ written # <<>> /\ announced # 0 =>
               written[Len(results) + 1].type \in Texts

(* A length that is accepted is the announced one, whatever was announced. *)
AnnouncedLength ==
    Reading => length + HeaderSize = announced /\ length \in 0 .. (Long \div 2) - 1
==============================================================================
