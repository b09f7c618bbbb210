-------------------------- MODULE ReplyDocumentProofs --------------------------
(***************************************************************************)
(* Proofs about a transfer and the document its caller makes of the reply, *)
(* for any sizes of data, replies and buffers and any documents.           *)
(***************************************************************************)
EXTENDS ReplyDocument, SequenceTheorems, TLAPS

(* A piece of the data: its bytes, by their positions.                     *)
LEMMA Pieces ==
    ASSUME NEW m \in Nat, NEW n \in Nat, NEW s, s = Positions(1, m)
    PROVE  /\ Positions(1, m) \in Seq(1 .. m) /\ Len(Positions(1, m)) = m
           /\ s \o Positions(m + 1, n) = Positions(1, m + n)
<1> DEFINE t == Positions(m + 1, n)
<1>1. Positions(1, m) \in Seq(1 .. m) /\ Len(Positions(1, m)) = m
  BY DEF Positions
<1>2. s \in Seq(Nat) /\ Len(s) = m /\ \A i \in 1 .. m : s[i] = i
  BY DEF Positions
<1>3. t \in Seq(Nat) /\ Len(t) = n /\ \A i \in 1 .. n : t[i] = m + i
  BY DEF Positions
<1> HIDE DEF t
<1> DEFINE c == s \o t
           d == Positions(1, m + n)
<1>4. /\ c \in Seq(Nat) /\ Len(c) = m + n
      /\ \A i \in 1 .. m + n : c[i] = IF i <= m THEN s[i] ELSE t[i - m]
  <2>1. /\ c \in Seq(Nat) /\ Len(c) = Len(s) + Len(t)
        /\ \A i \in 1 .. Len(s) + Len(t) : c[i] = IF i <= Len(s) THEN s[i] ELSE t[i - Len(s)]
    BY <1>2, <1>3, ConcatProperties
  <2> QED
    BY <1>2, <1>3, <2>1, Zenon
<1>5. d \in Seq(Nat) /\ Len(d) = m + n /\ \A i \in 1 .. m + n : d[i] = i
  BY DEF Positions
<1> HIDE DEF c, d
<1>6. ASSUME NEW i \in 1 .. m + n PROVE c[i] = i
  <2>1. CASE i <= m
    <3>1. i \in 1 .. m
      BY <2>1
    <3> QED
      BY <1>2, <1>4, <2>1, <3>1
  <2>2. CASE ~ (i <= m)
    <3>1. i - m \in 1 .. n /\ m + (i - m) = i
      BY <2>2
    <3> QED
      BY <1>3, <1>4, <2>2, <3>1
  <2> QED
    BY <2>1, <2>2
<1>7. c = d
  BY <1>4, <1>5, <1>6, SeqEqual
<1> QED
  BY <1>1, <1>7 DEF c, d, t

(* More places for the same positions.                                     *)
LEMMA Wider ==
    ASSUME NEW m \in Nat, NEW n \in Nat, m <= n
    PROVE  Positions(1, m) \in Seq(1 .. n)
BY DEF Positions

(* The transfer: upload and reply are beginnings of what they come from,   *)
(* and the position in the data is the next one.                           *)
UploadInv ==
    /\ TypeOK
    /\ uploaded = Positions(1, Len(uploaded))
    /\ data = Len(uploaded) + 1 /\ length = size - Len(uploaded)
    /\ method = "put" /\ ~ asking /\ ~ status => Len(uploaded) = size

ReplyInv ==
    /\ body = Positions(1, Len(body)) /\ Len(body) <= reply
    /\ pc = "init" => code = "unset"
    /\ WholeReply

(* Nothing has been sent or received at first.                             *)
LEMMA InitTransfer == Init => UploadInv /\ ReplyInv
<1> SUFFICES ASSUME Init PROVE UploadInv /\ ReplyInv
  OBVIOUS
<1>1. /\ size \in Nat /\ size \in Sizes /\ reply \in Nat /\ reply \in Replies
      /\ method \in {"get", "post", "put", "del"} /\ pc = "init"
      /\ data = 1 /\ length = size /\ uploaded = <<>> /\ asking = (method = "put")
      /\ status = FALSE /\ body = <<>> /\ code = "unset"
  BY TransferAssumption DEF Init
<1>2. <<>> = Positions(1, Len(<<>>)) /\ Len(<<>>) = 0
  BY DEF Positions
<1>3. TypeOK
  <2>1. asking \in BOOLEAN /\ status \in BOOLEAN
    BY <1>1
  <2>2. uploaded \in Seq(1 .. size) /\ body \in Seq(1 .. reply)
    BY <1>1
  <2>3. data \in 1 .. size + 1 /\ length \in 0 .. size
    BY <1>1
  <2> QED
    BY <1>1, <2>1, <2>2, <2>3, Zenon DEF TypeOK, Codes
<1>4. UploadInv
  <2>1. method = "put" => asking
    BY <1>1, Zenon
  <2>2. uploaded = Positions(1, Len(uploaded)) /\ Len(uploaded) = 0
    BY <1>1, <1>2
  <2>3. data = 0 + 1 /\ length = size - 0
    BY <1>1
  <2> QED
    BY <1>3, <2>1, <2>2, <2>3, Zenon DEF UploadInv
<1>5. ReplyInv
  BY <1>1, <1>2 DEF ReplyInv, WholeReply
<1> QED
  BY <1>4, <1>5

(* libcurl takes what there is and room for, and stops when that is        *)
(* nothing.                                                                *)
LEMMA ReadCallback ==
    ASSUME UploadInv, ReplyInv, NEW n \in Buffers, read_callback(n)
    PROVE  UploadInv' /\ ReplyInv'
<1> DEFINE k == Min2(length, n)
           u == Len(uploaded)
<1>1. /\ pc = "perform" /\ uploaded' = uploaded \o Positions(data, k)
      /\ data' = data + k /\ length' = length - k /\ asking' = (k > 0)
      /\ UNCHANGED <<method, pc, size, reply, status, body, code>>
  BY DEF read_callback
<1>2. n \in Nat \ {0} /\ size \in Nat /\ u \in Nat /\ data = u + 1 /\ length = size - u
      /\ length \in Nat /\ uploaded = Positions(1, u) /\ size \in Sizes
  BY TransferAssumption DEF UploadInv, TypeOK
<1>3. k \in Nat /\ k <= length /\ (k = 0 => length = 0)
  BY <1>2 DEF Min2
<1> HIDE DEF k, u
<1>4. uploaded' = Positions(1, u + k)
  BY <1>1, <1>2, <1>3, Pieces
<1>5. Len(uploaded') = u + k /\ uploaded' \in Seq(1 .. size)
  BY <1>2, <1>3, <1>4, Pieces, Wider
<1>6. data' = (u + k) + 1 /\ length' = size - (u + k) /\ u + k \in 0 .. size
  BY <1>1, <1>2, <1>3
<1>7. data' \in 1 .. size + 1 /\ length' \in 0 .. size /\ asking' \in BOOLEAN
  BY <1>1, <1>2, <1>6
<1>8. TypeOK'
  BY <1>1, <1>5, <1>7 DEF UploadInv, TypeOK
<1>9. ~ asking' => u + k = size
  <2>1. k = 0 => u + k = size
    BY <1>2, <1>3
  <2>2. ~ asking' => ~ (k > 0)
    BY <1>1, Zenon
  <2> QED
    BY <1>3, <2>1, <2>2
<1>10. UploadInv'
  BY <1>1, <1>4, <1>5, <1>6, <1>8, <1>9 DEF UploadInv
<1> QED
  BY <1>1, <1>10 DEF ReplyInv, WholeReply

(* A piece of the reply goes behind the others.                            *)
LEMMA WriteCallback ==
    ASSUME UploadInv, ReplyInv, NEW n \in Buffers, write_callback(n)
    PROVE  UploadInv' /\ ReplyInv'
<1> DEFINE b == Len(body)
<1>1. /\ pc = "perform" /\ b + n <= reply /\ body' = body \o Positions(b + 1, n)
      /\ UNCHANGED <<method, pc, size, data, length, uploaded, asking, reply, status, code>>
  BY DEF write_callback, upload
<1>2. n \in Nat /\ b \in Nat /\ reply \in Nat /\ body = Positions(1, b)
  BY TransferAssumption DEF UploadInv, ReplyInv, TypeOK
<1> HIDE DEF b
<1>3. body' = Positions(1, b + n)
  BY <1>1, <1>2, Pieces
<1>4. Len(body') = b + n /\ body' \in Seq(1 .. reply)
  <2>1. b + n \in Nat
    BY <1>2
  <2> QED
    BY <1>1, <1>2, <1>3, <2>1, Pieces, Wider
<1>5. TypeOK'
  BY <1>1, <1>4 DEF UploadInv, TypeOK
<1>6. UploadInv'
  BY <1>1, <1>5 DEF UploadInv
<1> QED
  BY <1>1, <1>3, <1>4, <1>6 DEF ReplyInv, WholeReply

(* Every step of the transfer keeps both.                                  *)
LEMMA NextTransfer ==
    ASSUME UploadInv, ReplyInv, [Next]_vars
    PROVE  UploadInv' /\ ReplyInv'
<1>1. CASE NoHandle \/ Handle
  <2>1. /\ pc = "init" /\ pc' \in {"returned", "perform"}
        /\ UNCHANGED <<method, size, data, length, uploaded, asking, reply, status, body, code>>
    BY <1>1 DEF NoHandle, Handle, upload
  <2> QED
    BY <2>1 DEF UploadInv, ReplyInv, WholeReply, TypeOK
<1>2. ASSUME NEW n \in Buffers, read_callback(n) \/ write_callback(n)
      PROVE  UploadInv' /\ ReplyInv'
  BY <1>2, ReadCallback, WriteCallback
<1>3. CASE Status
  BY <1>3 DEF Status, UploadInv, ReplyInv, WholeReply, TypeOK
<1>4. CASE Succeed
  BY <1>4 DEF Succeed, upload, UploadInv, ReplyInv, WholeReply, TypeOK, Codes
<1>5. CASE Fail
  BY <1>5 DEF Fail, upload, UploadInv, ReplyInv, WholeReply, TypeOK, Codes
<1>6. CASE UNCHANGED vars
  BY <1>6 DEF vars, upload, UploadInv, ReplyInv, WholeReply, TypeOK
<1> QED
  BY <1>1, <1>2, <1>3, <1>4, <1>5, <1>6 DEF Next

(* The caller leaves the transfer alone.                                   *)
LEMMA ReplyTransfer == UploadInv /\ ReplyInv /\ [ReplyNext]_all => (UploadInv /\ ReplyInv)'
<1>1. [ReplyNext]_all => [Next]_vars
  BY DEF ReplyNext, Transfer, Caller, all
<1> QED
  BY <1>1, NextTransfer

(* What put has sent is the beginning of its data, and in the end all of   *)
(* it, for any data and any sizes of libcurl's buffer.                     *)
THEOREM UploadCorrect == ReplySpec => []UploadExact
<1>1. ReplyInit => UploadInv /\ ReplyInv
  BY InitTransfer DEF ReplyInit
<1>2. UploadInv /\ ReplyInv => UploadExact
  BY DEF UploadInv, UploadExact
<1> QED
  BY <1>1, <1>2, ReplyTransfer, PTL DEF ReplySpec

(* Only get calls part of a reply an answer.                               *)
THEOREM RepliesWhole == ReplySpec => []WholeReply
<1>1. ReplyInit => UploadInv /\ ReplyInv
  BY InitTransfer DEF ReplyInit
<1>2. UploadInv /\ ReplyInv => WholeReply
  BY DEF ReplyInv
<1> QED
  BY <1>1, <1>2, ReplyTransfer, PTL DEF ReplySpec
------------------------------------------------------------------------------
(* The document of the reply.                                              *)

(* A value in the place of a member makes a document.                      *)
LEMMA Stored ==
    ASSUME Doc!IsDocument(m_root), NEW k \in Keys, NEW v, Doc!IsValue(v)
    PROVE  /\ Doc!IsDocument(Doc!Store(k, v))
           /\ Doc!Store(k, v).members[k] = v
           /\ \A j \in Keys \ {k} : Doc!Store(k, v).members[j] = m_root.members[j]
<1> DEFINE f == m_root.members
           g == [f EXCEPT ![k] = v]
<1>1. f \in [Keys -> Doc!Shapes] /\ v \in Doc!Shapes /\ \A j \in Keys : Doc!IsValue(f[j])
  BY DEF Doc!IsDocument, Doc!IsValue
<1> HIDE DEF f
<1>2. /\ g \in [Keys -> Doc!Shapes] /\ g[k] = v
      /\ \A j \in Keys \ {k} : g[j] = f[j]
  BY <1>1
<1>3. \A j \in Keys : Doc!IsValue(g[j])
  BY <1>1, <1>2
<1> HIDE DEF g
<1>4. Doc!Store(k, v) = [type |-> "object", members |-> g]
  BY DEF Doc!Store, Doc!Root, f, g
<1>5. Doc!IsDocument([type |-> "object", members |-> g])
  BY <1>2, <1>3 DEF Doc!IsDocument
<1> QED
  BY <1>2, <1>4, <1>5 DEF f

(* Values: of a scalar, of an array, of an object.                         *)
LEMMA Values ==
    /\ \A t \in Doc!Simple \cup {"array", "object", Doc!Nothing} :
            /\ Doc!IsValue(Doc!Plain(t))
            /\ Doc!Plain(t).type = t /\ Doc!Plain(t).items = << >>
            /\ \A x \in Subkeys : Doc!Plain(t).members[x] = Doc!Nothing
    /\ \A s \in Seq(Doc!Simple) : Len(s) <= MaxItems =>
            LET v == Doc!Value("array", s, Doc!NoMembers)
            IN  /\ Doc!IsValue(v) /\ v.type = "array" /\ v.items = s
                /\ \A x \in Subkeys : v.members[x] = Doc!Nothing
    /\ \A f \in [Subkeys -> Doc!Simple \cup {Doc!Nothing}] :
            LET v == Doc!Value("object", << >>, f)
            IN  Doc!IsValue(v) /\ v.type = "object" /\ v.items = << >> /\ v.members = f
<1>1. MaxItems \in Nat
  BY TextsAssumption
<1> USE <1>1 DEF Doc!IsValue, Doc!Shapes, Doc!Plain, Doc!Value, Doc!NoMembers
<1>2. ASSUME NEW t \in Doc!Simple \cup {"array", "object", Doc!Nothing}
      PROVE  /\ Doc!IsValue(Doc!Plain(t))
             /\ Doc!Plain(t).type = t /\ Doc!Plain(t).items = << >>
             /\ \A x \in Subkeys : Doc!Plain(t).members[x] = Doc!Nothing
  OBVIOUS
<1>3. ASSUME NEW s \in Seq(Doc!Simple), Len(s) <= MaxItems
      PROVE  LET v == Doc!Value("array", s, Doc!NoMembers)
             IN  /\ Doc!IsValue(v) /\ v.type = "array" /\ v.items = s
                 /\ \A x \in Subkeys : v.members[x] = Doc!Nothing
  BY <1>3
<1>4. ASSUME NEW f \in [Subkeys -> Doc!Simple \cup {Doc!Nothing}]
      PROVE  LET v == Doc!Value("object", << >>, f)
             IN  Doc!IsValue(v) /\ v.type = "object" /\ v.items = << >> /\ v.members = f
  OBVIOUS
<1> QED
  BY <1>2, <1>3, <1>4

(* Every member is a value; what is not an array has no items, what is not *)
(* an object no members.                                                   *)
LEMMA Member ==
    ASSUME Doc!TypeOK, NEW k \in Keys
    PROVE  LET v == m_root.members[k]
           IN  /\ Doc!IsValue(v)
               /\ v.items \in Seq(Doc!Simple) /\ Len(v.items) \in Nat
               /\ v.members \in [Subkeys -> Doc!Simple \cup {Doc!Nothing}]
               /\ v.type # "array" => v.items = << >>
               /\ v.type # "object" => \A x \in Subkeys : v.members[x] = Doc!Nothing
BY DEF Doc!TypeOK, Doc!IsDocument, Doc!IsValue, Doc!Shapes, Doc!NoMembers

(* A write that brings no null member.                                     *)
LEMMA DoneKeepsOrigin ==
    ASSUME Doc!NullOrigin, NEW root, Doc!IsDocument(root), Doc!Done(root),
           \A k \in Keys, x \in Subkeys :
                root.members[k].members[x] = "null" => m_root.members[k].members[x] = "null"
    PROVE  Doc!NullOrigin'
<1> DEFINE Old(k, x) == m_root.members[k].members[x]
           New(k, x) == root.members[k].members[x]
<1>1. /\ m_root' = root /\ aborted' = FALSE
      /\ created' = {c \in created : New(c[1], c[2]) # Doc!Nothing /\ New(c[1], c[2]) = Old(c[1], c[2])}
  BY Zenon DEF Doc!Done
<1>2. /\ created \subseteq Keys \X Subkeys
      /\ \A k \in Keys, x \in Subkeys : Old(k, x) = "null" <=> <<k, x>> \in created
      /\ \A k \in Keys, x \in Subkeys : New(k, x) = "null" => Old(k, x) = "null"
  BY DEF Doc!NullOrigin, Doc!TypeOK
<1> HIDE DEF Old, New
<1>3. ASSUME NEW k \in Keys, NEW x \in Subkeys
      PROVE  New(k, x) = "null" <=> <<k, x>> \in created'
  BY <1>1, <1>2 DEF Doc!Nothing
<1>4. created' \subseteq Keys \X Subkeys
  BY <1>1, <1>2
<1>5. Doc!TypeOK'
  BY <1>1, <1>4 DEF Doc!TypeOK
<1> QED
  BY <1>1, <1>3, <1>5 DEF Doc!NullOrigin, New

(* An abort, and a call that finds what it looks for, change nothing.      *)
LEMMA SameKeepsOrigin ==
    ASSUME Doc!NullOrigin, Doc!Abort \/ Doc!Same
    PROVE  Doc!NullOrigin' /\ m_root' = m_root
BY DEF Doc!NullOrigin, Doc!TypeOK, Doc!Abort, Doc!Same

(* What LeavesOthers says of a call.                                       *)
Others ==
    last'.op # "ReadParse" =>
        /\ \A k \in Keys \ {last'.key} : m_root'.members[k] = m_root.members[k]
        /\ last'.op # "WriteValue" =>
             \A k \in Keys :
                /\ \A x \in Subkeys \ {last'.sub} :
                      m_root'.members[k].members[x] = m_root.members[k].members[x]
                /\ SubSeq(m_root'.members[k].items, 1, Len(m_root.members[k].items))
                      = m_root.members[k].items

(* The items that were there before one is appended.                       *)
LEMMA ItemsBefore ==
    ASSUME NEW S, NEW s \in Seq(S), NEW e \in S
    PROVE  SubSeq(s, 1, Len(s)) = s /\ SubSeq(Append(s, e), 1, Len(s)) = s
<1> DEFINE a == Append(s, e)
           b == SubSeq(a, 1, Len(s))
           c == SubSeq(s, 1, Len(s))
<1>1. Len(s) \in Nat /\ a \in Seq(S) /\ Len(a) = Len(s) + 1 /\ \A i \in 1 .. Len(s) : a[i] = s[i]
  BY AppendProperties
<1> HIDE DEF a
<1>2. b \in Seq(S) /\ Len(b) = Len(s) /\ \A i \in 1 .. Len(s) : b[i] = a[i]
  BY <1>1
<1>3. c \in Seq(S) /\ Len(c) = Len(s) /\ \A i \in 1 .. Len(s) : c[i] = s[i]
  BY <1>1
<1> HIDE DEF b, c
<1>4. b = s
  BY <1>1, <1>2, SeqEqual
<1>5. c = s
  BY <1>1, <1>3, SeqEqual
<1> QED
  BY <1>4, <1>5 DEF a, b, c

(* A call that changes nothing.                                            *)
LEMMA SameLeavesOthers ==
    ASSUME Doc!TypeOK, m_root' = m_root
    PROVE  Others
<1>1. \A k \in Keys : SubSeq(m_root.members[k].items, 1, Len(m_root.members[k].items))
                        = m_root.members[k].items
  <2>1. \A k \in Keys : m_root.members[k].items \in Seq(Doc!Simple) /\ "null" \in Doc!Simple
    BY Member DEF Doc!Simple
  <2> QED
    BY <2>1, ItemsBefore
<1> QED
  BY <1>1 DEF Others

(* A call that stores a value which agrees with the old one where it does  *)
(* not name a member.                                                      *)
LEMMA StoreLeavesOthers ==
    ASSUME Doc!TypeOK, NEW k \in Keys, NEW v, Doc!IsValue(v), m_root' = Doc!Store(k, v),
           last'.key = k,
           \/ last'.op = "WriteValue"
           \/ /\ \A x \in Subkeys \ {last'.sub} : v.members[x] = m_root.members[k].members[x]
              /\ SubSeq(v.items, 1, Len(m_root.members[k].items)) = m_root.members[k].items
    PROVE  Others
<1>1. /\ m_root'.members[k] = v
      /\ \A j \in Keys \ {k} : m_root'.members[j] = m_root.members[j]
  BY Stored DEF Doc!TypeOK
<1>2. \A j \in Keys : SubSeq(m_root.members[j].items, 1, Len(m_root.members[j].items))
                        = m_root.members[j].items
  <2>1. \A j \in Keys : m_root.members[j].items \in Seq(Doc!Simple) /\ "null" \in Doc!Simple
    BY Member DEF Doc!Simple
  <2> QED
    BY <2>1, ItemsBefore
<1>3. ASSUME last'.op # "WriteValue", NEW j \in Keys
      PROVE  /\ \A x \in Subkeys \ {last'.sub} :
                   m_root'.members[j].members[x] = m_root.members[j].members[x]
             /\ SubSeq(m_root'.members[j].items, 1, Len(m_root.members[j].items))
                   = m_root.members[j].items
  <2>1. CASE j = k
    BY <1>1, <1>3, <2>1
  <2>2. CASE j # k
    BY <1>1, <1>2, <2>2
  <2> QED
    BY <2>1, <2>2
<1> QED
  BY <1>1, <1>3 DEF Others

(* The same, of a call that brings no null member.                         *)
LEMMA DoneStore ==
    ASSUME Doc!NullOrigin, NEW k \in Keys, NEW v, Doc!IsValue(v), Doc!Done(Doc!Store(k, v)),
           \A x \in Subkeys : v.members[x] = "null" => m_root.members[k].members[x] = "null"
    PROVE  Doc!NullOrigin' /\ m_root' = Doc!Store(k, v)
<1> DEFINE r == Doc!Store(k, v)
<1>1. /\ Doc!IsDocument(r) /\ r.members[k] = v
      /\ \A j \in Keys \ {k} : r.members[j] = m_root.members[j]
  BY Stored DEF Doc!NullOrigin, Doc!TypeOK
<1>2. m_root' = r /\ Doc!Done(r)
  BY DEF Doc!Done
<1> HIDE DEF r
<1>3. \A j \in Keys, x \in Subkeys :
            r.members[j].members[x] = "null" => m_root.members[j].members[x] = "null"
  BY <1>1
<1>4. Doc!NullOrigin'
  BY <1>1, <1>2, <1>3, DoneKeepsOrigin
<1> QED
  BY <1>2, <1>4 DEF r

(* What there is of a value when the text ends is a value.                 *)
LEMMA BegunIsValue ==
    ASSUME NEW v, Doc!IsValue(v), NEW u \in Doc!Begun(v)
    PROVE  Doc!IsValue(u)
<1>0. MaxItems \in Nat
  BY TextsAssumption
<1>1. /\ v.items \in Seq(Doc!Simple) /\ Len(v.items) \in Nat /\ Len(v.items) <= MaxItems
      /\ v.members \in [Subkeys -> Doc!Simple \cup {Doc!Nothing}]
  BY DEF Doc!IsValue, Doc!Shapes
<1>2. "null" \in Doc!Simple
  BY DEF Doc!Simple
<1>3. CASE u = Doc!Plain("null")
  BY <1>2, <1>3, Values
<1>4. ASSUME NEW s \in Doc!BegunItems(v.items), u = Doc!Value("array", s, Doc!NoMembers)
      PROVE  Doc!IsValue(u)
  <2>1. ASSUME NEW n \in 0 .. Len(v.items), s = SubSeq(v.items, 1, n)
        PROVE  s \in Seq(Doc!Simple) /\ Len(s) <= MaxItems
    <3>1. s \in Seq(Doc!Simple) /\ Len(s) = n
      BY <1>1, <2>1, SubSeqProperties
    <3> QED
      BY <1>0, <1>1, <3>1
  <2>2. ASSUME NEW n \in 1 .. Len(v.items), s = Append(SubSeq(v.items, 1, n - 1), "null")
        PROVE  s \in Seq(Doc!Simple) /\ Len(s) <= MaxItems
    <3> DEFINE q == SubSeq(v.items, 1, n - 1)
    <3>1. q \in Seq(Doc!Simple) /\ Len(q) = n - 1
      BY <1>1, SubSeqProperties
    <3> HIDE DEF q
    <3>2. Append(q, "null") \in Seq(Doc!Simple) /\ Len(Append(q, "null")) = n
      BY <1>1, <1>2, <3>1, AppendProperties
    <3>3. s = Append(q, "null")
      BY <2>2 DEF q
    <3> QED
      BY <1>0, <1>1, <3>2, <3>3
  <2>3. s \in Seq(Doc!Simple) /\ Len(s) <= MaxItems
    BY <2>1, <2>2 DEF Doc!BegunItems
  <2> QED
    BY <1>4, <2>3, Values
<1>5. ASSUME NEW x \in Subkeys, NEW f \in Doc!Partly(v.members, x, "null", Doc!Nothing),
             u = Doc!Value("object", << >>, f)
      PROVE  Doc!IsValue(u)
  <2>1. DOMAIN v.members = Subkeys
    BY <1>1
  <2>2. f \in [Subkeys -> Doc!Simple \cup {Doc!Nothing}]
    BY <1>1, <1>2, <2>1 DEF Doc!Partly
  <2> QED
    BY <1>5, <2>2, Values
<1> QED
  BY <1>3, <1>4, <1>5 DEF Doc!Begun

(* What there is of a document is a document.                              *)
LEMMA PartlyIsDocument ==
    ASSUME NEW text, Doc!IsDocument(text), NEW k \in Keys, NEW u, Doc!IsValue(u),
           NEW g \in Doc!Partly(text.members, k, u, Doc!Absent)
    PROVE  Doc!IsDocument(Doc!Root("object", g))
<1>1. Doc!IsValue(Doc!Absent)
  BY Values DEF Doc!Absent
<1>2. text.members \in [Keys -> Doc!Shapes] /\ \A j \in Keys : Doc!IsValue(text.members[j])
  BY DEF Doc!IsDocument
<1>3. u \in Doc!Shapes /\ Doc!Absent \in Doc!Shapes
  BY <1>1 DEF Doc!IsValue
<1>4. DOMAIN text.members = Keys
  BY <1>2
<1>5. PICK S \in SUBSET Keys :
         g = [j \in Keys |-> IF j = k THEN u ELSE IF j \in S THEN text.members[j] ELSE Doc!Absent]
  BY <1>4 DEF Doc!Partly
<1>6. g \in [Keys -> Doc!Shapes]
  BY <1>2, <1>3, <1>5
<1>7. \A j \in Keys : g[j] = u \/ g[j] = text.members[j] \/ g[j] = Doc!Absent
  BY <1>5
<1>8. \A j \in Keys : Doc!IsValue(g[j])
  BY <1>1, <1>2, <1>7
<1> QED
  BY <1>6, <1>8 DEF Doc!IsDocument, Doc!Root

(* InitData and ReadParse.                                                 *)
LEMMA ParseKeeps ==
    ASSUME Doc!NullOrigin, NEW text \in Texts, Doc!ReadParse(text)
    PROVE  Doc!NullOrigin' /\ Others
<1>1. /\ last'.op = "ReadParse" /\ created' = Doc!Nulls(m_root') /\ aborted' = aborted
      /\ \/ m_root' = text
         \/ m_root' = Doc!Root("null", Doc!Empty)
         \/ \E k \in Keys : \E u \in Doc!Begun(text.members[k]) :
               \E g \in Doc!Partly(text.members, k, u, Doc!Absent) : m_root' = Doc!Root("object", g)
  BY DEF Doc!ReadParse, Doc!Begin, Doc!Call
<1>2. Doc!IsDocument(text)
  BY TextsAssumption
<1>3. Doc!IsDocument(Doc!Root("null", Doc!Empty))
  <2>1. Doc!IsValue(Doc!Absent) /\ Doc!Absent \in Doc!Shapes
    BY Values DEF Doc!Absent, Doc!IsValue
  <2> QED
    BY <2>1 DEF Doc!IsDocument, Doc!Root, Doc!Empty
<1>4. ASSUME NEW k \in Keys, NEW u \in Doc!Begun(text.members[k]),
             NEW g \in Doc!Partly(text.members, k, u, Doc!Absent), m_root' = Doc!Root("object", g)
      PROVE  Doc!IsDocument(m_root')
  <2>1. Doc!IsValue(text.members[k])
    BY <1>2 DEF Doc!IsDocument
  <2>2. Doc!IsValue(u)
    BY <2>1, BegunIsValue
  <2> QED
    BY <1>2, <1>4, <2>2, PartlyIsDocument
<1>5. Doc!IsDocument(m_root')
  BY <1>1, <1>2, <1>3, <1>4
<1>6. Doc!TypeOK'
  <2>1. created' \subseteq Keys \X Subkeys
    BY <1>1 DEF Doc!Nulls
  <2>2. aborted' \in BOOLEAN
    BY <1>1, Zenon DEF Doc!NullOrigin, Doc!TypeOK
  <2> QED
    BY <1>5, <2>1, <2>2, Zenon DEF Doc!TypeOK
<1>7. Doc!NullOrigin'
  <2>1. ASSUME NEW k \in Keys, NEW x \in Subkeys
        PROVE  m_root'.members[k].members[x] = "null" <=> <<k, x>> \in created'
    BY <1>1 DEF Doc!Nulls
  <2> QED
    BY <1>6, <2>1 DEF Doc!NullOrigin
<1> QED
  BY <1>1, <1>7 DEF Others

(* Reads of a member of a member; one as bool may create it.               *)
LEMMA ReadArrayValueKeeps ==
    ASSUME Doc!NullOrigin, NEW k \in Keys, NEW x \in Subkeys, NEW as, Doc!ReadArrayValue(k, x, as)
    PROVE  Doc!NullOrigin' /\ Others
<1> DEFINE v == m_root.members[k]
           w == Doc!Value("object", << >>, [v.members EXCEPT ![x] = "null"])
<1>1. last'.op = "ReadArrayValue" /\ last'.key = k /\ last'.sub = x
  BY DEF Doc!ReadArrayValue, Doc!Begin, Doc!Call
<1>2. Doc!TypeOK
  BY DEF Doc!NullOrigin
<1>3. CASE Doc!Abort \/ Doc!Same
  BY <1>2, <1>3, SameKeepsOrigin, SameLeavesOthers
<1>4. CASE /\ Doc!Members(v) /\ Doc!Creates(k, x, as)
           /\ m_root' = Doc!Store(k, w)
           /\ created' = (IF as = "bool" THEN created \cup {<<k, x>>} ELSE created)
           /\ aborted' = aborted
  <2>1. /\ v.members \in [Subkeys -> Doc!Simple \cup {Doc!Nothing}] /\ v.items = << >>
        /\ as = "bool"
    BY <1>2, <1>4, Member DEF Doc!Members, Doc!Creates
  <2>2. [v.members EXCEPT ![x] = "null"] \in [Subkeys -> Doc!Simple \cup {Doc!Nothing}]
    BY <2>1 DEF Doc!Simple
  <2>3. /\ Doc!IsValue(w) /\ w.items = << >> /\ w.members[x] = "null"
        /\ \A y \in Subkeys \ {x} : w.members[y] = v.members[y]
    BY <2>1, <2>2, Values
  <2> HIDE DEF w
  <2>4. /\ Doc!IsDocument(m_root') /\ m_root'.members[k] = w
        /\ \A j \in Keys \ {k} : m_root'.members[j] = m_root.members[j]
    BY <1>2, <1>4, <2>3, Stored DEF Doc!TypeOK
  <2>5. Doc!TypeOK'
    <3>1. created' = created \cup {<<k, x>>} /\ created \subseteq Keys \X Subkeys
      BY <1>2, <1>4, <2>1 DEF Doc!TypeOK
    <3>2. created' \subseteq Keys \X Subkeys
      BY <3>1
    <3>3. aborted' \in BOOLEAN
      BY <1>2, <1>4, Zenon DEF Doc!TypeOK
    <3> QED
      BY <2>4, <3>2, <3>3, Zenon DEF Doc!TypeOK
  <2>6. ASSUME NEW j \in Keys, NEW y \in Subkeys
        PROVE  m_root'.members[j].members[y] = "null" <=> <<j, y>> \in created'
    <3>1. m_root.members[j].members[y] = "null" <=> <<j, y>> \in created
      BY DEF Doc!NullOrigin
    <3>2. created' = created \cup {<<k, x>>}
      BY <1>4, <2>1
    <3> QED
      BY <2>3, <2>4, <3>1, <3>2
  <2>7. SubSeq(w.items, 1, Len(v.items)) = v.items
    BY <2>1, <2>3
  <2> QED
    BY <1>1, <1>2, <1>4, <2>3, <2>5, <2>6, <2>7, StoreLeavesOthers DEF Doc!NullOrigin
<1> QED
  BY <1>3, <1>4, Zenon DEF Doc!ReadArrayValue

(* Calls that look at the document and leave it as it is.                  *)
LEMMA LookKeeps ==
    ASSUME Doc!NullOrigin, NEW k \in Keys,
           \/ \E as \in Doc!Scalars : Doc!ReadValue(k, as)
           \/ Doc!GetReadArrayCount(k)
           \/ \E i \in 1 .. MaxItems : Doc!ReadArray(k, i)
    PROVE  Doc!NullOrigin' /\ Others
<1>1. Doc!Abort \/ Doc!Same
  BY DEF Doc!ReadValue, Doc!GetReadArrayCount, Doc!ReadArray
<1>2. Doc!TypeOK
  BY DEF Doc!NullOrigin
<1> QED
  BY <1>1, <1>2, SameKeepsOrigin, SameLeavesOthers

(* WriteValueString .. WriteValueLongLong.                                 *)
LEMMA WriteValueKeeps ==
    ASSUME Doc!NullOrigin, NEW k \in Keys, NEW t \in Doc!Scalars, Doc!WriteValue(k, t)
    PROVE  Doc!NullOrigin' /\ Others
<1>1. last'.op = "WriteValue" /\ last'.key = k
  BY DEF Doc!WriteValue, Doc!Begin, Doc!Call
<1>2. Doc!TypeOK
  BY DEF Doc!NullOrigin
<1>3. CASE Doc!Abort
  BY <1>2, <1>3, SameKeepsOrigin, SameLeavesOthers
<1>4. CASE Doc!Done(Doc!Store(k, Doc!Plain(t)))
  <2>1. t \in Doc!Simple \cup {"array", "object", Doc!Nothing}
    BY DEF Doc!Simple
  <2>2. /\ Doc!IsValue(Doc!Plain(t))
        /\ \A x \in Subkeys : Doc!Plain(t).members[x] # "null"
    BY <2>1, Values DEF Doc!Nothing
  <2>3. Doc!NullOrigin' /\ m_root' = Doc!Store(k, Doc!Plain(t))
    BY <1>4, <2>2, DoneStore
  <2> QED
    BY <1>1, <1>2, <2>2, <2>3, StoreLeavesOthers
<1> QED
  BY <1>3, <1>4, Zenon DEF Doc!WriteValue

(* The value WriteArrayAppend and WriteArrayValue start from is the old    *)
(* one, or has what the old one has: nothing.                              *)
LEMMA StartFrom ==
    ASSUME Doc!TypeOK, NEW k \in Keys, NEW t \in {"array", "object"}
    PROVE  LET u == m_root.members[k]
               v == Doc!Start(k, t)
           IN  /\ Doc!IsValue(v) /\ v.items = u.items
               /\ \A x \in Subkeys : v.members[x] = u.members[x]
<1>1. CASE m_root.members[k].type \in {Doc!Nothing, "null"}
  <2>1. t \in Doc!Simple \cup {"array", "object", Doc!Nothing} /\ Doc!Start(k, t) = Doc!Plain(t)
    BY <1>1 DEF Doc!Start
  <2>2. /\ m_root.members[k].items = << >>
        /\ \A x \in Subkeys : m_root.members[k].members[x] = Doc!Nothing
    BY <1>1, Member DEF Doc!Nothing
  <2> QED
    BY <2>1, <2>2, Values
<1>2. CASE m_root.members[k].type \notin {Doc!Nothing, "null"}
  BY <1>2, Member DEF Doc!Start
<1> QED
  BY <1>1, <1>2

(* WriteArrayAppend puts an item behind the others.                        *)
LEMMA WriteArrayAppendKeeps ==
    ASSUME Doc!NullOrigin, NEW k \in Keys, Doc!WriteArrayAppend(k)
    PROVE  Doc!NullOrigin' /\ Others
<1> DEFINE u == m_root.members[k]
           v == Doc!Start(k, "array")
           s == Append(v.items, "string")
           w == Doc!Value("array", s, Doc!NoMembers)
<1>1. last'.op = "WriteArrayAppend" /\ last'.key = k /\ Len(u.items) < MaxItems
  BY DEF Doc!WriteArrayAppend, Doc!Begin, Doc!Call
<1>2. Doc!TypeOK /\ MaxItems \in Nat
  BY TextsAssumption DEF Doc!NullOrigin
<1>3. CASE Doc!Abort
  BY <1>2, <1>3, SameKeepsOrigin, SameLeavesOthers
<1>4. CASE v.type = "array" /\ Doc!Done(Doc!Store(k, w))
  <2>1. /\ v.items = u.items /\ u.items \in Seq(Doc!Simple) /\ "string" \in Doc!Simple
        /\ \A x \in Subkeys : v.members[x] = u.members[x]
    BY <1>2, StartFrom, Member DEF Doc!Simple, Doc!Scalars
  <2>2. s \in Seq(Doc!Simple) /\ Len(s) <= MaxItems /\ SubSeq(s, 1, Len(u.items)) = u.items
    BY <1>1, <1>2, <2>1, AppendProperties, ItemsBefore
  <2>3. \A x \in Subkeys : u.members[x] = Doc!Nothing
    <3>1. v.members = Doc!NoMembers
      <4>1. Doc!IsValue(v)
        BY <1>2, StartFrom
      <4> QED
        BY <1>4, <4>1 DEF Doc!IsValue
    <3> QED
      BY <2>1, <3>1 DEF Doc!NoMembers
  <2> HIDE DEF s
  <2>4. /\ Doc!IsValue(w) /\ w.items = s
        /\ \A x \in Subkeys : w.members[x] = Doc!Nothing
    BY <2>2, Values
  <2> HIDE DEF w
  <2>5. \A x \in Subkeys : w.members[x] # "null" /\ w.members[x] = u.members[x]
    BY <2>3, <2>4 DEF Doc!Nothing
  <2>6. Doc!NullOrigin' /\ m_root' = Doc!Store(k, w)
    BY <1>4, <2>4, <2>5, DoneStore
  <2> QED
    BY <1>1, <1>2, <2>2, <2>4, <2>5, <2>6, StoreLeavesOthers
<1>5. Doc!Abort \/ (v.type = "array" /\ Doc!Done(Doc!Store(k, w)))
  BY DEF Doc!WriteArrayAppend, Doc!Abort
<1> QED
  BY <1>3, <1>4, <1>5

(* WriteArrayValueString .. WriteArrayValueBool change one member.         *)
LEMMA WriteArrayValueKeeps ==
    ASSUME Doc!NullOrigin, NEW k \in Keys, NEW x \in Subkeys, NEW t \in Doc!Scalars,
           Doc!WriteArrayValue(k, x, t)
    PROVE  Doc!NullOrigin' /\ Others
<1> DEFINE u == m_root.members[k]
           v == Doc!Start(k, "object")
           f == [v.members EXCEPT ![x] = t]
           w == Doc!Value("object", << >>, f)
<1>1. last'.op = "WriteArrayValue" /\ last'.key = k /\ last'.sub = x
  BY DEF Doc!WriteArrayValue, Doc!Begin, Doc!Call
<1>2. Doc!TypeOK
  BY DEF Doc!NullOrigin
<1>3. CASE Doc!Abort
  BY <1>2, <1>3, SameKeepsOrigin, SameLeavesOthers
<1>4. CASE v.type = "object" /\ Doc!Done(Doc!Store(k, w))
  <2>1. /\ Doc!IsValue(v) /\ v.items = u.items
        /\ \A y \in Subkeys : v.members[y] = u.members[y]
    BY <1>2, StartFrom
  <2>2. v.items = << >> /\ v.members \in [Subkeys -> Doc!Simple \cup {Doc!Nothing}]
    BY <1>4, <2>1 DEF Doc!IsValue, Doc!Shapes
  <2>3. /\ f \in [Subkeys -> Doc!Simple \cup {Doc!Nothing}] /\ f[x] = t
        /\ \A y \in Subkeys \ {x} : f[y] = u.members[y]
    BY <2>1, <2>2 DEF Doc!Simple
  <2> HIDE DEF f
  <2>4. Doc!IsValue(w) /\ w.items = << >> /\ w.members = f
    BY <2>3, Values
  <2> HIDE DEF w
  <2>5. \A y \in Subkeys : w.members[y] = "null" => u.members[y] = "null"
    BY <2>3, <2>4 DEF Doc!Scalars
  <2>6. Doc!NullOrigin' /\ m_root' = Doc!Store(k, w)
    BY <1>4, <2>4, <2>5, DoneStore
  <2>7. SubSeq(w.items, 1, Len(u.items)) = u.items
    <3>1. w.items = u.items /\ u.items \in Seq(Doc!Simple) /\ "null" \in Doc!Simple
      BY <1>2, <2>1, <2>2, <2>4, Member DEF Doc!Simple
    <3> QED
      BY <3>1, ItemsBefore
  <2>8. \A y \in Subkeys \ {last'.sub} : w.members[y] = u.members[y]
    BY <1>1, <2>3, <2>4
  <2> QED
    BY <1>1, <1>2, <2>4, <2>6, <2>7, <2>8, StoreLeavesOthers
<1>5. Doc!Abort \/ (v.type = "object" /\ Doc!Done(Doc!Store(k, w)))
  BY DEF Doc!WriteArrayValue, Doc!Abort
<1> QED
  BY <1>3, <1>4, <1>5

(* Every step of transfer and caller keeps the origin of the null members  *)
(* and, unless it leaves the document alone, the members it does not name. *)
LEMMA NextDocument ==
    ASSUME Doc!NullOrigin, [ReplyNext]_all
    PROVE  Doc!NullOrigin' /\ [Others]_(Doc!vars)
<1>1. ASSUME NEW k \in Keys, Doc!Read(k) PROVE Doc!NullOrigin' /\ Others
  BY <1>1, LookKeeps, ReadArrayValueKeeps DEF Doc!Read
<1>2. ASSUME NEW k \in Keys, Doc!Write(k) PROVE Doc!NullOrigin' /\ Others
  BY <1>2, WriteValueKeeps, WriteArrayAppendKeeps, WriteArrayValueKeeps DEF Doc!Write
<1>3. ASSUME NEW text \in Texts, Parse(text) PROVE Doc!NullOrigin' /\ Others
  BY <1>3, ParseKeeps DEF Parse
<1>4. CASE UNCHANGED document
  BY <1>4 DEF document, Doc!vars, Doc!NullOrigin, Doc!TypeOK
<1> QED
  BY <1>1, <1>2, <1>3, <1>4 DEF ReplyNext, Transfer, Caller, Use, all

(* A new document is empty.                                                *)
LEMMA InitDocument == ReplyInit => Doc!NullOrigin
<1> SUFFICES ASSUME ReplyInit PROVE Doc!NullOrigin
  OBVIOUS
<1>1. m_root = Doc!Root("null", Doc!Empty) /\ aborted = FALSE /\ created = {}
  BY DEF ReplyInit, Doc!Init
<1>2. /\ Doc!IsValue(Doc!Absent) /\ Doc!Absent \in Doc!Shapes
      /\ \A x \in Subkeys : Doc!Absent.members[x] = Doc!Nothing
  BY Values DEF Doc!Absent, Doc!IsValue
<1>3. /\ Doc!IsDocument(m_root)
      /\ \A k \in Keys, x \in Subkeys : m_root.members[k].members[x] # "null"
  BY <1>1, <1>2 DEF Doc!IsDocument, Doc!Root, Doc!Empty, Doc!Nothing
<1> QED
  BY <1>1, <1>3 DEF Doc!NullOrigin, Doc!TypeOK

(* Null members of members come from the reply, from its early end and     *)
(* from reads as bool, and from nothing else, for any replies.             *)
THEOREM NullsHaveOrigin == ReplySpec => []NullOrigin
<1>1. Doc!NullOrigin /\ [ReplyNext]_all => Doc!NullOrigin'
  BY NextDocument
<1> QED
  BY <1>1, InitDocument, PTL DEF ReplySpec, NullOrigin

(* No call of CJsonParser changes a member that it does not name.          *)
THEOREM OthersLeft == ReplySpec => LeavesOthers
<1>1. Doc!NullOrigin /\ [ReplyNext]_all => Doc!NullOrigin' /\ [Others]_(Doc!vars)
  BY NextDocument
<1> QED
  BY <1>1, InitDocument, PTL DEF ReplySpec, LeavesOthers, Doc!LeavesOthers, Others
==============================================================================
