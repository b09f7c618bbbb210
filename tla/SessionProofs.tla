----------------------------- MODULE SessionProofs -----------------------------
(***************************************************************************)
(* Proofs about what the client keeps up with its servers: the loop that   *)
(* stays registered with the manager, for any pool and any two intervals,  *)
(* the session with the monitor, and the packets that it fills and reads,  *)
(* for any fields, any order of reads and a byte of any even number of     *)
(* values.                                                                 *)
(***************************************************************************)
EXTENDS AliveLoop, PerfSession, PacketBuffer, SequenceTheorems, TLAPS

LoopInv == TypeOK /\ LostIsCounted

(* The counters may start at 0 whatever the intervals are.                 *)
LEMMA Zeros ==
    /\ 0 \in 0 .. RefreshInterval
    /\ 0 \in 0 .. MetadataInterval
    /\ 0 \in 0 .. LostCap
BY IntervalAssumption DEF LostCap

(* The threads start at the top of the loop with nothing counted.          *)
LEMMA InitInv == Init => LoopInv
<1> SUFFICES ASSUME Init PROVE LoopInv
  OBVIOUS
<1>1. TypeOK
  BY Zeros DEF Init, TypeOK, Pcs, WaitPcs, HeartbeatPcs, Replies
<1>2. LostIsCounted
  <2>1. \A t \in Alive : /\ pc[t] = "top" /\ reply[t] = "waiting"
                        /\ lost[t] = 0 /\ refresh[t] = 0
    BY DEF Init
  <2>2. 0 <= 0 + 1 /\ ~ (0 > 0) /\ 0 <= 0
    OBVIOUS
  <2>. QED
    BY <2>1, <2>2, Zenon DEF LostIsCounted
<1>. QED
  BY <1>1, <1>2 DEF LoopInv

(* The variables keep their types.                                         *)
LEMMA TypeStep == TypeOK /\ [Next]_vars => TypeOK'
<1> SUFFICES ASSUME TypeOK, [Next]_vars PROVE TypeOK'
  OBVIOUS
<1> USE IntervalAssumption DEF TypeOK, Goto, Pcs, WaitPcs, HeartbeatPcs
<1>1. ASSUME NEW t \in Alive, Step(t) PROVE TypeOK'
  <2>1. CASE Heartbeat(t)
    BY <2>1 DEF Heartbeat
  <2>2. CASE AliveReport(t)
    BY <2>2 DEF AliveReport
  <2>3. CASE CountRefresh(t)
    BY <2>3 DEF CountRefresh
  <2>4. CASE Refresh(t)
    BY <2>4 DEF Refresh
  <2>5. CASE CountMetadata(t)
    BY <2>5 DEF CountMetadata
  <2>6. CASE Metadata(t)
    BY <2>6 DEF Metadata
  <2>7. CASE Return(t)
    BY <2>7 DEF Return, Replies
  <2>8. CASE Sleep(t)
    BY <2>8 DEF Sleep, LostCap
  <2>. QED
    BY <1>1, <2>1, <2>2, <2>3, <2>4, <2>5, <2>6, <2>7, <2>8 DEF Step
<1>2. ASSUME NEW t \in Alive, Process(t) PROVE TypeOK'
  <2>1. reply' \in [Alive -> Replies]
    BY <1>2 DEF Process, Replies, Codes
  <2>2. lost' \in [Alive -> 0 .. LostCap] /\ reg' \in BOOLEAN
    BY <1>2, Zeros DEF Process
  <2>. QED
    BY <1>2, <2>1, <2>2 DEF Process
<1>3. ASSUME NEW t \in Alive, Disconnect(t) PROVE TypeOK'
  BY <1>3 DEF Disconnect, Replies
<1>4. CASE Forget
  BY <1>4 DEF Forget
<1>5. CASE Settle
  BY <1>5 DEF Settle, LostCap
<1>6. CASE UNCHANGED vars
  BY <1>6 DEF vars
<1>. QED
  BY <1>1, <1>2, <1>3, <1>4, <1>5, <1>6 DEF Next

(* A thread's rounds without a registration stay covered by its counter.   *)
LEMMA CountedStep == LoopInv /\ [Next]_vars => LostIsCounted'
<1> SUFFICES ASSUME LoopInv, [Next]_vars PROVE LostIsCounted'
  OBVIOUS
<1>t. TypeOK /\ LostIsCounted /\ TypeOK'
  BY TypeStep DEF LoopInv
<1> USE <1>t, IntervalAssumption DEF TypeOK, LostIsCounted, Goto, HeartbeatPcs, WaitPcs
<1>1. ASSUME NEW t \in Alive, Step(t) PROVE LostIsCounted'
  <2>1. CASE Heartbeat(t)
    BY <2>1 DEF Heartbeat
  <2>2. CASE AliveReport(t)
    BY <2>2 DEF AliveReport
  <2>3. CASE CountRefresh(t)
    BY <2>3 DEF CountRefresh
  <2>4. CASE Refresh(t)
    BY <2>4 DEF Refresh
  <2>5. CASE CountMetadata(t)
    BY <2>5 DEF CountMetadata
  <2>6. CASE Metadata(t)
    BY <2>6 DEF Metadata
  <2>7. CASE Return(t)
    BY <2>7 DEF Return, WaitPcs
  <2>8. CASE Sleep(t)
    BY <2>8 DEF Sleep, LostCap
  <2>. QED
    BY <1>1, <2>1, <2>2, <2>3, <2>4, <2>5, <2>6, <2>7, <2>8 DEF Step
<1>2. ASSUME NEW t \in Alive, Process(t) PROVE LostIsCounted'
  BY <1>2 DEF Process, WaitPcs
<1>3. ASSUME NEW t \in Alive, Disconnect(t) PROVE LostIsCounted'
  BY <1>3 DEF Disconnect, WaitPcs
<1>4. CASE Forget
  BY <1>4 DEF Forget
<1>5. CASE Settle
  BY <1>5 DEF Settle
<1>6. CASE UNCHANGED vars
  BY <1>6 DEF vars
<1>. QED
  BY <1>1, <1>2, <1>3, <1>4, <1>5, <1>6 DEF Next

(* The types and the count of lost rounds together are inductive.          *)
THEOREM Invariance == Spec => []LoopInv
<1>1. LoopInv /\ [Next]_vars => LoopInv'
  BY TypeStep, CountedStep DEF LoopInv
<1>. QED
  BY InitInv, <1>1, PTL DEF Spec

(* The variables have their types in every reachable state.                *)
THEOREM TypeCorrect == Spec => []TypeOK
<1>1. LoopInv => TypeOK
  BY DEF LoopInv
<1>. QED
  BY <1>1, Invariance, PTL

(* Rounds without a registration are counted by refresh as well.           *)
THEOREM LossCounted == Spec => []LostIsCounted
<1>1. LoopInv => LostIsCounted
  BY DEF LoopInv
<1>. QED
  BY <1>1, Invariance, PTL

(* A lost registration is noticed within RefreshInterval + 1 rounds of any *)
(* thread, for whatever intervals the two macros are given.                *)
THEOREM BoundedRecovery == Spec => []RecoveryBound
<1>1. LoopInv => RecoveryBound
  <2> SUFFICES ASSUME LoopInv, NEW t \in Alive PROVE lost[t] <= RefreshInterval + 1
    BY DEF RecoveryBound
  <2>1. lost[t] <= refresh[t] + 1 /\ lost[t] \in Nat
    BY IntervalAssumption DEF LoopInv, LostIsCounted, TypeOK, LostCap
  <2>2. refresh[t] \in 0 .. RefreshInterval
    BY DEF LoopInv, TypeOK
  <2>. QED
    BY <2>1, <2>2, IntervalAssumption
<1>. QED
  BY <1>1, Invariance, PTL
------------------------------------------------------------------------------
(* The monitor session.  Nothing bounds the counters of the link here:     *)
(* that they stay small is what is proved.                                 *)

(* SessionTypeOK in two parts: the solver that counts has no use for the   *)
(* flags.                                                                  *)
Counters ==
    /\ session \in {"boot", "idle", "connect", "send", "select", "body"}
    /\ cmd \in {"REQ_SERVER_RESTART", "REQ_PERF_REPORT"}
    /\ sock \in {"zero", "stale", "open"}
    /\ reqs \in Nat
    /\ pipe \in Nat
    /\ buf \in Nat
    /\ pos \in 0 .. HeaderUnits
    /\ missed \in 0 .. 1

Flags ==
    /\ broken \in BOOLEAN
    /\ answered \in {"no", "monitor", "other"}
    /\ settled \in BOOLEAN

Counted == Counters /\ InStep /\ Exchange

(* The inductive invariant, in the two parts.                              *)
LEMMA Parts == IInv <=> Counted /\ Flags
BY Zenon DEF IInv, SessionTypeOK, Counted, Counters, Flags

(* Nothing is owed before Init() connects.                                 *)
LEMMA InitSession == SessionInit => IInv
<1> SUFFICES ASSUME SessionInit PROVE Counted /\ Flags
  BY Parts
<1>1. Counters
  BY SMT DEF SessionInit, Counters, HeaderUnits
<1>2. Flags
  BY Zenon DEF SessionInit, Flags
<1>3. InStep /\ Exchange
  <2>1. Owed = 0
    BY SMT DEF SessionInit, Owed, UnitsPerReply
  <2>. QED
    BY <2>1, SMT DEF SessionInit, InStep, Exchange, UnitsPerReply
<1>. QED
  BY <1>1, <1>2, <1>3 DEF Counted

(* The steps of the client.  A report ends with a link nothing is owed on; *)
(* a restart report gives up at most once.                                 *)
LEMMA ClientCounted == Counted /\ Client => Counted'
<1> SUFFICES ASSUME Counted, Client PROVE Counted'
  OBVIOUS
<1> USE DEF Counted, Counters, InStep, Exchange, Owed, UnitsPerReply,
   HeaderUnits
<1>1. CASE Boot
  BY <1>1 DEF Boot, link
<1>2. CASE Report
  BY <1>2 DEF Report, link
<1>3. CASE Connect
  <2>1. /\ session = "connect"
        /\ \/ sock' = "open" /\ session' = "send"
           \/ sock' = "zero" /\ session' = "idle"
        /\ UNCHANGED <<cmd, link, missed>>
    BY <1>3 DEF Connect
  <2>2. UNCHANGED <<cmd, reqs, pipe, buf, pos, missed>>
    BY <2>1 DEF link
  <2>3. cmd = "REQ_PERF_REPORT" /\ reqs = 0 /\ pipe = 0 /\ buf = 0 /\ pos = 0
    BY <2>1
  <2>4. CASE sock' = "open" /\ session' = "send"
    BY <2>2, <2>3, <2>4
  <2>5. CASE sock' = "zero" /\ session' = "idle"
    BY <2>2, <2>3, <2>5
  <2>. QED
    BY <2>1, <2>4, <2>5
<1>4. CASE Send
  <2>1. CASE session' = "select"
    BY <1>4, <2>1 DEF Send, Fail, CloseSession, KeepSession,
       NewLink
  <2>2. CASE session' # "select"
    BY <1>4, <2>2 DEF Send, Fail, CloseSession, KeepSession,
       NewLink, link
  <2>. QED
    BY <2>1, <2>2
<1>5. CASE StaleExchange
  <2>1. /\ session \in {"send", "select", "body"} /\ sock = "stale"
        /\ session' \in {"idle", "select", "body"}
        /\ UNCHANGED cmd
        /\ \/ cmd = "REQ_PERF_REPORT" /\ CloseSession /\ session' = "idle"
           \/ cmd # "REQ_PERF_REPORT" /\ KeepSession /\ UNCHANGED link /\ session' = "idle"
           \/ UNCHANGED <<sock, link, missed>>
    BY <1>5, Zenon DEF StaleExchange, SendStale, ReadStaleHeader, ReadStaleBody, Fail
  <2>. QED
    BY <2>1 DEF CloseSession, KeepSession, NewLink, link
<1>6. CASE Timeout
  BY <1>6 DEF Timeout, Fail, CloseSession, KeepSession, NewLink,
     link
<1>7. CASE ReadHeader
  BY <1>7 DEF ReadHeader, Fail, CloseSession, KeepSession, NewLink
<1>8. CASE ReadBody
  BY <1>8 DEF ReadBody, Fail, CloseSession, KeepSession,
     NewLink, link
<1>. QED
  BY <1>1, <1>2, <1>3, <1>4, <1>5, <1>6, <1>7, <1>8 DEF Client

(* Monitor and network move units about; what is owed stays the same, or   *)
(* is lost with the connection.                                            *)
LEMMA OtherCounted ==
    Counted /\ (Network \/ MonitorDisconnect \/ MonitorSettle) => Counted'
<1> SUFFICES ASSUME Counted, Network \/ MonitorDisconnect \/ MonitorSettle PROVE Counted'
  OBVIOUS
<1> USE DEF Counted, Counters, InStep, Exchange, Owed, UnitsPerReply,
   HeaderUnits
<1>1. CASE Answer
  BY <1>1 DEF Answer
<1>2. CASE Deliver
  <2>1. PICK n \in 1 .. pipe : pipe' = pipe - n /\ buf' = buf + n
    BY <1>2 DEF Deliver
  <2>. QED
    BY <1>2, <2>1 DEF Deliver
<1>3. CASE MonitorDisconnect
  BY <1>3 DEF MonitorDisconnect
<1>4. CASE MonitorSettle
  BY <1>4 DEF MonitorSettle, link
<1>. QED
  BY <1>1, <1>2, <1>3, <1>4 DEF Network

(* The flags stay Boolean.                                                 *)
LEMMA NextFlags == Flags /\ SessionNext => Flags'
<1> SUFFICES ASSUME Flags, SessionNext PROVE Flags'
  OBVIOUS
<1> USE DEF Flags
<1>2. CASE Boot \/ Report \/ Connect
  BY <1>2, Zenon DEF Boot, Report, Connect, link
<1>3. CASE Send
  BY <1>3, Zenon DEF Send, link, Fail, CloseSession,
     KeepSession, NewLink
<1>4. CASE StaleExchange
  BY <1>4, Zenon DEF StaleExchange, SendStale, ReadStaleHeader, ReadStaleBody, link,
     Fail, CloseSession, KeepSession, NewLink
<1>5. CASE Timeout
  BY <1>5, Zenon DEF Timeout, link, Fail, CloseSession,
     KeepSession, NewLink
<1>6. CASE ReadHeader
  BY <1>6, Zenon DEF ReadHeader, Fail, CloseSession, KeepSession,
     NewLink
<1>7. CASE ReadBody
  BY <1>7, Zenon DEF ReadBody, link, Fail, CloseSession,
     KeepSession, NewLink
<1>8. CASE Network \/ MonitorDisconnect \/ MonitorSettle
  BY <1>8, Zenon DEF Network, Answer, Deliver, MonitorDisconnect,
     MonitorSettle, link
<1>. QED
  BY <1>2, <1>3, <1>4, <1>5, <1>6, <1>7, <1>8 DEF SessionNext, Client

(* The two parts together are inductive.                                   *)
LEMMA Inductive == IInv /\ [SessionNext]_session_vars => IInv'
<1> SUFFICES ASSUME Counted, Flags, [SessionNext]_session_vars PROVE Counted' /\ Flags'
  BY Parts, PTL
<1>1. CASE SessionNext
  BY <1>1, ClientCounted, OtherCounted, NextFlags DEF SessionNext
<1>2. CASE UNCHANGED session_vars
  BY <1>2 DEF session_vars, link, Counted, Counters, InStep, Exchange,
     Owed, Flags
<1>. QED
  BY <1>1, <1>2

(* The inductive invariant holds in every reachable state.                 *)
THEOREM SessionInvariance == SessionSpec => []IInv
BY InitSession, Inductive, PTL DEF SessionSpec

(* The variables have their types in every reachable state.                *)
THEOREM SessionTypes == SessionSpec => []SessionTypeOK
<1>1. IInv => SessionTypeOK
  BY DEF IInv
<1>. QED
  BY <1>1, SessionInvariance, PTL

(* The session is never more than the one missed restart reply behind,     *)
(* however long it lasts and however the stream is cut up.                 *)
THEOREM StaysInStep == SessionSpec => []InStep
<1>1. IInv => InStep
  BY DEF IInv
<1>. QED
  BY <1>1, SessionInvariance, PTL
------------------------------------------------------------------------------
(* The packets: what a byte holds, and the sizes of the numbers.           *)
Bytes  == 0 .. Byte - 1
Widths == {1, 2, 4, 8}

(* Half of an even number, and the square of one.                          *)
LEMMA Squares ==
    ASSUME NEW m \in Nat, m > 1, m % 2 = 0
    PROVE  /\ m \div 2 \in Nat \ {0} /\ m = 2 * (m \div 2)
           /\ m * m \in Nat /\ m * m > 1 /\ (m * m) % 2 = 0
<1>1. m \div 2 \in Nat \ {0} /\ m = 2 * (m \div 2)
  OBVIOUS
<1>2. PICK h \in Nat : m = 2 * h
  BY <1>1
<1>3. m * m \in Nat /\ m * m > 1
  OBVIOUS
<1>4. m * m = 2 * (h * m) /\ h * m \in Nat
  BY <1>2
<1>5. \A k \in Nat : (2 * k) % 2 = 0
  OBVIOUS
<1> QED
  BY <1>1, <1>3, <1>4, <1>5

(* The widths and the number of their values.                              *)
LEMMA ValuesEven ==
    /\ Short \in Nat /\ Short > 1 /\ Long \in Nat /\ Long > 1 /\ HeaderSize \in Nat
    /\ \A n \in Widths : Values(n) \in Nat /\ Values(n) > 1
                         /\ Values(n) \div 2 \in Nat \ {0} /\ Values(n) = 2 * (Values(n) \div 2)
    /\ Values(1) = Byte /\ Values(2) = Short /\ Values(4) = Long /\ Values(8) = Long * Long
<1>1. Short \in Nat /\ Short > 1 /\ Short % 2 = 0
  BY Squares, BufferAssumption DEF Short
<1>2. Long \in Nat /\ Long > 1 /\ Long % 2 = 0
  BY <1>1, Squares DEF Long
<1>3. Long * Long \in Nat /\ Long * Long > 1 /\ (Long * Long) % 2 = 0
  BY <1>2, Squares
<1>4. Values(1) = Byte /\ Values(2) = Short /\ Values(4) = Long /\ Values(8) = Long * Long
  BY DEF Values
<1>5. \A n \in Widths : Values(n) \in Nat /\ Values(n) > 1 /\ Values(n) % 2 = 0
  BY <1>1, <1>2, <1>3, <1>4, BufferAssumption DEF Widths
<1>6. HeaderSize \in Nat
  BY BufferAssumption
<1> QED
  BY <1>1, <1>2, <1>4, <1>5, <1>6, Squares

(* Division leaves a remainder below the divisor.                          *)
LEMMA Division ==
    ASSUME NEW m \in Nat \ {0}, NEW x \in Int
    PROVE  /\ x \div m \in Int /\ x % m \in 0 .. m - 1
           /\ x = m * (x \div m) + (x % m)
<1>1. x \div m \in Int
  OBVIOUS
<1>2. x % m \in 0 .. m - 1
  OBVIOUS
<1>3. x = m * (x \div m) + (x % m)
  OBVIOUS
<1> QED
  BY <1>1, <1>2, <1>3

(* Whole turns do not change a remainder.                                  *)
LEMMA Turns ==
    ASSUME NEW m \in Nat \ {0}, NEW q \in Int, NEW r \in 0 .. m - 1
    PROVE  (m * q + r) % m = r
OBVIOUS

(* Two digits make a number below the product of their bases.              *)
LEMMA Digits ==
    ASSUME NEW m \in Nat \ {0}, NEW n \in Nat \ {0},
           NEW a \in 0 .. n - 1, NEW b \in 0 .. m - 1
    PROVE  a * m + b \in 0 .. (n * m) - 1
<1>1. a * m \in Nat /\ n * m \in Nat
  OBVIOUS
<1>2. a * m <= (n - 1) * m
  OBVIOUS
<1>3. (n - 1) * m = (n * m) - m
  OBVIOUS
<1> QED
  BY <1>1, <1>2, <1>3

(* A number modulo m times n, in two digits.                               *)
LEMMA Halves ==
    ASSUME NEW m \in Nat \ {0}, NEW n \in Nat \ {0}, NEW v \in Int
    PROVE  ((v \div m) % n) * m + (v % m) = v % (n * m)
<1> DEFINE q == v \div m
           r == v % m
           p == q \div n
           a == q % n
<1>1. q \in Int /\ r \in 0 .. m - 1 /\ v = m * q + r
  BY Division
<1>2. p \in Int /\ a \in 0 .. n - 1 /\ q = n * p + a
  BY <1>1, Division
<1>3. a * m + r \in 0 .. (n * m) - 1
  BY <1>1, <1>2, Digits
<1> HIDE DEF q, r, p, a
<1>4. v = (n * m) * p + (a * m + r)
  <2>1. m * q = m * (n * p) + m * a
    BY <1>2
  <2>2. m * (n * p) = (n * m) * p /\ m * a = a * m
    BY <1>2
  <2> QED
    BY <1>1, <1>2, <2>1, <2>2
<1>5. n * m \in Nat \ {0}
  OBVIOUS
<1>6. ((n * m) * p + (a * m + r)) % (n * m) = a * m + r
  BY <1>2, <1>3, <1>5, Turns
<1> QED
  BY <1>4, <1>6 DEF q, r, a

(* A number that is kept in a signed variable of n values.                 *)
LEMMA Wrapped ==
    ASSUME NEW h \in Nat \ {0}, NEW v \in Int
    PROVE  ((v + h) % (2 * h)) - h
               = IF v % (2 * h) < h THEN v % (2 * h) ELSE (v % (2 * h)) - 2 * h
<1> DEFINE n == 2 * h
           q == v \div n
           r == v % n
<1>1. n \in Nat \ {0}
  OBVIOUS
<1>2. q \in Int /\ r \in 0 .. n - 1 /\ v = n * q + r
  BY <1>1, Division
<1>3. n = 2 * h
  OBVIOUS
<1> HIDE DEF n, q, r
<1>4. CASE r < h
  <2>1. v + h = n * q + (r + h) /\ r + h \in 0 .. n - 1
    BY <1>1, <1>2, <1>3, <1>4
  <2>2. (v + h) % n = r + h
    BY <1>1, <1>2, <2>1, Turns
  <2> QED
    BY <1>2, <1>3, <1>4, <2>2 DEF r
<1>5. CASE r >= h
  <2>1. n * (q + 1) = n * q + n
    BY <1>1, <1>2
  <2>2. v + h = n * (q + 1) + (r - h) /\ r - h \in 0 .. n - 1 /\ q + 1 \in Int
    BY <1>1, <1>2, <1>3, <1>5, <2>1
  <2>3. (v + h) % n = r - h
    BY <1>1, <2>2, Turns
  <2> QED
    BY <1>2, <1>3, <1>5, <2>3 DEF r
<1> QED
  BY <1>2, <1>4, <1>5, <1>1

(* Two bytes say what they were made of, modulo their width; so do four.   *)
LEMMA PairBytes ==
    ASSUME NEW v \in Int
    PROVE  /\ Pair(v) \in Seq(Bytes) /\ Len(Pair(v)) = 2
           /\ PairValue(Pair(v), 1) = v % Short
<1>1. Byte \in Nat \ {0}
  BY BufferAssumption
<1>2. v \div Byte \in Int /\ v % Byte \in Bytes /\ (v \div Byte) % Byte \in Bytes
  BY <1>1, Division DEF Bytes
<1>3. /\ Pair(v) \in Seq(Bytes) /\ Len(Pair(v)) = 2
      /\ Pair(v)[1] = (v \div Byte) % Byte /\ Pair(v)[2] = v % Byte
  BY <1>2 DEF Pair
<1>4. ((v \div Byte) % Byte) * Byte + (v % Byte) = v % Short
  BY <1>1, Halves DEF Short
<1> QED
  BY <1>3, <1>4 DEF PairValue

(* Four bytes are two pairs.                                               *)
LEMMA QuadBytes ==
    ASSUME NEW v \in Int
    PROVE  /\ Quad(v) \in Seq(Bytes) /\ Len(Quad(v)) = 4
           /\ QuadValue(Quad(v), 1) = v % Long
<1> DEFINE high == Pair(v \div Short)
           low  == Pair(v)
<1>1. Short \in Nat \ {0}
  BY ValuesEven
<1>2. v \div Short \in Int
  BY <1>1, Division
<1>3. /\ high \in Seq(Bytes) /\ Len(high) = 2 /\ PairValue(high, 1) = (v \div Short) % Short
      /\ low \in Seq(Bytes) /\ Len(low) = 2 /\ PairValue(low, 1) = v % Short
  BY <1>2, PairBytes
<1>4. Quad(v) = high \o low
  BY DEF Quad
<1> HIDE DEF high, low
<1>5. /\ Quad(v) \in Seq(Bytes) /\ Len(Quad(v)) = 4
      /\ Quad(v)[1] = high[1] /\ Quad(v)[2] = high[2]
      /\ Quad(v)[3] = low[1] /\ Quad(v)[4] = low[2]
  BY <1>3, <1>4, ConcatProperties
<1>6. PairValue(Quad(v), 1) = PairValue(high, 1) /\ PairValue(Quad(v), 3) = PairValue(low, 1)
  BY <1>5 DEF PairValue
<1>7. ((v \div Short) % Short) * Short + (v % Short) = v % Long
  BY <1>1, Halves DEF Long
<1> QED
  BY <1>3, <1>5, <1>6, <1>7 DEF QuadValue

(* ntohs and ntohl undo htons and htonl, modulo the width.                 *)
LEMMA Encoded ==
    ASSUME NEW v \in Int, NEW n \in Widths
    PROVE  /\ BytesOf(v, n) \in Seq(Bytes) /\ Len(BytesOf(v, n)) = n
           /\ Unsigned(BytesOf(v, n)) = v % Values(n)
<1>1. CASE n = 1
  <2>1. v % Byte \in Bytes
    BY BufferAssumption, Division DEF Bytes
  <2>2. BytesOf(v, n) = <<v % Byte>>
    BY <1>1 DEF BytesOf
  <2>3. <<v % Byte>> \in Seq(Bytes) /\ Len(<<v % Byte>>) = 1 /\ <<v % Byte>>[1] = v % Byte
    BY <2>1
  <2>4. Unsigned(<<v % Byte>>) = v % Byte
    BY <2>3 DEF Unsigned
  <2> QED
    BY <1>1, <2>2, <2>3, <2>4, ValuesEven
<1>2. CASE n = 2
  <2>1. BytesOf(v, n) = Pair(v)
    BY <1>2 DEF BytesOf
  <2>2. Pair(v) \in Seq(Bytes) /\ Len(Pair(v)) = 2 /\ PairValue(Pair(v), 1) = v % Short
    BY PairBytes
  <2>3. Unsigned(Pair(v)) = PairValue(Pair(v), 1)
    BY <2>2 DEF Unsigned
  <2> QED
    BY <1>2, <2>1, <2>2, <2>3, ValuesEven
<1>3. CASE n = 4
  <2>1. BytesOf(v, n) = Quad(v)
    BY <1>3 DEF BytesOf
  <2>2. Quad(v) \in Seq(Bytes) /\ Len(Quad(v)) = 4 /\ QuadValue(Quad(v), 1) = v % Long
    BY QuadBytes
  <2>3. Unsigned(Quad(v)) = QuadValue(Quad(v), 1)
    BY <2>2 DEF Unsigned
  <2> QED
    BY <1>3, <2>1, <2>2, <2>3, ValuesEven
<1>4. CASE n = 8
  <2> DEFINE high == Quad(v \div Long)
             low  == Quad(v)
  <2>1. Long \in Nat \ {0}
    BY ValuesEven
  <2>2. v \div Long \in Int
    BY <2>1, Division
  <2>3. /\ high \in Seq(Bytes) /\ Len(high) = 4 /\ QuadValue(high, 1) = (v \div Long) % Long
        /\ low \in Seq(Bytes) /\ Len(low) = 4 /\ QuadValue(low, 1) = v % Long
    BY <2>2, QuadBytes
  <2>4. BytesOf(v, n) = high \o low
    BY <1>4 DEF BytesOf
  <2> DEFINE s == BytesOf(v, n)
  <2> HIDE DEF high, low, s
  <2>5. /\ s \in Seq(Bytes) /\ Len(s) = 8
        /\ \A i \in 1 .. 4 : s[i] = high[i] /\ s[i + 4] = low[i]
    <3>1. /\ s \in Seq(Bytes) /\ Len(s) = Len(high) + Len(low)
          /\ \A i \in 1 .. Len(high) + Len(low) :
                s[i] = IF i <= Len(high) THEN high[i] ELSE low[i - Len(high)]
      <4>1. high \in Seq(Bytes) /\ low \in Seq(Bytes)
        BY <2>3
      <4>2. s = high \o low
        BY <2>4 DEF s
      <4> QED
        BY <4>1, <4>2, ConcatProperties
    <3>2. \A i \in 1 .. 4 : i \in 1 .. 8 /\ i <= 4 /\ i + 4 \in 1 .. 8 /\ ~ (i + 4 <= 4)
                               /\ (i + 4) - 4 = i
      OBVIOUS
    <3> QED
      BY <2>3, <3>1, <3>2
  <2>6. QuadValue(s, 1) = QuadValue(high, 1) /\ QuadValue(s, 5) = QuadValue(low, 1)
    BY <2>5 DEF QuadValue, PairValue
  <2>7. Unsigned(s) = QuadValue(s, 1) * Long + QuadValue(s, 5)
    BY <2>5 DEF Unsigned
  <2>8. ((v \div Long) % Long) * Long + (v % Long) = v % (Long * Long)
    BY <2>1, Halves
  <2> QED
    BY <1>4, <2>3, <2>5, <2>6, <2>7, <2>8, ValuesEven DEF s
<1> QED
  BY <1>1, <1>2, <1>3, <1>4 DEF Widths

(* What any bytes say lies within their width.                             *)
LEMMA Decoded ==
    ASSUME NEW s \in Seq(Bytes), Len(s) \in Widths
    PROVE  /\ Unsigned(s) \in 0 .. Values(Len(s)) - 1
           /\ Signed(s) \in Int
           /\ Signed(s) = IF Unsigned(s) < Values(Len(s)) \div 2
                          THEN Unsigned(s) ELSE Unsigned(s) - Values(Len(s))
<1>1. Byte \in Nat \ {0} /\ Short \in Nat \ {0} /\ Long \in Nat \ {0}
  BY ValuesEven, BufferAssumption
<1>2. \A i \in 1 .. Len(s) : s[i] \in Bytes
  OBVIOUS
<1>3. ASSUME NEW i \in 1 .. Len(s), i + 1 <= Len(s)
      PROVE  PairValue(s, i) \in 0 .. Short - 1
  <2>1. s[i] \in 0 .. Byte - 1 /\ s[i + 1] \in 0 .. Byte - 1
    BY <1>2, <1>3 DEF Bytes
  <2> QED
    BY <1>1, <2>1, Digits DEF PairValue, Short
<1>4. ASSUME NEW i \in 1 .. Len(s), i + 3 <= Len(s)
      PROVE  QuadValue(s, i) \in 0 .. Long - 1
  <2>1. PairValue(s, i) \in 0 .. Short - 1 /\ PairValue(s, i + 2) \in 0 .. Short - 1
    <3>1. i + 2 \in 1 .. Len(s) /\ (i + 2) + 1 <= Len(s) /\ i + 1 <= Len(s)
      BY <1>4
    <3> QED
      BY <1>3, <3>1
  <2> QED
    BY <1>1, <2>1, Digits DEF QuadValue, Long
<1>5. Unsigned(s) \in 0 .. Values(Len(s)) - 1
  <2>1. CASE Len(s) = 1
    BY <1>2, <2>1, ValuesEven DEF Unsigned, Bytes
  <2>2. CASE Len(s) = 2
    BY <1>3, <2>2, ValuesEven DEF Unsigned
  <2>3. CASE Len(s) = 4
    BY <1>4, <2>3, ValuesEven DEF Unsigned
  <2>4. CASE Len(s) = 8
    <3>1. QuadValue(s, 1) \in 0 .. Long - 1 /\ QuadValue(s, 5) \in 0 .. Long - 1
      BY <1>4, <2>4
    <3>2. QuadValue(s, 1) * Long + QuadValue(s, 5) \in 0 .. (Long * Long) - 1
      BY <1>1, <3>1, Digits
    <3> QED
      BY <2>4, <3>2, ValuesEven DEF Unsigned
  <2> QED
    BY <2>1, <2>2, <2>3, <2>4 DEF Widths
<1>6. Signed(s) = IF Unsigned(s) < Values(Len(s)) \div 2
                  THEN Unsigned(s) ELSE Unsigned(s) - Values(Len(s))
  BY DEF Signed
<1>7. Values(Len(s)) \in Nat /\ Values(Len(s)) \div 2 \in Nat
  BY ValuesEven
<1> QED
  BY <1>5, <1>6, <1>7

(* A signed variable keeps a number modulo its width.                      *)
LEMMA SignedEncoded ==
    ASSUME NEW v \in Int, NEW n \in Widths
    PROVE  LET half == Values(n) \div 2
           IN  Signed(BytesOf(v, n)) = ((v + half) % Values(n)) - half
<1> DEFINE h == Values(n) \div 2
           u == v % Values(n)
<1>1. h \in Nat \ {0} /\ Values(n) = 2 * h
  BY ValuesEven
<1>2. Signed(BytesOf(v, n)) = IF u < h THEN u ELSE u - Values(n)
  BY Encoded, Decoded
<1> HIDE DEF h
<1>3. ((v + h) % (2 * h)) - h = IF v % (2 * h) < h THEN v % (2 * h) ELSE (v % (2 * h)) - 2 * h
  BY <1>1, Wrapped
<1> QED
  BY <1>1, <1>2, <1>3 DEF h

(* Sequences over a set are sequences over a larger one.                   *)
LEMMA Wider ==
    ASSUME NEW S, NEW T, S \subseteq T
    PROVE  Seq(S) \subseteq Seq(T)
<1> SUFFICES ASSUME NEW s \in Seq(S) PROVE s \in Seq(T)
  OBVIOUS
<1>1. s \in [1 .. Len(s) -> S] /\ Len(s) \in Nat
  OBVIOUS
<1>2. s \in [1 .. Len(s) -> T]
  BY <1>1
<1> QED
  BY <1>1, <1>2

(* What a write copies is one part or two, of bytes.                       *)
LEMMA EncodingParts ==
    ASSUME NEW f \in Fields
    PROVE  /\ Encoding(f) \in Seq(Seq(Bytes)) /\ Len(Encoding(f)) \in 1 .. 2
           /\ f.type \in Numbers =>
                /\ f.value[1] \in Int /\ Width[f.type] \in Widths
                /\ Encoding(f) = <<BytesOf(f.value[1], Width[f.type])>>
                /\ Len(BytesOf(f.value[1], Width[f.type])) = Width[f.type]
           /\ f.type \in Texts =>
                /\ f.value \in Seq(Bytes) /\ Width[f.type] \in {2, 4}
                /\ Encoding(f) = <<BytesOf(Len(f.value), Width[f.type]), f.value>>
                /\ Len(BytesOf(Len(f.value), Width[f.type])) = Width[f.type]
           /\ f.type = "char" => f.value \in Seq(Bytes) /\ Encoding(f) = <<f.value>>
<1>1. f.type \in Types /\ f.value \in Seq(Int)
  BY BufferAssumption
<1>2. CASE f.type \in Numbers
  <2>1. f.value[1] \in Int /\ Width[f.type] \in Widths
    <3>1. Len(f.value) = 1
      BY <1>2, BufferAssumption
    <3>2. f.value[1] \in Int
      BY <1>1, <3>1
    <3> QED
      BY <1>2, <3>2 DEF Width, Widths, Numbers
  <2>2. /\ BytesOf(f.value[1], Width[f.type]) \in Seq(Bytes)
        /\ Len(BytesOf(f.value[1], Width[f.type])) = Width[f.type]
    BY <2>1, Encoded
  <2>4. f.type \notin Texts /\ f.type # "char"
    BY <1>2 DEF Numbers, Texts
  <2>3. Encoding(f) = <<BytesOf(f.value[1], Width[f.type])>>
    BY <1>2, <2>4 DEF Encoding
  <2> QED
    BY <1>2, <2>1, <2>2, <2>3, <2>4
<1>3. CASE f.type \in Texts
  <2>1. f.type \notin Numbers /\ f.type # "char" /\ Width[f.type] \in {2, 4}
    BY <1>3 DEF Numbers, Texts, Width
  <2>2. f.value \in Seq(Bytes)
    BY <2>1, BufferAssumption DEF Bytes
  <2>3. /\ BytesOf(Len(f.value), Width[f.type]) \in Seq(Bytes)
        /\ Len(BytesOf(Len(f.value), Width[f.type])) = Width[f.type]
    <3>1. Len(f.value) \in Int /\ Width[f.type] \in Widths
      BY <2>1, <2>2 DEF Widths
    <3> QED
      BY <3>1, Encoded
  <2>4. Encoding(f) = <<BytesOf(Len(f.value), Width[f.type]), f.value>>
    BY <1>3, <2>1 DEF Encoding
  <2> QED
    BY <1>3, <2>1, <2>2, <2>3, <2>4
<1>4. CASE f.type = "char"
  <2>1. f.type \notin Numbers /\ f.type \notin Texts
    BY <1>4 DEF Numbers, Texts
  <2>2. f.value \in Seq(Bytes)
    BY <2>1, BufferAssumption DEF Bytes
  <2>3. Encoding(f) = <<f.value>>
    BY <1>4, <2>1 DEF Encoding
  <2> QED
    BY <1>4, <2>1, <2>2, <2>3
<1> QED
  BY <1>1, <1>2, <1>3, <1>4 DEF Types

(* A length that is accepted is the announced one and fits an int.         *)
LEMMA BodyFits ==
    ASSUME NEW h \in Seq(Bytes), Len(h) = 4, NEW n \in BodySize(h), n >= 0
    PROVE  n \in 0 .. (Long \div 2) - 1 /\ n + HeaderSize = Unsigned(h)
<1> DEFINE half == Long \div 2
           u    == Unsigned(h)
           m    == Signed(h) - HeaderSize
<1>1. half \in Nat /\ Long = 2 * half /\ Long \in Nat
  BY ValuesEven DEF Widths
<1>2. u \in 0 .. Long - 1 /\ Signed(h) = IF u < half THEN u ELSE u - Long
  BY Decoded, ValuesEven DEF Widths
<1>3. HeaderSize \in 0 .. half
  BY BufferAssumption
<1>4. n = m \/ (m < - half /\ n = m + Long)
  BY DEF BodySize
<1> HIDE DEF half, u
<1> QED
  BY <1>1, <1>2, <1>3, <1>4 DEF u, half

(* What SendPacket announces is at most what it sends.                     *)
LEMMA SentFits ==
    ASSUME NEW v \in Nat, NEW n \in BodySize(BytesOf(v, 4)), n >= 0
    PROVE  n <= v - HeaderSize /\ v - HeaderSize \in Nat
<1>1. BytesOf(v, 4) \in Seq(Bytes) /\ Len(BytesOf(v, 4)) = 4
      /\ Unsigned(BytesOf(v, 4)) = v % Long
  BY Encoded, ValuesEven DEF Widths
<1>2. n \in Nat /\ n + HeaderSize = v % Long
  BY <1>1, BodyFits, ValuesEven
<1>3. v % Long <= v
  <2>1. Long \in Nat \ {0}
    BY ValuesEven
  <2>2. \A m \in Nat \ {0} : v % m <= v
    OBVIOUS
  <2> QED
    BY <2>1, <2>2
<1>4. v % Long \in Int /\ HeaderSize \in Nat
  BY ValuesEven
<1> QED
  BY <1>2, <1>3, <1>4
------------------------------------------------------------------------------
(* How far the buffer holds bytes.                                         *)
Upto == IF Reading THEN length ELSE pointer

(* The buffer holds bytes as far as it must, a packet is sent when all of  *)
(* it has been copied, and its length is the announced one.                *)
BufferInv ==
    /\ BufferTypeOK
    /\ todo \in Seq(Seq(Bytes)) /\ (role # "write" \/ written = <<>> => todo = <<>>)
    /\ pointer <= length
    /\ \A i \in 0 .. Upto - 1 : data[i] \in Bytes
    /\ AnnouncedLength

(* A new packet holds nothing.                                             *)
LEMMA BufferStarts == BufferInit => BufferInv
<1> SUFFICES ASSUME BufferInit PROVE BufferInv
  OBVIOUS
<1>1. category \in Int /\ command \in Int
  BY BufferAssumption DEF BufferInit
<1>2. data \in [0 .. length - 1 -> Int]
  BY DEF BufferInit, Junk
<1>3. BufferTypeOK
  BY <1>1, <1>2 DEF BufferInit, BufferTypeOK
<1> QED
  BY <1>3 DEF BufferInit, BufferInv, Upto, Reading, AnnouncedLength

(* Filling moves bytes from the parts to the buffer.                       *)
LEMMA FillBuffer ==
    ASSUME BufferInv, (\E f \in Fields : Write(f)) \/ CheckDataBuffer \/ CopyPart
    PROVE  BufferInv'
<1> USE DEF BufferInv, BufferTypeOK, AnnouncedLength, Reading, Upto
<1>1. CASE \E f \in Fields : Write(f)
  <2>1. PICK f \in Fields : Write(f)
    BY <1>1
  <2>2. /\ Encoding(f) \in Seq(Seq(Bytes)) /\ Append(written, f) \in Seq(Fields)
        /\ Append(written, f) # <<>>
    <3>1. Append(written, f) \in Seq(Fields) /\ Len(Append(written, f)) = Len(written) + 1
          /\ Len(written) \in Nat
      OBVIOUS
    <3>2. Append(written, f) # <<>>
      BY <3>1
    <3>3. Encoding(f) \in Seq(Seq(Bytes))
      BY EncodingParts
    <3> QED
      BY <3>1, <3>2, <3>3
  <2>3. todo' \in Seq(Seq(Bytes)) /\ todo' \in Seq(Seq(Int))
    <3>1. Bytes \subseteq Int
      BY DEF Bytes
    <3>2. Seq(Seq(Bytes)) \subseteq Seq(Seq(Int))
      BY <3>1, Wider
    <3> QED
      BY <2>1, <2>2, <3>2 DEF Write
  <2> QED
    BY <2>1, <2>2, <2>3 DEF Write, header, buffer
<1>2. CASE CheckDataBuffer
  <2>1. BaseSize \in Nat
    BY BufferAssumption
  <2>2. role = "write" /\ length' \in Nat /\ pointer <= length' /\ pointer \in Nat
    BY <1>2, <2>1 DEF CheckDataBuffer
  <2>4. length \in Nat /\ pointer <= length /\ data \in [0 .. length - 1 -> Int]
    OBVIOUS
  <2>3. data' \in [0 .. length' - 1 -> Int] /\ \A i \in 0 .. pointer - 1 : data'[i] = data[i]
    <3>1. data' = [i \in 0 .. length' - 1 |-> IF i < pointer THEN data[i] ELSE Junk]
      BY <1>2 DEF CheckDataBuffer
    <3>2. PICK n \in Nat : n = length'
      BY <2>2
    <3>3. data' = [i \in 0 .. n - 1 |-> IF i < pointer THEN data[i] ELSE Junk] /\ pointer <= n
      BY <2>2, <3>1, <3>2
    <3>4. data' \in [0 .. n - 1 -> Int] /\ \A i \in 0 .. pointer - 1 : data'[i] = data[i]
      <4>1. ASSUME NEW i \in 0 .. n - 1
            PROVE  data'[i] = (IF i < pointer THEN data[i] ELSE Junk) /\ data'[i] \in Int
        <5>1. data'[i] = IF i < pointer THEN data[i] ELSE Junk
          BY <3>3
        <5>2. i < pointer => data[i] \in Int
          BY <2>2, <2>4
        <5> QED
          BY <5>1, <5>2 DEF Junk
      <4>2. data' \in [0 .. n - 1 -> Int]
        BY <3>3, <4>1
      <4>3. \A i \in 0 .. pointer - 1 : i \in 0 .. n - 1 /\ i < pointer
        BY <2>2, <3>3
      <4> QED
        BY <4>1, <4>2, <4>3
    <3> QED
      BY <3>2, <3>4
  <2> QED
    BY <1>2, <2>2, <2>3 DEF CheckDataBuffer, header
<1>3. CASE CopyPart
  <2> DEFINE part == Head(todo)
  <2>1. /\ role = "write" /\ part \in Seq(Bytes) /\ Tail(todo) \in Seq(Seq(Bytes))
        /\ Tail(todo) \in Seq(Seq(Int)) /\ pointer + Len(part) <= length
    BY <1>3 DEF CopyPart
  <2>2. part \in Seq(Int)
    BY <1>3 DEF CopyPart
  <2> HIDE DEF part
  <2>3. /\ data' = [i \in 0 .. length - 1 |->
                       IF i - pointer \in 0 .. Len(part) - 1
                       THEN part[i - pointer + 1] ELSE data[i]]
        /\ pointer' = pointer + Len(part) /\ todo' = Tail(todo)
        /\ UNCHANGED <<header, length, role, written, results, agreed, announced>>
    BY <1>3 DEF CopyPart, part
  <2>4. data' \in [0 .. length - 1 -> Int]
    BY <2>1, <2>2, <2>3
  <2>5. \A i \in 0 .. pointer' - 1 : data'[i] \in Bytes
    BY <2>1, <2>3
  <2>6. written # <<>>
    BY <1>3 DEF CopyPart
  <2> QED
    BY <2>1, <2>3, <2>4, <2>5, <2>6 DEF header
<1> QED
  BY <1>1, <1>2, <1>3

(* A body that is received is filled by the stream.                        *)
LEMMA FilledBody ==
    ASSUME BufferInv, NEW h \in Seq(Bytes), Len(h) = 4, NEW stream,
           NEW next \in {"read", "foreign"}, Receive(h, stream, next), role = "write", todo = <<>>,
           \A n \in BodySize(h) : n >= 0 => \A i \in 0 .. n - 1 : stream[i] \in Bytes,
           category' \in Int, command' \in Int,
           UNCHANGED <<todo, written, results, agreed>>
    PROVE  BufferInv'
<1> USE DEF BufferInv, BufferTypeOK, AnnouncedLength, Reading, Upto
<1>1. Unsigned(h) \in Nat /\ announced' = Unsigned(h)
  BY Decoded, ValuesEven DEF Widths, Receive
<1>2. PICK n \in BodySize(h) :
          IF n < 0 THEN role' = "refused" /\ UNCHANGED buffer
          ELSE /\ role' = next
               /\ length' = n /\ pointer' = 0
               /\ data' = [i \in 0 .. n - 1 |-> stream[i]]
  BY DEF Receive
<1>3. n \in Int
  <2>1. Signed(h) \in Int /\ Long \in Nat /\ HeaderSize \in Nat
    BY Decoded, ValuesEven DEF Widths
  <2> QED
    BY <2>1 DEF BodySize
<1>4. CASE n < 0
  BY <1>1, <1>2, <1>4 DEF buffer
<1>5. CASE n >= 0
  <2>1. n \in 0 .. (Long \div 2) - 1 /\ n + HeaderSize = Unsigned(h)
    BY <1>5, BodyFits
  <2>2. length' = n /\ pointer' = 0 /\ role' = next /\ n \in Nat
        /\ data' = [i \in 0 .. n - 1 |-> stream[i]]
    BY <1>2, <1>3, <1>5
  <2>3. \A i \in 0 .. n - 1 : stream[i] \in Bytes /\ stream[i] \in Int
    BY <1>5 DEF Bytes
  <2>4. data' \in [0 .. length' - 1 -> Int] /\ \A i \in 0 .. length' - 1 : data'[i] \in Bytes
    BY <2>2, <2>3
  <2> QED
    BY <1>1, <2>1, <2>2, <2>4
<1> QED
  BY <1>3, <1>4, <1>5

(* SendPacket sends no more than was written; other programs send bytes.   *)
LEMMA ReceiveBuffer ==
    ASSUME BufferInv, Transfer \/ ReceiveForeign
    PROVE  BufferInv'
<1>1. CASE Transfer
  <2>1. CASE category = 0 \/ command = 0
    BY <1>1, <2>1
       DEF Transfer, BufferInv, BufferTypeOK, AnnouncedLength, Reading, Upto, header, buffer
  <2>2. CASE ~ (category = 0 \/ command = 0)
    <3> DEFINE v == pointer + HeaderSize
               h == BytesOf(v, 4)
    <3>1. role = "write" /\ todo = <<>> /\ pointer \in Nat /\ category \in Int /\ command \in Int
      BY <1>1 DEF Transfer, BufferInv, BufferTypeOK
    <3>2. HeaderSize \in Nat /\ v \in Nat
      BY <3>1, ValuesEven
    <3>3. h \in Seq(Bytes) /\ Len(h) = 4
      BY <3>2, Encoded DEF Widths
    <3>4. /\ Receive(h, data, "read") /\ UNCHANGED <<todo, written, results, agreed>>
          /\ category' = Signed(BytesOf(category, 1)) /\ command' = Signed(BytesOf(command, 1))
      BY <1>1, <2>2 DEF Transfer
    <3>5. category' \in Int /\ command' \in Int
      <4>1. \A k \in Int : Signed(BytesOf(k, 1)) \in Int
        BY Encoded, Decoded DEF Widths
      <4> QED
        BY <3>1, <3>4, <4>1
    <3>6. \A i \in 0 .. pointer - 1 : data[i] \in Bytes
      BY <3>1 DEF BufferInv, Upto, Reading
    <3>7. ASSUME NEW n \in BodySize(h), n >= 0
          PROVE  \A i \in 0 .. n - 1 : data[i] \in Bytes
      <4>1. n <= pointer
        BY <3>1, <3>2, <3>7, SentFits
      <4>2. n \in Int
        <5>1. Signed(h) \in Int /\ Long \in Nat
          BY <3>3, Decoded, ValuesEven DEF Widths
        <5> QED
          BY <3>2, <5>1 DEF BodySize
      <4> QED
        BY <3>1, <3>6, <4>1, <4>2
    <3> HIDE DEF h
    <3> QED
      BY <3>1, <3>3, <3>4, <3>5, <3>7, FilledBody
  <2> QED
    BY <2>1, <2>2
<1>2. CASE ReceiveForeign
  <2>1. PICK n \in Foreign :
            Receive(BytesOf(n, 4), [i \in 0 .. n |-> i % Byte], "foreign")
    BY <1>2 DEF ReceiveForeign
  <2> DEFINE h == BytesOf(n, 4)
             stream == [i \in 0 .. n |-> i % Byte]
  <2>2. n \in Nat /\ HeaderSize \in Nat
    BY ValuesEven, BufferAssumption
  <2>3. h \in Seq(Bytes) /\ Len(h) = 4
    BY <2>2, Encoded DEF Widths
  <2>4. \A i \in 0 .. n : stream[i] \in Bytes
    BY <2>2, BufferAssumption, Division DEF Bytes
  <2>5. ASSUME NEW m \in BodySize(h), m >= 0
        PROVE  \A i \in 0 .. m - 1 : stream[i] \in Bytes
    <3>2. m \in Int
      <4>1. Signed(h) \in Int /\ Long \in Nat
        BY <2>3, Decoded, ValuesEven DEF Widths
      <4> QED
        BY <2>2, <4>1 DEF BodySize
    <3>3. m <= n - HeaderSize
      BY <2>2, <2>5, SentFits
    <3>1. m <= n
      BY <2>2, <3>2, <3>3
    <3> QED
      BY <2>2, <2>4, <3>1, <3>2
  <2>6. /\ role = "write" /\ todo = <<>> /\ category' \in Int /\ command' \in Int
        /\ UNCHANGED <<todo, written, results, agreed>>
    BY <1>2 DEF ReceiveForeign, BufferInv, BufferTypeOK, header
  <2> HIDE DEF h, stream
  <2>7. Receive(h, stream, "foreign")
    BY <2>1 DEF h, stream
  <2> QED
    BY <2>3, <2>5, <2>6, <2>7, FilledBody
<1> QED
  BY <1>1, <1>2
------------------------------------------------------------------------------
(* What a read copies out of the buffer.                                   *)
LEMMA SliceBytes ==
    ASSUME BufferInv, Reading, NEW start \in Nat, NEW n \in Nat, start + n <= length
    PROVE  /\ Slice(start, n) \in Seq(Bytes) /\ Slice(start, n) \in Seq(Int)
           /\ Len(Slice(start, n)) = n
           /\ \A i \in 1 .. n : Slice(start, n)[i] = data[start + i - 1]
<1>1. length \in Nat /\ \A i \in 0 .. length - 1 : data[i] \in Bytes
  BY DEF BufferInv, BufferTypeOK, Upto
<1>2. \A i \in 1 .. n : start + i - 1 \in 0 .. length - 1
  BY <1>1
<1>3. \A i \in 1 .. n : data[start + i - 1] \in Bytes
  BY <1>1, <1>2
<1>4. Slice(start, n) = [i \in 1 .. n |-> data[start + i - 1]]
  BY DEF Slice
<1>5. Slice(start, n) \in Seq(Bytes) /\ Len(Slice(start, n)) = n
  BY <1>3, <1>4
<1>6. Bytes \subseteq Int
  BY DEF Bytes
<1> QED
  BY <1>4, <1>5, <1>6, Wider

(* A read moves the pointer, as far as there is something.                 *)
LEMMA Taken ==
    ASSUME BufferInv, Reading, NEW n \in Nat, pointer + n <= length, NEW value \in Seq(Int),
           NEW same \in BOOLEAN, Give(n, value, same) \/ Refuse(n, same),
           UNCHANGED <<header, length, data, todo, written, announced>>
    PROVE  BufferInv'
<1> USE DEF BufferInv, BufferTypeOK, AnnouncedLength, Reading, Upto
<1>1. pointer \in Nat /\ length \in Nat /\ pointer' = pointer + n
  BY DEF Give, Refuse
<1>2. pointer' \in Nat /\ pointer' <= length
  BY <1>1
<1>3. agreed' \in BOOLEAN
  BY Zenon DEF Give, Refuse
<1>4. results' \in Seq(Seq(Int))
  <2>1. results' = results \/ results' = Append(results, value)
    BY Zenon DEF Give, Refuse
  <2>2. results \in Seq(Seq(Int)) /\ Append(results, value) \in Seq(Seq(Int))
    OBVIOUS
  <2> QED
    BY <2>1, <2>2
<1>5. role' \in {"refused", role} /\ \A i \in 0 .. pointer' - 1 : i \in 0 .. length - 1
  BY <1>1, <1>2 DEF Give, Refuse
<1>6. UNCHANGED <<category, command, length, data, todo, written, announced>>
  BY DEF header
<1> QED
  BY <1>2, <1>3, <1>4, <1>5, <1>6

(* Whatever bytes are read, the value is a number.                         *)
LEMMA NumberInt ==
    ASSUME NEW s \in Seq(Bytes), Len(s) \in Widths, NEW t
    PROVE  Number(t, s) \in Int
<1>1. Unsigned(s) \in Int /\ Signed(s) \in Int
  BY Decoded, ValuesEven
<1> QED
  BY <1>1 DEF Number

(* Every read is such a step.                                              *)
LEMMA ReadBuffer ==
    ASSUME BufferInv,
           \/ \E t \in Numbers : ReadNumber(t)
           \/ \E size \in Limits : ReadChar(size)
           \/ \E t \in Texts, max \in Limits : ReadText(t, max)
    PROVE  BufferInv'
<1>0. pointer \in Nat /\ length \in Nat /\ pointer <= length
  BY DEF BufferInv, BufferTypeOK
<1>a. \A t : Asked(t) \in BOOLEAN
  BY DEF Asked
<1>1. ASSUME NEW t \in Numbers, ReadNumber(t) PROVE BufferInv'
  <2> DEFINE w == Width[t]
             s == Slice(pointer, w)
  <2>1. w \in Widths /\ w \in Nat /\ Width.int = 4
    BY <1>1 DEF Numbers, Width, Widths
  <2>2. Reading /\ UNCHANGED <<header, length, data, todo, written, announced>>
    BY <1>1 DEF ReadNumber
  <2>3. CASE Exists(w)
    <3>1. pointer + w <= length
      BY <1>0, <2>1, <2>3 DEF Exists
    <3>2. s \in Seq(Bytes) /\ Len(s) = w
      BY <1>0, <2>1, <2>2, <3>1, SliceBytes
    <3>3. <<Number(t, s)>> \in Seq(Int)
      BY <2>1, <3>2, NumberInt
    <3>4. Give(w, <<Number(t, s)>>, Asked(t))
      BY <1>1, <2>3 DEF ReadNumber
    <3> QED
      BY <1>a, <2>1, <2>2, <3>1, <3>3, <3>4, Taken
  <2>4. CASE ~ Exists(w)
    <3> DEFINE n == IF t = "big" /\ Exists(Width.int) THEN Width.int ELSE 0
    <3>1. Refuse(n, Asked(t))
      BY <1>1, <2>4 DEF ReadNumber
    <3>2. n \in Nat /\ pointer + n <= length
      BY <1>0, <2>1 DEF Exists
    <3>3. <<>> \in Seq(Int)
      OBVIOUS
    <3> HIDE DEF n
    <3> QED
      BY <1>a, <2>2, <3>1, <3>2, <3>3, Taken
  <2> QED
    BY <2>3, <2>4
<1>2. ASSUME NEW size \in Limits, ReadChar(size) PROVE BufferInv'
  <2> DEFINE same == Asked("char") /\ Len(written[Len(results) + 1].value) = size
  <2>1. size \in Int
    BY BufferAssumption
  <2>2. Reading /\ UNCHANGED <<header, length, data, todo, written, announced>>
    BY <1>2 DEF ReadChar
  <2>3. same \in BOOLEAN
    OBVIOUS
  <2>4. CASE Exists(size) /\ size >= 0
    <3>1. size \in Nat /\ pointer + size <= length
      BY <1>0, <2>1, <2>4 DEF Exists
    <3>2. Slice(pointer, size) \in Seq(Int)
      BY <1>0, <2>2, <3>1, SliceBytes
    <3>3. Give(size, Slice(pointer, size), same)
      BY <1>2, <2>4 DEF ReadChar
    <3> HIDE DEF same
    <3> QED
      BY <2>2, <2>3, <3>1, <3>2, <3>3, Taken
  <2>5. CASE ~ (Exists(size) /\ size >= 0)
    <3>1. Refuse(0, same)
      BY <1>2, <2>5 DEF ReadChar
    <3>2. <<>> \in Seq(Int) /\ 0 \in Nat /\ pointer + 0 <= length
      BY <1>0
    <3> HIDE DEF same
    <3> QED
      BY <2>2, <2>3, <3>1, <3>2, Taken
  <2> QED
    BY <2>4, <2>5
<1>3. ASSUME NEW t \in Texts, NEW max \in Limits, ReadText(t, max) PROVE BufferInv'
  <2> DEFINE w     == Width[t]
             start == pointer + w
             size  == Number(IF t = "string" THEN "int" ELSE "short", Slice(pointer, w))
  <2>1. w \in Widths /\ w \in Nat
    BY <1>3 DEF Texts, Width, Widths
  <2>2. Reading /\ UNCHANGED <<header, length, data, todo, written, announced>>
    BY <1>3 DEF ReadText
  <2>3. <<>> \in Seq(Int) /\ 0 \in Nat /\ pointer + 0 <= length
    BY <1>0
  <2>4. CASE ~ Exists(w)
    <3>1. Refuse(0, Asked(t))
      BY <1>3, <2>4 DEF ReadText
    <3> QED
      BY <1>a, <2>2, <2>3, <3>1, Taken
  <2>5. CASE Exists(w)
    <3>1. start \in Nat /\ start <= length
      BY <1>0, <2>1, <2>5 DEF Exists
    <3>2. size \in Int
      <4>1. Slice(pointer, w) \in Seq(Bytes) /\ Len(Slice(pointer, w)) = w
        BY <1>0, <2>1, <2>2, <3>1, SliceBytes
      <4> QED
        BY <2>1, <4>1, NumberInt
    <3>3. IF Fits(start, size, max)
          THEN Give(w + size, Slice(start, size), Asked(t)) ELSE Refuse(w, Asked(t))
      BY <1>3, <2>5 DEF ReadText
    <3>w. pointer + w <= length
      BY <3>1
    <3> HIDE DEF size
    <3>4. CASE Fits(start, size, max)
      <4>1. size \in Nat /\ start + size <= length /\ w + size \in Nat
            /\ pointer + (w + size) <= length
        BY <1>0, <2>1, <3>1, <3>2, <3>4 DEF Fits
      <4>2. Slice(start, size) \in Seq(Int)
        BY <2>2, <3>1, <4>1, SliceBytes
      <4> HIDE DEF start, w
      <4> QED
        BY <1>a, <2>2, <3>3, <3>4, <4>1, <4>2, Taken
    <3>5. CASE ~ Fits(start, size, max)
      <4> HIDE DEF start, w
      <4> QED
        BY <1>a, <2>1, <2>2, <2>3, <3>3, <3>5, <3>w, Taken
    <3> QED
      BY <3>4, <3>5
  <2> QED
    BY <2>4, <2>5
<1> QED
  BY <1>1, <1>2, <1>3

(* No operation of a packet breaks the invariant.                          *)
LEMMA BufferStays == BufferInv /\ [BufferNext]_buffer_vars => BufferInv'
<1> SUFFICES ASSUME BufferInv, [BufferNext]_buffer_vars PROVE BufferInv'
  OBVIOUS
<1>1. CASE UNCHANGED buffer_vars
  BY <1>1 DEF buffer_vars, header, buffer, BufferInv, BufferTypeOK, AnnouncedLength, Reading, Upto
<1>2. CASE BufferNext
  BY <1>2, FillBuffer, ReceiveBuffer, ReadBuffer DEF BufferNext, Filling
<1> QED
  BY <1>1, <1>2

(* It holds for ever.                                                      *)
LEMMA BufferAlways == BufferSpec => []BufferInv
<1> QED
  BY BufferStarts, BufferStays, PTL DEF BufferSpec

(* Whatever is written and asked for, the pointer stays in the buffer and  *)
(* what is sent or read has been written.                                  *)
THEOREM InBounds == BufferSpec => []Bounds
<1>1. BufferInv => Bounds
  <2> SUFFICES ASSUME BufferInv PROVE Bounds
    OBVIOUS
  <2>1. Junk \notin Bytes
    BY DEF Junk, Bytes
  <2> QED
    BY <2>1 DEF BufferInv, Bounds, Upto
<1> QED
  BY <1>1, BufferAlways, PTL

(* An accepted length is the announced one and fits an int.                *)
THEOREM LengthAnnounced == BufferSpec => []AnnouncedLength
<1>1. BufferInv => AnnouncedLength
  BY DEF BufferInv
<1> QED
  BY <1>1, BufferAlways, PTL

(* What a write copies: no part, one or two, of bytes.                     *)
Pieces ==
    {<<>>} \cup {<<p>> : p \in Seq(Bytes)} \cup {<<p, q>> : p \in Seq(Bytes), q \in Seq(Bytes)}

(* The bytes of some parts, one after the other, and those of a field.     *)
Flat(parts) ==
    IF Len(parts) = 0 THEN <<>>
    ELSE IF Len(parts) = 1 THEN parts[1] ELSE parts[1] \o parts[2]

Coded(f) == Flat(Encoding(f))

(* The fields of w lie one after the other, the i-th from at[i] on.  Two   *)
(* begin in the same place only if there are no bytes between them.        *)
Lies(at, w) ==
    /\ at \in [1 .. Len(w) + 1 -> Nat] /\ at[1] = 0
    /\ \A i \in 1 .. Len(w) : at[i + 1] = at[i] + Len(Coded(w[i]))
    /\ \A i, j \in 1 .. Len(w) + 1 : i <= j =>
          /\ at[i] <= at[j]
          /\ at[i] = at[j] <=> \A k \in i .. j - 1 : Len(Coded(w[k])) = 0

(* Parts of bytes make bytes, those of the first part first.               *)
LEMMA FlatPieces ==
    ASSUME NEW parts \in Pieces
    PROVE  /\ Flat(parts) \in Seq(Bytes) /\ Len(Flat(parts)) \in Nat
           /\ parts = <<>> => Flat(parts) = <<>> /\ Len(Flat(parts)) = 0
           /\ parts # <<>> =>
                /\ Tail(parts) \in Pieces /\ Head(parts) \in Seq(Bytes)
                /\ Len(Flat(parts)) = Len(Head(parts)) + Len(Flat(Tail(parts)))
                /\ \A i \in 1 .. Len(Head(parts)) + Len(Flat(Tail(parts))) :
                      Flat(parts)[i] = IF i <= Len(Head(parts)) THEN Head(parts)[i]
                                       ELSE Flat(Tail(parts))[i - Len(Head(parts))]
<1>0. Flat(<<>>) = <<>> /\ <<>> \in Seq(Bytes) /\ Len(<<>>) = 0 /\ <<>> \in Pieces
  BY DEF Flat, Pieces
<1>1. ASSUME NEW p \in Seq(Bytes) PROVE Flat(<<p>>) = p /\ <<p>> \in Pieces
  <2>1. Len(<<p>>) = 1 /\ <<p>>[1] = p
    OBVIOUS
  <2>2. <<p>> \in Pieces
    BY DEF Pieces
  <2> QED
    BY <2>1, <2>2 DEF Flat
<1>2. CASE parts = <<>>
  BY <1>0, <1>2
<1>3. CASE \E p \in Seq(Bytes) : parts = <<p>>
  <2>1. PICK p \in Seq(Bytes) : parts = <<p>>
    BY <1>3
  <2>2. parts # <<>> /\ Head(parts) = p /\ Tail(parts) = <<>> /\ Len(p) \in Nat
    BY <2>1
  <2>3. Flat(parts) = p /\ Flat(Tail(parts)) = <<>> /\ Len(Flat(Tail(parts))) = 0
    BY <1>0, <1>1, <2>1, <2>2
  <2>4. Len(p) = Len(p) + 0 /\ \A i \in 1 .. Len(p) + 0 : i <= Len(p)
    BY <2>2
  <2>5. Len(Flat(parts)) = Len(p) /\ Len(Flat(parts)) \in Nat /\ Flat(parts) \in Seq(Bytes)
    BY <2>2, <2>3
  <2> QED
    BY <1>0, <2>2, <2>3, <2>4, <2>5
<1>4. CASE \E p \in Seq(Bytes), q \in Seq(Bytes) : parts = <<p, q>>
  <2>1. PICK p \in Seq(Bytes), q \in Seq(Bytes) : parts = <<p, q>>
    BY <1>4
  <2>2. parts # <<>> /\ Head(parts) = p /\ Tail(parts) = <<q>>
    BY <2>1
  <2>3. Flat(parts) = p \o q
    <3>1. Len(<<p, q>>) = 2 /\ <<p, q>>[1] = p /\ <<p, q>>[2] = q
      OBVIOUS
    <3> QED
      BY <2>1, <3>1 DEF Flat
  <2>4. Flat(Tail(parts)) = q /\ Tail(parts) \in Pieces
    BY <1>1, <2>2
  <2>5. /\ p \o q \in Seq(Bytes) /\ Len(p \o q) = Len(p) + Len(q)
        /\ \A i \in 1 .. Len(p) + Len(q) : (p \o q)[i] = IF i <= Len(p) THEN p[i] ELSE q[i - Len(p)]
    BY ConcatProperties
  <2>6. Len(p) \in Nat /\ Len(q) \in Nat
    OBVIOUS
  <2>7. Len(p \o q) \in Nat
    BY <2>5, <2>6
  <2> QED
    BY <2>2, <2>3, <2>4, <2>5, <2>7
<1> QED
  BY <1>2, <1>3, <1>4 DEF Pieces

(* The bytes of a field by its type: a number has at least one, a text     *)
(* those of its length and its own, and only an empty char field none.     *)
LEMMA CodedBytes ==
    ASSUME NEW f \in Fields
    PROVE  /\ Coded(f) \in Seq(Bytes) /\ Len(Coded(f)) \in Nat
           /\ Encoding(f) \in Pieces
           /\ f.type \in Types /\ f.value \in Seq(Int) /\ Len(f.value) \in Nat
           /\ f.type \in Numbers =>
                /\ f.value[1] \in Int /\ Width[f.type] \in Widths
                /\ Coded(f) = BytesOf(f.value[1], Width[f.type])
                /\ Len(Coded(f)) = Width[f.type]
           /\ f.type \in Texts =>
                /\ Width[f.type] \in {2, 4} /\ f.value \in Seq(Bytes)
                /\ Len(Coded(f)) = Width[f.type] + Len(f.value)
                /\ \A i \in 1 .. Width[f.type] :
                      Coded(f)[i] = BytesOf(Len(f.value), Width[f.type])[i]
                /\ \A i \in 1 .. Len(f.value) : Coded(f)[Width[f.type] + i] = f.value[i]
           /\ f.type = "char" => Coded(f) = f.value
           /\ Len(Coded(f)) = 0 <=> f.type = "char" /\ f.value = <<>>
<1>1. f.type \in Types /\ f.value \in Seq(Int) /\ Len(f.value) \in Nat
  BY BufferAssumption
<1>2. ASSUME Encoding(f) \in Pieces
      PROVE  Coded(f) \in Seq(Bytes) /\ Len(Coded(f)) \in Nat
  BY <1>2, FlatPieces DEF Coded
<1>3. CASE f.type \in Numbers
  <2> DEFINE b == BytesOf(f.value[1], Width[f.type])
  <2>1. Encoding(f) = <<b>> /\ Len(b) = Width[f.type] /\ Width[f.type] \in Widths
        /\ f.value[1] \in Int
    BY <1>3, EncodingParts
  <2>b. b \in Seq(Bytes)
    BY <2>1, Encoded
  <2> HIDE DEF b
  <2>2. Coded(f) = b /\ Encoding(f) \in Pieces
    <3>1. Len(<<b>>) = 1 /\ <<b>>[1] = b
      OBVIOUS
    <3>2. <<b>> \in Pieces
      BY <2>b DEF Pieces
    <3> QED
      BY <2>1, <3>1, <3>2 DEF Coded, Flat
  <2>3. f.type \notin Texts /\ f.type # "char" /\ Width[f.type] # 0
    BY <1>3, <2>1 DEF Numbers, Texts, Widths
  <2> QED
    BY <1>1, <1>2, <1>3, <2>1, <2>2, <2>3 DEF b
<1>4. CASE f.type \in Texts
  <2> DEFINE b == BytesOf(Len(f.value), Width[f.type])
  <2>1. /\ Encoding(f) = <<b, f.value>> /\ Len(b) = Width[f.type] /\ Width[f.type] \in {2, 4}
        /\ f.value \in Seq(Bytes)
    BY <1>4, EncodingParts
  <2>b. b \in Seq(Bytes)
    <3>1. Len(f.value) \in Int /\ Width[f.type] \in Widths
      BY <1>1, <2>1 DEF Widths
    <3> QED
      BY <3>1, Encoded
  <2> HIDE DEF b
  <2>2. Coded(f) = b \o f.value /\ Encoding(f) \in Pieces
    <3>1. Len(<<b, f.value>>) = 2
          /\ <<b, f.value>>[1] = b /\ <<b, f.value>>[2] = f.value
      OBVIOUS
    <3>2. <<b, f.value>> \in Pieces
      BY <2>b, <2>1 DEF Pieces
    <3> QED
      BY <2>1, <3>1, <3>2 DEF Coded, Flat
  <2>3. /\ Len(b \o f.value) = Len(b) + Len(f.value)
        /\ \A i \in 1 .. Len(b) + Len(f.value) :
              (b \o f.value)[i] = IF i <= Len(b) THEN b[i] ELSE f.value[i - Len(b)]
    BY <2>1, <2>b, ConcatProperties
  <2> DEFINE w == Width[f.type]
             n == Len(f.value)
  <2>4. w \in {2, 4} /\ n \in Nat /\ Len(b) = w
    BY <1>1, <2>1
  <2>5. /\ Len(Coded(f)) = w + n
        /\ \A i \in 1 .. w + n : Coded(f)[i] = IF i <= w THEN b[i] ELSE f.value[i - w]
    BY <2>2, <2>3, <2>4
  <2> HIDE DEF w, n
  <2>6. \A i \in 1 .. w : i \in 1 .. w + n /\ i <= w
    BY <2>4
  <2>7. \A i \in 1 .. n : w + i \in 1 .. w + n /\ ~ (w + i <= w) /\ (w + i) - w = i
    BY <2>4
  <2>8. /\ Len(Coded(f)) = w + n /\ Len(Coded(f)) # 0
        /\ \A i \in 1 .. w : Coded(f)[i] = b[i]
        /\ \A i \in 1 .. n : Coded(f)[w + i] = f.value[i]
    BY <2>4, <2>5, <2>6, <2>7
  <2>9. f.type \notin Numbers /\ f.type # "char"
    BY <1>4 DEF Numbers, Texts
  <2> QED
    BY <1>1, <1>2, <1>4, <2>1, <2>2, <2>8, <2>9 DEF b, w, n
<1>5. CASE f.type = "char"
  <2>1. Encoding(f) = <<f.value>> /\ f.value \in Seq(Bytes)
    BY <1>5, EncodingParts
  <2>2. Coded(f) = f.value /\ Encoding(f) \in Pieces
    <3>1. Len(<<f.value>>) = 1 /\ <<f.value>>[1] = f.value
      OBVIOUS
    <3>2. <<f.value>> \in Pieces
      BY <2>1 DEF Pieces
    <3> QED
      BY <2>1, <3>1, <3>2 DEF Coded, Flat
  <2>3. f.type \notin Numbers /\ f.type \notin Texts
    BY <1>5 DEF Numbers, Texts
  <2>4. Len(f.value) = 0 <=> f.value = <<>>
    BY <1>1
  <2> QED
    BY <1>1, <1>2, <1>5, <2>2, <2>3, <2>4
<1> QED
  BY <1>1, <1>3, <1>4, <1>5 DEF Types

(* One more field lies behind the others.                                  *)
LEMMA OneMore ==
    ASSUME NEW w \in Seq(Fields), NEW at, Lies(at, w), NEW f \in Fields
    PROVE  LET n    == Len(w) + 1
               more == [i \in 1 .. n + 1 |-> IF i <= n THEN at[i] ELSE at[n] + Len(Coded(f))]
           IN  Lies(more, Append(w, f))
<1> DEFINE n    == Len(w) + 1
           more == [i \in 1 .. n + 1 |-> IF i <= n THEN at[i] ELSE at[n] + Len(Coded(f))]
           v    == Append(w, f)
<1>1. /\ n \in Nat \ {0} /\ Len(w) = n - 1 /\ Len(v) = n /\ v[n] = f
      /\ \A i \in 1 .. n - 1 : v[i] = w[i]
  OBVIOUS
<1>2. /\ at \in [1 .. n -> Nat] /\ at[1] = 0
      /\ \A i \in 1 .. n - 1 : at[i + 1] = at[i] + Len(Coded(w[i]))
      /\ \A i, j \in 1 .. n : i <= j =>
            /\ at[i] <= at[j]
            /\ at[i] = at[j] <=> \A k \in i .. j - 1 : Len(Coded(w[k])) = 0
  BY <1>1 DEF Lies
<1> DEFINE size(k) == Len(Coded(v[k]))
<1> HIDE DEF n, v
<1>3. Len(Coded(f)) \in Nat /\ size(n) = Len(Coded(f))
      /\ \A k \in 1 .. n - 1 : size(k) = Len(Coded(w[k]))
  BY <1>1, CodedBytes
<1> HIDE DEF size
<1>4. /\ more \in [1 .. n + 1 -> Nat] /\ more[n + 1] = at[n] + size(n)
      /\ \A i \in 1 .. n : more[i] = at[i]
  BY <1>1, <1>2, <1>3
<1> HIDE DEF more
<1>5. more[1] = 0 /\ \A i \in 1 .. n : more[i + 1] = more[i] + size(i)
  <2>1. ASSUME NEW i \in 1 .. n - 1 PROVE more[i + 1] = more[i] + size(i)
    <3>1. i \in 1 .. n /\ i + 1 \in 1 .. n
      BY <1>1
    <3> QED
      BY <1>2, <1>3, <1>4, <3>1
  <2>2. more[n + 1] = more[n] + size(n) /\ more[1] = 0
    BY <1>1, <1>2, <1>4
  <2> QED
    BY <1>1, <2>1, <2>2
<1>6. ASSUME NEW i \in 1 .. n + 1, NEW j \in 1 .. n + 1, i <= j
      PROVE  /\ more[i] <= more[j]
             /\ more[i] = more[j] <=> \A k \in i .. j - 1 : size(k) = 0
  <2>1. CASE j \in 1 .. n
    <3>1. i \in 1 .. n /\ \A k \in i .. j - 1 : k \in 1 .. n - 1
      BY <1>1, <1>6, <2>1
    <3> QED
      BY <1>2, <1>3, <1>4, <1>6, <2>1, <3>1
  <2>2. CASE i = n + 1
    <3>1. j = n + 1 /\ \A k \in i .. j - 1 : FALSE
      BY <1>1, <1>6, <2>2
    <3>2. more[n + 1] \in Nat
      BY <1>1, <1>4
    <3> QED
      BY <2>2, <3>1, <3>2
  <2>3. CASE i \in 1 .. n /\ j = n + 1
    <3>1. /\ at[i] <= at[n] /\ at[i] \in Nat /\ at[n] \in Nat
          /\ at[i] = at[n] <=> \A k \in i .. n - 1 : Len(Coded(w[k])) = 0
      BY <1>1, <1>2, <2>3
    <3>2. \A k : k \in i .. n - 1 => k \in 1 .. n - 1
      BY <1>1, <2>3
    <3>3. at[i] = at[n] <=> \A k \in i .. n - 1 : size(k) = 0
      BY <1>3, <3>1, <3>2
    <3>4. \A k : k \in i .. j - 1 <=> k \in i .. n - 1 \/ k = n
      BY <1>1, <2>3
    <3>5. size(n) \in Nat /\ more[i] = at[i] /\ more[j] = at[n] + size(n)
      BY <1>3, <1>4, <2>3
    <3>6. more[i] = more[j] <=> at[i] = at[n] /\ size(n) = 0
      BY <3>1, <3>5
    <3>7. more[i] <= more[j]
      BY <3>1, <3>5
    <3> QED
      BY <3>3, <3>4, <3>6, <3>7
  <2> QED
    BY <1>1, <2>1, <2>2, <2>3
<1>7. Len(v) + 1 = n + 1 /\ Len(v) = n
  BY <1>1
<1>8. Lies(more, v)
  BY <1>4, <1>5, <1>6, <1>7 DEF Lies, size
<1> QED
  BY <1>8 DEF n, more, v

(* Every byte of the fields lies before their end.                         *)
LEMMA LiesWithin ==
    ASSUME NEW w \in Seq(Fields), NEW at, Lies(at, w),
           NEW i \in 1 .. Len(w), NEW j \in 1 .. Len(Coded(w[i]))
    PROVE  /\ at[i] \in Nat /\ at[Len(w) + 1] \in Nat
           /\ at[i] + j - 1 \in 0 .. at[Len(w) + 1] - 1
<1>1. PICK n \in Nat : n = Len(w)
  OBVIOUS
<1>2. at \in [1 .. n + 1 -> Nat] /\ i \in 1 .. n + 1 /\ i + 1 \in 1 .. n + 1 /\ n + 1 \in 1 .. n + 1
  BY <1>1 DEF Lies
<1>3. at[i + 1] = at[i] + Len(Coded(w[i])) /\ at[i + 1] <= at[n + 1]
  <2>1. i \in 1 .. n /\ i + 1 <= n + 1
    BY <1>1
  <2>2. at[i + 1] = at[i] + Len(Coded(w[i]))
    BY DEF Lies
  <2>3. \A a, b \in 1 .. n + 1 : a <= b => at[a] <= at[b]
    BY <1>1 DEF Lies
  <2> QED
    BY <1>2, <2>1, <2>2, <2>3
<1>4. PICK c \in Nat : c = Len(Coded(w[i]))
  <2>1. w[i] \in Fields
    OBVIOUS
  <2> QED
    BY <2>1, CodedBytes
<1>5. at[i] \in Nat /\ at[i + 1] \in Nat /\ at[n + 1] \in Nat
  BY <1>2
<1>6. at[i] + j - 1 \in 0 .. at[n + 1] - 1
  <2>1. j \in 1 .. c /\ at[i + 1] = at[i] + c
    BY <1>3, <1>4
  <2>2. \A a, b, e \in Nat : b = a + c /\ b <= e => a + j - 1 \in 0 .. e - 1
    BY <2>1
  <2> QED
    BY <1>3, <1>5, <2>1, <2>2
<1> QED
  BY <1>1, <1>5, <1>6

(* The k-th byte of what has been and is being written.                    *)
Laid(k) == IF k < pointer THEN data[k] ELSE Flat(todo)[k - pointer + 1]

(* The fields that are written lie in the buffer and in what is to copy.   *)
Filled(at) ==
    /\ Lies(at, written)
    /\ pointer + Len(Flat(todo)) = at[Len(written) + 1]
    /\ \A i \in 1 .. Len(written) : \A j \in 1 .. Len(Coded(written[i])) :
          Laid(at[i] + j - 1) = Coded(written[i])[j]

(* As much of them as has been received, with the reader at the field it   *)
(* is to ask for next.                                                     *)
Placed(at) ==
    /\ Lies(at, written)
    /\ length <= at[Len(written) + 1]
    /\ \A i \in 1 .. Len(written) : \A j \in 1 .. Len(Coded(written[i])) :
          at[i] + j - 1 < length => data[at[i] + j - 1] = Coded(written[i])[j]
    /\ agreed /\ (\A i \in 1 .. Len(results) : ~ Overlong(written[i])) =>
          pointer = at[Len(results) + 1]

(* A field that is written is laid behind the others.                      *)
LEMMA FilledWrite ==
    ASSUME BufferInv, NEW at, Filled(at), NEW f \in Fields, Write(f)
    PROVE  todo' \in Pieces /\ \E more : Filled(more)'
<1>1. /\ written \in Seq(Fields) /\ written' = Append(written, f) /\ todo = <<>>
      /\ todo' = Encoding(f) /\ pointer' = pointer /\ data' = data /\ pointer \in Nat
  BY DEF Write, BufferInv, BufferTypeOK, buffer
<1>2. PICK n \in Nat : n = Len(written)
  BY <1>1
<1>3. /\ Len(written') = n + 1 /\ written'[n + 1] = f
      /\ \A i \in 1 .. n : written'[i] = written[i]
  BY <1>1, <1>2
<1>e. PICK more :
          more = [i \in 1 .. n + 2 |-> IF i <= n + 1 THEN at[i] ELSE at[n + 1] + Len(Coded(f))]
  OBVIOUS
<1>4. Lies(more, written')
  <2>1. Lies(at, written)
    BY DEF Filled
  <2>2. more = [i \in 1 .. n + 2 |-> IF i <= n + 1 THEN at[i] ELSE at[n + 1] + Len(Coded(f))]
    BY <1>e
  <2>3. (n + 1) + 1 = n + 2
    OBVIOUS
  <2> QED
    BY <1>1, <1>2, <2>1, <2>2, <2>3, OneMore
<1>5. /\ \A i \in 1 .. n + 1 : more[i] = at[i]
      /\ more[n + 2] = at[n + 1] + Len(Coded(f))
  BY <1>e
<1>6. /\ Encoding(f) \in Pieces /\ Flat(todo') = Coded(f) /\ Len(Coded(f)) \in Nat
  BY <1>1, CodedBytes DEF Coded
<1>7. pointer = at[n + 1]
  <2>1. Len(Flat(<<>>)) = 0
    BY DEF Flat
  <2> QED
    BY <1>1, <1>2, <2>1 DEF Filled
<1>8. ASSUME NEW i \in 1 .. n + 1, NEW j \in 1 .. Len(Coded(written'[i]))
      PROVE  Laid(more[i] + j - 1)' = Coded(written'[i])[j]
  <2>1. CASE i \in 1 .. n
    <3>1. j \in 1 .. Len(Coded(written[i])) /\ written'[i] = written[i] /\ more[i] = at[i]
      BY <1>3, <1>5, <2>1
    <3>2. Lies(at, written) /\ Laid(at[i] + j - 1) = Coded(written[i])[j]
      BY <1>2, <2>1, <3>1 DEF Filled
    <3>3. at[i] + j - 1 < pointer
      <4>1. i \in 1 .. Len(written)
        BY <1>2, <2>1
      <4>2. at[i] + j - 1 \in 0 .. at[Len(written) + 1] - 1
        BY <1>1, <3>1, <3>2, <4>1, LiesWithin
      <4>3. at[i] + j - 1 \in 0 .. pointer - 1
        BY <1>2, <1>7, <4>2
      <4> QED
        BY <1>1, <4>3
    <3>4. Laid(at[i] + j - 1) = data[at[i] + j - 1] /\ Laid(at[i] + j - 1)' = data'[at[i] + j - 1]
      BY <1>1, <3>3 DEF Laid
    <3> QED
      BY <1>1, <3>1, <3>2, <3>4
  <2>2. CASE i = n + 1
    <3>1. written'[i] = f /\ more[i] = pointer
      BY <1>3, <1>5, <1>7, <2>2
    <3>2. PICK c \in Nat : c = Len(Coded(f))
      BY <1>6
    <3>3. j \in 1 .. c
      BY <3>1, <3>2
    <3>4. ~ (more[i] + j - 1 < pointer) /\ (more[i] + j - 1) - pointer + 1 = j
      BY <1>1, <3>1, <3>3
    <3>5. Laid(more[i] + j - 1)' = Coded(f)[j]
      BY <1>1, <1>6, <3>4 DEF Laid
    <3> QED
      BY <3>1, <3>5
  <2> QED
    BY <2>1, <2>2
<1>9. pointer' + Len(Flat(todo')) = more[Len(written') + 1]
  <2>1. Len(written') + 1 = n + 2
    BY <1>3
  <2> QED
    BY <1>1, <1>5, <1>6, <1>7, <2>1
<1>10. Filled(more)'
  BY <1>3, <1>4, <1>8, <1>9 DEF Filled
<1> QED
  BY <1>1, <1>6, <1>10

(* It stays there when the buffer grows.                                   *)
LEMMA FilledGrow ==
    ASSUME BufferInv, NEW at, Filled(at), CheckDataBuffer
    PROVE  Filled(at)'
<1>1. /\ UNCHANGED <<pointer, todo, written>> /\ role = "write"
      /\ data' = [i \in 0 .. length' - 1 |-> IF i < pointer THEN data[i] ELSE Junk]
      /\ written \in Seq(Fields) /\ pointer \in Nat
  BY DEF CheckDataBuffer, BufferInv, BufferTypeOK
<1>2. length' \in Nat /\ pointer <= length'
  <2>1. pointer <= length /\ length \in Nat /\ BaseSize \in Nat
    BY BufferAssumption DEF BufferInv, BufferTypeOK
  <2> QED
    BY <1>1, <2>1 DEF CheckDataBuffer
<1>3. \A k \in Nat : k < pointer => data'[k] = data[k]
  <2>1. PICK n \in Nat : n = length'
    BY <1>2
  <2>2. \A k \in Nat : k < pointer => k \in 0 .. n - 1
    BY <1>1, <1>2, <2>1
  <2> QED
    BY <1>1, <2>1, <2>2
<1>4. \A k \in Nat : Laid(k)' = Laid(k)
  BY <1>1, <1>3 DEF Laid
<1>5. ASSUME NEW i \in 1 .. Len(written), NEW j \in 1 .. Len(Coded(written[i]))
      PROVE  Laid(at[i] + j - 1)' = Coded(written[i])[j]
  <2>1. Lies(at, written)
    BY DEF Filled
  <2>2. at[i] + j - 1 \in Nat
    BY <1>1, <2>1, LiesWithin
  <2> QED
    BY <1>4, <2>2 DEF Filled
<1> QED
  BY <1>1, <1>5 DEF Filled

(* Copying a part moves the border between the two.                        *)
LEMMA FilledCopy ==
    ASSUME BufferInv, NEW at, Filled(at), todo \in Pieces, CopyPart
    PROVE  Filled(at)' /\ todo' \in Pieces
<1> DEFINE part == Head(todo)
           rest == Flat(Tail(todo))
<1>1. /\ todo # <<>> /\ UNCHANGED <<length, written>> /\ todo' = Tail(todo)
      /\ pointer' = pointer + Len(part) /\ ~ (length - pointer < Len(part))
      /\ data' = [i \in 0 .. length - 1 |->
                     IF i - pointer \in 0 .. Len(part) - 1
                     THEN part[i - pointer + 1] ELSE data[i]]
      /\ written \in Seq(Fields) /\ pointer \in Nat /\ length \in Nat
  BY DEF CopyPart, BufferInv, BufferTypeOK
<1>2. /\ Tail(todo) \in Pieces /\ part \in Seq(Bytes) /\ Len(part) \in Nat
      /\ rest \in Seq(Bytes) /\ Len(rest) \in Nat
      /\ Len(Flat(todo)) = Len(part) + Len(rest)
      /\ \A i \in 1 .. Len(part) + Len(rest) :
            Flat(todo)[i] = IF i <= Len(part) THEN part[i] ELSE rest[i - Len(part)]
  <2> HIDE DEF part, rest
  <2>1. Flat(Tail(todo)) = rest /\ Head(todo) = part
    BY DEF part, rest
  <2>2. Tail(todo) \in Pieces
    BY <1>1, FlatPieces
  <2>3. rest \in Seq(Bytes) /\ Len(rest) \in Nat
    BY <2>1, <2>2, FlatPieces
  <2>4. /\ part \in Seq(Bytes)
        /\ Len(Flat(todo)) = Len(part) + Len(rest)
        /\ \A i \in 1 .. Len(part) + Len(rest) :
            Flat(todo)[i] = IF i <= Len(part) THEN part[i] ELSE rest[i - Len(part)]
    BY <1>1, <2>1, FlatPieces
  <2>5. Len(part) \in Nat
    BY <2>4
  <2> QED
    BY <2>2, <2>3, <2>4, <2>5
<1>3. Flat(todo') = rest
  BY <1>1
<1> HIDE DEF part, rest
<1>4. PICK m \in Nat : m = Len(part)
  BY <1>2
<1>5. PICK r \in Nat : r = Len(rest)
  BY <1>2
<1>6. pointer + m <= length /\ pointer' = pointer + m
  BY <1>1, <1>4
<1>7. ASSUME NEW k \in 0 .. pointer + (m + r) - 1
      PROVE  Laid(k)' = Laid(k)
  <2>1. CASE k < pointer
    <3>1. k \in 0 .. length - 1 /\ k - pointer \notin 0 .. m - 1 /\ k < pointer'
      BY <1>1, <1>6, <2>1
    <3>2. data'[k] = data[k]
      BY <1>1, <1>4, <3>1
    <3> QED
      BY <2>1, <3>1, <3>2 DEF Laid
  <2>2. CASE k \in pointer .. pointer + m - 1
    <3>1. /\ k \in 0 .. length - 1 /\ k - pointer \in 0 .. m - 1 /\ k < pointer'
          /\ ~ (k < pointer) /\ k - pointer + 1 \in 1 .. m + r /\ k - pointer + 1 <= m
      <4>1. \A p, q \in Nat : q = p + m /\ k \in p .. p + m - 1 =>
                /\ k - p \in 0 .. m - 1 /\ k < q /\ ~ (k < p)
                /\ k - p + 1 \in 1 .. m + r /\ k - p + 1 <= m
        OBVIOUS
      <4>2. pointer' \in Nat /\ k \in 0 .. length - 1
        BY <1>1, <1>6, <2>2
      <4> QED
        BY <1>1, <1>6, <2>2, <4>1, <4>2
    <3>2. data'[k] = part[k - pointer + 1]
      BY <1>1, <1>4, <3>1
    <3>3. Flat(todo)[k - pointer + 1] = part[k - pointer + 1]
      BY <1>2, <1>4, <1>5, <3>1
    <3> QED
      BY <3>1, <3>2, <3>3 DEF Laid
  <2>3. CASE k >= pointer + m
    <3>1. /\ ~ (k < pointer) /\ ~ (k < pointer')
          /\ k - pointer + 1 \in 1 .. m + r /\ ~ (k - pointer + 1 <= m)
          /\ (k - pointer + 1) - m = k - pointer' + 1
      <4>1. \A p, q \in Nat : q = p + m /\ k >= p + m /\ k <= p + (m + r) - 1 =>
                /\ ~ (k < p) /\ ~ (k < q)
                /\ k - p + 1 \in 1 .. m + r /\ ~ (k - p + 1 <= m)
                /\ (k - p + 1) - m = k - q + 1
        OBVIOUS
      <4>2. pointer' \in Nat /\ k <= pointer + (m + r) - 1
        BY <1>1, <1>6
      <4> QED
        BY <1>1, <1>6, <2>3, <4>1, <4>2
    <3>2. Flat(todo)[k - pointer + 1] = rest[(k - pointer + 1) - m]
      BY <1>2, <1>4, <1>5, <3>1
    <3> QED
      BY <1>3, <3>1, <3>2 DEF Laid
  <2> QED
    BY <1>1, <2>1, <2>2, <2>3
<1>8. at[Len(written) + 1] = pointer + (m + r) /\ at[Len(written) + 1] = pointer' + r
  BY <1>1, <1>2, <1>4, <1>5, <1>6 DEF Filled
<1>9. ASSUME NEW i \in 1 .. Len(written), NEW j \in 1 .. Len(Coded(written[i]))
      PROVE  Laid(at[i] + j - 1)' = Coded(written[i])[j]
  <2>1. Lies(at, written)
    BY DEF Filled
  <2>2. PICK k \in 0 .. pointer + (m + r) - 1 : k = at[i] + j - 1
    <3>1. at[i] + j - 1 \in 0 .. at[Len(written) + 1] - 1
      BY <1>1, <2>1, LiesWithin
    <3>2. PICK e \in Nat : e = pointer + (m + r)
      BY <1>1
    <3>3. at[Len(written) + 1] - 1 = e - 1
      BY <1>8, <3>2
    <3>4. PICK k \in 0 .. e - 1 : k = at[i] + j - 1
      BY <3>1, <3>3
    <3>5. pointer \in Nat
      BY <1>1
    <3>6. k \in 0 .. pointer + (m + r) - 1
      BY <3>2, <3>4, <3>5
    <3> QED
      BY <3>4, <3>6
  <2> QED
    BY <1>7, <2>1, <2>2 DEF Filled
<1> QED
  BY <1>1, <1>2, <1>3, <1>5, <1>8, <1>9 DEF Filled

(* A number that is read from the bytes of a field is the field's.         *)
LEMMA NumberCanonical ==
    ASSUME NEW f \in Fields, f.type \in Numbers
    PROVE  <<Number(f.type, Coded(f))>> = Canonical(f)
<1> DEFINE v == f.value[1]
           w == Width[f.type]
           n == Values(w)
<1>1. v \in Int /\ w \in Widths /\ Coded(f) = BytesOf(v, w)
  BY CodedBytes
<1> HIDE DEF v, w
<1>2. n \in Nat \ {0} /\ Unsigned(BytesOf(v, w)) = v % n
  BY <1>1, Encoded, ValuesEven
<1>3. Signed(BytesOf(v, w)) = ((v + (n \div 2)) % n) - (n \div 2)
  BY <1>1, SignedEncoded
<1>4. CASE f.type = "short"
  <2>1. Number(f.type, Coded(f)) = v % n
    BY <1>1, <1>2, <1>4 DEF Number
  <2>2. Canonical(f) = <<((v + 0) % n) - 0>>
    BY <1>4 DEF Canonical, v, w
  <2>3. ((v + 0) % n) - 0 = v % n
    BY <1>1, <1>2
  <2> QED
    BY <2>1, <2>2, <2>3
<1>5. CASE f.type # "short"
  <2>1. Number(f.type, Coded(f)) = ((v + (n \div 2)) % n) - (n \div 2)
    BY <1>1, <1>3, <1>5 DEF Number
  <2>2. Canonical(f) = <<((v + (n \div 2)) % n) - (n \div 2)>>
    BY <1>5 DEF Canonical, v, w
  <2> QED
    BY <2>1, <2>2
<1> QED
  BY <1>4, <1>5

(* The length of a text is read as it is, unless it is overlong.           *)
LEMMA HeaderLength ==
    ASSUME NEW f \in Fields, f.type \in Texts, ~ Overlong(f)
    PROVE  Number(IF f.type = "string" THEN "int" ELSE "short",
                  BytesOf(Len(f.value), Width[f.type])) = Len(f.value)
<1>1. PICK n \in Nat : n = Len(f.value)
  BY CodedBytes
<1>2. n < Long \div 2 /\ Long \in Nat /\ Long = 2 * (Long \div 2) /\ Long \div 2 \in Nat
      /\ Short \in Nat /\ Short # 0 /\ Long # 0
  <2>1. 4 \in Widths /\ Values(4) = Long
    BY ValuesEven DEF Widths
  <2>2. Long = 2 * (Long \div 2) /\ Long \div 2 \in Nat \ {0}
    BY <2>1, ValuesEven
  <2>3. n < Long \div 2
    BY <1>1, BufferAssumption
  <2>4. Long \in Nat /\ Short \in Nat /\ Long > 1 /\ Short > 1
    BY ValuesEven
  <2> QED
    BY <2>2, <2>3, <2>4
<1>3. \A m \in Nat \ {0} : n < m => n % m = n
  OBVIOUS
<1>4. CASE f.type = "string"
  <2>1. Width[f.type] = 4 /\ 4 \in Widths /\ Values(4) = Long
    BY <1>4, ValuesEven DEF Width, Widths
  <2>2. /\ BytesOf(n, 4) \in Seq(Bytes) /\ Len(BytesOf(n, 4)) = 4
        /\ Unsigned(BytesOf(n, 4)) = n % Long
    <3>1. n \in Int
      OBVIOUS
    <3>2. /\ BytesOf(n, 4) \in Seq(Bytes) /\ Len(BytesOf(n, 4)) = 4
          /\ Unsigned(BytesOf(n, 4)) = n % Values(4)
      BY <2>1, <3>1, Encoded
    <3> QED
      BY <2>1, <3>2
  <2>3. n < Long
    BY <1>2
  <2>4. Unsigned(BytesOf(n, 4)) = n
    BY <1>2, <1>3, <2>2, <2>3
  <2>5. Signed(BytesOf(n, 4)) = n
    BY <1>2, <2>1, <2>2, <2>4, Decoded
  <2> QED
    BY <1>1, <1>4, <2>1, <2>5 DEF Number
<1>5. CASE f.type = "shortstring"
  <2>1. Width[f.type] = 2 /\ 2 \in Widths /\ Values(2) = Short
    BY <1>5, ValuesEven DEF Width, Widths
  <2>2. n < Short
    BY <1>1, <1>2, <1>5 DEF Overlong
  <2>3. Unsigned(BytesOf(n, 2)) = n % Short
    BY <2>1, Encoded
  <2>4. Unsigned(BytesOf(n, 2)) = n
    BY <1>2, <1>3, <2>2, <2>3
  <2> QED
    BY <1>1, <1>5, <2>1, <2>4 DEF Number
<1> QED
  BY <1>4, <1>5 DEF Texts

(* What is copied out of the buffer where some bytes lie is these bytes.   *)
LEMMA SliceIs ==
    ASSUME BufferInv, Reading, NEW start \in Nat, NEW s \in Seq(Int), NEW n \in Nat,
           Len(s) = n, start + n <= length,
           \A i \in 1 .. n : data[start + i - 1] = s[i]
    PROVE  Slice(start, n) = s
<1>1. /\ Slice(start, n) \in Seq(Int) /\ Len(Slice(start, n)) = n
      /\ \A i \in 1 .. n : Slice(start, n)[i] = data[start + i - 1]
  BY SliceBytes
<1> QED
  BY <1>1, SeqEqual

(* The reader of what was written is at the field it is to ask for next.   *)
LEMMA NextField ==
    ASSUME BufferInv, NEW at, Placed(at), agreed,
           NEW r \in Nat, r = Len(results), NEW n \in Nat, n = Len(written), r < n,
           \A i \in 1 .. r : ~ Overlong(written[i])
    PROVE  LET f == written[r + 1]
           IN  /\ f \in Fields /\ Len(Coded(f)) \in Nat
               /\ pointer = at[r + 1] /\ pointer \in Nat
               /\ at[r + 2] = pointer + Len(Coded(f))
               /\ at[r + 2] <= at[n + 1] /\ at[n + 1] \in Nat
               /\ \A j \in 1 .. Len(Coded(f)) :
                     pointer + j - 1 < length => data[pointer + j - 1] = Coded(f)[j]
<1> DEFINE f == written[r + 1]
<1>1. r + 1 \in 1 .. n /\ (r + 1) + 1 = r + 2 /\ r + 2 \in 1 .. n + 1 /\ r + 2 <= n + 1
      /\ n + 1 \in 1 .. n + 1
  OBVIOUS
<1>2. written \in Seq(Fields) /\ pointer \in Nat
  BY DEF BufferInv, BufferTypeOK
<1>3. f \in Fields
  BY <1>1, <1>2
<1>4. Len(Coded(f)) \in Nat
  BY <1>3, CodedBytes
<1>5. pointer = at[r + 1]
  BY DEF Placed
<1>6. /\ at \in [1 .. n + 1 -> Nat] /\ \A i \in 1 .. n : at[i + 1] = at[i] + Len(Coded(written[i]))
      /\ \A i, j \in 1 .. n + 1 : i <= j => at[i] <= at[j]
  BY DEF Placed, Lies
<1>7. at[r + 2] = pointer + Len(Coded(f))
  BY <1>1, <1>5, <1>6
<1>8. at[r + 2] <= at[n + 1] /\ at[n + 1] \in Nat
  BY <1>1, <1>6
<1>9. \A j \in 1 .. Len(Coded(f)) :
          at[r + 1] + j - 1 < length => data[at[r + 1] + j - 1] = Coded(f)[j]
  BY <1>1 DEF Placed
<1> QED
  BY <1>2, <1>3, <1>4, <1>5, <1>7, <1>8, <1>9

(* The history of a read that returns TRUE: it holds what was written when *)
(* the value is the next field's, and the reader is behind that field.     *)
LEMMA ReadHistory ==
    ASSUME BufferInv, NEW at, Placed(at), RoundTrip,
           NEW r \in Nat, r = Len(results), NEW n \in Nat, n = Len(written), r <= n,
           NEW k \in Nat, NEW value, NEW same \in BOOLEAN, Give(k, value, same),
           UNCHANGED <<length, data, written>>,
           same => r < n,
           agreed /\ same /\ (\A i \in 1 .. r + 1 : ~ Overlong(written[i])) =>
               value = Canonical(written[r + 1]) /\ k = Len(Coded(written[r + 1]))
    PROVE  Placed(at)' /\ RoundTrip' /\ Len(results') \in 0 .. Len(written')
<1>1. /\ results \in Seq(Seq(Int)) /\ agreed \in BOOLEAN /\ pointer' = pointer + k
      /\ length' = length /\ data' = data /\ written' = written
  BY DEF BufferInv, BufferTypeOK, Give
<1>2. CASE ~ (agreed /\ same)
  <2>1. results' = results /\ ~ agreed'
    BY <1>2 DEF Give
  <2>2. RoundTrip'
    BY <1>1, <2>1 DEF RoundTrip, Before, Canonical, Overlong
  <2>3. Placed(at)'
    BY <1>1, <2>1 DEF Placed
  <2> QED
    BY <1>1, <2>1, <2>2, <2>3
<1>3. CASE agreed /\ same
  <2>1. results' = Append(results, value) /\ agreed' /\ r < n
    BY <1>3 DEF Give
  <2>2. /\ Len(results') = r + 1 /\ results'[r + 1] = value
        /\ \A i \in 1 .. r : results'[i] = results[i]
    BY <1>1, <2>1
  <2>3. ASSUME NEW i \in 1 .. r + 1, \A j \in 1 .. i : ~ Overlong(written[j])
        PROVE  results'[i] = Canonical(written[i])
    <3>1. CASE i \in 1 .. r
      <4>1. i \in Before
        BY <2>3, <3>1 DEF Before
      <4> QED
        BY <2>2, <3>1, <4>1 DEF RoundTrip
    <3>2. CASE i = r + 1
      BY <1>3, <2>2, <2>3, <3>2
    <3> QED
      BY <3>1, <3>2
  <2>4. RoundTrip'
    BY <1>1, <2>2, <2>3 DEF RoundTrip, Before, Canonical, Overlong
  <2>5. ASSUME \A i \in 1 .. r + 1 : ~ Overlong(written[i])
        PROVE  pointer' = at[r + 2]
    <3>1. \A i \in 1 .. r : ~ Overlong(written[i])
      BY <2>5
    <3>2. at[r + 2] = pointer + Len(Coded(written[r + 1]))
      BY <1>3, <2>1, <3>1, NextField
    <3> QED
      BY <1>1, <1>3, <2>5, <3>2
  <2>6. (r + 1) + 1 = r + 2
    OBVIOUS
  <2>7. Placed(at)'
    BY <1>1, <2>2, <2>5, <2>6 DEF Placed, Overlong
  <2> QED
    BY <1>1, <2>1, <2>2, <2>4, <2>7
<1> QED
  BY <1>2, <1>3

(* Bytes are integers.                                                     *)
LEMMA BytesInt == Seq(Bytes) \subseteq Seq(Int)
<1>1. Bytes \subseteq Int
  BY DEF Bytes
<1> QED
  BY <1>1, Wider

(* What is sent is received as far as its length says; all of it, when the *)
(* length fits an int.                                                     *)
LEMMA Sent ==
    ASSUME BufferInv, NEW at, Filled(at), todo = <<>>, agreed, results = <<>>, Transfer
    PROVE  /\ role' \in {"read", "refused"}
           /\ role' = "read" => Placed(at)'
           /\ pointer + HeaderSize < Long \div 2 =>
                /\ role' = "read" => length' = at[Len(written) + 1]
                /\ role' = "refused" => announced' = announced
<1>1. /\ UNCHANGED <<todo, written, results, agreed>> /\ pointer \in Nat /\ HeaderSize \in Nat
      /\ written \in Seq(Fields)
  BY ValuesEven DEF Transfer, BufferInv, BufferTypeOK
<1>2. CASE category = 0 \/ command = 0
  BY <1>2 DEF Transfer
<1>3. CASE ~ (category = 0 \/ command = 0)
  <2> DEFINE h == BytesOf(pointer + HeaderSize, 4)
  <2>1. Receive(h, data, "read")
    BY <1>3 DEF Transfer
  <2>2. /\ h \in Seq(Bytes) /\ Len(h) = 4 /\ 4 \in Widths /\ Values(4) = Long
        /\ Unsigned(h) = (pointer + HeaderSize) % Long
    <3>1. pointer + HeaderSize \in Int /\ 4 \in Widths
      BY <1>1 DEF Widths
    <3>2. Values(4) = Long
      BY ValuesEven
    <3>3. /\ h \in Seq(Bytes) /\ Len(h) = 4
          /\ Unsigned(h) = (pointer + HeaderSize) % Values(4)
      BY <3>1, Encoded
    <3> QED
      BY <3>1, <3>2, <3>3
  <2>3. PICK n \in BodySize(h) :
            IF n < 0 THEN role' = "refused" /\ UNCHANGED buffer
            ELSE /\ role' = "read"
                 /\ length' = n /\ pointer' = 0
                 /\ data' = [i \in 0 .. n - 1 |-> data[i]]
    BY <2>1 DEF Receive
  <2>4. n \in Int
    <3>1. Signed(h) \in Int /\ Long \in Nat
      BY <2>2, Decoded, ValuesEven
    <3> QED
      BY <1>1, <3>1 DEF BodySize
  <2>5. ASSUME pointer + HeaderSize < Long \div 2
        PROVE  n = pointer
    <3>1. Long = 2 * (Long \div 2) /\ Long \div 2 \in Nat \ {0} /\ Long \in Nat
      BY <2>2, ValuesEven
    <3>2. Signed(h) = pointer + HeaderSize
      <4>1. PICK v \in Nat : v = pointer + HeaderSize
        BY <1>1
      <4>2. v < Long \div 2 /\ v < Long
        BY <2>5, <3>1, <4>1
      <4>3. v % Long = v
        BY <3>1, <4>2
      <4>4. Unsigned(h) = v
        BY <2>2, <4>1, <4>3
      <4>5. Signed(h) = v
        BY <2>2, <4>2, <4>4, Decoded
      <4> QED
        BY <4>1, <4>5
    <3>3. Signed(h) - HeaderSize = pointer /\ ~ (pointer < - (Long \div 2))
      BY <1>1, <3>1, <3>2
    <3> QED
      BY <3>3 DEF BodySize
  <2>6. Len(written) \in Nat /\ pointer = at[Len(written) + 1]
    <3>1. Len(Flat(<<>>)) = 0
      BY DEF Flat
    <3> QED
      <4>1. pointer + 0 = at[Len(written) + 1]
        BY <3>1 DEF Filled
      <4> QED
        BY <1>1, <4>1
  <2> HIDE DEF h
  <2>7. CASE n < 0
    BY <1>1, <2>3, <2>4, <2>5, <2>7
  <2>8. CASE n >= 0
    <3>1. n \in Nat /\ n <= pointer
      <4>1. n <= (pointer + HeaderSize) - HeaderSize
        BY <1>1, <2>8, SentFits DEF h
      <4> QED
        BY <1>1, <2>4, <2>8, <4>1
    <3>2. /\ role' = "read" /\ length' = n /\ pointer' = 0
          /\ \A k \in 0 .. n - 1 : data'[k] = data[k]
      BY <2>3, <2>4, <2>8
    <3>3. ASSUME NEW i \in 1 .. Len(written), NEW j \in 1 .. Len(Coded(written[i])),
                 at[i] + j - 1 < n
          PROVE  data'[at[i] + j - 1] = Coded(written[i])[j]
      <4>1. PICK k \in 0 .. at[Len(written) + 1] - 1 : k = at[i] + j - 1
        BY <1>1, LiesWithin DEF Filled
      <4>2. k \in 0 .. n - 1 /\ k < pointer
        BY <1>1, <2>6, <3>1, <3>3, <4>1
      <4>3. Laid(k) = Coded(written[i])[j]
        BY <4>1 DEF Filled
      <4>4. Laid(k) = data[k]
        BY <4>2 DEF Laid
      <4> QED
        BY <3>2, <4>1, <4>2, <4>3, <4>4
    <3>4. at[1] = 0 /\ Lies(at, written) /\ Len(results') + 1 = 1
      BY <1>1 DEF Filled, Lies
    <3>5. Placed(at)'
      BY <1>1, <2>6, <3>1, <3>2, <3>3, <3>4 DEF Placed
    <3> QED
      BY <2>5, <2>6, <3>2, <3>5
  <2> QED
    BY <2>4, <2>7, <2>8
<1> QED
  BY <1>2, <1>3

(* A reader that is refused has had what it has read before.               *)
LEMMA RefusedHistory ==
    ASSUME RoundTrip, NEW k, NEW same, Refuse(k, same), UNCHANGED written
    PROVE  RoundTrip' /\ results' = results /\ role' = "refused"
BY DEF RoundTrip, Before, Canonical, Overlong, Refuse

(* The reader of what was written gets the next number ...                 *)
LEMMA NumberRead ==
    ASSUME BufferInv, Reading, NEW at, Placed(at), agreed,
           NEW r \in Nat, r = Len(results), NEW n \in Nat, n = Len(written), r < n,
           \A i \in 1 .. r + 1 : ~ Overlong(written[i]),
           NEW t \in Numbers, Asked(t), Exists(Width[t])
    PROVE  /\ <<Number(t, Slice(pointer, Width[t]))>> = Canonical(written[r + 1])
           /\ Width[t] = Len(Coded(written[r + 1]))
<1> DEFINE f == written[r + 1]
           w == Width[t]
<1>1. \A i \in 1 .. r : ~ Overlong(written[i])
  OBVIOUS
<1>2. /\ f \in Fields /\ pointer \in Nat
      /\ \A j \in 1 .. Len(Coded(f)) :
            pointer + j - 1 < length => data[pointer + j - 1] = Coded(f)[j]
  BY <1>1, NextField
<1>3. f.type = t
  BY DEF Asked
<1>4. /\ Coded(f) \in Seq(Bytes) /\ Len(Coded(f)) = w /\ w \in Widths
  BY <1>2, <1>3, CodedBytes
<1> HIDE DEF f, w
<1>5. w \in Nat /\ pointer + w <= length /\ length \in Nat
  BY <1>2, <1>4 DEF Exists, w, Widths, BufferInv, BufferTypeOK
<1>6. \A i \in 1 .. w : data[pointer + i - 1] = Coded(f)[i]
  <2>1. \A i \in 1 .. w : pointer + i - 1 < length
    BY <1>2, <1>5
  <2> QED
    BY <1>2, <1>4, <2>1
<1>7. Coded(f) \in Seq(Int)
  BY <1>4, BytesInt
<1>8. Slice(pointer, w) = Coded(f)
  BY <1>2, <1>4, <1>5, <1>6, <1>7, SliceIs
<1>9. <<Number(t, Coded(f))>> = Canonical(f)
  BY <1>2, <1>3, NumberCanonical
<1> QED
  BY <1>4, <1>8, <1>9 DEF f, w

(* ... the next bytes ...                                                  *)
LEMMA CharRead ==
    ASSUME BufferInv, Reading, NEW at, Placed(at), agreed,
           NEW r \in Nat, r = Len(results), NEW n \in Nat, n = Len(written), r < n,
           \A i \in 1 .. r + 1 : ~ Overlong(written[i]),
           Asked("char"), NEW size \in Nat, size = Len(written[r + 1].value), Exists(size)
    PROVE  /\ Slice(pointer, size) = Canonical(written[r + 1])
           /\ size = Len(Coded(written[r + 1]))
<1> DEFINE f == written[r + 1]
<1>1. \A i \in 1 .. r : ~ Overlong(written[i])
  OBVIOUS
<1>2. /\ f \in Fields /\ pointer \in Nat
      /\ \A j \in 1 .. Len(Coded(f)) :
            pointer + j - 1 < length => data[pointer + j - 1] = Coded(f)[j]
  BY <1>1, NextField
<1>3. f.type = "char"
  BY DEF Asked
<1>4. Coded(f) = f.value /\ Coded(f) \in Seq(Bytes) /\ Len(Coded(f)) = size
  BY <1>2, <1>3, CodedBytes
<1>5. Canonical(f) = f.value
  BY <1>3 DEF Canonical, Numbers
<1> HIDE DEF f
<1>6. pointer + size <= length /\ length \in Nat
  BY <1>2 DEF Exists, BufferInv, BufferTypeOK
<1>7. \A i \in 1 .. size : data[pointer + i - 1] = Coded(f)[i]
  <2>1. \A i \in 1 .. size : pointer + i - 1 < length
    BY <1>2, <1>6
  <2> QED
    BY <1>2, <1>4, <2>1
<1>8. Coded(f) \in Seq(Int)
  BY <1>4, BytesInt
<1>9. Slice(pointer, size) = Coded(f)
  BY <1>2, <1>4, <1>6, <1>7, <1>8, SliceIs
<1> QED
  BY <1>4, <1>5, <1>9 DEF f

(* ... or the next text.                                                   *)
LEMMA TextRead ==
    ASSUME BufferInv, Reading, NEW at, Placed(at), agreed,
           NEW r \in Nat, r = Len(results), NEW n \in Nat, n = Len(written), r < n,
           \A i \in 1 .. r + 1 : ~ Overlong(written[i]),
           NEW t \in Texts, Asked(t), Exists(Width[t]),
           NEW size, size = Number(IF t = "string" THEN "int" ELSE "short",
                                   Slice(pointer, Width[t])),
           NEW max, Fits(pointer + Width[t], size, max)
    PROVE  /\ Slice(pointer + Width[t], size) = Canonical(written[r + 1])
           /\ Width[t] + size = Len(Coded(written[r + 1]))
<1> DEFINE f == written[r + 1]
           w == Width[t]
           b == BytesOf(Len(f.value), w)
<1>1. \A i \in 1 .. r : ~ Overlong(written[i])
  OBVIOUS
<1>2. /\ f \in Fields /\ pointer \in Nat
      /\ \A j \in 1 .. Len(Coded(f)) :
            pointer + j - 1 < length => data[pointer + j - 1] = Coded(f)[j]
  BY <1>1, NextField
<1>3. f.type = t /\ ~ Overlong(f)
  BY DEF Asked
<1>4. /\ w \in {2, 4} /\ f.value \in Seq(Bytes) /\ Len(f.value) \in Nat
      /\ Len(Coded(f)) = w + Len(f.value)
      /\ \A i \in 1 .. w : Coded(f)[i] = b[i]
      /\ \A i \in 1 .. Len(f.value) : Coded(f)[w + i] = f.value[i]
  BY <1>2, <1>3, CodedBytes
<1>5. b \in Seq(Bytes) /\ Len(b) = w
  <2>1. w \in Widths /\ Len(f.value) \in Int
    BY <1>4 DEF Widths
  <2> QED
    BY <2>1, Encoded
<1>6. Canonical(f) = f.value
  BY <1>3 DEF Canonical, Numbers, Texts
<1>7. Number(IF t = "string" THEN "int" ELSE "short", b) = Len(f.value)
  BY <1>2, <1>3, HeaderLength
<1> HIDE DEF f, w, b
<1>8. w \in Nat /\ pointer + w <= length /\ length \in Nat
  <2>1. w \in Nat /\ length \in Nat
    BY <1>4 DEF BufferInv, BufferTypeOK
  <2>2. length - pointer >= w
    BY DEF Exists, w
  <2> QED
    BY <1>2, <2>1, <2>2
<1>l. PICK len \in Nat : len = Len(f.value)
  BY <1>4
<1>9. \A j \in 1 .. w + len : pointer + j - 1 < length => data[pointer + j - 1] = Coded(f)[j]
  BY <1>2, <1>4, <1>l
<1>10. Slice(pointer, w) = b
  <2>1. \A i \in 1 .. w : i \in 1 .. w + len /\ pointer + i - 1 < length
    BY <1>2, <1>8
  <2>2. \A i \in 1 .. w : data[pointer + i - 1] = b[i]
    BY <1>4, <1>9, <2>1
  <2>3. b \in Seq(Int)
    BY <1>5, BytesInt
  <2> QED
    BY <1>2, <1>5, <1>8, <2>2, <2>3, SliceIs
<1>11. size = len
  BY <1>7, <1>10, <1>l DEF w
<1>12. (pointer + w) + len <= length
  BY <1>2, <1>8, <1>11 DEF Fits, w
<1>13. Slice(pointer + w, len) = f.value
  <2>1. \A i \in 1 .. len : /\ w + i \in 1 .. w + len /\ pointer + (w + i) - 1 < length
                            /\ pointer + (w + i) - 1 = (pointer + w) + i - 1
    BY <1>2, <1>8, <1>12
  <2>2. \A i \in 1 .. len : data[(pointer + w) + i - 1] = f.value[i]
    BY <1>4, <1>9, <1>l, <2>1
  <2>3. f.value \in Seq(Int)
    BY <1>4, BytesInt
  <2>4. pointer + w \in Nat
    BY <1>2, <1>8
  <2> QED
    BY <1>l, <1>12, <2>2, <2>3, <2>4, SliceIs
<1> QED
  BY <1>4, <1>6, <1>l, <1>11, <1>13 DEF f, w

(* The history of a packet: the fields lie in what is written, and in what *)
(* is received, the reader being at the field it is to ask for next.  In   *)
(* the strict form all that was written has been received, and only a text *)
(* is ever refused.                                                        *)
Trip(strict) ==
    /\ RoundTrip
    /\ Len(results) \in 0 .. Len(written)
    /\ role = "write" =>
         /\ results = <<>> /\ agreed /\ announced = 0 /\ todo \in Pieces
         /\ \E at : Filled(at)
    /\ role = "read" => \E at : Placed(at) /\ (strict => length = at[Len(written) + 1])
    /\ role = "foreign" => written = <<>>
    /\ strict /\ role = "refused" /\ agreed /\ NoOverlong /\ written # <<>> /\ announced # 0 =>
         written[Len(results) + 1].type \in Texts

(* m_nDataPointer and the length that is sent fit an int.                  *)
Small == role = "write" => pointer + HeaderSize < Long \div 2

(* No field, and the place where the first is to lie.                      *)
LEMMA TripInit == ASSUME NEW strict \in BOOLEAN, BufferInit PROVE Trip(strict)
<1>1. /\ role = "write" /\ results = <<>> /\ written = <<>> /\ todo = <<>>
      /\ agreed = TRUE /\ announced = 0 /\ pointer = 0
  BY DEF BufferInit
<1>2. /\ Len(results) = 0 /\ Len(written) = 0
      /\ <<>> \in Pieces /\ Flat(<<>>) = <<>> /\ Len(Flat(<<>>)) = 0
  BY <1>1 DEF Pieces, Flat
<1>3. RoundTrip
  BY <1>2 DEF RoundTrip, Before
<1>4. \E at : Filled(at)
  <2>1. PICK at : at = [i \in 1 .. 1 |-> 0]
    OBVIOUS
  <2>2. at \in [1 .. 1 -> Nat] /\ at[1] = 0
    BY <2>1
  <2>3. \A i, j \in 1 .. 1 : /\ i <= j => at[i] <= at[j] /\ at[i] = at[j]
                             /\ \A k \in i .. j - 1 : FALSE
    BY <2>2
  <2>4. Lies(at, written)
    BY <1>2, <2>2, <2>3 DEF Lies
  <2>5. Filled(at)
    BY <1>1, <1>2, <2>2, <2>4 DEF Filled
  <2> QED
    BY <2>5
<1> QED
  BY <1>1, <1>2, <1>3, <1>4 DEF Trip

(* Filling the buffer.                                                     *)
LEMMA TripFill ==
    ASSUME NEW strict \in BOOLEAN, BufferInv, Trip(strict),
           (\E f \in Fields : Write(f)) \/ CheckDataBuffer \/ CopyPart
    PROVE  Trip(strict)'
<1>1. role = "write" /\ UNCHANGED <<role, results, agreed, announced>>
  BY DEF Write, CheckDataBuffer, CopyPart, BufferInv
<1>2. /\ results = <<>> /\ agreed /\ announced = 0 /\ todo \in Pieces
  BY <1>1 DEF Trip
<1>3. PICK at : Filled(at)
  BY <1>1 DEF Trip
<1>4. todo' \in Pieces /\ \E more : Filled(more)'
  <2>1. CASE \E f \in Fields : Write(f)
    BY <1>3, <2>1, FilledWrite
  <2>2. CASE CheckDataBuffer
    <3>1. Filled(at)'
      BY <1>3, <2>2, FilledGrow
    <3>2. todo' = todo
      BY <2>2 DEF CheckDataBuffer
    <3> QED
      BY <1>2, <3>1, <3>2
  <2>3. CASE CopyPart
    BY <1>2, <1>3, <2>3, FilledCopy
  <2> QED
    BY <2>1, <2>2, <2>3
<1>5. written' \in Seq(Fields)
  <2>1. BufferInv'
    BY FillBuffer
  <2> QED
    BY <2>1 DEF BufferInv, BufferTypeOK
<1>6. Len(results') = 0 /\ Len(written') \in Nat
  BY <1>1, <1>2, <1>5
<1>7. RoundTrip'
  BY <1>6 DEF RoundTrip, Before
<1> QED
  BY <1>1, <1>2, <1>4, <1>6, <1>7 DEF Trip

(* Sending the packet.                                                     *)
LEMMA TripSend ==
    ASSUME NEW strict \in BOOLEAN, BufferInv, Trip(strict), strict => Small, Transfer
    PROVE  Trip(strict)'
<1>1. role = "write" /\ todo = <<>> /\ UNCHANGED <<todo, written, results, agreed>>
  BY DEF Transfer
<1>2. /\ results = <<>> /\ agreed /\ announced = 0
  BY <1>1 DEF Trip
<1>3. PICK at : Filled(at)
  BY <1>1 DEF Trip
<1>4. /\ role' \in {"read", "refused"}
      /\ role' = "read" => Placed(at)'
      /\ strict => /\ role' = "read" => length' = at[Len(written) + 1]
                   /\ role' = "refused" => announced' = announced
  BY <1>1, <1>2, <1>3, Sent DEF Small
<1>5. RoundTrip' /\ Len(results') \in 0 .. Len(written')
  BY <1>1 DEF Trip, RoundTrip, Before, Canonical, Overlong
<1> QED
  BY <1>1, <1>2, <1>4, <1>5 DEF Trip

(* The packet of another program is nobody's fields.                       *)
LEMMA TripForeign ==
    ASSUME NEW strict \in BOOLEAN, BufferInv, Trip(strict), ReceiveForeign
    PROVE  Trip(strict)'
<1>1. role = "write" /\ written = <<>> /\ UNCHANGED <<todo, written, results, agreed>>
  BY DEF ReceiveForeign
<1>2. role' \in {"foreign", "refused"}
  BY DEF ReceiveForeign, Receive
<1>3. RoundTrip' /\ Len(results') \in 0 .. Len(written')
  BY <1>1 DEF Trip, RoundTrip, Before, Canonical, Overlong
<1> QED
  BY <1>1, <1>2, <1>3 DEF Trip

(* What a read must return to a reader that asks for the next field, and   *)
(* what it may refuse to one that has been sent everything.                *)
GivesNext(k, value, same) ==
    \A at : Placed(at) /\ agreed /\ same
           /\ (\A i \in 1 .. Len(results) + 1 : ~ Overlong(written[i])) =>
        value = Canonical(written[Len(results) + 1]) /\ k = Len(Coded(written[Len(results) + 1]))

RefusesText(same) ==
    \A at : Placed(at) /\ length = at[Len(written) + 1] /\ agreed /\ same
           /\ (\A i \in 1 .. Len(results) + 1 : ~ Overlong(written[i])) =>
        written[Len(results) + 1].type \in Texts

(* A read that does so keeps the history.                                  *)
LEMMA TripTaken ==
    ASSUME NEW strict \in BOOLEAN, BufferInv, Trip(strict), Reading,
           NEW k \in Nat, NEW value, NEW same \in BOOLEAN,
           UNCHANGED <<length, data, todo, written, announced>>,
           NEW r \in Nat, r = Len(results), NEW n \in Nat, n = Len(written), same => r < n,
           \/ Give(k, value, same) /\ GivesNext(k, value, same)
           \/ Refuse(k, same) /\ RefusesText(same)
    PROVE  Trip(strict)'
<1>0. /\ length' = length /\ data' = data /\ written' = written /\ announced' = announced
      /\ RoundTrip /\ r <= n
  BY DEF Trip
<1>1. CASE Give(k, value, same) /\ GivesNext(k, value, same)
  <2>1. role' = role
    BY <1>1 DEF Give
  <2>2. CASE role = "read"
    <3>1. PICK at : Placed(at) /\ (strict => length = at[Len(written) + 1])
      BY <2>2 DEF Trip
    <3>2. Placed(at)' /\ RoundTrip' /\ Len(results') \in 0 .. Len(written')
      <4>1. agreed /\ same /\ (\A i \in 1 .. r + 1 : ~ Overlong(written[i])) =>
                value = Canonical(written[r + 1]) /\ k = Len(Coded(written[r + 1]))
        BY <1>1, <3>1 DEF GivesNext
      <4> QED
        BY <1>0, <1>1, <3>1, <4>1, ReadHistory
    <3> QED
      BY <1>0, <2>1, <2>2, <3>1, <3>2 DEF Trip
  <2>3. CASE role = "foreign"
    <3>1. written = <<>> /\ ~ same
      BY <2>3 DEF Trip
    <3>2. results' = results
      BY <1>1, <3>1 DEF Give
    <3>3. RoundTrip' /\ Len(results') \in 0 .. Len(written')
      BY <1>0, <3>2 DEF Trip, RoundTrip, Before, Canonical, Overlong
    <3> QED
      BY <1>0, <2>1, <2>3, <3>1, <3>3 DEF Trip
  <2> QED
    BY <2>2, <2>3 DEF Reading
<1>2. CASE Refuse(k, same) /\ RefusesText(same)
  <2>1. RoundTrip' /\ results' = results /\ role' = "refused"
    BY <1>0, <1>2, RefusedHistory
  <2>2. ASSUME strict, agreed', NoOverlong, written # <<>>
        PROVE  written[r + 1].type \in Texts
    <3>1. agreed /\ same
      BY <1>2, <2>2 DEF Refuse
    <3>2. role = "read"
      <4>1. role \in {"read", "foreign"}
        BY DEF Reading
      <4> QED
        BY <2>2, <4>1 DEF Trip
    <3>3. PICK at : Placed(at) /\ length = at[n + 1]
      BY <2>2, <3>2 DEF Trip
    <3>4. \A i \in 1 .. r + 1 : ~ Overlong(written[i])
      <4>1. \A i \in 1 .. r + 1 : i \in 1 .. n
        BY <3>1
      <4> QED
        BY <2>2, <4>1 DEF NoOverlong
    <3> QED
      BY <1>2, <3>1, <3>3, <3>4 DEF RefusesText
  <2>3. NoOverlong' = NoOverlong
    BY <1>0 DEF NoOverlong, Overlong
  <2>4. Len(results') \in 0 .. Len(written')
    BY <1>0, <2>1 DEF Trip
  <2> QED
    BY <1>0, <2>1, <2>2, <2>3, <2>4 DEF Trip
<1> QED
  BY <1>1, <1>2

(* What was written is there for the reader that asks for it.              *)
LEMMA EnoughLeft ==
    ASSUME BufferInv, NEW at, Placed(at), agreed,
           NEW r \in Nat, r = Len(results), NEW n \in Nat, n = Len(written), r < n,
           \A i \in 1 .. r + 1 : ~ Overlong(written[i]), length = at[n + 1]
    PROVE  length - pointer >= Len(Coded(written[r + 1]))
<1> DEFINE f == written[r + 1]
<1>1. \A i \in 1 .. r : ~ Overlong(written[i])
  OBVIOUS
<1>2. /\ pointer \in Nat /\ at[r + 2] = pointer + Len(Coded(f)) /\ Len(Coded(f)) \in Nat
      /\ at[r + 2] <= at[n + 1] /\ at[n + 1] \in Nat
  BY <1>1, NextField
<1> HIDE DEF f
<1>3. PICK c \in Nat : c = Len(Coded(f))
  BY <1>2
<1>4. length \in Nat /\ pointer + c <= length
  BY <1>2, <1>3
<1>5. length - pointer >= c
  BY <1>2, <1>4
<1> QED
  BY <1>3, <1>5 DEF f

(* Every read does: a number and bytes that were written are there, and a  *)
(* text has the length that was written.                                   *)
LEMMA TripRead ==
    ASSUME NEW strict \in BOOLEAN, BufferInv, Trip(strict),
           \/ \E t \in Numbers : ReadNumber(t)
           \/ \E size \in Limits : ReadChar(size)
           \/ \E t \in Texts, max \in Limits : ReadText(t, max)
    PROVE  Trip(strict)'
<1>1. PICK r \in Nat : r = Len(results)
  BY DEF BufferInv, BufferTypeOK
<1>2. PICK n \in Nat : n = Len(written)
  BY DEF BufferInv, BufferTypeOK
<1>3. \A t : Asked(t) \in BOOLEAN /\ (Asked(t) => r < n /\ written[r + 1].type = t)
  BY <1>1, <1>2 DEF Asked
<1>4. pointer \in Nat /\ length \in Nat /\ written \in Seq(Fields)
  BY DEF BufferInv, BufferTypeOK
<1>f. r < n => written[r + 1] \in Fields
  BY <1>2, <1>4
<1>5. ASSUME NEW t \in Numbers, ReadNumber(t) PROVE Trip(strict)'
  <2> DEFINE w == Width[t]
             value == <<Number(t, Slice(pointer, w))>>
  <2>1. w \in Nat
    BY <1>5 DEF Numbers, Width
  <2>2. Reading /\ UNCHANGED <<length, data, todo, written, announced>>
    BY <1>5 DEF ReadNumber
  <2>3. CASE Exists(w)
    <3>1. Give(w, value, Asked(t))
      BY <1>5, <2>3 DEF ReadNumber
    <3>2. ASSUME NEW at, Placed(at), agreed, Asked(t),
                 \A i \in 1 .. r + 1 : ~ Overlong(written[i])
          PROVE  value = Canonical(written[r + 1]) /\ w = Len(Coded(written[r + 1]))
      BY <1>1, <1>2, <1>3, <2>2, <2>3, <3>2, NumberRead
    <3> HIDE DEF value, w
    <3>3. GivesNext(w, value, Asked(t))
      BY <1>1, <3>2 DEF GivesNext
    <3> QED
      BY <1>1, <1>2, <1>3, <2>1, <2>2, <3>1, <3>3, TripTaken
  <2>4. CASE ~ Exists(w)
    <3> DEFINE k == IF t = "big" /\ Exists(Width.int) THEN Width.int ELSE 0
    <3>1. Refuse(k, Asked(t))
      BY <1>5, <2>4 DEF ReadNumber
    <3>2. k \in Nat
      BY DEF Width
    <3>3. ASSUME NEW at, Placed(at), length = at[n + 1], agreed, Asked(t),
                 \A i \in 1 .. r + 1 : ~ Overlong(written[i])
          PROVE  written[r + 1].type \in Texts
      <4>1. length - pointer >= Len(Coded(written[r + 1]))
        BY <1>1, <1>2, <1>3, <3>3, EnoughLeft
      <4>2. Len(Coded(written[r + 1])) = w
        BY <1>3, <1>f, <3>3, CodedBytes
      <4> QED
        BY <2>4, <4>1, <4>2 DEF Exists
    <3> HIDE DEF k
    <3>4. RefusesText(Asked(t))
      BY <1>1, <1>2, <3>3 DEF RefusesText
    <3> QED
      BY <1>1, <1>2, <1>3, <2>2, <3>1, <3>2, <3>4, TripTaken
  <2> QED
    BY <2>3, <2>4
<1>6. ASSUME NEW size \in Limits, ReadChar(size) PROVE Trip(strict)'
  <2> DEFINE same == Asked("char") /\ Len(written[Len(results) + 1].value) = size
  <2>1. size \in Int
    BY BufferAssumption
  <2>2. Reading /\ UNCHANGED <<length, data, todo, written, announced>>
    BY <1>6 DEF ReadChar
  <2>3. same \in BOOLEAN /\ (same => Asked("char") /\ Len(written[r + 1].value) = size)
    BY <1>1
  <2>4. CASE Exists(size) /\ size >= 0
    <3>1. size \in Nat
      BY <2>1, <2>4
    <3>2. Give(size, Slice(pointer, size), same)
      BY <1>6, <2>4 DEF ReadChar
    <3> HIDE DEF same
    <3>3. ASSUME NEW at, Placed(at), agreed, same,
                 \A i \in 1 .. r + 1 : ~ Overlong(written[i])
          PROVE  /\ Slice(pointer, size) = Canonical(written[r + 1])
                 /\ size = Len(Coded(written[r + 1]))
      BY <1>1, <1>2, <1>3, <2>2, <2>3, <2>4, <3>1, <3>3, CharRead
    <3>4. GivesNext(size, Slice(pointer, size), same)
      BY <1>1, <3>3 DEF GivesNext
    <3>5. same => r < n
      BY <1>3, <2>3
    <3> QED
      BY <1>1, <1>2, <2>2, <2>3, <3>1, <3>2, <3>4, <3>5, TripTaken
  <2>5. CASE ~ (Exists(size) /\ size >= 0)
    <3>1. Refuse(0, same)
      BY <1>6, <2>5 DEF ReadChar
    <3> HIDE DEF same
    <3>2. ASSUME NEW at, Placed(at), length = at[n + 1], agreed, same,
                 \A i \in 1 .. r + 1 : ~ Overlong(written[i])
          PROVE  written[r + 1].type \in Texts
      <4>1. length - pointer >= Len(Coded(written[r + 1]))
        BY <1>1, <1>2, <1>3, <2>3, <3>2, EnoughLeft
      <4>2. written[r + 1] \in Fields /\ written[r + 1].type = "char"
        BY <1>3, <1>f, <2>3, <3>2
      <4>3. Coded(written[r + 1]) = written[r + 1].value /\ Len(Coded(written[r + 1])) \in Nat
        BY <4>2, CodedBytes
      <4>4. Len(Coded(written[r + 1])) = size /\ size \in Nat
        BY <2>3, <3>2, <4>3
      <4> QED
        BY <2>5, <4>1, <4>4 DEF Exists
    <3>3. RefusesText(same)
      BY <1>1, <1>2, <3>2 DEF RefusesText
    <3>4. (same => r < n) /\ 0 \in Nat
      BY <1>3, <2>3
    <3> QED
      BY <1>1, <1>2, <2>2, <2>3, <3>1, <3>3, <3>4, TripTaken
  <2> QED
    BY <2>4, <2>5
<1>7. ASSUME NEW t \in Texts, NEW max \in Limits, ReadText(t, max) PROVE Trip(strict)'
  <2> DEFINE w     == Width[t]
             start == pointer + w
             size  == Number(IF t = "string" THEN "int" ELSE "short", Slice(pointer, w))
  <2>1. w \in Widths /\ w \in Nat
    BY <1>7 DEF Texts, Width, Widths
  <2>2. Reading /\ UNCHANGED <<length, data, todo, written, announced>>
    BY <1>7 DEF ReadText
  <2>r. ASSUME NEW k \in Nat, Refuse(k, Asked(t))
        PROVE  Trip(strict)'
    <3>1. RefusesText(Asked(t))
      BY <1>1, <1>3 DEF RefusesText
    <3> QED
      BY <1>1, <1>2, <1>3, <2>2, <2>r, <3>1, TripTaken
  <2>4. CASE ~ Exists(w)
    BY <1>7, <2>4, <2>r DEF ReadText
  <2>5. CASE Exists(w)
    <3>1. IF Fits(start, size, max)
          THEN Give(w + size, Slice(start, size), Asked(t)) ELSE Refuse(w, Asked(t))
      BY <1>7, <2>5 DEF ReadText
    <3>2. CASE Fits(start, size, max)
      <4>1. size \in Int
        <5>1. Slice(pointer, w) \in Seq(Bytes) /\ Len(Slice(pointer, w)) = w
          <6>1. pointer + w <= length
            BY <1>4, <2>1, <2>5 DEF Exists
          <6> QED
            BY <1>4, <2>1, <2>2, <6>1, SliceBytes
        <5> QED
          BY <2>1, <5>1, NumberInt
      <4>3. ASSUME NEW at, Placed(at), agreed, Asked(t),
                   \A i \in 1 .. r + 1 : ~ Overlong(written[i])
            PROVE  /\ Slice(start, size) = Canonical(written[r + 1])
                   /\ w + size = Len(Coded(written[r + 1]))
        BY <1>1, <1>2, <1>3, <2>2, <2>5, <3>2, <4>3, TextRead
      <4> HIDE DEF size
      <4>2. w + size \in Nat
        <5>1. size >= 0
          BY <3>2 DEF Fits
        <5> QED
          BY <2>1, <4>1, <5>1
      <4> HIDE DEF w, start
      <4>4. GivesNext(w + size, Slice(start, size), Asked(t))
        BY <1>1, <4>3 DEF GivesNext
      <4>5. Give(w + size, Slice(start, size), Asked(t))
        BY <3>1, <3>2
      <4> QED
        BY <1>1, <1>2, <1>3, <2>2, <4>2, <4>4, <4>5, TripTaken
    <3>3. CASE ~ Fits(start, size, max)
      BY <2>1, <2>r, <3>1, <3>3
    <3> QED
      BY <3>2, <3>3
  <2> QED
    BY <2>4, <2>5
<1> QED
  BY <1>5, <1>6, <1>7

(* No operation loses the history.                                         *)
LEMMA TripNext ==
    ASSUME NEW strict \in BOOLEAN, BufferInv, Trip(strict), strict => Small,
           [BufferNext]_buffer_vars
    PROVE  Trip(strict)'
<1>1. CASE UNCHANGED buffer_vars
  <2>1. UNCHANGED <<length, pointer, data, todo, role, written, results, agreed, announced>>
    BY <1>1 DEF buffer_vars, buffer
  <2>2. \A at : (Filled(at)' <=> Filled(at)) /\ (Placed(at)' <=> Placed(at))
    BY <2>1 DEF Filled, Laid, Placed, Overlong
  <2>3. (RoundTrip' <=> RoundTrip) /\ (NoOverlong' <=> NoOverlong)
    BY <2>1 DEF RoundTrip, Before, Canonical, NoOverlong, Overlong
  <2> QED
    BY <2>1, <2>2, <2>3 DEF Trip
<1>2. CASE BufferNext
  BY <1>2, TripFill, TripSend, TripForeign, TripRead DEF BufferNext, Filling
<1> QED
  BY <1>1, <1>2

(* A reader that asks for what was written gets it, in its order, across   *)
(* every growth of the buffer.                                             *)
THEOREM ReadsBack == BufferSpec => []RoundTrip
<1>1. BufferInit => Trip(FALSE)
  BY TripInit
<1>2. BufferInv /\ Trip(FALSE) /\ [BufferNext]_buffer_vars => Trip(FALSE)'
  BY TripNext
<1>3. Trip(FALSE) => RoundTrip
  BY DEF Trip
<1> QED
  BY <1>1, <1>2, <1>3, BufferAlways, PTL DEF BufferSpec

(* It gets all of it and nothing else, as long as the packet's length fits *)
(* an int when it is sent.                                                 *)
THEOREM ReadsAllOfIt == BufferSpec /\ []Small => []AllOfIt
<1>1. BufferInit => Trip(TRUE)
  BY TripInit
<1>2. BufferInv /\ Trip(TRUE) /\ Small /\ [BufferNext]_buffer_vars => Trip(TRUE)'
  BY TripNext
<1>3. BufferInv /\ Trip(TRUE) => AllOfIt
  <2> SUFFICES ASSUME BufferInv, Trip(TRUE), agreed, NoOverlong PROVE
        /\ role = "read" =>
               (IsEOD <=> \A i \in Len(results) + 1 .. Len(written) :
                              written[i].type = "char" /\ written[i].value = <<>>)
        /\ role = "refused" /\ written # <<>> /\ announced # 0 =>
               written[Len(results) + 1].type \in Texts
    BY DEF AllOfIt
  <2>1. ASSUME role = "read"
        PROVE  IsEOD <=> \A i \in Len(results) + 1 .. Len(written) :
                             written[i].type = "char" /\ written[i].value = <<>>
    <3>1. PICK at : Placed(at) /\ length = at[Len(written) + 1]
      BY <2>1 DEF Trip
    <3>2. PICK r \in Nat : r = Len(results)
      BY DEF BufferInv, BufferTypeOK
    <3>3. PICK n \in Nat : n = Len(written)
      BY DEF BufferInv, BufferTypeOK
    <3>4. r <= n
      BY <3>2, <3>3 DEF Trip
    <3>5. \A i \in 1 .. r : ~ Overlong(written[i])
      <4>1. \A i \in 1 .. r : i \in 1 .. n
        BY <3>4
      <4> QED
        BY <3>3, <4>1 DEF NoOverlong
    <3>6. pointer = at[r + 1] /\ length = at[n + 1]
      BY <3>1, <3>2, <3>3, <3>5 DEF Placed
    <3>7. at[r + 1] = at[n + 1] <=> \A k \in r + 1 .. (n + 1) - 1 : Len(Coded(written[k])) = 0
      <4>1. r + 1 \in 1 .. n + 1 /\ n + 1 \in 1 .. n + 1 /\ r + 1 <= n + 1
        BY <3>4
      <4> QED
        BY <3>1, <3>3, <4>1 DEF Placed, Lies
    <3>8. ASSUME NEW k \in r + 1 .. n
          PROVE  Len(Coded(written[k])) = 0 <=> written[k].type = "char" /\ written[k].value = <<>>
      <4>1. written[k] \in Fields
        <5>1. k \in 1 .. n /\ written \in Seq(Fields)
          BY DEF BufferInv, BufferTypeOK
        <5> QED
          BY <3>3, <5>1
      <4> QED
        BY <4>1, CodedBytes
    <3>9. (n + 1) - 1 = n
      OBVIOUS
    <3> QED
      BY <3>2, <3>3, <3>6, <3>7, <3>8, <3>9 DEF IsEOD
  <2>2. role = "refused" /\ written # <<>> /\ announced # 0 =>
            written[Len(results) + 1].type \in Texts
    BY DEF Trip
  <2> QED
    BY <2>1, <2>2
<1> QED
  BY <1>1, <1>2, <1>3, BufferAlways, PTL DEF BufferSpec
==============================================================================
