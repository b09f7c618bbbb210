-------------------------- MODULE DescriptorsProofs --------------------------
(* Proofs about the descriptor table, for any number of alive threads,     *)
(* any size of the table and any number of connection attempts.            *)
EXTENDS Descriptors, TLAPS

(* Types: what opening, connecting and closing a descriptor leave in the   *)
(* table, and where a thread may go.                                       *)
LEMMA OpenType ==
    ASSUME TypeOK, NEW f \in Fd, NEW t \in Threads, NEW k \in Kinds, Open(f, t, k)
    PROVE  table' \in [Fd -> Objects \cup {Free}]
BY DEF TypeOK, Open, Objects

(* connect() turns a socket into a connection, nothing else.               *)
LEMMA ConnectType ==
    ASSUME TypeOK, NEW f \in Fd, IsKind(f, {"socket"}),
           table' = [table EXCEPT ![f].kind = "conn"]
    PROVE  table' \in [Fd -> Objects \cup {Free}]
<1>1. table[f] \in Objects
  BY DEF TypeOK, IsKind
<1>2. [table[f] EXCEPT !.kind = "conn"] \in Objects
  BY <1>1 DEF Objects, Kinds
<1>3. table' = [table EXCEPT ![f] = [table[f] EXCEPT !.kind = "conn"]]
  BY DEF TypeOK
<1>. QED
  BY <1>2, <1>3 DEF TypeOK

(* close() may be given any number.                                        *)
LEMMA CloseType ==
    ASSUME TypeOK, NEW f, Close(f)
    PROVE  table' \in [Fd -> Objects \cup {Free}]
BY DEF TypeOK, Close

(* A step moves one thread to one of its points.                           *)
LEMMA GotoType ==
    ASSUME TypeOK, NEW t \in Threads, NEW p \in Pcs, Goto(t, p)
    PROVE  pc' \in [Threads -> Pcs]
BY DEF TypeOK, Goto

(* 0 is a descriptor; the code has no better value for none.               *)
LEMMA ZeroIsFd == 0 \in Fd
BY FdAssumption DEF Fd

(* -1 is not a descriptor.                                                 *)
LEMMA NoFdIsNoFd == NoFd \notin Fd
BY DEF Fd, NoFd

(* A command makes at least one attempt.                                   *)
LEMMA ZeroIsTry == 0 \in 0 .. MaxTry - 1
BY TryAssumption

(* The end of a log write, a scan or a library call.                       *)
LEMMA LeaveAuxType ==
    ASSUME TypeOK, NEW t \in Threads, LeaveAux(t)
    PROVE  /\ pc' \in [Threads -> Pcs]
           /\ aux' \in [Threads -> Fd \cup {NoFd}]
           /\ UNCHANGED <<boot, stale, sock, try>>
<1>1. AfterAux(t) \subseteq Pcs
  BY DEF AfterAux, Pcs, AuxPcs, LogPcs
<1>. QED
  BY <1>1, GotoType DEF LeaveAux, TypeOK

(* Every step preserves the types.                                         *)
LEMMA TypeStep == TypeOK /\ [Next]_vars => TypeOK'
<1> SUFFICES ASSUME TypeOK, [Next]_vars PROVE TypeOK'
  OBVIOUS
<1>p. Perf \in Threads /\ Clean \in Threads
  BY DEF Threads
<1>1. CASE InitLog
  BY <1>1, <1>p, OpenType DEF InitLog, TypeOK, Kinds
<1>2. CASE InitPerf
  <2>1. table' \in [Fd -> Objects \cup {Free}]
    BY <1>2, <1>p, OpenType DEF InitPerf, TypeOK, Kinds
  <2>. QED
    BY <1>2, <1>p, <2>1 DEF InitPerf, TypeOK
<1>3. ASSUME NEW t \in Threads, Step(t) PROVE TypeOK'
  <2>1. CASE Start(t)
    <3>1. pc' \in [Threads -> Pcs]
      BY <2>1, GotoType DEF Start, Pcs, AuxPcs, LogPcs
    <3>. QED
      BY <2>1, <3>1 DEF Start, TypeOK
  <2>2. CASE Socket(t)
    <3>1. pc' \in [Threads -> Pcs]
      BY <2>2, GotoType DEF Socket, Pcs, AuxPcs, LogPcs
    <3>2. table' \in [Fd -> Objects \cup {Free}]
      BY <2>2, OpenType DEF Socket, TypeOK, Kinds
    <3>. QED
      BY <2>2, <3>1, <3>2 DEF Socket, TypeOK
  <2>3. CASE Connect(t)
    <3>1. pc' \in [Threads -> Pcs]
      BY <2>3, GotoType DEF Connect, Pcs, AuxPcs, LogPcs
    <3>2. table' \in [Fd -> Objects \cup {Free}]
      <4>1. CASE UNCHANGED table
        BY <4>1 DEF TypeOK
      <4>2. CASE /\ IsKind(sock[t], {"socket"})
                 /\ table' = [table EXCEPT ![sock[t]].kind = "conn"]
        <5>1. sock[t] \in Fd
          BY <4>2 DEF IsKind
        <5>. QED
          BY <4>2, <5>1, ConnectType
      <4>. QED
        BY <2>3, <4>1, <4>2 DEF Connect
    <3>. QED
      BY <2>3, <3>1, <3>2 DEF Connect, TypeOK
  <2>4. CASE CloseFailed(t)
    <3>1. pc' \in [Threads -> Pcs]
      BY <2>4, GotoType DEF CloseFailed, Pcs, AuxPcs, LogPcs
    <3>. QED
      BY <2>4, <3>1, CloseType, ZeroIsFd DEF CloseFailed, TypeOK
  <2>5. CASE Check(t)
    <3>1. pc' \in [Threads -> Pcs]
      BY <2>5, GotoType DEF Check, Pcs, AuxPcs, LogPcs
    <3>2. try' \in [Threads -> 0 .. MaxTry - 1]
      BY <2>5, TryAssumption DEF Check, TypeOK
    <3>. QED
      BY <2>5, <3>1, <3>2, CloseType, ZeroIsFd DEF Check, TypeOK
  <2>6. CASE Break(t)
    <3>1. pc' \in [Threads -> Pcs]
      BY <2>6, GotoType DEF Break, Pcs, AuxPcs, LogPcs
    <3>. QED
      BY <2>6, <3>1, ZeroIsTry DEF Break, TypeOK
  <2>7. CASE Send(t)
    <3>1. pc' \in [Threads -> Pcs]
      BY <2>7, GotoType DEF Send, Pcs, AuxPcs, LogPcs
    <3>. QED
      BY <2>7, <3>1 DEF Send, TypeOK
  <2>8. CASE Recv(t)
    <3>1. pc' \in [Threads -> Pcs]
      BY <2>8, GotoType DEF Recv, Pcs, AuxPcs, LogPcs
    <3>. QED
      BY <2>8, <3>1 DEF Recv, TypeOK
  <2>9. CASE CloseSock(t)
    <3>1. pc' \in [Threads -> Pcs]
      BY <2>9, GotoType DEF CloseSock, Pcs, AuxPcs, LogPcs
    <3>. QED
      BY <2>9, <3>1, CloseType, ZeroIsFd DEF CloseSock, TypeOK
  <2>10. CASE OpenAux(t)
    <3>1. CASE LeaveAux(t) /\ UNCHANGED table
      BY <3>1, LeaveAuxType DEF TypeOK
    <3>2. ASSUME NEW f \in Fd, Open(f, t, AuxKind(pc[t])),
                 aux' = [aux EXCEPT ![t] = f],
                 UNCHANGED <<boot, stale, pc, sock, try>>
          PROVE  TypeOK'
      <4>1. AuxKind(pc[t]) \in Kinds
        BY DEF AuxKind, Kinds
      <4>. QED
        BY <3>2, <4>1, OpenType DEF TypeOK
    <3>. QED
      BY <2>10, <3>1, <3>2 DEF OpenAux
  <2>11. CASE CloseAux(t)
    BY <2>11, LeaveAuxType, CloseType DEF CloseAux, TypeOK
  <2>12. CASE AbandonScan(t)
    BY <2>12, LeaveAuxType DEF AbandonScan, TypeOK
  <2>. QED
    BY <1>3, <2>1, <2>2, <2>3, <2>4, <2>5, <2>6, <2>7, <2>8, <2>9, <2>10,
       <2>11, <2>12 DEF Step
<1>4. CASE UNCHANGED vars
  BY <1>4 DEF vars, TypeOK
<1>. QED
  BY <1>1, <1>2, <1>3, <1>4 DEF Next

(* The variables keep their types in every reachable state.                *)
THEOREM TypeCorrect == Spec => []TypeOK
<1>1. Init => TypeOK
  BY ZeroIsTry, ZeroIsFd DEF Init, TypeOK, Pcs
<1>. QED
  BY <1>1, TypeStep, PTL DEF Spec

(* Where the threads are.                                                  *)
LEMMA PcStep ==
    ASSUME IInv, NEW t \in Threads, Step(t)
    PROVE  AuxPhase' /\ RolePcs' /\ CommandHasSock'
<1> USE DEF IInv, TypeOK, AuxPhase, RolePcs, CommandHasSock, Goto, AuxPcs, LogPcs
<1>p. /\ Perf \in Threads /\ Clean \in Threads /\ Perf # Clean
      /\ Perf \notin Alive /\ Clean \notin Alive
  BY ThreadsAssumption DEF Threads
<1>f. 0 \in Fd /\ NoFd \notin Fd /\ NoFd # 0
  BY ZeroIsFd, NoFdIsNoFd
<1>1. CASE Start(t)
  BY <1>1, <1>p, <1>f DEF Start
<1>2. CASE Socket(t)
  BY <1>2, <1>p, <1>f DEF Socket
<1>3. CASE Connect(t)
  BY <1>3, <1>p, <1>f DEF Connect
<1>4. CASE CloseFailed(t)
  BY <1>4, <1>p, <1>f DEF CloseFailed
<1>5. CASE Check(t)
  <2>1. aux' = aux /\ t # Perf /\ t # Clean /\ pc[t] = "check"
    BY <1>5, <1>p, <1>f DEF Check
  <2>2. \/ sock' = sock
        \/ sock' = [sock EXCEPT ![t] = 0]
    BY <1>5 DEF Check
  <2>3. \/ pc' = [pc EXCEPT ![t] = "logDone"]
        \/ pc' = [pc EXCEPT ![t] = "loop"]
    BY <1>5 DEF Check
  <2>. QED
    BY <1>5, <2>1, <2>2, <2>3, <1>p, <1>f
<1>6. CASE Break(t)
  BY <1>6, <1>p, <1>f DEF Break
<1>7. CASE Send(t)
  BY <1>7, <1>p, <1>f DEF Send
<1>8. CASE Recv(t)
  BY <1>8, <1>p, <1>f DEF Recv
<1>9. CASE CloseSock(t)
  BY <1>9, <1>p, <1>f DEF CloseSock
<1>10. CASE OpenAux(t)
  BY <1>10, <1>p, <1>f DEF OpenAux, LeaveAux, AfterAux
<1>11. CASE CloseAux(t)
  BY <1>11, <1>p, <1>f DEF CloseAux, LeaveAux, AfterAux
<1>12. CASE AbandonScan(t)
  BY <1>12, <1>p, <1>f DEF AbandonScan, LeaveAux, AfterAux
<1>. QED
  BY <1>1, <1>2, <1>3, <1>4, <1>5, <1>6, <1>7, <1>8, <1>9, <1>10, <1>11, <1>12 DEF Step

(* An open takes a free slot, so it is none that any thread holds.         *)
LEMMA OpenKeeps ==
    ASSUME IInv, NEW f \in Fd, NEW t \in Threads, NEW k \in Kinds, Open(f, t, k),
           NEW u \in Threads
    PROVE  /\ Sound(sock[u]) => sock[u] # f /\ table'[sock[u]] = table[sock[u]]
           /\ Sound(aux[u]) => aux[u] # f /\ table'[aux[u]] = table[aux[u]]
<1>1. table[f] = Free /\ table' = [table EXCEPT ![f] = [owner |-> t, kind |-> k]]
  BY DEF Open, LowestFree
<1>2. \A j \in Kinds : [owner |-> u, kind |-> j] # Free
  BY FreeAssumption DEF Objects
<1>3. Sound(sock[u]) => sock[u] \in Fd /\ table[sock[u]] # Free
  BY <1>2 DEF IInv, Confined, Sound, Kinds
<1>4. Sound(aux[u]) => aux[u] \in Fd /\ table[aux[u]] # Free
  <2>1. AuxKind(pc[u]) \in Kinds
    BY DEF AuxKind, Kinds
  <2>. QED
    BY <1>2, <2>1 DEF IInv, Confined, Sound
<1>. QED
  BY <1>1, <1>3, <1>4 DEF IInv, TypeOK

(* A descriptor in sock and one in aux differ in their kind, those of two  *)
(* threads in their owner.                                                 *)
LEMMA Holder ==
    ASSUME IInv, NEW u \in Threads
    PROVE  /\ Sound(sock[u]) => /\ sock[u] \in Fd
                                /\ table[sock[u]].owner = u
                                /\ table[sock[u]].kind \in {"socket", "conn"}
           /\ Sound(aux[u]) => /\ aux[u] \in Fd
                               /\ table[aux[u]].owner = u
                               /\ table[aux[u]].kind = AuxKind(pc[u])
           /\ AuxKind(pc[u]) \notin {"socket", "conn"}
<1>1. AuxKind(pc[u]) \notin {"socket", "conn"}
  BY DEF AuxKind
<1>2. ASSUME Sound(sock[u])
      PROVE  /\ sock[u] \in Fd
             /\ table[sock[u]].owner = u
             /\ table[sock[u]].kind \in {"socket", "conn"}
  <2>1. PICK k \in {"socket", "conn"} : table[sock[u]] = [owner |-> u, kind |-> k]
    BY <1>2 DEF IInv, Confined
  <2>. QED
    BY <1>2, <2>1 DEF Sound
<1>3. ASSUME Sound(aux[u])
      PROVE  /\ aux[u] \in Fd
             /\ table[aux[u]].owner = u
             /\ table[aux[u]].kind = AuxKind(pc[u])
  <2>1. table[aux[u]] = [owner |-> u, kind |-> AuxKind(pc[u])]
    BY <1>3 DEF IInv, Confined
  <2>2. aux[u] \in Fd
    BY <1>3 DEF Sound
  <2>. QED
    BY <2>1, <2>2
<1>. QED
  BY <1>1, <1>2, <1>3

(* Closing sock, whatever number it has by now, takes no sound descriptor  *)
(* from another thread, and none in use for a log file or a scan.          *)
LEMMA CloseSockKeeps ==
    ASSUME IInv, NEW t \in Threads, Close(sock[t]), NEW u \in Threads
    PROVE  /\ Sound(sock[u]) /\ u # t => table'[sock[u]] = table[sock[u]]
           /\ Sound(aux[u]) => table'[aux[u]] = table[aux[u]]
<1>1. Sound(sock[u]) /\ u # t => sock[u] # sock[t] /\ sock[u] \in Fd
  BY Holder
<1>2. Sound(aux[u]) => aux[u] # sock[t] /\ aux[u] \in Fd
  BY Holder
<1>. QED
  BY <1>1, <1>2 DEF Close

(* The same for the descriptor of a log file, a scan or a library call.    *)
LEMMA CloseAuxKeeps ==
    ASSUME IInv, NEW t \in Threads, Close(aux[t]), NEW u \in Threads
    PROVE  /\ Sound(aux[u]) /\ u # t => table'[aux[u]] = table[aux[u]]
           /\ Sound(sock[u]) => table'[sock[u]] = table[sock[u]]
<1>1. Sound(aux[u]) /\ u # t => aux[u] # aux[t] /\ aux[u] \in Fd
  BY Holder
<1>2. Sound(sock[u]) => sock[u] # aux[t] /\ sock[u] \in Fd
  BY Holder
<1>. QED
  BY <1>1, <1>2 DEF Close

(* The same for connect() on sock.                                         *)
LEMMA ConnectKeeps ==
    ASSUME IInv, NEW t \in Threads, NEW u \in Threads,
           table' = [table EXCEPT ![sock[t]].kind = "conn"]
    PROVE  /\ Sound(sock[u]) /\ u # t => table'[sock[u]] = table[sock[u]]
           /\ Sound(aux[u]) => table'[aux[u]] = table[aux[u]]
<1>1. Sound(sock[u]) /\ u # t => sock[u] # sock[t] /\ sock[u] \in Fd
  BY Holder
<1>2. Sound(aux[u]) => aux[u] # sock[t] /\ aux[u] \in Fd
  BY Holder
<1>. QED
  BY <1>1, <1>2 DEF IInv, TypeOK

(* A step of one thread touches nothing another thread holds.              *)
LEMMA Others ==
    ASSUME IInv, NEW t \in Threads, Step(t), NEW u \in Threads, u # t
    PROVE  /\ stale' = stale
           /\ pc'[u] = pc[u] /\ sock'[u] = sock[u] /\ aux'[u] = aux[u]
           /\ Sound(sock[u]) => table'[sock[u]] = table[sock[u]]
           /\ Sound(aux[u]) => table'[aux[u]] = table[aux[u]]
<1> DEFINE Kept == /\ Sound(sock[u]) => table'[sock[u]] = table[sock[u]]
                   /\ Sound(aux[u]) => table'[aux[u]] = table[aux[u]]
           Goal == /\ stale' = stale
                   /\ pc'[u] = pc[u] /\ sock'[u] = sock[u] /\ aux'[u] = aux[u]
                   /\ Kept
<1> USE DEF IInv, TypeOK, Goto
<1> HIDE DEF Kept
<1>k. (table' = table => Kept) /\ (Close(sock[t]) => Kept) /\ (Close(aux[t]) => Kept)
  BY CloseSockKeeps, CloseAuxKeeps DEF Kept
<1>o. ASSUME NEW f \in Fd, NEW k \in Kinds, Open(f, t, k) PROVE Kept
  BY <1>o, OpenKeeps DEF Kept
<1>1. ASSUME Start(t) PROVE Goal
  BY <1>1, <1>k DEF Start
<1>2. ASSUME Socket(t) PROVE Goal
  <2>1. Kept
    BY <1>2, <1>k, <1>o DEF Socket, Kinds
  <2>. QED
    BY <1>2, <2>1 DEF Socket
<1>3. ASSUME Connect(t) PROVE Goal
  <2>1. Kept
    BY <1>3, <1>k, ConnectKeeps DEF Connect, Kept
  <2>. QED
    BY <1>3, <2>1 DEF Connect
<1>4. ASSUME CloseFailed(t) PROVE Goal
  BY <1>4, <1>k DEF CloseFailed
<1>5. ASSUME Check(t) PROVE Goal
  BY <1>5, <1>k DEF Check
<1>6. ASSUME Break(t) PROVE Goal
  BY <1>6, <1>k DEF Break
<1>7. ASSUME Send(t) PROVE Goal
  BY <1>7, <1>k DEF Send
<1>8. ASSUME Recv(t) PROVE Goal
  BY <1>8, <1>k DEF Recv
<1>9. ASSUME CloseSock(t) PROVE Goal
  BY <1>9, <1>k DEF CloseSock
<1>10. ASSUME OpenAux(t) PROVE Goal
  <2>1. AuxKind(pc[t]) \in Kinds
    BY DEF AuxKind, Kinds
  <2>2. Kept
    BY <1>10, <1>k, <1>o, <2>1 DEF OpenAux
  <2>. QED
    BY <1>10, <2>2 DEF OpenAux, LeaveAux
<1>11. ASSUME CloseAux(t) PROVE Goal
  BY <1>11, <1>k DEF CloseAux, LeaveAux
<1>12. ASSUME AbandonScan(t) PROVE Goal
  BY <1>12, <1>k DEF AbandonScan, LeaveAux
<1>q. Goal
  BY <1>1, <1>2, <1>3, <1>4, <1>5, <1>6, <1>7, <1>8, <1>9, <1>10, <1>11, <1>12 DEF Step
<1>. QED
  BY <1>q DEF Kept

(* Neither "no connection" nor "no descriptor" is a sound descriptor.      *)
LEMMA NoFdUnsound == Sound(0) = FALSE /\ Sound(NoFd) = FALSE
BY NoFdIsNoFd DEF Sound

(* What thread u holds, in the new state.                                  *)
Holds(u) ==
    /\ Sound(sock[u]) => /\ \E k \in {"socket", "conn"} :
                              table[sock[u]] = [owner |-> u, kind |-> k]
                         /\ pc[u] \notin {"connecting", "logNotConnect", "closeFailed"}
                               => table[sock[u]] = [owner |-> u, kind |-> "conn"]
    /\ Sound(aux[u]) => table[aux[u]] = [owner |-> u, kind |-> AuxKind(pc[u])]

(* Confined and ConnKind, thread by thread.                                *)
LEMMA HoldsAll == (Confined /\ ConnKind) <=> \A u \in Threads : Holds(u)
BY DEF Confined, ConnKind, Holds

(* Each step leaves every thread with the descriptors it opened itself.    *)
LEMMA ConfinedStep ==
    ASSUME IInv, NEW t \in Threads, Step(t)
    PROVE  Confined' /\ ConnKind'
<1>1. ASSUME NEW u \in Threads, u # t PROVE Holds(u)'
  <2>1. Holds(u)
    BY HoldsAll DEF IInv
  <2>. QED
    BY <1>1, <2>1, Others DEF Holds, Sound
<1>2. Holds(t)'
  <2>h. Holds(t)
    BY HoldsAll DEF IInv
  <2> USE NoFdIsNoFd DEF IInv, TypeOK, Goto, Sound, AuxPhase, AuxPcs, LogPcs
  <2> HIDE DEF IInv
  <2>i. TypeOK /\ AuxPhase /\ NoFd \notin Fd
    BY DEF IInv
  <2>1. CASE Start(t)
    <3>1. UNCHANGED <<table, sock, aux, stale>> /\ aux[t] = NoFd
      BY <2>1, <2>i DEF Start
    <3>2. pc[t] \notin {"connecting", "logNotConnect", "closeFailed"}
      BY <2>1 DEF Start
    <3>. QED
      BY <3>1, <3>2, <2>h, <2>i DEF Holds
  <2>2. CASE Socket(t)
    <3>1. aux[t] = NoFd /\ aux' = aux /\ stale' = stale /\ sock[t] = 0
      BY <2>2, <2>i DEF Socket
    <3>2. CASE UNCHANGED <<table, sock>>
      BY <3>1, <3>2, <2>i DEF Holds
    <3>3. ASSUME NEW f \in Fd, Open(f, t, "socket"),
                 sock' = [sock EXCEPT ![t] = f], Goto(t, "connecting")
          PROVE  Holds(t)'
      <4>1. sock'[t] = f /\ pc'[t] = "connecting" /\ table'[f] = [owner |-> t, kind |-> "socket"]
        BY <3>3, <2>i DEF Open
      <4>. QED
        BY <4>1, <3>1, <2>i DEF Holds
    <3>. QED
      BY <2>2, <3>2, <3>3 DEF Socket
  <2>3. CASE Connect(t)
    <3>1. aux[t] = NoFd /\ UNCHANGED <<sock, aux, stale>>
      BY <2>3, <2>i DEF Connect
    <3>2. CASE UNCHANGED table /\ Goto(t, "logNotConnect")
      <4>1. pc'[t] = "logNotConnect"
        BY <3>2, <2>i
      <4>. QED
        BY <3>1, <3>2, <4>1, <2>h, <2>i DEF Holds
    <3>3. CASE table' = [table EXCEPT ![sock[t]].kind = "conn"]
      <4>1. ASSUME Sound(sock[t])
            PROVE  table'[sock[t]] = [owner |-> t, kind |-> "conn"]
        <5>1. PICK k \in {"socket", "conn"} : table[sock[t]] = [owner |-> t, kind |-> k]
          BY <4>1, <2>h DEF Holds
        <5>2. table'[sock[t]] = [table[sock[t]] EXCEPT !.kind = "conn"]
          BY <4>1, <3>3, <2>i
        <5>. QED
          BY <5>1, <5>2
      <4>. QED
        BY <3>1, <4>1, <2>i DEF Holds
    <3>. QED
      BY <2>3, <3>2, <3>3 DEF Connect
  <2>4. CASE CloseFailed(t)
    <3>1. sock'[t] = 0 /\ aux'[t] = NoFd /\ stale' = stale
      BY <2>4, <2>i DEF CloseFailed
    <3>. QED
      BY <3>1, <2>i DEF Holds
  <2>5. CASE Check(t)
    <3>1. aux[t] = NoFd /\ UNCHANGED <<aux, stale>> /\ pc[t] = "check"
      BY <2>5, <2>i DEF Check
    <3>2. CASE try[t] = MaxTry - 1
      <4>1. sock'[t] = 0
        BY <2>5, <3>2, <2>i DEF Check
      <4>. QED
        BY <3>1, <4>1, <2>i DEF Holds
    <3>3. CASE try[t] # MaxTry - 1
      <4>1. UNCHANGED <<table, sock>>
        BY <2>5, <3>3 DEF Check
      <4>. QED
        BY <3>1, <4>1, <2>h, <2>i DEF Holds
    <3>. QED
      BY <3>2, <3>3
  <2>6. CASE Break(t)
    <3>1. UNCHANGED <<table, sock, aux, stale>> /\ aux[t] = NoFd
      BY <2>6, <2>i DEF Break
    <3>2. pc[t] \notin {"connecting", "logNotConnect", "closeFailed"}
      BY <2>6 DEF Break
    <3>. QED
      BY <3>1, <3>2, <2>h, <2>i DEF Holds
  <2>7. CASE Send(t)
    <3>1. UNCHANGED <<table, sock, aux, stale>> /\ aux[t] = NoFd
      BY <2>7, <2>i DEF Send
    <3>2. pc[t] \notin {"connecting", "logNotConnect", "closeFailed"}
      BY <2>7 DEF Send
    <3>. QED
      BY <3>1, <3>2, <2>h, <2>i DEF Holds
  <2>8. CASE Recv(t)
    <3>1. UNCHANGED <<table, sock, aux, stale>> /\ aux[t] = NoFd
      BY <2>8, <2>i DEF Recv
    <3>2. pc[t] \notin {"connecting", "logNotConnect", "closeFailed"}
      BY <2>8 DEF Recv
    <3>. QED
      BY <3>1, <3>2, <2>h, <2>i DEF Holds
  <2>9. CASE CloseSock(t)
    <3>1. sock'[t] = 0 /\ aux'[t] = NoFd /\ stale' = stale
      BY <2>9, <2>i DEF CloseSock
    <3>. QED
      BY <3>1, <2>i DEF Holds
  <2>10. CASE OpenAux(t)
    <3>1. CASE LeaveAux(t) /\ UNCHANGED table
      <4>1. aux'[t] = NoFd /\ UNCHANGED <<sock, stale>>
        BY <3>1, <2>i DEF LeaveAux
      <4>2. pc[t] = "logNotConnect" \/ pc'[t] \notin {"connecting", "logNotConnect", "closeFailed"}
        BY <2>10, <3>1, <2>i DEF OpenAux, LeaveAux, AfterAux
      <4>3. pc[t] \notin {"connecting", "closeFailed"} /\ (pc[t] = "logNotConnect" => pc'[t] = "closeFailed")
        BY <2>10, <3>1, <2>i DEF OpenAux, LeaveAux, AfterAux
      <4>. QED
        BY <3>1, <4>1, <4>2, <4>3, <2>h, <2>i DEF Holds
    <3>2. ASSUME NEW f \in Fd, Open(f, t, AuxKind(pc[t])),
                 aux' = [aux EXCEPT ![t] = f],
                 UNCHANGED <<boot, stale, pc, sock, try>>
          PROVE  Holds(t)'
      <4>1. AuxKind(pc[t]) \in Kinds
        BY DEF AuxKind, Kinds
      <4>2. Sound(sock[t]) => table'[sock[t]] = table[sock[t]]
        BY <3>2, <4>1, OpenKeeps
      <4>3. aux'[t] = f /\ table'[f] = [owner |-> t, kind |-> AuxKind(pc[t])]
        BY <3>2, <2>i DEF Open
      <4>. QED
        BY <3>2, <4>2, <4>3, <2>h DEF Holds
    <3>. QED
      BY <2>10, <3>1, <3>2 DEF OpenAux
  <2>11. CASE CloseAux(t)
    <3>1. aux'[t] = NoFd /\ UNCHANGED <<sock, stale>>
      BY <2>11, <2>i DEF CloseAux, LeaveAux
    <3>2. Sound(sock[t]) => table'[sock[t]] = table[sock[t]]
      BY <2>11, CloseAuxKeeps DEF CloseAux
    <3>3. pc[t] = "logNotConnect" \/ pc'[t] \notin {"connecting", "logNotConnect", "closeFailed"}
      BY <2>11, <2>i DEF CloseAux, LeaveAux, AfterAux
    <3>4. pc[t] \notin {"connecting", "closeFailed"} /\ (pc[t] = "logNotConnect" => pc'[t] = "closeFailed")
      BY <2>11, <2>i DEF CloseAux, LeaveAux, AfterAux
    <3>. QED
      BY <3>1, <3>2, <3>3, <3>4, <2>h, <2>i DEF Holds
  <2>12. CASE AbandonScan(t)
    <3>1. aux'[t] = NoFd /\ UNCHANGED <<sock, stale>>
      BY <2>12, <2>i DEF AbandonScan, LeaveAux
    <3>2. Sound(sock[t]) => table'[sock[t]] = table[sock[t]]
      BY <2>12, CloseAuxKeeps DEF AbandonScan
    <3>3. pc[t] = "logNotConnect" \/ pc'[t] \notin {"connecting", "logNotConnect", "closeFailed"}
      BY <2>12, <2>i DEF AbandonScan, LeaveAux, AfterAux
    <3>4. pc[t] \notin {"connecting", "closeFailed"} /\ (pc[t] = "logNotConnect" => pc'[t] = "closeFailed")
      BY <2>12, <2>i DEF AbandonScan, LeaveAux, AfterAux
    <3>. QED
      BY <3>1, <3>2, <3>3, <3>4, <2>h, <2>i DEF Holds
  <2>. QED
    BY <2>1, <2>2, <2>3, <2>4, <2>5, <2>6, <2>7, <2>8, <2>9, <2>10, <2>11, <2>12 DEF Step
<1>3. \A u \in Threads : Holds(u)'
  BY <1>1, <1>2
<1>. QED
  BY <1>3 DEF Confined, ConnKind, Holds

(* What a step does to one descriptor outside 0 and stale: it keeps it, or *)
(* closes it, or the stepping thread holds it afterwards.  A thread gives  *)
(* a descriptor up only by closing it, or by abandoning a directory.       *)
Accounted(t, f) ==
    /\ sock[t] = f => sock'[t] = f \/ table'[f] = Free
    /\ aux[t] = f => aux'[t] = f \/ table'[f] = Free \/ table'[f].kind = "dir"
    /\ \/ table'[f] \in {Free, table[f]}
       \/ table'[f].owner = t /\ (sock'[t] = f \/ aux'[t] = f)

(* Every step of a thread accounts for every sound descriptor.             *)
LEMMA AccountedStep ==
    ASSUME IInv, NEW t \in Threads, Step(t), NEW f \in Fd, Sound(f)
    PROVE  Accounted(t, f)
<1>i. TypeOK /\ AuxPhase /\ f # 0 /\ f # NoFd
  BY NoFdIsNoFd DEF IInv, Sound
<1>c. ASSUME NEW g, Close(g) PROVE /\ table'[f] \in {Free, table[f]}
                                   /\ g = f => table'[f] = Free
  BY <1>c DEF Close
<1>o. ASSUME NEW g \in Fd, NEW k \in Kinds, Open(g, t, k)
      PROVE  (g # f => table'[f] = table[f]) /\ table'[g].owner = t
  BY <1>o, <1>i DEF Open, TypeOK
<1>1. CASE Start(t)
  BY <1>1 DEF Start, Accounted
<1>2. CASE Socket(t)
  <2>1. CASE UNCHANGED <<table, sock, aux>>
    BY <2>1 DEF Accounted
  <2>2. ASSUME NEW g \in Fd, Open(g, t, "socket"), sock' = [sock EXCEPT ![t] = g]
        PROVE  Accounted(t, f)
    <3>1. sock'[t] = g /\ aux' = aux /\ sock[t] = 0
      BY <1>2, <2>2, <1>i DEF Socket, TypeOK
    <3>2. (g # f => table'[f] = table[f]) /\ table'[g].owner = t
      <4>1. "socket" \in Kinds
        BY DEF Kinds
      <4>. QED
        BY <2>2, <4>1, <1>o
    <3>. QED
      BY <3>1, <3>2, <1>i DEF Accounted
  <2>. QED
    BY <1>2, <2>1, <2>2 DEF Socket
<1>3. CASE Connect(t)
  <2>1. UNCHANGED <<sock, aux>>
    BY <1>3 DEF Connect
  <2>2. CASE f # sock[t] \/ table' = table
    <3>1. table'[f] = table[f]
      BY <1>3, <2>2, <1>i DEF Connect, TypeOK
    <3>. QED
      BY <2>1, <3>1 DEF Accounted
  <2>3. CASE f = sock[t] /\ table' = [table EXCEPT ![sock[t]].kind = "conn"]
    <3>1. table[f].owner = t
      BY <2>3, Holder
    <3>2. table'[f].owner = table[f].owner
      BY <2>3, <1>i, <1>3 DEF TypeOK, Connect, IsKind, Objects
    <3>3. aux[t] # f
      BY <1>3, <1>i DEF Connect, AuxPhase, AuxPcs, LogPcs
    <3>. QED
      BY <2>1, <2>3, <3>1, <3>2, <3>3 DEF Accounted
  <2>. QED
    BY <1>3, <2>2, <2>3 DEF Connect
<1>4. CASE CloseFailed(t)
  BY <1>4, <1>c DEF CloseFailed, Accounted
<1>5. CASE Check(t)
  <2>1. CASE UNCHANGED <<table, sock, aux>>
    BY <2>1 DEF Accounted
  <2>2. CASE Close(sock[t]) /\ UNCHANGED aux
    BY <2>2, <1>c DEF Accounted
  <2>. QED
    BY <1>5, <2>1, <2>2 DEF Check
<1>6. CASE Break(t)
  BY <1>6 DEF Break, Accounted
<1>7. CASE Send(t)
  BY <1>7 DEF Send, Accounted
<1>8. CASE Recv(t)
  BY <1>8 DEF Recv, Accounted
<1>9. CASE CloseSock(t)
  BY <1>9, <1>c DEF CloseSock, Accounted
<1>10. CASE OpenAux(t)
  <2>1. CASE LeaveAux(t) /\ UNCHANGED table
    <3>1. aux[t] = NoFd /\ UNCHANGED sock
      BY <1>10, <2>1 DEF OpenAux, LeaveAux
    <3>. QED
      BY <2>1, <3>1, <1>i DEF Accounted
  <2>2. ASSUME NEW g \in Fd, Open(g, t, AuxKind(pc[t])),
               aux' = [aux EXCEPT ![t] = g], UNCHANGED sock
        PROVE  Accounted(t, f)
    <3>1. aux'[t] = g /\ aux[t] = NoFd
      BY <1>10, <2>2, <1>i DEF OpenAux, TypeOK
    <3>2. (g # f => table'[f] = table[f]) /\ table'[g].owner = t
      <4>1. AuxKind(pc[t]) \in Kinds
        BY DEF AuxKind, Kinds
      <4>. QED
        BY <2>2, <4>1, <1>o
    <3>. QED
      BY <2>2, <3>1, <3>2, <1>i DEF Accounted
  <2>. QED
    BY <1>10, <2>1, <2>2 DEF OpenAux
<1>11. CASE CloseAux(t)
  BY <1>11, <1>c DEF CloseAux, LeaveAux, Accounted
<1>12. CASE AbandonScan(t)
  <2>1. aux[t] = f => table[f].kind = "dir"
    BY <1>12, Holder DEF AbandonScan, AuxKind
  <2>. QED
    BY <1>12, <2>1 DEF AbandonScan, LeaveAux, Accounted
<1>. QED
  BY <1>1, <1>2, <1>3, <1>4, <1>5, <1>6, <1>7, <1>8, <1>9, <1>10, <1>11, <1>12 DEF Step

(* No step leaves a socket or a file to nobody.                            *)
LEMMA NoLeakStep ==
    ASSUME IInv, NEW t \in Threads, Step(t)
    PROVE  NoLeak'
<1> SUFFICES ASSUME NEW f \in Fd, f # 0, f # stale, table'[f] # Free,
                    table'[f].kind \notin {"dir", "logDir"}
             PROVE  sock'[table'[f].owner] = f \/ aux'[table'[f].owner] = f
  <2>1. stale' = stale
    BY DEF Step, Start, Socket, Connect, CloseFailed, Check, Break, Send, Recv,
       CloseSock, OpenAux, CloseAux, AbandonScan, LeaveAux
  <2>. QED
    BY <2>1 DEF NoLeak
<1>1. Accounted(t, f)
  BY AccountedStep DEF Sound
<1>2. CASE table'[f] = table[f]
  <2>1. sock[table[f].owner] = f \/ aux[table[f].owner] = f
    BY <1>2 DEF IInv, NoLeak
  <2>2. table[f].owner \in Threads
    BY <1>2 DEF IInv, TypeOK, Objects
  <2>3. CASE table[f].owner = t
    BY <1>1, <1>2, <2>1, <2>3 DEF Accounted
  <2>4. CASE table[f].owner # t
    BY <1>2, <2>1, <2>2, <2>4, Others
  <2>. QED
    BY <2>3, <2>4
<1>. QED
  BY <1>1, <1>2 DEF Accounted

(* No step makes a thread use 0 while the log directory is open on it.     *)
LEMMA ZeroStep ==
    ASSUME IInv, NEW t \in Threads, Step(t)
    PROVE  ZeroGuarded'
<1> SUFFICES ASSUME IsKind(0, {"logDir"})'
             PROVE  \A u \in Threads : aux'[u] # 0 /\ (InUse(u)' => sock'[u] # 0)
  BY DEF ZeroGuarded
<1>i. TypeOK /\ RolePcs /\ 0 \in Fd /\ NoFd # 0
  BY ZeroIsFd, NoFdIsNoFd DEF IInv
<1>z. /\ IsKind(0, {"logDir"})
      /\ \A g \in Fd, k \in Kinds : Open(g, t, k) => g # 0
  <2>1. ASSUME NEW g \in Fd, NEW k \in Kinds \ {"logDir"}, Open(g, t, k)
        PROVE  g # 0 /\ table'[0] = table[0]
    BY <2>1, <1>i DEF Open, TypeOK, IsKind
  <2>2. AuxKind(pc[t]) \in Kinds \ {"logDir"}
    BY DEF AuxKind, Kinds
  <2>3. \/ table'[0] \in {Free, table[0]}
        \/ IsKind(sock[t], {"socket"}) /\ table' = [table EXCEPT ![sock[t]].kind = "conn"]
    BY <2>1, <2>2, <1>i DEF Step, Start, Socket, Connect, CloseFailed, Check, Break,
       Send, Recv, CloseSock, OpenAux, CloseAux, AbandonScan, Close, Kinds
  <2>4. table'[0] = table[0]
    <3>1. CASE table'[0] \in {Free, table[0]}
      BY <3>1 DEF IsKind
    <3>2. CASE /\ IsKind(sock[t], {"socket"})
               /\ table' = [table EXCEPT ![sock[t]].kind = "conn"]
      <4>1. CASE sock[t] # 0
        BY <3>2, <4>1, <1>i DEF TypeOK
      <4>2. CASE sock[t] = 0
        <5>1. table[0] \in Objects
          BY <3>2, <4>2, <1>i DEF IsKind, TypeOK
        <5>2. table'[0] = [table[0] EXCEPT !.kind = "conn"]
          BY <3>2, <4>2, <1>i DEF TypeOK
        <5>3. table'[0].kind = "conn"
          BY <5>1, <5>2 DEF Objects
        <5>. QED
          BY <5>3 DEF IsKind
      <4>. QED
        BY <4>1, <4>2
    <3>. QED
      BY <2>3, <3>1, <3>2
  <2>5. IsKind(0, {"logDir"})
    BY <2>4 DEF IsKind
  <2>6. ASSUME NEW g \in Fd, NEW k, Open(g, t, k) PROVE g # 0
    BY <2>5, <2>6 DEF Open, LowestFree, IsKind
  <2>. QED
    BY <2>5, <2>6
<1>g. \A u \in Threads : aux[u] # 0 /\ (InUse(u) => sock[u] # 0)
  BY <1>z DEF IInv, ZeroGuarded
<1>1. ASSUME NEW u \in Threads, u # t
      PROVE  aux'[u] # 0 /\ (InUse(u)' => sock'[u] # 0)
  BY <1>1, <1>g, Others DEF InUse
<1>2. aux'[t] # 0
  <2>1. AuxKind(pc[t]) \in Kinds
    BY DEF AuxKind, Kinds
  <2>. QED
    BY <1>g, <1>i, <1>z, <2>1 DEF Step, Start, Socket, Connect, CloseFailed, Check, Break,
       Send, Recv, CloseSock, OpenAux, CloseAux, AbandonScan, LeaveAux, TypeOK
<1>3. InUse(t)' => sock'[t] # 0
  <2>g. InUse(t) => sock[t] # 0
    BY <1>g
  <2> USE <2>g, <1>i, <1>z DEF TypeOK, InUse, Goto, RolePcs
  <2>1. CASE Start(t)
    BY <2>1 DEF Start
  <2>2. CASE Socket(t)
    BY <2>2 DEF Socket, Kinds
  <2>3. CASE Connect(t)
    BY <2>3 DEF Connect
  <2>4. CASE CloseFailed(t)
    BY <2>4 DEF CloseFailed
  <2>5. CASE Check(t)
    BY <2>5 DEF Check
  <2>6. CASE Break(t)
    BY <2>6 DEF Break
  <2>7. CASE Send(t)
    BY <2>7 DEF Send
  <2>8. CASE Recv(t)
    BY <2>8 DEF Recv
  <2>9. CASE CloseSock(t)
    BY <2>9 DEF CloseSock
  <2>10. CASE OpenAux(t)
    BY <2>10 DEF OpenAux, LeaveAux, AfterAux
  <2>11. CASE CloseAux(t)
    BY <2>11 DEF CloseAux, LeaveAux, AfterAux
  <2>12. CASE AbandonScan(t)
    BY <2>12 DEF AbandonScan, LeaveAux, AfterAux
  <2>. QED
    BY <2>1, <2>2, <2>3, <2>4, <2>5, <2>6, <2>7, <2>8, <2>9, <2>10, <2>11, <2>12 DEF Step
<1>. QED
  BY <1>1, <1>2, <1>3

(* The exchange invariant is a consequence of the others.                  *)
LEMMA OwnConnectionHolds ==
    ASSUME TypeOK, ConnKind, CommandHasSock
    PROVE  OwnConnection
BY DEF TypeOK, ConnKind, CommandHasSock, OwnConnection, Sound

(* Nothing is open and nobody holds anything when main() begins.           *)
LEMMA InitIInv == Init => IInv
<1> SUFFICES ASSUME Init PROVE IInv
  OBVIOUS
<1>1. TypeOK
  BY ZeroIsTry, ZeroIsFd DEF Init, TypeOK, Pcs
<1>2. /\ \A t \in Threads : pc[t] = "idle" /\ sock[t] = 0 /\ aux[t] = NoFd
      /\ \A f \in Fd : table[f] = Free
      /\ NoFd # 0 /\ Perf \in Threads /\ Clean \in Threads /\ stale = NoFd
  BY ZeroIsFd, NoFdIsNoFd DEF Init, Threads
<1>3. BootQuiet /\ AuxPhase /\ RolePcs /\ CommandHasSock
  BY <1>2 DEF BootQuiet, AuxPhase, RolePcs, CommandHasSock
<1>4. Confined /\ ConnKind
  BY <1>2, NoFdUnsound DEF Confined, ConnKind
<1>5. NoLeak /\ ZeroGuarded
  BY <1>2 DEF NoLeak, ZeroGuarded, IsKind
<1>. QED
  BY <1>1, <1>3, <1>4, <1>5, OwnConnectionHolds DEF IInv

(* The same consequence in the next state.                                 *)
LEMMA PrimeOwn == TypeOK' /\ ConnKind' /\ CommandHasSock' => OwnConnection'
<1>1. TypeOK /\ ConnKind /\ CommandHasSock => OwnConnection
  BY OwnConnectionHolds
<1>. QED
  BY <1>1, PTL

(* While nobody holds anything, what is open is a directory.               *)
LEMMA QuietNoLeak ==
    ASSUME IInv, boot # "run", NEW f \in Fd, f # 0, f # stale, f # NoFd, table[f] # Free
    PROVE  table[f].kind \in {"dir", "logDir"}
<1>1. table[f].owner \in Threads
  BY DEF IInv, TypeOK, Objects
<1>. QED
  BY <1>1 DEF IInv, NoLeak, BootQuiet

(* Threads do not step before main() has started them.                     *)
LEMMA QuietStops ==
    ASSUME IInv, NEW t \in Threads, Step(t)
    PROVE  boot = "run"
<1> SUFFICES ASSUME pc[t] = "idle", aux[t] = NoFd, boot # "run" PROVE FALSE
  BY DEF IInv, BootQuiet
<1>. QED
  BY DEF Step, Start, Socket, Connect, CloseFailed, Check, Break, Send, Recv,
     CloseSock, OpenAux, CloseAux, AbandonScan, AuxPcs, LogPcs

(* The two steps of main() before the threads exist.                       *)
LEMMA BootStep ==
    ASSUME IInv, InitLog \/ InitPerf
    PROVE  IInv'
<1>0. /\ TypeOK /\ NoLeak /\ TypeOK' /\ NoFd \notin Fd /\ NoFd # 0
      /\ Perf \in Threads /\ Clean \in Threads
      /\ \A t \in Threads : pc[t] = "idle" /\ sock[t] = 0 /\ aux[t] = NoFd
      /\ pc' = pc /\ aux' = aux /\ boot # "run" /\ stale = NoFd
  BY TypeStep, NoFdIsNoFd, ZeroIsFd
     DEF IInv, BootQuiet, InitLog, InitPerf, Next, Threads
<1>1. BootQuiet' /\ AuxPhase' /\ RolePcs' /\ ZeroGuarded'
  BY <1>0 DEF BootQuiet, AuxPhase, RolePcs, ZeroGuarded, InUse, InitLog, InitPerf
<1>2. CASE InitLog
  <2>1. CommandHasSock'
    BY <1>0, <1>2 DEF CommandHasSock, InitLog
  <2>2. Confined' /\ ConnKind'
    BY <1>0, <1>2 DEF Confined, ConnKind, InitLog, Sound
  <2>3. NoLeak'
    <3> SUFFICES ASSUME NEW f \in Fd \ {0, stale}, table'[f] # Free,
                        table'[f].kind \notin {"dir", "logDir"}
                 PROVE  sock[table'[f].owner] = f \/ aux[table'[f].owner] = f
      BY <1>2 DEF NoLeak, InitLog
    <3>1. table'[f] = table[f]
      <4>1. ASSUME NEW g \in Fd, Open(g, Clean, "logDir") PROVE table'[f] = table[f]
        BY <4>1, <1>0 DEF Open, TypeOK
      <4>. QED
        BY <1>2, <4>1 DEF InitLog
    <3>. QED
      BY <1>0, <3>1 DEF NoLeak
  <2>. QED
    BY <1>0, <1>1, <2>1, <2>2, <2>3, OwnConnectionHolds, PrimeOwn DEF IInv
<1>3. CASE InitPerf
  <2>1. CommandHasSock'
    BY <1>0, <1>3 DEF CommandHasSock, InitPerf, TypeOK
  <2>2. ASSUME NEW f \in Fd, Open(f, Perf, "conn"),
               sock' = [sock EXCEPT ![Perf] = f], UNCHANGED stale
        PROVE  Confined' /\ ConnKind' /\ NoLeak'
    <3>1. /\ table' = [table EXCEPT ![f] = [owner |-> Perf, kind |-> "conn"]]
          /\ table'[f] = [owner |-> Perf, kind |-> "conn"]
          /\ sock'[Perf] = f
      BY <1>0, <2>2 DEF Open, TypeOK
    <3>2. \A t \in Threads \ {Perf} : sock'[t] = 0
      BY <1>0, <2>2 DEF TypeOK
    <3>3. Confined' /\ ConnKind'
      BY <1>0, <2>2, <3>1, <3>2 DEF Confined, ConnKind, Sound
    <3>4. NoLeak'
      <4> SUFFICES ASSUME NEW g \in Fd \ {0, stale}, table'[g] # Free,
                          table'[g].kind \notin {"dir", "logDir"}
                   PROVE  sock'[table'[g].owner] = g \/ aux'[table'[g].owner] = g
        BY <2>2 DEF NoLeak
      <4>1. CASE g = f
        BY <3>1, <4>1
      <4>2. CASE g # f
        <5>1. table'[g] = table[g]
          BY <3>1, <4>2, <1>0 DEF TypeOK
        <5>2. table[g].owner \in Threads
          BY <5>1, <1>0 DEF TypeOK, Objects
        <5>3. sock[table[g].owner] = g \/ aux[table[g].owner] = g
          BY <5>1, <1>0 DEF NoLeak
        <5>. QED
          BY <5>2, <5>3, <1>0
      <4>. QED
        BY <4>1, <4>2
    <3>. QED
      BY <3>3, <3>4
  <2>3. ASSUME NEW f \in Fd, sock' = [sock EXCEPT ![Perf] = f], stale' = f,
               LowestFree(f), UNCHANGED table
        PROVE  Confined' /\ ConnKind' /\ NoLeak'
    <3>1. \A t \in Threads : sock'[t] \in {0, stale'}
      BY <1>0, <2>3 DEF TypeOK
    <3>2. Confined' /\ ConnKind'
      BY <1>0, <2>3, <3>1 DEF Confined, ConnKind, Sound
    <3>3. NoLeak'
      BY <1>0, <2>3, QuietNoLeak DEF NoLeak, LowestFree
    <3>. QED
      BY <3>2, <3>3
  <2>4. ASSUME sock' = [sock EXCEPT ![Perf] = NoFd], UNCHANGED <<table, stale>>
        PROVE  Confined' /\ ConnKind' /\ NoLeak'
    <3>1. \A t \in Threads : sock'[t] \in {0, NoFd}
      BY <1>0, <2>4 DEF TypeOK
    <3>2. Confined' /\ ConnKind'
      BY <1>0, <2>4, <3>1 DEF Confined, ConnKind, Sound
    <3>3. NoLeak'
      BY <1>0, <2>4, QuietNoLeak DEF NoLeak
    <3>. QED
      BY <3>2, <3>3
  <2>5. Confined' /\ ConnKind' /\ NoLeak'
    BY <1>3, <2>2, <2>3, <2>4 DEF InitPerf
  <2>. QED
    BY <1>0, <1>1, <2>1, <2>5, PrimeOwn DEF IInv
<1>. QED
  BY <1>2, <1>3

(* The invariant is inductive: main() takes its steps before any thread,   *)
(* and each step of a thread preserves each conjunct.                      *)
LEMMA Inductive == IInv /\ [Next]_vars => IInv'
<1> SUFFICES ASSUME IInv, [Next]_vars PROVE IInv'
  OBVIOUS
<1>1. CASE InitLog \/ InitPerf
  BY <1>1, BootStep
<1>2. ASSUME NEW t \in Threads, Step(t) PROVE IInv'
  <2>1. (boot = "run" /\ boot' = "run") \/ UNCHANGED boot
    BY <1>2 DEF Step, Start, Socket, Connect, CloseFailed, Check, Break, Send, Recv,
       CloseSock, OpenAux, CloseAux, AbandonScan, LeaveAux
  <2>2. BootQuiet'
    <3>1. boot = "run"
      BY <1>2, QuietStops
    <3>. QED
      BY <2>1, <3>1 DEF BootQuiet
  <2>3. TypeOK' /\ AuxPhase' /\ RolePcs' /\ CommandHasSock'
    BY <1>2, TypeStep, PcStep DEF IInv
  <2>. QED
    BY <1>2, <2>2, <2>3, ConfinedStep, NoLeakStep, ZeroStep, PrimeOwn DEF IInv
<1>3. CASE UNCHANGED vars
  BY <1>3 DEF vars, IInv, TypeOK, BootQuiet, AuxPhase, RolePcs, Confined, ConnKind,
     CommandHasSock, NoLeak, OwnConnection, ZeroGuarded, Sound, InUse, IsKind
<1>. QED
  BY <1>1, <1>2, <1>3 DEF Next

(* The inductive invariant holds in every reachable state.                 *)
THEOREM Invariance == Spec => []IInv
BY InitIInv, Inductive, PTL DEF Spec

(* However the threads interleave, no thread ever closes, and nobody ever  *)
(* reuses, a descriptor another thread holds, 0 and the number of a failed *)
(* CPerfInfo::Init excepted.                                               *)
THEOREM Confinement == Spec => []Confined
<1>1. IInv => Confined
  BY DEF IInv
<1>. QED
  BY <1>1, Invariance, PTL

(* No path through the commands and the log functions leaks a socket or a  *)
(* log file, the same two numbers excepted.                                *)
THEOREM LeakFreedom == Spec => []NoLeak
<1>1. IInv => NoLeak
  BY DEF IInv
<1>. QED
  BY <1>1, Invariance, PTL

(* A command never talks on descriptor 0.  Everywhere but on the number a  *)
(* failed Init left behind, and but for the report thread on 0 and -1, an  *)
(* exchange takes place on a socket the thread connected itself.           *)
THEOREM ExchangeOnOwnConnection == Spec => []OwnConnection
<1>1. IInv => OwnConnection
  BY DEF IInv
<1>. QED
  BY <1>1, Invariance, PTL

(* The log directory's descriptor 0 falls only to a command that ran out   *)
(* of attempts without a connection.                                       *)
THEOREM LogDirLoss == Spec => LogDirHeld
<1> DEFINE Loss == IsKind(0, {"logDir"}) /\ table'[0] = Free =>
                      \E t \in Alive : /\ pc[t] = "check" /\ pc'[t] = "logDone"
                                       /\ sock[t] = 0 /\ try[t] = MaxTry - 1
<1>1. IInv /\ [Next]_vars => [Loss]_vars
  <2> SUFFICES ASSUME IInv, Next, IsKind(0, {"logDir"}), table'[0] = Free
               PROVE  \E t \in Alive : /\ pc[t] = "check" /\ pc'[t] = "logDone"
                                       /\ sock[t] = 0 /\ try[t] = MaxTry - 1
    OBVIOUS
  <2>i. /\ TypeOK /\ RolePcs /\ 0 \in Fd /\ table[0] \in Objects
        /\ \A t \in Threads : aux[t] # 0 /\ (InUse(t) => sock[t] # 0)
    BY ZeroIsFd DEF IInv, ZeroGuarded, IsKind, TypeOK
  <2>o. \A f \in Fd, t \in Threads, k \in Kinds : ~ Open(f, t, k)
    BY <2>i, FreeAssumption DEF Open, Objects, TypeOK, IsKind
  <2>1. CASE InitLog \/ InitPerf
    BY <2>1, <2>o, <2>i, FreeAssumption DEF InitLog, InitPerf, Kinds, Threads
  <2>2. ASSUME NEW t \in Threads, Step(t)
        PROVE  t \in Alive /\ pc[t] = "check" /\ pc'[t] = "logDone"
               /\ sock[t] = 0 /\ try[t] = MaxTry - 1
    <3>1. CASE Check(t)
      <4>1. t \in Alive
        BY <3>1, <2>i DEF Check, RolePcs, Threads
      <4>. QED
        BY <3>1, <4>1, <2>i, FreeAssumption DEF Check, Close, Goto, TypeOK
    <3>2. CASE CloseFailed(t) \/ CloseSock(t)
      BY <3>2, <2>i, FreeAssumption DEF CloseFailed, CloseSock, Close, InUse
    <3>3. CASE CloseAux(t)
      BY <3>3, <2>i, FreeAssumption DEF CloseAux, Close
    <3>4. CASE OpenAux(t)
      <4>1. AuxKind(pc[t]) \in Kinds
        BY DEF AuxKind, Kinds
      <4>. QED
        BY <3>4, <4>1, <2>o, <2>i, FreeAssumption DEF OpenAux
    <3>5. CASE Socket(t)
      BY <3>5, <2>o, <2>i, FreeAssumption DEF Socket, Kinds
    <3>6. CASE Connect(t)
      BY <3>6, <2>i, FreeAssumption, ConnectType DEF Connect, TypeOK, Objects, IsKind
    <3>7. CASE Start(t) \/ Break(t) \/ Send(t) \/ Recv(t) \/ AbandonScan(t)
      BY <3>7, <2>i, FreeAssumption DEF Start, Break, Send, Recv, AbandonScan
    <3>. QED
      BY <2>2, <3>1, <3>2, <3>3, <3>4, <3>5, <3>6, <3>7 DEF Step
  <2>. QED
    BY <2>1, <2>2 DEF Next
<1>. QED
  BY <1>1, Invariance, PTL DEF Spec, LogDirHeld
==============================================================================
