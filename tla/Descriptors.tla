----------------------------- MODULE Descriptors -----------------------------
(***************************************************************************)
(* The file descriptors of the client process, shared by all its threads.  *)
(*                                                                         *)
(* main() closes stdin, stdout and stderr before it starts anything, so    *)
(* descriptor 0 is an ordinary descriptor that socket(), fopen() and       *)
(* opendir() may return.  The commands of main_alive.cpp and CPerfInfo     *)
(* nevertheless use 0 as the value "no connection", close(0) when they     *)
(* give up, and CPerfInfo::Init leaves m_hSock naming a descriptor it has  *)
(* already closed.  This module follows every open and close of every      *)
(* thread to see how far the damage of those three habits can spread.      *)
(***************************************************************************)
EXTENDS Integers

CONSTANTS
    Alive,      \* the alive_process_thread threads
    Perf,       \* report_perf_thread
    Clean,      \* clean_thread
    MaxFd,      \* highest descriptor number the process may have
    MaxTry,     \* connection attempts of a command (100 in the code)
    Free        \* content of an unused slot of the descriptor table

Threads == Alive \cup {Perf, Clean}
Fd      == 0 .. MaxFd
NoFd    == -1

(* What a descriptor refers to: the directory stream of InitLog or of      *)
(* ClearOldLog, a log file, a socket before and after connect(), or a      *)
(* socket that a library call (libcurl, getifaddrs) opens and closes       *)
(* before it returns.                                                      *)
Kinds   == {"logDir", "dir", "file", "socket", "conn", "library"}
Objects == [owner : Threads, kind : Kinds]

ASSUME ThreadsAssumption == Perf # Clean /\ Perf \notin Alive /\ Clean \notin Alive
ASSUME FdAssumption      == MaxFd \in Nat
ASSUME TryAssumption     == MaxTry \in Nat \ {0}
ASSUME FreeAssumption    == Free \notin Objects

VARIABLES
    table,      \* the kernel's descriptor table
    boot,       \* how far main() has come
    stale,      \* the descriptor Init closed but left in m_hSock, or NoFd
    pc,         \* where each thread is
    sock,       \* the command's local sock; of Perf, the static m_hSock
    try,        \* the loop counter i of a command, 0 outside the loop
    aux         \* descriptor of the log file, directory or library call in use

vars == <<table, boot, stale, pc, sock, try, aux>>

(* The points at which a thread uses a second descriptor for the length of *)
(* one call: CMiscUtil::WriteLog and WriteErrorLog, ClearOldLog, and the   *)
(* library calls.  Log writes with nothing between them are one point.     *)
LogPcs == {"logNotConnect", "logTried", "logExchange", "logDone"}
AuxPcs == LogPcs \cup {"scan", "library"}
Pcs    == AuxPcs \cup {"idle", "loop", "connecting", "closeFailed", "check",
                       "send", "recv", "close"}

AuxKind(p) == CASE p = "scan"    -> "dir"
                [] p = "library" -> "library"
                [] OTHER         -> "file"

TypeOK ==
    /\ table \in [Fd -> Objects \cup {Free}]
    /\ boot \in {"log", "monitor", "run"}
    /\ stale \in Fd \cup {NoFd}
    /\ pc \in [Threads -> Pcs]
    /\ sock \in [Threads -> Fd \cup {NoFd}]
    /\ try \in [Threads -> 0 .. MaxTry - 1]
    /\ aux \in [Threads -> Fd \cup {NoFd}]
------------------------------------------------------------------------------
(* The kernel: a new descriptor is the lowest unused one; close() of a     *)
(* number that is not open fails without effect.                           *)
LowestFree(f) == table[f] = Free /\ \A g \in 0 .. f - 1 : table[g] # Free

Open(f, t, k) ==
    /\ LowestFree(f)
    /\ table' = [table EXCEPT ![f] = [owner |-> t, kind |-> k]]

Close(f) == table' = [g \in Fd |-> IF g = f THEN Free ELSE table[g]]

IsKind(f, K) == f \in Fd /\ table[f] # Free /\ table[f].kind \in K

Goto(t, p) == pc' = [pc EXCEPT ![t] = p]
------------------------------------------------------------------------------
(* Faulty variants of the steps below, each a slip the code could contain. *)
(* No specification uses them; they show that the properties notice.       *)

(* The failed connection is closed but its number is kept.                 *)
CloseFailedKeepsNumber(t) ==
    /\ pc[t] = "closeFailed"
    /\ Close(sock[t])
    /\ Goto(t, IF t = Perf THEN "idle" ELSE "logTried")
    /\ UNCHANGED <<boot, stale, sock, try, aux>>

(* The last attempt returns without closing.                               *)
CheckForgetsClose(t) ==
    /\ pc[t] = "check"
    /\ IF try[t] = MaxTry - 1
       THEN /\ sock' = [sock EXCEPT ![t] = 0]
            /\ try' = [try EXCEPT ![t] = 0]
            /\ Goto(t, "logDone")
       ELSE /\ try' = [try EXCEPT ![t] = @ + 1]
            /\ Goto(t, "loop")
            /\ UNCHANGED sock
    /\ UNCHANGED <<table, boot, stale, aux>>

(* A failed connect() neither closes the socket nor reports the failure.   *)
ConnectIgnoresFailure(t) ==
    /\ pc[t] = "connecting"
    /\ \/ /\ IsKind(sock[t], {"socket"})
          /\ table' = [table EXCEPT ![sock[t]].kind = "conn"]
       \/ UNCHANGED table
    /\ Goto(t, "logTried")
    /\ UNCHANGED <<boot, stale, sock, try, aux>>

(* The connection is closed again after the variable was reset.            *)
CloseSockTwice(t) ==
    /\ pc[t] = "close"
    /\ table' = [g \in Fd |-> IF g \in {sock[t], 0} THEN Free ELSE table[g]]
    /\ sock' = [sock EXCEPT ![t] = 0]
    /\ \/ Goto(t, "idle")
       \/ t # Perf /\ Goto(t, "logDone")
    /\ UNCHANGED <<boot, stale, try, aux>>

(* An early return of the log function skips fclose().                     *)
CloseAuxForgotten(t) ==
    /\ aux[t] # NoFd
    /\ aux' = [aux EXCEPT ![t] = NoFd]
    /\ Goto(t, IF pc[t] = "logExchange" THEN "close" ELSE "idle")
    /\ UNCHANGED <<table, boot, stale, sock, try>>
------------------------------------------------------------------------------
Init ==
    /\ table = [f \in Fd |-> Free]
    /\ boot = "log"
    /\ stale = NoFd
    /\ pc = [t \in Threads |-> "idle"]
    /\ sock = [t \in Threads |-> 0]
    /\ try = [t \in Threads |-> 0]
    /\ aux = [t \in Threads |-> NoFd]

(* CMiscUtil::InitLog: the directory stream is never closed.  The path may *)
(* not be a readable directory, and then nothing stays open.               *)
InitLog ==
    /\ boot = "log"
    /\ boot' = "monitor"
    /\ \/ \E f \in Fd : Open(f, Clean, "logDir")
       \/ UNCHANGED table
    /\ UNCHANGED <<stale, pc, sock, try, aux>>

(* CPerfInfo::Init.  When connect() fails, ConnectToMonitor closes m_hSock *)
(* and Init returns with the number still in it.  SendToRestart keeps the  *)
(* connection whatever its result.  main() then starts the threads.        *)
InitPerf ==
    /\ boot = "monitor"
    /\ boot' = "run"
    /\ \/ \E f \in Fd : /\ Open(f, Perf, "conn")
                        /\ sock' = [sock EXCEPT ![Perf] = f]
                        /\ UNCHANGED stale
       \/ \E f \in Fd : /\ LowestFree(f)
                        /\ sock' = [sock EXCEPT ![Perf] = f]
                        /\ stale' = f
                        /\ UNCHANGED table
       \/ /\ sock' = [sock EXCEPT ![Perf] = NoFd]
          /\ UNCHANGED <<table, stale>>
    /\ UNCHANGED <<pc, try, aux>>
------------------------------------------------------------------------------
(* A thread leaves sleep(): an alive thread calls a command or, at its     *)
(* very start, logs "Start Alive"; Perf calls SendToPerf, which connects   *)
(* only if m_hSock is 0; Clean scans the log directory.                    *)
Start(t) ==
    /\ boot = "run"
    /\ pc[t] = "idle"
    /\ \/ t \in Alive /\ (Goto(t, "loop") \/ Goto(t, "logDone"))
       \/ t = Perf /\ Goto(t, IF sock[t] = 0 THEN "loop" ELSE "send")
       \/ t = Clean /\ Goto(t, "scan")
    /\ UNCHANGED <<table, boot, stale, sock, try, aux>>

(* ConnectToServer and ConnectToMonitor: socket().  On -1 the caller sets  *)
(* its variable back to 0.                                                 *)
Socket(t) ==
    /\ pc[t] = "loop" /\ sock[t] = 0
    /\ \/ \E f \in Fd : /\ Open(f, t, "socket")
                        /\ sock' = [sock EXCEPT ![t] = f]
                        /\ Goto(t, "connecting")
       \/ /\ Goto(t, IF t = Perf THEN "idle" ELSE "logTried")
          /\ UNCHANGED <<table, sock>>
    /\ UNCHANGED <<boot, stale, try, aux>>

(* connect() on whatever the descriptor refers to by now.                  *)
Connect(t) ==
    /\ pc[t] = "connecting"
    /\ \/ /\ IsKind(sock[t], {"socket"})
          /\ table' = [table EXCEPT ![sock[t]].kind = "conn"]
          /\ Goto(t, "logTried")
       \/ /\ Goto(t, "logNotConnect")
          /\ UNCHANGED table
    /\ UNCHANGED <<boot, stale, sock, try, aux>>

(* close of sock after a failed connect(); the caller then stores 0, having *)
(* used the old number only in a log line.                                 *)
CloseFailed(t) ==
    /\ pc[t] = "closeFailed"
    /\ Close(sock[t])
    /\ sock' = [sock EXCEPT ![t] = 0]
    /\ Goto(t, IF t = Perf THEN "idle" ELSE "logTried")
    /\ UNCHANGED <<boot, stale, try, aux>>

(* The end of the loop body.  The last round closes sock, connected or 0,  *)
(* and the command returns FALSE.                                          *)
Check(t) ==
    /\ pc[t] = "check"
    /\ IF try[t] = MaxTry - 1
       THEN /\ Close(sock[t])
            /\ sock' = [sock EXCEPT ![t] = 0]
            /\ try' = [try EXCEPT ![t] = 0]
            /\ Goto(t, "logDone")
       ELSE /\ try' = [try EXCEPT ![t] = @ + 1]
            /\ Goto(t, "loop")
            /\ UNCHANGED <<table, sock>>
    /\ UNCHANGED <<boot, stale, aux>>

(* sock # 0 ends the loop.  command_alive_report goes on to send;          *)
(* command_heartbeat_report first calls getifaddrs once, and               *)
(* command_metadata_report calls RestClient::get twice.                    *)
Break(t) ==
    /\ pc[t] = "loop" /\ sock[t] # 0
    /\ Goto(t, "send") \/ Goto(t, "library")
    /\ try' = [try EXCEPT ![t] = 0]
    /\ UNCHANGED <<table, boot, stale, sock, aux>>

(* SendPacket.  A write can succeed on anything open for writing.          *)
Send(t) ==
    /\ pc[t] = "send"
    /\ \/ IsKind(sock[t], {"conn", "file", "library"}) /\ Goto(t, "recv")
       \/ Goto(t, "logExchange")
    /\ UNCHANGED <<table, boot, stale, sock, try, aux>>

(* ReceivePacket or ReceivePacket_Select, and the checks of the reply.  A  *)
(* command closes its connection whatever comes back, SendToPerf keeps it  *)
(* after a reply.                                                          *)
Recv(t) ==
    /\ pc[t] = "recv"
    /\ \/ IsKind(sock[t], {"conn", "file", "library"}) /\ t = Perf /\ Goto(t, "logDone")
       \/ Goto(t, "logExchange")
    /\ UNCHANGED <<table, boot, stale, sock, try, aux>>

(* CloseToServer(sock) and the return from a command, or close(m_hSock)    *)
(* and m_hSock = 0.  Some commands, or their caller, log once more.        *)
CloseSock(t) ==
    /\ pc[t] = "close"
    /\ Close(sock[t])
    /\ sock' = [sock EXCEPT ![t] = 0]
    /\ \/ Goto(t, "idle")
       \/ t # Perf /\ Goto(t, "logDone")
    /\ UNCHANGED <<boot, stale, try, aux>>
------------------------------------------------------------------------------
(* Where a thread goes on once the descriptor of a log write, a directory  *)
(* scan or a library call is closed again.  A library call may be followed *)
(* by another one.                                                         *)
AfterAux(t) ==
    CASE pc[t] = "logNotConnect" -> {"closeFailed"}
      [] pc[t] = "logTried"      -> IF t = Perf THEN {"send"} ELSE {"check"}
      [] pc[t] = "logExchange"   -> {"close"}
      [] pc[t] = "library"       -> {"library", "send"}
      [] OTHER                   -> {"idle"}

LeaveAux(t) ==
    /\ aux' = [aux EXCEPT ![t] = NoFd]
    /\ \E p \in AfterAux(t) : Goto(t, p)
    /\ UNCHANGED <<boot, stale, sock, try>>

(* fopen(), opendir() or the socket of a library call; on failure the call *)
(* returns at once.                                                        *)
OpenAux(t) ==
    /\ pc[t] \in AuxPcs /\ aux[t] = NoFd
    /\ \/ \E f \in Fd : /\ Open(f, t, AuxKind(pc[t]))
                        /\ aux' = [aux EXCEPT ![t] = f]
                        /\ UNCHANGED <<boot, stale, pc, sock, try>>
       \/ LeaveAux(t) /\ UNCHANGED table

CloseAux(t) ==
    /\ aux[t] # NoFd
    /\ Close(aux[t])
    /\ LeaveAux(t)

(* ClearOldLog returns without closedir() when lstat() fails.              *)
AbandonScan(t) ==
    /\ pc[t] = "scan" /\ aux[t] # NoFd
    /\ LeaveAux(t)
    /\ UNCHANGED table

Step(t) ==
    \/ Start(t)
    \/ Socket(t)
    \/ Connect(t)
    \/ CloseFailed(t)
    \/ Check(t)
    \/ Break(t)
    \/ Send(t)
    \/ Recv(t)
    \/ CloseSock(t)
    \/ OpenAux(t)
    \/ CloseAux(t)
    \/ AbandonScan(t)

Next == InitLog \/ InitPerf \/ \E t \in Threads : Step(t)

(* Nothing below depends on a thread being scheduled, so no fairness.      *)
Spec == Init /\ [][Next]_vars
------------------------------------------------------------------------------
(* Everything but descriptor 0 and the number Init left in m_hSock.        *)
Sound(f) == f \in Fd \ {0, stale}

(* Whatever the threads do to descriptor 0 and to the number a failed      *)
(* CPerfInfo::Init left behind, every other descriptor a thread holds is   *)
(* the one it opened itself: no close() of another thread hits it and      *)
(* nobody has reused its number.                                           *)
Confined ==
    \A t \in Threads :
        /\ Sound(sock[t]) => \E k \in {"socket", "conn"} :
                                 table[sock[t]] = [owner |-> t, kind |-> k]
        /\ Sound(aux[t]) => table[aux[t]] = [owner |-> t, kind |-> AuxKind(pc[t])]

(* No error path of a command, of SendToPerf or of the log functions       *)
(* leaves a socket or a file open that nobody holds any more; only the     *)
(* directory streams of InitLog and ClearOldLog and descriptor 0 leak.     *)
NoLeak ==
    \A f \in Fd \ {0, stale} :
        table[f] # Free =>
            \/ table[f].kind \in {"dir", "logDir"}
            \/ sock[table[f].owner] = f
            \/ aux[table[f].owner] = f

(* A command never writes its request to descriptor 0: it has a socket of  *)
(* its own by then.  On every number but 0 and the one a failed Init left  *)
(* in m_hSock, request and reply travel on a connected socket the thread   *)
(* opened itself.  On that stale number they may travel on whatever holds  *)
(* it by then, another thread's connection included (PerfInfo::SendToPerf  *)
(* does not connect as long as m_hSock is not 0), and the report thread    *)
(* alone may use 0 or -1.                                                  *)
OwnConnection ==
    \A t \in Threads : pc[t] \in {"send", "recv"} =>
        /\ t # Perf => sock[t] \in Fd \ {0}
        /\ \/ sock[t] = stale
           \/ t = Perf /\ sock[t] \in {0, NoFd}
           \/ table[sock[t]] = [owner |-> t, kind |-> "conn"]

(* The stream InitLog forgets is what keeps 0 from being a connection.  It *)
(* is lost only to a command that has used up its attempts without one and *)
(* closes its 0 all the same.                                              *)
LogDirHeld ==
    [][IsKind(0, {"logDir"}) /\ table'[0] = Free =>
          \E t \in Alive : /\ pc[t] = "check" /\ pc'[t] = "logDone"
                           /\ sock[t] = 0 /\ try[t] = MaxTry - 1]_vars
------------------------------------------------------------------------------
(* The inductive invariant behind these properties also says where a       *)
(* thread can be when its variables have a given value.                    *)

(* Before main() starts the threads nobody holds a descriptor.             *)
BootQuiet ==
    boot # "run" =>
        /\ stale = NoFd
        /\ \A t \in Threads : pc[t] = "idle" /\ sock[t] = 0 /\ aux[t] = NoFd

(* A second descriptor is held only at the points that use one.            *)
AuxPhase == \A t \in Threads : aux[t] # NoFd => pc[t] \in AuxPcs

(* The report thread makes one attempt, the clean thread none.             *)
RolePcs ==
    /\ pc[Perf] \notin {"check", "library"}
    /\ pc[Perf] = "loop" => sock[Perf] = 0
    /\ pc[Clean] \in {"idle", "scan"}

(* Outside ConnectToServer and ConnectToMonitor a socket is connected.     *)
ConnKind ==
    \A t \in Threads :
        pc[t] \notin {"connecting", "logNotConnect", "closeFailed"} /\ Sound(sock[t])
            => table[sock[t]] = [owner |-> t, kind |-> "conn"]

(* A command that got past its loop has a descriptor other than 0.         *)
CommandHasSock ==
    \A t \in Threads \ {Perf} :
        /\ sock[t] # NoFd
        /\ pc[t] \in {"send", "recv", "library"} => sock[t] # 0

(* While InitLog's stream occupies descriptor 0, no thread is about to use *)
(* or close a connection numbered 0.                                       *)
InUse(t) ==
    \/ pc[t] \in {"connecting", "logNotConnect", "closeFailed", "send", "recv",
                  "library", "logExchange", "close"}
    \/ t = Perf /\ pc[t] = "logTried"
ZeroGuarded ==
    IsKind(0, {"logDir"}) =>
        \A t \in Threads : aux[t] # 0 /\ (InUse(t) => sock[t] # 0)

(* All of it together: what every step of every thread preserves.          *)
IInv ==
    /\ TypeOK
    /\ BootQuiet
    /\ AuxPhase
    /\ RolePcs
    /\ Confined
    /\ ConnKind
    /\ CommandHasSock
    /\ NoLeak
    /\ OwnConnection
    /\ ZeroGuarded
==============================================================================
