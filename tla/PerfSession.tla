----------------------------- MODULE PerfSession -----------------------------
(***************************************************************************)
(* CPerfInfo (PerfInfo.cpp) and the connection it keeps to the monitor.    *)
(*                                                                         *)
(* Init() connects and reports a restart; every minute SendToPerf()        *)
(* reports on the same connection, or opens a new one if it closed the     *)
(* last.  A reply carries nothing that says which request it answers, and  *)
(* SendToRestart keeps the connection even when it has given up waiting,   *)
(* so replies and requests can fall out of step.  The module asks by how   *)
(* much, and for how long the session can stay broken.                     *)
(*                                                                         *)
(* The byte stream from the monitor is counted in units: a reply is the    *)
(* first part of its header, the rest of the header, and the body.         *)
(***************************************************************************)
EXTENDS Naturals

VARIABLES
    session,    \* where the session is
    cmd,        \* the request in progress
    sock,       \* m_hSock: 0, a number not its own, or its connection
    reqs,       \* requests the monitor has not answered yet
    pipe,       \* units on their way to the client
    buf,        \* units in the client's receive buffer
    pos,        \* units of the current reply already read
    broken,     \* the connection is gone, the client has yet to notice
    missed,     \* replies SendToRestart gave up on, on this connection
    answered,   \* who answered the last report: the monitor, another peer, nobody
    settled     \* monitor and network have stopped failing

link == <<reqs, pipe, buf, pos, broken>>
session_vars == <<session, cmd, sock, link, missed, answered, settled>>

UnitsPerReply == 3
HeaderUnits   == 2

(* What the monitor owes on this connection, in units.                     *)
Owed == UnitsPerReply * reqs + pos + buf + pipe

SessionTypeOK ==
    /\ session \in {"boot", "idle", "connect", "send", "select", "body"}
    /\ cmd \in {"REQ_SERVER_RESTART", "REQ_PERF_REPORT"}
    /\ sock \in {"zero", "stale", "open"}
    /\ reqs \in Nat
    /\ pipe \in Nat
    /\ buf \in Nat
    /\ pos \in 0 .. HeaderUnits
    /\ broken \in BOOLEAN
    /\ missed \in 0 .. 1
    /\ answered \in {"no", "monitor", "other"}
    /\ settled \in BOOLEAN

SessionInit ==
    /\ session = "boot"
    /\ cmd = "REQ_SERVER_RESTART"
    /\ sock = "zero"
    /\ reqs = 0 /\ pipe = 0 /\ buf = 0 /\ pos = 0
    /\ broken = FALSE
    /\ missed = 0
    /\ answered = "no"
    /\ settled = FALSE
------------------------------------------------------------------------------
NewLink == reqs' = 0 /\ pipe' = 0 /\ buf' = 0 /\ pos' = 0 /\ broken' = FALSE

(* Faulty variant of the next definition: the number is not set to 0.      *)
CloseSessionKeepsNumber ==
    /\ sock' = "stale"
    /\ NewLink
    /\ missed' = 0

(* Every return of SendToPerf but the last closes m_hSock and sets it to 0. *)
CloseSession ==
    /\ sock' = "zero"
    /\ NewLink
    /\ missed' = 0

(* SendToRestart returns FALSE and Init() carries on with the connection.  *)
(* What is left in the link is the caller's.                               *)
KeepSession ==
    /\ UNCHANGED sock
    /\ missed' = 1

(* The request fails; keep says what becomes of a link that stays open.    *)
Fail(keep) ==
    /\ session' = "idle"
    /\ answered' = "no"
    /\ IF cmd = "REQ_PERF_REPORT" THEN CloseSession ELSE KeepSession /\ keep
    /\ UNCHANGED <<cmd, settled>>

(* Faulty variant of a step below; no specification uses it.               *)

(* SendToPerf returns after a timeout without closing the connection.      *)
TimeoutKeepsSession ==
    /\ session = "select" /\ sock = "open" /\ buf = 0 /\ ~ broken /\ ~ settled
    /\ session' = "idle"
    /\ answered' = "no"
    /\ UNCHANGED <<cmd, sock, link, missed, settled>>
------------------------------------------------------------------------------
(* CPerfInfo::Init.  A failed ConnectToMonitor leaves m_hSock at the       *)
(* number it has closed, or at -1.                                         *)
Boot ==
    /\ session = "boot"
    /\ \/ sock' = "open" /\ session' = "send"
       \/ ~ settled /\ sock' = "stale" /\ session' = "idle"
    /\ UNCHANGED <<cmd, link, missed, answered, settled>>

(* sleep(60) is over and report_perf_thread calls SendToPerf.              *)
Report ==
    /\ session = "idle"
    /\ cmd' = "REQ_PERF_REPORT"
    /\ session' = IF sock = "zero" THEN "connect" ELSE "send"
    /\ UNCHANGED <<sock, link, missed, answered, settled>>

Connect ==
    /\ session = "connect"
    /\ \/ /\ sock' = "open"
          /\ session' = "send"
          /\ UNCHANGED answered
       \/ /\ ~ settled
          /\ sock' = "zero"
          /\ session' = "idle"
          /\ answered' = "no"
    /\ UNCHANGED <<cmd, link, missed, settled>>

(* SendPacket.  It may succeed on a connection that is broken already.     *)
Send ==
    /\ session = "send" /\ sock = "open"
    /\ \/ /\ reqs' = IF broken THEN 0 ELSE reqs + 1
          /\ session' = "select"
          /\ UNCHANGED <<cmd, sock, pipe, buf, pos, broken, missed, answered, settled>>
       \/ broken /\ Fail(UNCHANGED link)

(* ReceivePacket_Select: nothing to read within two seconds.               *)
Timeout ==
    /\ session = "select" /\ sock = "open" /\ buf = 0 /\ ~ broken /\ ~ settled
    /\ Fail(UNCHANGED link)

(* read() of the ten header bytes.  It succeeds if the whole header of a   *)
(* reply is there and is in order; in the middle of a reply the version    *)
(* byte is never right.  A header cut short is consumed all the same.      *)
ReadHeader ==
    /\ session = "select" /\ sock = "open" /\ (buf > 0 \/ broken)
    /\ \/ /\ pos = 0 /\ buf >= HeaderUnits
          /\ pos' = HeaderUnits
          /\ buf' = buf - HeaderUnits
          /\ session' = "body"
          /\ UNCHANGED <<cmd, sock, reqs, pipe, broken, missed, answered, settled>>
       \/ /\ pos # 0 \/ buf < HeaderUnits
          /\ Fail(pos' = pos + buf /\ buf' = 0 /\ UNCHANGED <<reqs, pipe, broken>>)
       \/ /\ pos = 0 /\ buf >= HeaderUnits /\ ~ settled
          /\ Fail(/\ pos' = HeaderUnits /\ buf' = buf - HeaderUnits
                  /\ UNCHANGED <<reqs, pipe, broken>>)

(* The body is read without a timeout, then the error code; the code is    *)
(* only logged.  A body too short for it fails the request.                *)
ReadBody ==
    /\ session = "body" /\ sock = "open"
    /\ \/ /\ buf > 0
          /\ pos' = 0
          /\ buf' = buf - 1
          /\ session' = "idle"
          /\ answered' = IF cmd = "REQ_PERF_REPORT" THEN "monitor" ELSE "no"
          /\ UNCHANGED <<cmd, sock, reqs, pipe, broken, missed, settled>>
       \/ /\ buf > 0 /\ ~ settled
          /\ Fail(pos' = 0 /\ buf' = buf - 1 /\ UNCHANGED <<reqs, pipe, broken>>)
       \/ /\ buf = 0 /\ broken
          /\ Fail(UNCHANGED link)
------------------------------------------------------------------------------
(* The same exchange on a stale number, which by now may be unused or      *)
(* another thread's.  The request never reaches the monitor.  SendPacket   *)
(* fails, or writes to whatever the number refers to.                      *)
SendStale ==
    /\ session = "send" /\ sock = "stale"
    /\ \/ /\ session' = "select"
          /\ UNCHANGED <<cmd, sock, link, missed, answered, settled>>
       \/ Fail(UNCHANGED link)

(* Two seconds without a byte, a header refused, or one that looks right:  *)
(* the start of a reply to the other thread.                               *)
ReadStaleHeader ==
    /\ session = "select" /\ sock = "stale"
    /\ \/ /\ session' = "body"
          /\ UNCHANGED <<cmd, sock, link, missed, answered, settled>>
       \/ Fail(UNCHANGED link)

(* The body, if it ever ends: the other thread may have read it, or part   *)
(* of it, and this read() has no timeout.  The reply is then taken for the *)
(* monitor's and m_hSock stays as it is.                                   *)
ReadStaleBody ==
    /\ session = "body" /\ sock = "stale"
    /\ \/ /\ session' = "idle"
          /\ answered' = "other"
          /\ UNCHANGED <<cmd, sock, link, missed, settled>>
       \/ Fail(UNCHANGED link)
------------------------------------------------------------------------------
(* The monitor answers the next request.                                   *)
Answer ==
    /\ reqs > 0
    /\ reqs' = reqs - 1
    /\ pipe' = pipe + UnitsPerReply
    /\ UNCHANGED <<session, cmd, sock, buf, pos, broken, missed, answered, settled>>

(* TCP delivers what it likes; once settled a reply arrives in one piece.  *)
Deliver ==
    /\ \E n \in 1 .. pipe :
          /\ settled => n = pipe
          /\ pipe' = pipe - n
          /\ buf' = buf + n
    /\ UNCHANGED <<session, cmd, sock, reqs, pos, broken, missed, answered, settled>>

MonitorDisconnect ==
    /\ ~ settled /\ sock = "open" /\ ~ broken
    /\ broken' = TRUE
    /\ reqs' = 0
    /\ pipe' = 0
    /\ UNCHANGED <<session, cmd, sock, buf, pos, missed, answered, settled>>

MonitorSettle ==
    /\ ~ settled
    /\ settled' = TRUE
    /\ UNCHANGED <<session, cmd, sock, link, missed, answered>>
------------------------------------------------------------------------------
StaleExchange == SendStale \/ ReadStaleHeader \/ ReadStaleBody
Client == Boot \/ Report \/ Connect \/ Send \/ Timeout \/ ReadHeader \/ ReadBody
           \/ StaleExchange
Network == Answer \/ Deliver

SessionNext == Client \/ Network \/ MonitorDisconnect \/ MonitorSettle

(* The report thread waits for the body of a reply on a number that is not *)
(* its own: nothing says that it ever comes.                               *)
Stuck == session = "body" /\ sock = "stale"

(* Otherwise the client runs on, and once settled the monitor answers.     *)
SessionFairness ==
    /\ WF_session_vars(Client /\ ~ Stuck)
    /\ WF_session_vars(settled /\ Network)

SessionSpec == SessionInit /\ [][SessionNext]_session_vars /\ SessionFairness
------------------------------------------------------------------------------
(* Between reports the monitor owes nothing, not even part of a reply,     *)
(* except after a restart report that gave up waiting: then at most that   *)
(* one reply.  A report is thus answered by its own reply, or, on that one *)
(* connection, by the reply to the request before it; it never falls       *)
(* further behind.                                                         *)
InStep ==
    /\ session \in {"boot", "connect"} => Owed = 0
    /\ session \in {"idle", "send"} => Owed <= UnitsPerReply * missed
    /\ session \in {"select", "body"} => Owed <= UnitsPerReply * (missed + 1)

(* InStep is preserved because a body is read right after its header, a    *)
(* restart report is the first request of its connection, and nothing is   *)
(* owed where there is no connection.                                      *)
Exchange ==
    /\ session = "body" /\ sock = "open" => pos = HeaderUnits
    /\ session \in {"boot", "send", "select", "body"} /\ cmd = "REQ_SERVER_RESTART" => missed = 0
    /\ session \in {"boot", "send", "select"} /\ cmd = "REQ_SERVER_RESTART" => pos = 0
    /\ sock # "open" => Owed = 0
    /\ session \in {"boot", "connect"} => sock = "zero"
    /\ session = "connect" => cmd = "REQ_PERF_REPORT"

(* The inductive invariant: the types, the bound and the reasons for it.   *)
IInv == SessionTypeOK /\ InStep /\ Exchange

(* Once monitor and network behave, every report is answered by the        *)
(* monitor from some point on, whether a reply is missing, half of one has *)
(* been read or the connection has died unnoticed.  The number a failed    *)
(* Init left in m_hSock is the one exception: as long as replies on it     *)
(* satisfy SendToPerf no connection is made and no report arrives, and the *)
(* body read without a timeout may not return at all.                      *)
AnsweredBy(who) ==
    /\ []<>(session = "idle")
    /\ <>[](session = "idle" => answered = who)

Heals == <>settled => AnsweredBy("monitor") \/ AnsweredBy("other") \/ <>[]Stuck
==============================================================================
