------------------------------ MODULE AliveLoop ------------------------------
(***************************************************************************)
(* The loop of alive_process_thread (main_alive.cpp) and the manager it    *)
(* keeps registered with.  All threads of the pool report the same machine *)
(* (they share one ConnInfo), each on a connection of its own per command. *)
(*                                                                         *)
(* One variable, ret, decides whether the next round starts with a         *)
(* heartbeat.  The periodic refresh and the metadata report store their    *)
(* result in it too, and every error code but ERR_FAILED counts as         *)
(* success, so a lost registration can go unnoticed.  The module asks for  *)
(* how long.                                                               *)
(***************************************************************************)
EXTENDS Naturals

CONSTANTS
    Alive,              \* the threads of the pool
    RefreshInterval,    \* REFRESH_INTERVAL, 3600 in the code
    MetadataInterval    \* METADATA_INTERVAL, 60 in the code

ASSUME IntervalAssumption == RefreshInterval \in Nat /\ MetadataInterval \in Nat

(* What has become of a command: no answer yet, an error code of the       *)
(* manager, or no connection any more, which covers a failed connect(), a  *)
(* reset and a reply that cannot be read.                                  *)
Codes   == {"ERR_NONE", "ERR_FAILED", "ERR_DB_FAILED"}
Replies == Codes \cup {"waiting", "cut"}

(* lost stops counting here, one beyond the bound claimed for it.          *)
LostCap == RefreshInterval + 2

VARIABLES
    pc,         \* where a thread is in its loop
    ret,        \* ret of alive_process_thread
    refresh,    \* its counter of rounds since the last refresh
    metareport, \* its counter of rounds since the last metadata report
    reply,      \* what the command in progress has got so far
    reg,        \* the manager knows this machine
    stable,     \* the manager and the network have stopped failing
    lost        \* rounds a thread ended while stable but not registered

vars == <<pc, ret, refresh, metareport, reply, reg, stable, lost>>

HeartbeatPcs == {"heartbeatWait", "refreshWait"}
WaitPcs == HeartbeatPcs \cup {"metadataWait"}
Pcs     == WaitPcs \cup {"top", "alive", "refresh", "metadata", "sleep"}

TypeOK ==
    /\ pc \in [Alive -> Pcs]
    /\ ret \in [Alive -> BOOLEAN]
    /\ refresh \in [Alive -> 0 .. RefreshInterval]
    /\ metareport \in [Alive -> 0 .. MetadataInterval]
    /\ reply \in [Alive -> Replies]
    /\ reg \in BOOLEAN
    /\ stable \in BOOLEAN
    /\ lost \in [Alive -> 0 .. LostCap]

Goto(t, p) == pc' = [pc EXCEPT ![t] = p]
------------------------------------------------------------------------------
(* Faulty variants of the steps below; no specification uses them.         *)

(* "<=" for "<" in the test of the refresh counter.                        *)
CountRefreshOffByOne(t) ==
    /\ pc[t] = "refresh" /\ refresh[t] <= RefreshInterval
    /\ refresh' = [refresh EXCEPT ![t] = @ + 1]
    /\ Goto(t, "metadata")
    /\ UNCHANGED <<ret, metareport, reply, reg, stable, lost>>

(* The metadata report, once a round, resets the wrong counter.            *)
MetadataResetsRefresh(t) ==
    /\ pc[t] = "metadata" /\ metareport[t] >= MetadataInterval
    /\ metareport' = [metareport EXCEPT ![t] = 0]
    /\ refresh' = [refresh EXCEPT ![t] = 0]
    /\ Goto(t, "metadataWait")
    /\ UNCHANGED <<ret, reply, reg, stable, lost>>
------------------------------------------------------------------------------
Init ==
    /\ pc = [t \in Alive |-> "top"]
    /\ ret = [t \in Alive |-> FALSE]
    /\ refresh = [t \in Alive |-> 0]
    /\ metareport = [t \in Alive |-> 0]
    /\ reply = [t \in Alive |-> "waiting"]
    /\ reg = FALSE
    /\ stable = FALSE
    /\ lost = [t \in Alive |-> 0]

(* if (ret == FALSE) ret = command_heartbeat_report(conninfo)              *)
Heartbeat(t) ==
    /\ pc[t] = "top"
    /\ Goto(t, IF ret[t] THEN "alive" ELSE "heartbeatWait")
    /\ UNCHANGED <<ret, refresh, metareport, reply, reg, stable, lost>>

(* command_alive_report: the loop never looks at its result ret2.          *)
AliveReport(t) ==
    /\ pc[t] = "alive"
    /\ Goto(t, "refresh")
    /\ UNCHANGED <<ret, refresh, metareport, reply, reg, stable, lost>>

CountRefresh(t) ==
    /\ pc[t] = "refresh" /\ refresh[t] < RefreshInterval
    /\ refresh' = [refresh EXCEPT ![t] = @ + 1]
    /\ Goto(t, "metadata")
    /\ UNCHANGED <<ret, metareport, reply, reg, stable, lost>>

(* The refresh is a heartbeat whatever ret says.                           *)
Refresh(t) ==
    /\ pc[t] = "refresh" /\ refresh[t] >= RefreshInterval
    /\ Goto(t, "refreshWait")
    /\ UNCHANGED <<ret, refresh, metareport, reply, reg, stable, lost>>

CountMetadata(t) ==
    /\ pc[t] = "metadata" /\ metareport[t] < MetadataInterval
    /\ metareport' = [metareport EXCEPT ![t] = @ + 1]
    /\ Goto(t, "sleep")
    /\ UNCHANGED <<ret, refresh, reply, reg, stable, lost>>

Metadata(t) ==
    /\ pc[t] = "metadata" /\ metareport[t] >= MetadataInterval
    /\ metareport' = [metareport EXCEPT ![t] = 0]
    /\ Goto(t, "metadataWait")
    /\ UNCHANGED <<ret, refresh, reply, reg, stable, lost>>

(* A command returns.  Only a broken exchange and ERR_FAILED give FALSE.   *)
Return(t) ==
    /\ pc[t] \in WaitPcs
    /\ reply[t] # "waiting"
    /\ ret' = [ret EXCEPT ![t] = reply[t] \notin {"cut", "ERR_FAILED"}]
    /\ reply' = [reply EXCEPT ![t] = "waiting"]
    /\ refresh' = [refresh EXCEPT ![t] = IF pc[t] = "refreshWait" THEN 0 ELSE @]
    /\ Goto(t, CASE pc[t] = "heartbeatWait" -> "alive"
                 [] pc[t] = "refreshWait"   -> "metadata"
                 [] OTHER                   -> "sleep")
    /\ UNCHANGED <<metareport, reg, stable, lost>>

(* sleep(1) ends a round.                                                  *)
Sleep(t) ==
    /\ pc[t] = "sleep"
    /\ Goto(t, "top")
    /\ lost' = [lost EXCEPT ![t] = IF ~ stable \/ reg THEN 0
                                   ELSE IF @ < LostCap THEN @ + 1 ELSE @]
    /\ UNCHANGED <<ret, refresh, metareport, reply, reg, stable>>
------------------------------------------------------------------------------
(* The manager, as far as the client can tell, and the network.            *)

(* It answers a command; only a heartbeat it accepts registers the machine. *)
Process(t) ==
    /\ pc[t] \in WaitPcs
    /\ reply[t] = "waiting"
    /\ \E c \in IF stable THEN {"ERR_NONE"} ELSE Codes :
          /\ reply' = [reply EXCEPT ![t] = c]
          /\ IF pc[t] \in HeartbeatPcs /\ c = "ERR_NONE"
             THEN reg' = TRUE /\ lost' = [u \in Alive |-> 0]
             ELSE UNCHANGED <<reg, lost>>
    /\ UNCHANGED <<pc, ret, refresh, metareport, stable>>

(* The connection breaks, before or after the manager has acted.           *)
Disconnect(t) ==
    /\ ~ stable
    /\ pc[t] \in WaitPcs
    /\ reply' = [reply EXCEPT ![t] = "cut"]
    /\ UNCHANGED <<pc, ret, refresh, metareport, reg, stable, lost>>

(* It restarts without its registry.                                       *)
Forget ==
    /\ ~ stable
    /\ reg' = FALSE
    /\ UNCHANGED <<pc, ret, refresh, metareport, reply, stable, lost>>

(* From here on nothing fails any more.                                    *)
Settle ==
    /\ ~ stable
    /\ stable' = TRUE
    /\ lost' = [t \in Alive |-> 0]
    /\ UNCHANGED <<pc, ret, refresh, metareport, reply, reg>>
------------------------------------------------------------------------------
Step(t) ==
    \/ Heartbeat(t)
    \/ AliveReport(t)
    \/ CountRefresh(t)
    \/ Refresh(t)
    \/ CountMetadata(t)
    \/ Metadata(t)
    \/ Return(t)
    \/ Sleep(t)

Next ==
    \/ \E t \in Alive : Step(t) \/ Process(t) \/ Disconnect(t)
    \/ Forget
    \/ Settle

(* Every thread keeps running, and once things have settled every request  *)
(* gets its answer.  Before that an exchange may hang for as long as it    *)
(* likes: ReceivePacket() has no timeout.                                  *)
Fairness ==
    \A t \in Alive : WF_vars(Step(t)) /\ WF_vars(stable /\ Process(t))

Spec == Init /\ [][Next]_vars /\ Fairness
------------------------------------------------------------------------------
(* A registration that is lost, or was never made, while ret says TRUE is  *)
(* noticed by the next refresh: no thread ends more than RefreshInterval+1 *)
(* rounds in a time without failures without the machine being registered  *)
(* again, whatever the metadata report has stored in ret meanwhile.        *)
RecoveryBound == \A t \in Alive : lost[t] <= RefreshInterval + 1

(* Why: rounds without a registration are counted by refresh as well, and  *)
(* a heartbeat sent after the first of them registers the machine.         *)
LostIsCounted ==
    \A t \in Alive :
        /\ lost[t] > 0 => stable /\ ~ reg
        /\ lost[t] > 0 /\ pc[t] \in HeartbeatPcs => reply[t] = "waiting"
        /\ pc[t] \notin WaitPcs => reply[t] = "waiting"
        /\ lost[t] <= refresh[t] + 1
        /\ pc[t] \in {"metadata", "metadataWait", "sleep"} => lost[t] <= refresh[t]

(* Once nothing fails any more the machine gets registered and every       *)
(* thread of the pool stops repeating its heartbeat.                       *)
Settles == <>stable => <>[](reg /\ \A t \in Alive : ret[t])
==============================================================================
