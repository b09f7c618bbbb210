--------------------------------- MODULE Boot ---------------------------------
(***************************************************************************)
(* main (main.cpp) from the configuration to the idle loop, and what its   *)
(* threads read of it.  main fills ConnInfo, on its stack, from the        *)
(* metadata service and the address service, each asked once, and gives    *)
(* every alive thread a pointer to it.  A member of ConnInfo whose value   *)
(* did not come is never assigned; commands send whatever it points to.    *)
(* Texts are copied into arrays of a fixed size without a look at their    *)
(* length, by main and by the commands.                                    *)
(*                                                                         *)
(* The configuration is read as in ConfigFile, the services answer as get  *)
(* of RestClient does, and a command is sent as in Descriptors.            *)
(***************************************************************************)
EXTENDS Integers

CONSTANT PoolSizes      \* values of PROCESS_POOL_SIZE

ASSUME PoolAssumption == PoolSizes \subseteq Int

(* Members of ConnInfo that the services fill.                             *)
Metadata == {"uuid", "availability_zone", "host", "metaname"}
Members  == Metadata \cup {"external_ip"}

(* Those each command sends.                                               *)
Sends == [heartbeat |-> Members, alive |-> {"metaname", "uuid"}, metadata |-> {"uuid"}]

VARIABLES
    pc,         \* where main is
    pool,       \* PROCESS_POOL_SIZE
    i,          \* threads of the pool created so far
    assigned,   \* members of conninfo that have been assigned
    clean,      \* clean_thread runs
    alive,      \* numbers of the alive threads that run
    report,     \* report_perf_thread runs
    answered,   \* history: members the services had when they were asked
    misfit,     \* history: something copied did not fit where it was copied to
    junk        \* history: members that were sent without a value

threads == <<clean, alive, report>>
vars    == <<pc, pool, i, assigned, threads, answered, misfit, junk>>

Steps == {"log", "perf", "semaphore", "metadata", "address", "clean", "pool",
          "report", "running"}
Ended == {"exited", "crashed"}

TypeOK ==
    /\ pc \in Steps \cup Ended
    /\ pool \in PoolSizes /\ i \in Nat
    /\ assigned \subseteq Members /\ answered \subseteq Members
    /\ clean \in BOOLEAN /\ report \in BOOLEAN
    /\ alive \subseteq 1 .. pool
    /\ misfit \in BOOLEAN
    /\ junk \subseteq Members

Init ==
    /\ pc = "log"
    /\ pool \in PoolSizes /\ i = 0
    /\ assigned = {} /\ answered = {} /\ junk = {}
    /\ misfit = FALSE
    /\ clean = FALSE /\ alive = {} /\ report = FALSE

(* Faulty variants of definitions below; no specification uses them.       *)

(* The address is asked for when the threads are running.                  *)
AfterThreadsFirst(step) ==
    [log |-> "perf", perf |-> "semaphore", semaphore |-> "metadata", metadata |-> "clean",
     clean |-> "pool", pool |-> "report", report |-> "address", address |-> "running"][step]

(* What main does next.                                                    *)
After(step) ==
    [log |-> "perf", perf |-> "semaphore", semaphore |-> "metadata", metadata |-> "address",
     address |-> "clean", clean |-> "pool", pool |-> "report", report |-> "running"][step]

Goto(step) == pc = step /\ pc' = After(step)

(* What a document can have for a member: nothing, an empty text, one that *)
(* is shorter than the array it is copied to (uuid[128], and 32 bytes for  *)
(* each of the others), one that is not, or a value that is no text.       *)
Values == {"missing", "empty", "text", "long", "other"}

(* It returns FALSE for a key that is missing, and TRUE for an empty text. *)
(* The length of the text is all that limits what it copies.               *)
ReadValueString(doc, key) == doc[key] # "missing"

(* InitLog and CPerfInfo::Init, whose results main does not look at.       *)
InitModules ==
    /\ Goto("log") \/ Goto("perf")
    /\ UNCHANGED <<pool, i, assigned, threads, answered, misfit, junk>>

InitSemaphore ==
    /\ pc = "semaphore"
    /\ pc' \in {After(pc), "exited"}
    /\ UNCHANGED <<pool, i, assigned, threads, answered, misfit, junk>>

(* Nothing may come from the service, or a document without some members,  *)
(* or the beginning of one.  A member that is no text ends the process     *)
(* (JsonDocument).  One that is too long overwrites what lies behind its   *)
(* array on main's stack: the process may crash, or go on without a value  *)
(* it had.                                                                 *)
FetchMetadata ==
    /\ pc = "metadata"
    /\ \E doc \in [Metadata -> Values] :
          LET got == {m \in Metadata : ReadValueString(doc, m)}
              Has(v) == \E m \in Metadata : doc[m] = v
          IN  /\ answered' = {m \in Metadata : doc[m] \in {"empty", "text", "long"}}
              /\ misfit' = Has("long")
              /\ \/ /\ ~ Has("other")
                    /\ pc' = After(pc)
                    /\ assigned' \in IF Has("long") THEN SUBSET got ELSE {got}
                 \/ /\ Has("other") \/ Has("long")
                    /\ pc' = "crashed"
                    /\ UNCHANGED assigned
    /\ UNCHANGED <<pool, i, threads, junk>>

(* An empty answer is none; the copy is as long as the answer.             *)
FetchAddress ==
    /\ Goto("address")
    /\ \E body \in {"empty", "text"} :
          /\ assigned' = assigned \cup (IF body = "empty" THEN {} ELSE {"external_ip"})
          /\ answered' = answered \cup (IF body = "empty" THEN {} ELSE {"external_ip"})
    /\ UNCHANGED <<pool, i, threads, misfit, junk>>

CreateClean ==
    /\ Goto("clean")
    /\ clean' = TRUE
    /\ UNCHANGED <<pool, i, assigned, alive, report, answered, misfit, junk>>

(* One turn of the loop that creates the pool.                             *)
CreateAlive ==
    /\ pc = "pool"
    /\ IF i < pool
       THEN alive' = alive \cup {i + 1} /\ i' = i + 1 /\ UNCHANGED pc
       ELSE pc' = After(pc) /\ UNCHANGED <<alive, i>>
    /\ UNCHANGED <<pool, assigned, clean, report, answered, misfit, junk>>

(* pthread_create fails.                                                   *)
CreateFails(step) ==
    /\ pc = step /\ step \in {"clean", "pool"}
    /\ pc' = "exited"
    /\ clean' = FALSE /\ alive' = {} /\ report' = FALSE
    /\ UNCHANGED <<pool, i, assigned, answered, misfit, junk>>

(* main does not look whether there is a report thread.                    *)
CreateReport ==
    /\ Goto("report")
    /\ report' \in BOOLEAN
    /\ UNCHANGED <<pool, i, assigned, clean, alive, answered, misfit, junk>>

(* What a command puts together on its thread's stack: the heartbeat the   *)
(* names and addresses of the interfaces, in l_szclient_ips[256], the      *)
(* metadata report the body it has just been sent, in external_ip[64].  It *)
(* fits, or does not; an interface without an address and a failure of     *)
(* getifaddrs, which leave a pointer that must not be followed, count as   *)
(* not fitting.                                                            *)
Fits(c) == IF c = "alive" THEN {TRUE} ELSE BOOLEAN

(* A thread of the pool sends a command, from the moment it is created.  A *)
(* member without a value is undefined: the process may crash, or send     *)
(* what it finds.  So it may when something did not fit, and then any      *)
(* member may be sent wrong.                                               *)
Command(t, c) ==
    /\ t \in alive /\ pc \notin Ended
    /\ \E fits \in Fits(c) :
          LET bad  == Sends[c] \ assigned
              lost == IF fits THEN {} ELSE Sends[c]
          IN  /\ misfit' = (misfit \/ ~ fits)
              /\ \/ /\ \E more \in SUBSET lost : junk' = junk \cup bad \cup more
                    /\ UNCHANGED <<pc, threads>>
                 \/ /\ bad # {} \/ ~ fits
                    /\ pc' = "crashed"
                    /\ clean' = FALSE /\ alive' = {} /\ report' = FALSE
                    /\ UNCHANGED junk
    /\ UNCHANGED <<pool, i, assigned, answered>>

Main ==
    \/ InitModules \/ InitSemaphore \/ FetchMetadata \/ FetchAddress
    \/ CreateClean \/ CreateAlive \/ CreateReport

Next ==
    \/ Main
    \/ \E step \in Steps : CreateFails(step)
    \/ \E t \in alive : \E c \in DOMAIN Sends : Command(t, c)

Spec == Init /\ [][Next]_vars
------------------------------------------------------------------------------
(* As long as everything fits where it is copied to, what a command sends  *)
(* without a value is a member the services did not have when the program  *)
(* started, and if they had them all the program does not crash: however   *)
(* early a thread begins to send, main has asked before.                   *)
Explained ==
    /\ junk \cap answered # {} => misfit
    /\ pc = "crashed" => answered # Members \/ misfit

(* main idles only with the whole pool and the clean thread at work.       *)
WholePool == pc = "running" => clean /\ alive = 1 .. pool
==============================================================================
