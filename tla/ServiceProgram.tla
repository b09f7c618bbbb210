---------------------------- MODULE ServiceProgram ----------------------------
(***************************************************************************)
(* The HTTP service (inc/http/mainapp.cpp and http_service.cpp): main      *)
(* reads its configuration (ConfigFile), starts what the callbacks need    *)
(* (ServiceStart), and from the moment the daemon runs the callbacks serve *)
(* a connection (HttpService), while main goes on.                         *)
(***************************************************************************)
EXTENDS HttpService, Integers

CONSTANTS
    MaxTry,     \* attempts to open the database (100 in the code)
    PoolSizes,  \* values of APNS_POOL_SIZE
    Files       \* the configuration files, as in ConfigFile

ASSUME TryAssumption  == MaxTry \in Nat \ {0}
ASSUME PoolAssumption == PoolSizes \subseteq Int

VARIABLES
    pc, try, db, sync, pool, threads, others, daemon, streams, told, stop, behind,
                                                                        \* ServiceStart
    format, file, at, confcount, settings, done                         \* ConfigFile

Start  == INSTANCE ServiceStart
Config == INSTANCE ConfigFile

ASSUME FilesAssumption == Files \subseteq Seq(Config!Lines)

start  == <<pc, try, db, sync, pool, threads, others, daemon, streams, told, stop, behind>>
config == <<format, file, at, confcount, settings, done>>
all    == <<vars, start, config>>

PoolSetting == 8

ProgramInit ==
    /\ Init
    /\ Start!Init /\ pool = 0
    /\ Config!Init /\ format = Config!Service

(* fopen fails; the message goes to stderr.                                *)
NoFile ==
    /\ pc = "command" /\ ~ done /\ confcount = 0 /\ at = 1
    /\ Start!Exit
    /\ UNCHANGED <<try, db, sync, pool, streams, stop, behind, vars, config>>

ReadSettings ==
    /\ pc = "command"
    /\ Config!ReadLine \/ Config!Stop
    /\ pool' \in IF settings'[PoolSetting] # settings[PoolSetting] THEN PoolSizes ELSE {pool}
    /\ UNCHANGED <<pc, try, db, sync, threads, others, daemon, streams, told, stop, behind,
                   vars>>

Starting == done /\ Start!Next /\ UNCHANGED <<vars, config>>

(* Somebody can connect only when the daemon runs.                         *)
Serving(action) == daemon /\ action /\ UNCHANGED <<start, config>>

ProgramNext == NoFile \/ ReadSettings \/ Starting \/ Serving(Next)

(* The thread of the connection goes on; the client need not.              *)
ProgramSpec ==
    /\ ProgramInit /\ [][ProgramNext]_all
    /\ WF_all(Serving(Handler)) /\ WF_all(Serving(Completed))
------------------------------------------------------------------------------
(* Nothing runs before what it needs: no thread, and no call of a          *)
(* callback, before the database is open and the lock and the semaphore    *)
(* can be used; there are as many threads as the configuration says, and   *)
(* all of them when main idles; the process does not end without a word on *)
(* stderr, which it closes, unless it leaves its place to another; and no  *)
(* process is the service next to its own child but a watchdog that is     *)
(* told to stop between two children.                                      *)
StartInOrder ==
    /\ TypeOK /\ Start!TypeOK /\ Config!TypeOK
    /\ Start!Prepared /\ Start!FreshPool /\ Start!Complete /\ Start!Told /\ Start!Alone
    /\ requests > 0 => db = "open" /\ sync = {"lock", "semaphore"}
    /\ threads > 0 => settings[PoolSetting] # Config!Unset

(* A complete request is answered, or its connection closed, without any   *)
(* help from the client.                                                   *)
Served == state = "footers" ~> state \in {"reply", "sent", "closed"}
==============================================================================
