----------------------------- MODULE ServiceStart -----------------------------
(***************************************************************************)
(* main of the HTTP service (inc/http/mainapp.cpp) after its configuration *)
(* has been read (ConfigFile): the command line, which CSvcApp of INNOLIB  *)
(* may turn into a fork or two, the descriptor limit, the database with    *)
(* its retries, the threads, and the daemon whose callbacks are            *)
(* HttpService.  The module follows one process; of a process it has left  *)
(* behind it knows only that there is one.                                 *)
(* The threads' sources are not in the repository; that they need the      *)
(* database, the lock and the semaphore follows from what main passes and  *)
(* initialises for them.                                                   *)
(***************************************************************************)
EXTENDS Integers

CONSTANTS
    MaxTry,     \* attempts to open the database (100 in the code)
    PoolSizes   \* values of APNS_POOL_SIZE

VARIABLES
    pc,         \* where main is
    try,        \* the loop counter i of the database
    db,         \* the pool of connections
    sync,       \* g_ApnsPoolLock and g_ApnsPoolSemaphore, once initialised
    pool,       \* APNS_POOL_SIZE
    threads,    \* apns_pool_threads created
    others,     \* apns_thread and message_clean_thread, once created
    daemon,     \* the daemon serves
    streams,    \* stdin, stdout and stderr are open
    told,       \* history: the failure main ends for has been written to stderr
    stop,       \* m_bStop: SIGTERM has come
    behind      \* what this process has put in its place

vars == <<pc, try, db, sync, pool, threads, others, daemon, streams, told, stop,
          behind>>

Steps == {"command", "watchdog", "watching", "limit", "db", "retry", "lock",
          "semaphore", "pool", "apns", "clean", "daemon", "streams", "running"}

(* A child that runs, one that has ended normally, another program.        *)
Places == {"nothing", "child", "ended", "program"}

Pools == {"none", "partial", "open"}    \* partial: Init failed on the way

TypeOK ==
    /\ pc \in Steps \cup {"exited"}
    /\ try \in 0 .. MaxTry - 1
    /\ db \in Pools
    /\ sync \subseteq {"lock", "semaphore"}
    /\ pool \in PoolSizes /\ threads \in Nat
    /\ others \subseteq {"apns", "clean"}
    /\ daemon \in BOOLEAN /\ streams \in BOOLEAN /\ told \in BOOLEAN
    /\ stop \in BOOLEAN /\ behind \in Places

Init ==
    /\ pc = "command" /\ try = 0 /\ db = "none" /\ sync = {}
    /\ pool \in PoolSizes /\ threads = 0 /\ others = {}
    /\ daemon = FALSE /\ streams = TRUE /\ told = FALSE
    /\ stop = FALSE /\ behind = "nothing"

(* Faulty variants of definitions below; no specification uses them.       *)

(* The threads come before what they share.                                *)
AfterThreadsFirst(step) ==
    [command |-> "limit", watchdog |-> "limit", limit |-> "pool", pool |-> "apns",
     apns |-> "clean", clean |-> "db", db |-> "lock", lock |-> "semaphore",
     semaphore |-> "daemon", daemon |-> "streams", streams |-> "running"][step]

After(step) ==
    [command |-> "limit", watchdog |-> "limit", limit |-> "db", db |-> "lock",
     lock |-> "semaphore", semaphore |-> "pool", pool |-> "apns", apns |-> "clean",
     clean |-> "daemon", daemon |-> "streams", streams |-> "running"][step]

Goto(step) == pc = step /\ pc' = After(step)

(* exit() ends every thread; the message before it needs an open stderr.   *)
Exit ==
    /\ pc' = "exited"
    /\ threads' = 0 /\ others' = {} /\ daemon' = FALSE
    /\ told' = streams

(* ProcessCommand returns, whatever it has done: main does not look at its *)
(* result.  It has started this process as a service without a watchdog,   *)
(* found one that is already running, or done something else.              *)
ProcessCommand ==
    /\ Goto("command")
    /\ UNCHANGED <<try, db, sync, pool, threads, others, daemon, streams,
                   told, stop, behind>>

(* The process ends without a word.                                        *)
LeaveTo(place) ==
    /\ pc' = "exited"
    /\ behind' = place
    /\ UNCHANGED <<try, db, sync, pool, threads, others, daemon, streams,
                   told, stop>>

(* DoService: the parent ends by _exit(0), the child is the service, and   *)
(* with m_bUseWatchDog forks once more.                                    *)
DoService ==
    /\ pc = "command"
    /\ \/ LeaveTo("child")
       \/ /\ pc' = "watchdog"
          /\ UNCHANGED <<try, db, sync, pool, threads, others, daemon, streams, told,
                         stop, behind>>

(* execl: of the new program in Upgrading and DoUpgrade.                   *)
Upgrading == pc \in {"command", "watching"} /\ LeaveTo("program")

(* Faulty variant of the next definition: the parent goes on as well.      *)
WatchDogGoesOn ==
    /\ pc = "watchdog"
    /\ pc' = After(pc)
    /\ behind' \in {"nothing", "child"}
    /\ UNCHANGED <<try, db, sync, pool, threads, others, daemon, streams,
                   told, stop>>

(* fork() in WatchDog.  The child, and the parent if there is none, goes   *)
(* on in main; the parent waits, unless it has been told to stop.          *)
WatchDog ==
    /\ pc = "watchdog"
    /\ \/ behind' = "nothing" /\ pc' = After(pc)
       \/ behind' = "child" /\ pc' = IF stop THEN After(pc) ELSE "watching"
    /\ UNCHANGED <<try, db, sync, pool, threads, others, daemon, streams,
                   told, stop>>

(* waitpid() has the child.  Status 0 ends the watchdog too; after any     *)
(* other, and a failed upgrade, it forks again.  The wait does not look at *)
(* m_bStop.                                                                *)
ChildEnds ==
    /\ pc = "watching"
    /\ \/ LeaveTo("ended")
       \/ /\ pc' = "watchdog"
          /\ behind' = "nothing"
          /\ UNCHANGED <<try, db, sync, pool, threads, others, daemon, streams, told,
                         stop>>

(* signal_handler; outside the watchdog nobody looks at m_bStop.           *)
Terminate ==
    /\ pc \in {"watchdog", "watching"} /\ ~ stop
    /\ stop' = TRUE
    /\ UNCHANGED <<pc, try, db, sync, pool, threads, others, daemon, streams,
                   told, behind>>

(* InitLog and setrlimit.                                                  *)
SetLimit ==
    /\ Goto("limit")
    /\ UNCHANGED <<try, db, sync, pool, threads, others, daemon, streams,
                   told, stop, behind>>

GiveUp == try = MaxTry - 1

(* CDatabase::Init, with a result that may be FALSE.                       *)
OpenDb ==
    /\ Goto("db")
    /\ db' = "open"
    /\ UNCHANGED <<try, sync, pool, threads, others, daemon, streams, told,
                   stop, behind>>

OpenDbFails ==
    /\ pc = "db" /\ ~ GiveUp
    /\ pc' = "retry"
    /\ db' \in {"none", "partial"}
    /\ UNCHANGED <<try, sync, pool, threads, others, daemon, streams, told,
                   stop, behind>>

LastAttemptFails ==
    /\ pc = "db" /\ GiveUp
    /\ db' \in {"none", "partial"}
    /\ Exit
    /\ UNCHANGED <<try, sync, pool, streams, stop, behind>>

(* CDatabase::Destroy and sleep.                                           *)
Destroy ==
    /\ pc = "retry" /\ pc' = "db" /\ try' = try + 1
    /\ db' = "none"
    /\ UNCHANGED <<sync, pool, threads, others, daemon, streams, told, stop,
                   behind>>

(* pthread_mutex_init and sem_init.                                        *)
InitSync(s) ==
    /\ Goto(s)
    /\ sync' = sync \cup {s}
    /\ UNCHANGED <<try, db, pool, threads, others, daemon, streams, told,
                   stop, behind>>

(* One turn of the loop that creates the pool.                             *)
CreatePool ==
    /\ pc = "pool"
    /\ IF threads < pool THEN threads' = threads + 1 /\ UNCHANGED pc
       ELSE pc' = After(pc) /\ UNCHANGED threads
    /\ UNCHANGED <<try, db, sync, pool, others, daemon, streams, told, stop,
                   behind>>

CreateThread(t) ==
    /\ Goto(t)
    /\ others' = others \cup {t}
    /\ UNCHANGED <<try, db, sync, pool, threads, daemon, streams, told, stop,
                   behind>>

StartDaemon ==
    /\ Goto("daemon")
    /\ daemon' = TRUE
    /\ UNCHANGED <<try, db, sync, pool, threads, others, streams, told, stop,
                   behind>>

(* Any of these calls may fail; main then says so and exits.               *)
Fails ==
    /\ pc \in {"command", "limit", "lock", "semaphore", "pool", "apns", "clean", "daemon"}
    /\ pc = "pool" => threads < pool
    /\ Exit
    /\ UNCHANGED <<try, db, sync, pool, streams, stop, behind>>

CloseStreams ==
    /\ Goto("streams")
    /\ streams' = FALSE
    /\ UNCHANGED <<try, db, sync, pool, threads, others, daemon, told, stop,
                   behind>>

Launch == ProcessCommand \/ DoService \/ Upgrading \/ WatchDog \/ ChildEnds \/ Terminate

Next ==
    \/ Launch
    \/ SetLimit \/ OpenDb \/ OpenDbFails \/ LastAttemptFails \/ Destroy
    \/ InitSync("lock") \/ InitSync("semaphore")
    \/ CreatePool \/ CreateThread("apns") \/ CreateThread("clean")
    \/ StartDaemon \/ Fails \/ CloseStreams

Spec == Init /\ [][Next]_vars
------------------------------------------------------------------------------
(* No thread runs, and no request is served, before the database is open   *)
(* and the lock and the semaphore can be used.                             *)
Prepared ==
    threads > 0 \/ others # {} \/ daemon => db = "open" /\ sync = {"lock", "semaphore"}

(* The pool of connections is opened from nothing at every attempt, also   *)
(* after one that failed half-way.                                         *)
FreshPool == pc = "db" => db = "none"

(* The process ends with a word on stderr, or has put another in its place *)
(* or seen it end normally.                                                *)
Told == pc = "exited" => told \/ behind # "nothing"

(* A process that goes on to be the service has no child that does so too. *)
(* A watchdog told to stop while its child is being replaced is the        *)
(* exception: it forks, then looks, and goes on next to the child.         *)
Alone == pc \notin {"watching", "exited"} /\ behind = "child" => stop

(* When main idles everything is at work.                                  *)
Complete ==
    pc = "running" =>
        /\ daemon /\ others = {"apns", "clean"} /\ db = "open"
        /\ threads >= pool /\ (threads > 0 => threads = pool)
==============================================================================
