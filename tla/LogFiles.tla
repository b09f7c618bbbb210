------------------------------- MODULE LogFiles -------------------------------
(***************************************************************************)
(* How long log files live (MiscUtil.cpp, main_clean.cpp).  Any thread     *)
(* appends a line to the INFO file of the hour or the ERROR file of the    *)
(* day, without the lock that is commented out; clean_thread deletes old   *)
(* files every hour, and InitLog very old ones at start.  A thread takes   *)
(* the time first, then opens the file it names, then writes.              *)
(*                                                                         *)
(* Files have nothing to do with each other but for the scan that visits   *)
(* them, so one file and one of its lines are followed, any of them.  Time *)
(* is counted in hours.                                                    *)
(***************************************************************************)
EXTENDS Integers

CONSTANTS
    Writers,        \* threads that write to the log
    Day,            \* hours of a day (24)
    Keep,           \* age in hours from which ClearOldLog deletes (5 * 24)
    KeepAtStart,    \* age from which InitLog deletes (30 * 24)
    Pause,          \* bound: hours a call of a log function may last
    MaxTime         \* bound of the clock

Period == 1         \* clean_thread sleeps 3600 seconds

ASSUME DayAssumption   == Day \in Nat \ {0}
ASSUME KeepAssumption  == Keep \in Nat /\ KeepAtStart \in Nat /\ Keep <= KeepAtStart
ASSUME PauseAssumption == Pause \in Nat /\ Day + Pause <= Keep
ASSUME TimeAssumption  == MaxTime \in Nat

Time   == 0 .. MaxTime
Absent == -1
Kinds  == {"INFO", "ERROR"}

(* INFO_<hour> and ERROR_<day>, by the first hour they are for.            *)
Names == [kind : Kinds, from : Time]

(* The followed line has not been written yet, is in the file, or has gone *)
(* with a file that the program or somebody else has unlinked.             *)
Fates == {"unwritten", "stored", "deleted", "removed"}

VARIABLES
    now,        \* the clock
    slash,      \* m_strLogPath ends in '/', as the path of a directory
    mode,       \* "down", in InitLog ("start"), or with threads ("run")
    file,       \* the name of the followed file
    mtime,      \* when the file was last written, Absent if there is none
    pc,         \* where each writer is in a call that writes to the file
    since,      \* when it took the time
    goes,       \* the fate of a line written to the file it has open
    scan,       \* what the thread that deletes does
    the_time,   \* the_time of its scan
    seen,       \* the scan has returned the file, or will not
    wake,       \* when clean_thread wakes
    line,       \* the fate of the followed line, and when it was written
    behind      \* history: no scan has been completed since start-up, or the
                \* last one was abandoned

disk    == <<mtime, line>>
writers == <<pc, since, goes>>
cleaner == <<scan, the_time, seen, wake, behind>>
vars    == <<now, slash, mode, file, disk, writers, cleaner>>

TypeOK ==
    /\ now \in Time /\ slash \in BOOLEAN
    /\ mode \in {"down", "start", "run"}
    /\ file \in Names /\ mtime \in Time \cup {Absent}
    /\ pc \in [Writers -> {"idle", "named", "open"}]
    /\ since \in [Writers -> Time]
    /\ goes \in [Writers -> Fates \ {"unwritten"}]
    /\ scan \in {"none", "read", "unlink"}
    /\ the_time \in Time /\ wake \in 0 .. MaxTime + Period
    /\ seen \in BOOLEAN /\ behind \in BOOLEAN
    /\ line \in [fate : Fates, at : Time]

NameOf(kind, t) ==
    [kind |-> kind, from |-> IF kind = "INFO" THEN t ELSE t - (t % Day)]

Init ==
    /\ now = 0 /\ slash \in BOOLEAN /\ mode = "down"
    /\ file \in {NameOf(kind, t) : kind \in Kinds, t \in Time}
    /\ mtime = Absent /\ line = [fate |-> "unwritten", at |-> 0]
    /\ pc = [w \in Writers |-> "idle"]
    /\ since = [w \in Writers |-> 0]
    /\ goes = [w \in Writers |-> "stored"]
    /\ scan = "none" /\ the_time = 0 /\ wake = 0 /\ seen = TRUE
    /\ behind = TRUE

(* Faulty variants of definitions below; no specification uses them.       *)

(* The age of a file is that of its name.                                  *)
OldByName == file.from < the_time - (IF mode = "start" THEN KeepAtStart ELSE Keep)

(* The limit of start-up is used later, too.                               *)
OldAsAtStart == mtime < the_time - KeepAtStart

(* Old enough to delete, for the scan that runs.                           *)
Old == mtime < the_time - (IF mode = "start" THEN KeepAtStart ELSE Keep)
------------------------------------------------------------------------------
(* WriteLog and WriteErrorLog.                                             *)

(* time() and localtime_r().                                               *)
Begin(w) ==
    /\ mode = "run" /\ pc[w] = "idle"
    /\ \E kind \in Kinds : NameOf(kind, now) = file
    /\ pc' = [pc EXCEPT ![w] = "named"]
    /\ since' = [since EXCEPT ![w] = now]
    /\ UNCHANGED <<now, slash, mode, file, disk, goes, cleaner>>

(* fopen(path, "a+") creates the file if there is none.                    *)
OpenFile(w) ==
    /\ pc[w] = "named"
    /\ pc' = [pc EXCEPT ![w] = "open"]
    /\ mtime' = IF mtime = Absent THEN now ELSE mtime
    /\ UNCHANGED <<now, slash, mode, file, line, since, goes, cleaner>>

OpenFails(w) ==
    /\ pc[w] = "named"
    /\ pc' = [pc EXCEPT ![w] = "idle"]
    /\ UNCHANGED <<now, slash, mode, file, disk, since, goes, cleaner>>

(* fclose writes the line to the end of the file that was opened, even if  *)
(* that has lost its name.                                                 *)
Write(w) ==
    /\ pc[w] = "open"
    /\ pc' = [pc EXCEPT ![w] = "idle"]
    /\ goes' = [goes EXCEPT ![w] = "stored"]
    /\ mtime' = IF goes[w] = "stored" THEN now ELSE mtime
    /\ \/ UNCHANGED line
       \/ /\ line.fate = "unwritten"
          /\ line' = [fate |-> goes[w], at |-> now]
    /\ UNCHANGED <<now, slash, mode, file, since, cleaner>>
------------------------------------------------------------------------------
(* InitLog and ClearOldLog.                                                *)

(* The file loses its name: whoever has it open writes to no file any      *)
(* more.                                                                   *)
Unlink(fate) ==
    /\ mtime' = Absent
    /\ goes' = [w \in Writers |-> IF pc[w] = "open" /\ goes[w] = "stored"
                                  THEN fate ELSE goes[w]]
    /\ line' = IF line.fate = "stored" THEN [line EXCEPT !.fate = fate] ELSE line

(* Back in main, which goes on to start the threads, or in clean_thread.   *)
Leave(complete) ==
    /\ scan' = "none" /\ seen' = TRUE
    /\ mode' = "run"
    /\ wake' = IF mode = "start" THEN now ELSE now + Period
    /\ behind' = (mode = "start" \/ ~ complete)

Due == scan = "none" /\ (mode = "start" \/ (mode = "run" /\ wake <= now))

(* opendir and time.  A path without '/' names a directory next to the one *)
(* that the log files are in.                                              *)
OpenDir ==
    /\ Due
    /\ scan' = "read"
    /\ the_time' = now
    /\ seen' = (~ slash \/ mtime = Absent)
    /\ UNCHANGED <<now, slash, mode, file, disk, writers, wake, behind>>

OpenDirFails ==
    /\ Due
    /\ Leave(FALSE)
    /\ UNCHANGED <<now, slash, file, disk, writers, the_time>>

(* readdir and lstat of the file, unless somebody has removed it.          *)
Examine ==
    /\ scan = "read" /\ ~ seen
    /\ seen' = TRUE
    /\ scan' = IF mtime # Absent /\ Old THEN "unlink" ELSE "read"
    /\ UNCHANGED <<now, slash, mode, file, disk, writers, the_time, wake, behind>>

(* Somebody has removed this file or another between readdir and lstat.    *)
LstatFails ==
    /\ scan = "read"
    /\ Leave(FALSE)
    /\ UNCHANGED <<now, slash, file, disk, writers, the_time>>

UnlinkFile ==
    /\ scan = "unlink"
    /\ scan' = "read"
    /\ Unlink("deleted")
    /\ UNCHANGED <<now, slash, mode, file, pc, since, the_time, seen, wake, behind>>

EndOfDir ==
    /\ scan = "read" /\ seen
    /\ Leave(TRUE)
    /\ UNCHANGED <<now, slash, file, disk, writers, the_time>>
------------------------------------------------------------------------------
(* The process starts and stops; its threads stop with it.                 *)
Start ==
    /\ mode = "down"
    /\ mode' = "start" /\ behind' = TRUE
    /\ UNCHANGED <<now, slash, file, disk, writers, scan, the_time, seen, wake>>

Crash ==
    /\ mode # "down"
    /\ mode' = "down" /\ scan' = "none" /\ seen' = TRUE
    /\ pc' = [w \in Writers |-> "idle"]
    /\ goes' = [w \in Writers |-> "stored"]
    /\ UNCHANGED <<now, slash, file, disk, since, the_time, wake, behind>>

(* Somebody else removes the file.                                         *)
Remove ==
    /\ mtime # Absent
    /\ Unlink("removed")
    /\ UNCHANGED <<now, slash, mode, file, pc, since, cleaner>>

(* An hour passes.  No call of a log function lasts longer than Pause, and *)
(* clean_thread wakes in time.                                             *)
Tick ==
    /\ now < MaxTime
    /\ \A w \in Writers : pc[w] # "idle" => now - since[w] < Pause
    /\ scan # "none" => now - the_time < Pause
    /\ ~ Due
    /\ now' = now + 1
    /\ UNCHANGED <<slash, mode, file, disk, writers, cleaner>>

Log(w) == Begin(w) \/ OpenFile(w) \/ OpenFails(w) \/ Write(w)

Scan == OpenDir \/ OpenDirFails \/ Examine \/ LstatFails \/ UnlinkFile \/ EndOfDir

Next == (\E w \in Writers : Log(w)) \/ Scan \/ Start \/ Crash \/ Remove \/ Tick

Spec == Init /\ [][Next]_vars
------------------------------------------------------------------------------
(* The program deletes no line before it is Keep hours old, not even one   *)
(* that is being written while the file is being deleted: a file that can  *)
(* still be opened by its name is too young to be old.                     *)
Kept == line.fate = "deleted" => line.at < now - Keep

(* While clean_thread completes its scans no file is older than Keep and   *)
(* the time from one scan to the end of the next.  This needs a log path   *)
(* with '/' at its end.                                                    *)
Cleaned ==
    mode = "run" /\ ~ behind /\ slash =>
        mtime = Absent \/ mtime >= now - Keep - Period - 2 * Pause
==============================================================================
