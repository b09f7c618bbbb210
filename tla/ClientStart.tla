------------------------------ MODULE ClientStart ------------------------------
(***************************************************************************)
(* The start of the client program (main.cpp): main reads the              *)
(* configuration, as in ConfigFile, and with what it found there goes on   *)
(* as in Boot.  The number of alive threads is the fifth setting; until it *)
(* is read, PROCESS_POOL_SIZE is a global variable without initialiser.    *)
(***************************************************************************)
EXTENDS Boot, Sequences

CONSTANT Files      \* the configuration files, as in ConfigFile

VARIABLES format, file, at, confcount, settings, done   \* those of ConfigFile

Config == INSTANCE ConfigFile

ASSUME FilesAssumption == Files \subseteq Seq(Config!Lines)

config    == <<format, file, at, confcount, settings, done>>
startVars == <<vars, config>>

PoolSetting == 5

StartInit ==
    /\ Init /\ pool = 0
    /\ Config!Init /\ format = Config!Client

(* fopen fails.                                                            *)
NoFile ==
    /\ pc = "log" /\ ~ done /\ confcount = 0 /\ at = 1
    /\ pc' = "exited"
    /\ UNCHANGED <<pool, i, assigned, threads, answered, misfit, junk, config>>

(* Faulty variant of the next definition: the pool's size is taken from    *)
(* the third line, the port.                                               *)
ReadPoolFromPort ==
    /\ pool' \in IF settings'[3] # settings[3] THEN PoolSizes ELSE {pool}
    /\ UNCHANGED <<pc, i, assigned, threads, answered, misfit, junk>>

(* Any number may stand there.                                             *)
ReadPool ==
    /\ pool' \in IF settings'[PoolSetting] # settings[PoolSetting] THEN PoolSizes ELSE {pool}
    /\ UNCHANGED <<pc, i, assigned, threads, answered, misfit, junk>>

ReadSettings ==
    /\ pc = "log"
    /\ Config!ReadLine \/ Config!Stop
    /\ ReadPool

Start == done /\ Next /\ UNCHANGED config

StartNext == NoFile \/ ReadSettings \/ Start

StartSpec == StartInit /\ [][StartNext]_startVars
------------------------------------------------------------------------------
(* When main idles, the clean thread and the whole pool are at work, and   *)
(* the pool is as large as the number in the fifth place of the file says: *)
(* a file that is displaced or cut short leaves a client that runs, writes *)
(* its log and registers nothing.                                          *)
PoolAsConfigured ==
    /\ TypeOK /\ Config!TypeOK
    /\ WholePool
    /\ alive # {} => settings[PoolSetting] # Config!Unset

(* ConfigFile: which line of the file each setting comes from.             *)
ByPosition == Config!ByPosition
==============================================================================
