---------------------------- MODULE LogFilesProofs ----------------------------
(* Proofs about the log files, for any retention and any number of         *)
(* threads.                                                                *)
EXTENDS LogFiles, TLAPS

(* A call of a log function took the time while the file's name was that   *)
(* of the hour or the day, and does not last longer than Pause.            *)
Recent ==
    \A w \in Writers : pc[w] # "idle" =>
        /\ since[w] <= now /\ now - since[w] <= Pause
        /\ file.from <= since[w] /\ since[w] < file.from + Day

(* The file is not older than its name, nor the line younger than the file. *)
Dated ==
    /\ mtime # Absent => file.from <= mtime /\ mtime <= now
    /\ line.fate = "stored" => mtime # Absent /\ line.at <= mtime

(* What is about to be unlinked is old, and too old to be written to.      *)
Doomed ==
    /\ the_time <= now
    /\ scan = "unlink" => mtime < the_time - Keep /\ file.from < the_time - Keep

(* No line is written to a file that the program has unlinked.             *)
Safe ==
    /\ \A w \in Writers : goes[w] # "deleted"
    /\ Kept

Bounds == Recent /\ Dated /\ Doomed

IInv == TypeOK /\ Bounds /\ Safe
------------------------------------------------------------------------------
(* Days have a beginning.                                                  *)
LEMMA DayBegins ==
    ASSUME NEW t \in Time
    PROVE  t - (t % Day) \in 0 .. t /\ t < t - (t % Day) + Day
<1>1. t \in Nat /\ Day \in Nat /\ Day > 0
  BY DayAssumption, TimeAssumption DEF Time
<1>2. t % Day \in 0 .. Day - 1
  BY <1>1
<1>3. t % Day <= t
  BY <1>1
<1> QED
  BY <1>1, <1>2, <1>3

(* Names begin at most a day before the time they are made from.           *)
LEMMA NameRange ==
    ASSUME NEW kind \in Kinds, NEW t \in Time
    PROVE  /\ NameOf(kind, t) \in Names
           /\ NameOf(kind, t).from <= t /\ t < NameOf(kind, t).from + Day
<1>1. t - (t % Day) \in 0 .. t /\ t < t - (t % Day) + Day
  BY DayBegins
<1>2. t \in Nat /\ Day \in Nat /\ Day > 0 /\ t \in 0 .. MaxTime /\ MaxTime \in Nat
  BY DayAssumption, TimeAssumption DEF Time
<1>3. t - (t % Day) \in Time
  BY <1>1, <1>2 DEF Time
<1> QED
  BY <1>1, <1>2, <1>3 DEF NameOf, Names, Time

(* The log starts empty.                                                   *)
LEMMA InitInv == Init => IInv
<1> SUFFICES ASSUME Init PROVE IInv
  OBVIOUS
<1>1. file \in Names
  BY NameRange DEF Init
<1>2. 0 \in Time /\ wake \in 0 .. MaxTime + Period
  BY TimeAssumption DEF Init, Time, Period
<1>3. slash \in BOOLEAN /\ seen \in BOOLEAN /\ behind \in BOOLEAN
  <2>1. slash \in BOOLEAN /\ seen = TRUE /\ behind = TRUE
    BY DEF Init
  <2> QED
    BY <2>1
<1>4. TypeOK
  <2>1. now \in Time /\ the_time \in Time /\ mtime \in Time \cup {Absent}
    BY <1>2 DEF Init
  <2>2. since \in [Writers -> Time] /\ line \in [fate : Fates, at : Time]
    BY <1>2 DEF Init, Fates
  <2>3. /\ pc \in [Writers -> {"idle", "named", "open"}]
        /\ goes \in [Writers -> Fates \ {"unwritten"}]
    BY DEF Init, Fates
  <2>4. mode \in {"down", "start", "run"} /\ scan \in {"none", "read", "unlink"}
    BY DEF Init
  <2> QED
    BY <1>1, <1>2, <1>3, <2>1, <2>2, <2>3, <2>4 DEF TypeOK
<1>5. Bounds
  BY <1>2 DEF Init, Bounds, Recent, Dated, Doomed, Time
<1>6. Safe
  BY DEF Init, Safe, Kept
<1> QED
  BY <1>4, <1>5, <1>6 DEF IInv

(* Leaving a scan keeps the types.                                         *)
LEMMA LeaveTypes ==
    ASSUME TypeOK, NEW complete \in BOOLEAN, Leave(complete)
    PROVE  /\ scan' = "none" /\ mode' = "run"
           /\ wake' \in 0 .. MaxTime + Period
           /\ seen' \in BOOLEAN /\ behind' \in BOOLEAN
<1>1. now \in 0 .. MaxTime /\ MaxTime \in Nat
  BY TimeAssumption DEF TypeOK, Time
<1>2. now \in 0 .. MaxTime + Period /\ now + Period \in 0 .. MaxTime + Period
  BY <1>1 DEF Period
<1>3. wake' = now \/ wake' = now + Period
  BY DEF Leave
<1>4. wake' \in 0 .. MaxTime + Period
  BY <1>2, <1>3
<1>5. seen' = TRUE /\ behind' = (mode = "start" \/ ~ complete)
  BY Zenon DEF Leave
<1> QED
  BY <1>4, <1>5 DEF Leave

(* Types.                                                                  *)
LEMMA TypeStep == TypeOK /\ [Next]_vars => TypeOK'
<1> SUFFICES ASSUME TypeOK, [Next]_vars PROVE TypeOK'
  OBVIOUS
<1> USE DEF TypeOK, disk, writers, cleaner, Fates
<1>1. ASSUME NEW w \in Writers, Begin(w) PROVE TypeOK'
  BY <1>1 DEF Begin
<1>2. ASSUME NEW w \in Writers, OpenFile(w) PROVE TypeOK'
  BY <1>2 DEF OpenFile
<1>3. ASSUME NEW w \in Writers, OpenFails(w) PROVE TypeOK'
  BY <1>3 DEF OpenFails
<1>4. ASSUME NEW w \in Writers, Write(w) PROVE TypeOK'
  BY <1>4 DEF Write
<1>5. CASE OpenDir
  <2>1. /\ scan' = "read" /\ the_time' = now
        /\ UNCHANGED <<now, slash, mode, file, mtime, line, pc, since, goes, wake, behind>>
    BY <1>5 DEF OpenDir
  <2>2. seen' = (~ slash \/ mtime = Absent)
    BY <1>5, Zenon DEF OpenDir
  <2>3. seen' \in BOOLEAN
    BY <2>2
  <2> QED
    BY <2>1, <2>3
<1>6. CASE OpenDirFails
  <2>1. Leave(FALSE) /\ UNCHANGED <<now, slash, file, mtime, line, pc, since, goes, the_time>>
    BY <1>6 DEF OpenDirFails
  <2>2. /\ scan' = "none" /\ mode' = "run" /\ wake' \in 0 .. MaxTime + Period
        /\ seen' \in BOOLEAN /\ behind' \in BOOLEAN
    BY <2>1, LeaveTypes
  <2> QED
    BY <2>1, <2>2
<1>7. CASE Examine
  BY <1>7 DEF Examine
<1>8. CASE LstatFails
  <2>1. Leave(FALSE) /\ UNCHANGED <<now, slash, file, mtime, line, pc, since, goes, the_time>>
    BY <1>8 DEF LstatFails
  <2>2. /\ scan' = "none" /\ mode' = "run" /\ wake' \in 0 .. MaxTime + Period
        /\ seen' \in BOOLEAN /\ behind' \in BOOLEAN
    BY <2>1, LeaveTypes
  <2> QED
    BY <2>1, <2>2
<1>9. CASE UnlinkFile
  BY <1>9 DEF UnlinkFile, Unlink
<1>10. CASE EndOfDir
  <2>1. Leave(TRUE) /\ UNCHANGED <<now, slash, file, mtime, line, pc, since, goes, the_time>>
    BY <1>10 DEF EndOfDir
  <2>2. /\ scan' = "none" /\ mode' = "run" /\ wake' \in 0 .. MaxTime + Period
        /\ seen' \in BOOLEAN /\ behind' \in BOOLEAN
    BY <2>1, LeaveTypes
  <2> QED
    BY <2>1, <2>2
<1>11. CASE Start
  BY <1>11 DEF Start
<1>12. CASE Crash
  BY <1>12 DEF Crash
<1>13. CASE Remove
  BY <1>13 DEF Remove, Unlink
<1>14. CASE Tick
  <2>1. now + 1 \in Time
    BY <1>14, TimeAssumption DEF Tick, Time
  <2> QED
    BY <1>14, <2>1 DEF Tick
<1>15. CASE UNCHANGED vars
  BY <1>15 DEF vars, disk, writers, cleaner
<1> QED
  BY <1>1, <1>2, <1>3, <1>4, <1>5, <1>6, <1>7, <1>8, <1>9, <1>10, <1>11, <1>12, <1>13, <1>14, <1>15
  DEF Next, Log, Scan

(* The numbers an invariant state is made of.                              *)
LEMMA Numbers ==
    ASSUME TypeOK
    PROVE  /\ now \in Int /\ the_time \in Int /\ mtime \in Int /\ file.from \in Int
           /\ line.at \in Int /\ line = [fate |-> line.fate, at |-> line.at]
           /\ \A w \in Writers : since[w] \in Int
           /\ now >= 0 /\ file.from >= 0
           /\ Day \in Int /\ Keep \in Int /\ KeepAtStart \in Int /\ Pause \in Int
           /\ Keep <= KeepAtStart /\ Day + Pause <= Keep /\ Pause >= 0
BY DayAssumption, KeepAssumption, PauseAssumption, TimeAssumption
DEF TypeOK, Time, Absent, Names

(* A file that may be written to is too young to be unlinked.              *)
LEMMA NoWriter ==
    ASSUME IInv, scan = "unlink"
    PROVE  \A w \in Writers : pc[w] = "idle"
<1> SUFFICES ASSUME NEW w \in Writers, pc[w] # "idle" PROVE FALSE
  OBVIOUS
<1>1. since[w] <= now /\ now - since[w] <= Pause /\ since[w] < file.from + Day
  BY DEF IInv, Bounds, Recent
<1>2. file.from < the_time - Keep /\ the_time <= now
  BY DEF IInv, Bounds, Doomed
<1> QED
  BY <1>1, <1>2, Numbers DEF IInv

(* A file that is written to is not named before its time.                 *)
LEMMA NamedSince ==
    ASSUME IInv, NEW w \in Writers, pc[w] # "idle"
    PROVE  file.from <= now
<1>1. file.from <= since[w] /\ since[w] <= now
  BY DEF IInv, Bounds, Recent
<1> QED
  BY <1>1, Numbers DEF IInv

(* Calls of log functions stay recent.                                     *)
LEMMA RecentStep == IInv /\ [Next]_vars => Recent'
<1> SUFFICES ASSUME IInv, [Next]_vars PROVE Recent'
  OBVIOUS
<1> USE DEF IInv, Bounds, Recent, disk, writers, cleaner
<1>1. ASSUME NEW w \in Writers, Begin(w) PROVE Recent'
  <2>1. PICK kind \in Kinds : NameOf(kind, now) = file
    BY <1>1 DEF Begin
  <2>2. file.from <= now /\ now < file.from + Day
    BY <2>1, NameRange DEF TypeOK
  <2>3. now <= now /\ now - now <= Pause
    BY Numbers
  <2> QED
    BY <1>1, <2>2, <2>3 DEF Begin, TypeOK
<1>2. ASSUME NEW w \in Writers, OpenFile(w) PROVE Recent'
  BY <1>2 DEF OpenFile, TypeOK
<1>3. ASSUME NEW w \in Writers, OpenFails(w) PROVE Recent'
  BY <1>3 DEF OpenFails, TypeOK
<1>4. ASSUME NEW w \in Writers, Write(w) PROVE Recent'
  BY <1>4 DEF Write, TypeOK
<1>5. CASE OpenDir
  BY <1>5 DEF OpenDir
<1>6. CASE OpenDirFails
  BY <1>6 DEF OpenDirFails, Leave
<1>7. CASE Examine
  BY <1>7 DEF Examine
<1>8. CASE LstatFails
  BY <1>8 DEF LstatFails, Leave
<1>9. CASE UnlinkFile
  BY <1>9 DEF UnlinkFile, Unlink
<1>10. CASE EndOfDir
  BY <1>10 DEF EndOfDir, Leave
<1>11. CASE Start
  BY <1>11 DEF Start
<1>12. CASE Crash
  BY <1>12 DEF Crash
<1>13. CASE Remove
  BY <1>13 DEF Remove, Unlink
<1>14. CASE Tick
  <2> SUFFICES ASSUME NEW w \in Writers, pc[w] # "idle"
               PROVE  since[w] <= now + 1 /\ (now + 1) - since[w] <= Pause
    BY <1>14 DEF Tick
  <2>1. now - since[w] < Pause /\ since[w] <= now
    BY <1>14 DEF Tick
  <2> QED
    BY <2>1, Numbers
<1>15. CASE UNCHANGED vars
  BY <1>15 DEF vars, disk, writers, cleaner
<1> QED
  BY <1>1, <1>2, <1>3, <1>4, <1>5, <1>6, <1>7, <1>8, <1>9, <1>10, <1>11, <1>12, <1>13, <1>14, <1>15
  DEF Next, Log, Scan

(* The file stays younger than its name, and the line than the file.       *)
LEMMA DatedStep == IInv /\ [Next]_vars => Dated'
<1> SUFFICES ASSUME IInv, [Next]_vars PROVE Dated'
  OBVIOUS
<1>0. TypeOK
  BY DEF IInv
<1> USE DEF IInv, Bounds, Dated, disk, writers, cleaner
<1>1. ASSUME NEW w \in Writers, Begin(w) PROVE Dated'
  BY <1>1 DEF Begin
<1>2. ASSUME NEW w \in Writers, OpenFile(w) PROVE Dated'
  <2>1. file' = file /\ now' = now /\ line' = line
        /\ mtime' = IF mtime = Absent THEN now ELSE mtime
    BY <1>2 DEF OpenFile
  <2>2. since[w] <= now /\ pc[w] # "idle"
    BY <1>2 DEF OpenFile, Recent
  <2>3. file.from <= now
    BY <2>2, NamedSince
  <2> QED
    BY <1>0, <2>1, <2>3, Numbers DEF Absent
<1>3. ASSUME NEW w \in Writers, OpenFails(w) PROVE Dated'
  BY <1>3 DEF OpenFails
<1>4. ASSUME NEW w \in Writers, Write(w) PROVE Dated'
  <2>1. file' = file /\ now' = now
        /\ mtime' = IF goes[w] = "stored" THEN now ELSE mtime
    BY <1>4 DEF Write
  <2>2. file.from <= now
    BY <1>4, NamedSince DEF Write
  <2>3. mtime' # Absent => file.from <= mtime' /\ mtime' <= now
    BY <1>0, <2>1, <2>2, Numbers
  <2>4. CASE line' = line
    BY <1>0, <2>1, <2>3, <2>4, Numbers DEF Absent
  <2>5. CASE line' = [fate |-> goes[w], at |-> now]
    BY <1>0, <2>1, <2>3, <2>5, Numbers DEF Absent
  <2> QED
    BY <1>4, <2>4, <2>5 DEF Write
<1>5. CASE OpenDir
  BY <1>5 DEF OpenDir
<1>6. CASE OpenDirFails
  BY <1>6 DEF OpenDirFails, Leave
<1>7. CASE Examine
  BY <1>7 DEF Examine
<1>8. CASE LstatFails
  BY <1>8 DEF LstatFails, Leave
<1>9. CASE UnlinkFile
  BY <1>0, <1>9, Numbers DEF UnlinkFile, Unlink
<1>10. CASE EndOfDir
  BY <1>10 DEF EndOfDir, Leave
<1>11. CASE Start
  BY <1>11 DEF Start
<1>12. CASE Crash
  BY <1>12 DEF Crash
<1>13. CASE Remove
  BY <1>0, <1>13, Numbers DEF Remove, Unlink
<1>14. CASE Tick
  BY <1>0, <1>14, Numbers DEF Tick
<1>15. CASE UNCHANGED vars
  BY <1>15 DEF vars, disk, writers, cleaner
<1> QED
  BY <1>1, <1>2, <1>3, <1>4, <1>5, <1>6, <1>7, <1>8, <1>9, <1>10, <1>11, <1>12, <1>13, <1>14, <1>15
  DEF Next, Log, Scan

(* What is being unlinked stays old.                                       *)
LEMMA DoomedStep == IInv /\ [Next]_vars => Doomed'
<1> SUFFICES ASSUME IInv, [Next]_vars PROVE Doomed'
  OBVIOUS
<1>0. TypeOK
  BY DEF IInv
<1> USE DEF IInv, Bounds, Doomed, disk, writers, cleaner
<1>1. ASSUME NEW w \in Writers, Begin(w) PROVE Doomed'
  BY <1>1 DEF Begin
<1>2. ASSUME NEW w \in Writers, OpenFile(w) PROVE Doomed'
  BY <1>2, NoWriter DEF OpenFile
<1>3. ASSUME NEW w \in Writers, OpenFails(w) PROVE Doomed'
  BY <1>3 DEF OpenFails
<1>4. ASSUME NEW w \in Writers, Write(w) PROVE Doomed'
  BY <1>4, NoWriter DEF Write
<1>5. CASE OpenDir
  BY <1>0, <1>5, Numbers DEF OpenDir
<1>6. CASE OpenDirFails
  BY <1>6 DEF OpenDirFails, Leave
<1>7. CASE Examine
  <2>1. UNCHANGED <<mtime, the_time, now, file>>
    BY <1>7 DEF Examine
  <2>2. ASSUME scan' = "unlink" PROVE mtime < the_time - Keep /\ file.from <= mtime
    <3>1. mtime # Absent /\ Old
      BY <1>7, <2>2 DEF Examine
    <3>2. mtime < the_time - Keep
      BY <1>0, <3>1, Numbers DEF Old
    <3> QED
      BY <3>1, <3>2 DEF Dated
  <2> QED
    BY <1>0, <2>1, <2>2, Numbers
<1>8. CASE LstatFails
  BY <1>8 DEF LstatFails, Leave
<1>9. CASE UnlinkFile
  BY <1>9 DEF UnlinkFile
<1>10. CASE EndOfDir
  BY <1>10 DEF EndOfDir, Leave
<1>11. CASE Start
  BY <1>11 DEF Start
<1>12. CASE Crash
  BY <1>12 DEF Crash
<1>13. CASE Remove
  <2>1. mtime' = -1 /\ UNCHANGED <<scan, the_time, now, file>>
    BY <1>13 DEF Remove, Unlink, Absent
  <2>2. scan = "unlink" => -1 < the_time - Keep
    BY <1>0, Numbers
  <2> QED
    BY <2>1, <2>2
<1>14. CASE Tick
  BY <1>0, <1>14, Numbers DEF Tick
<1>15. CASE UNCHANGED vars
  BY <1>15 DEF vars, disk, writers, cleaner
<1> QED
  BY <1>1, <1>2, <1>3, <1>4, <1>5, <1>6, <1>7, <1>8, <1>9, <1>10, <1>11, <1>12, <1>13, <1>14, <1>15
  DEF Next, Log, Scan

(* No line is lost early.                                                  *)
LEMMA SafeStep == IInv /\ [Next]_vars => Safe'
<1> SUFFICES ASSUME IInv, [Next]_vars PROVE Safe'
  OBVIOUS
<1>0. TypeOK
  BY DEF IInv
<1> USE DEF IInv, Bounds, Safe, Kept, disk, writers, cleaner
<1>1. ASSUME NEW w \in Writers, Begin(w) PROVE Safe'
  BY <1>1 DEF Begin
<1>2. ASSUME NEW w \in Writers, OpenFile(w) PROVE Safe'
  BY <1>2 DEF OpenFile
<1>3. ASSUME NEW w \in Writers, OpenFails(w) PROVE Safe'
  BY <1>3 DEF OpenFails
<1>4. ASSUME NEW w \in Writers, Write(w) PROVE Safe'
  <2>1. goes[w] # "deleted" /\ now' = now
    BY <1>4 DEF Write
  <2>2. line'.fate = "deleted" => line' = line
    BY <1>4, <2>1 DEF Write
  <2>3. \A v \in Writers : goes'[v] # "deleted"
    BY <1>0, <1>4 DEF Write, TypeOK
  <2> QED
    BY <2>1, <2>2, <2>3
<1>5. CASE OpenDir
  BY <1>5 DEF OpenDir
<1>6. CASE OpenDirFails
  BY <1>6 DEF OpenDirFails, Leave
<1>7. CASE Examine
  BY <1>7 DEF Examine
<1>8. CASE LstatFails
  BY <1>8 DEF LstatFails, Leave
<1>9. CASE UnlinkFile
  <2>1. now' = now /\ \A v \in Writers : pc[v] = "idle"
    BY <1>9, NoWriter DEF UnlinkFile
  <2>2. \A v \in Writers : goes'[v] # "deleted"
    BY <1>9, <2>1 DEF UnlinkFile, Unlink
  <2>3. line'.fate = "deleted" => line.at < now - Keep /\ line'.at = line.at
    <3>1. CASE line.fate = "stored"
      <4>1. line.at <= mtime /\ mtime < the_time - Keep /\ the_time <= now
        BY <1>9, <3>1 DEF UnlinkFile, Dated, Doomed
      <4>2. line.at < now - Keep
        BY <1>0, <4>1, Numbers
      <4> QED
        BY <1>0, <1>9, <3>1, <4>2, Numbers DEF UnlinkFile, Unlink
    <3>2. CASE line.fate # "stored"
      BY <1>9, <3>2 DEF UnlinkFile, Unlink
    <3> QED
      BY <3>1, <3>2
  <2> QED
    BY <2>1, <2>2, <2>3
<1>10. CASE EndOfDir
  BY <1>10 DEF EndOfDir, Leave
<1>11. CASE Start
  BY <1>11 DEF Start
<1>12. CASE Crash
  BY <1>12 DEF Crash
<1>13. CASE Remove
  <2>1. now' = now /\ \A v \in Writers : goes'[v] # "deleted"
    BY <1>13 DEF Remove, Unlink
  <2>2. line'.fate = "deleted" => line' = line
    BY <1>0, <1>13, Numbers DEF Remove, Unlink
  <2> QED
    BY <2>1, <2>2
<1>14. CASE Tick
  BY <1>0, <1>14, Numbers DEF Tick
<1>15. CASE UNCHANGED vars
  BY <1>15 DEF vars, disk, writers, cleaner
<1> QED
  BY <1>1, <1>2, <1>3, <1>4, <1>5, <1>6, <1>7, <1>8, <1>9, <1>10, <1>11, <1>12, <1>13, <1>14, <1>15
  DEF Next, Log, Scan

(* All of it together is inductive.                                        *)
THEOREM Invariance == Spec => []IInv
<1>1. IInv /\ [Next]_vars => IInv'
  BY TypeStep, RecentStep, DatedStep, DoomedStep, SafeStep DEF IInv, Bounds
<1> QED
  BY InitInv, <1>1, PTL DEF Spec

(* The variables of the log keep their types for every retention.          *)
THEOREM TypeCorrect == Spec => []TypeOK
<1>1. IInv => TypeOK
  BY DEF IInv
<1> QED
  BY <1>1, Invariance, PTL

(* The program deletes no line that is younger than Keep.                  *)
THEOREM LinesKept == Spec => []Kept
<1>1. IInv => Kept
  BY DEF IInv, Safe
<1> QED
  BY <1>1, Invariance, PTL
------------------------------------------------------------------------------
(* clean_thread wakes no later than wake, and a scan takes no longer than  *)
(* Pause.                                                                  *)
Timely ==
    /\ mode = "start" => behind
    /\ mode = "run" => wake <= now + Period
    /\ mode = "run" /\ scan = "none" => now <= wake
    /\ scan # "none" => mode # "down" /\ the_time <= now /\ now <= the_time + Pause
    /\ mode = "run" /\ scan # "none" => the_time <= wake

(* What a scan has passed is not old for that scan, and what the last one  *)
(* has left is not much older: that scan began at most Pause before it     *)
(* ended, a Period before wake.                                            *)
Fresh ==
    /\ slash /\ mode = "run" /\ scan = "read" /\ seen =>
           mtime = Absent \/ mtime >= the_time - Keep
    /\ slash /\ mode = "run" /\ ~ behind =>
           mtime = Absent \/ mtime >= wake - Period - Pause - Keep

CleanInv == TypeOK /\ Timely /\ Fresh

(* The numbers of the cleaner.                                             *)
LEMMA CleanerNumbers ==
    ASSUME TypeOK
    PROVE  /\ now \in Int /\ the_time \in Int /\ mtime \in Int /\ wake \in Int
           /\ Keep \in Int /\ Pause \in Int /\ Period = 1 /\ Keep >= 0 /\ Pause >= 0
           /\ behind \in BOOLEAN /\ seen \in BOOLEAN /\ slash \in BOOLEAN
BY KeepAssumption, PauseAssumption, TimeAssumption DEF TypeOK, Time, Absent, Period

(* No time has passed at the start.                                        *)
LEMMA InitClean == Init => CleanInv
<1> SUFFICES ASSUME Init PROVE CleanInv
  OBVIOUS
<1>1. TypeOK
  BY InitInv DEF IInv
<1>2. Timely /\ Fresh
  BY DEF Init, Timely, Fresh
<1> QED
  BY <1>1, <1>2 DEF CleanInv

(* The scans keep their times.                                             *)
LEMMA TimelyStep == CleanInv /\ [Next]_vars => Timely'
<1> SUFFICES ASSUME CleanInv, [Next]_vars PROVE Timely'
  OBVIOUS
<1>0. TypeOK /\ Timely
  BY DEF CleanInv
<1>a. ASSUME UNCHANGED <<now, mode, scan, the_time, wake, behind>> PROVE Timely'
  BY <1>0, <1>a DEF Timely
<1>b. ASSUME NEW complete \in BOOLEAN, Leave(complete), mode = "start" \/ mode = "run",
             now' = now
      PROVE  Timely'
  <2>1. /\ mode' = "run" /\ scan' = "none"
        /\ wake' = now \/ wake' = now + Period
    BY <1>b DEF Leave
  <2> QED
    BY <1>0, <1>b, <2>1, CleanerNumbers DEF Timely
<1>1. ASSUME NEW w \in Writers, Log(w) PROVE Timely'
  BY <1>a, <1>1 DEF Log, Begin, OpenFile, OpenFails, Write, cleaner
<1>2. CASE OpenDir
  <2>1. /\ scan = "none" /\ (mode = "start" \/ (mode = "run" /\ wake <= now))
        /\ scan' = "read" /\ the_time' = now /\ UNCHANGED <<now, mode, wake, behind>>
    BY <1>2 DEF OpenDir, Due
  <2> QED
    BY <1>0, <2>1, CleanerNumbers DEF Timely
<1>3. CASE OpenDirFails
  BY <1>3, <1>b DEF OpenDirFails, Due
<1>4. CASE Examine \/ UnlinkFile
  <2>1. /\ scan # "none" /\ scan' # "none"
        /\ UNCHANGED <<now, mode, the_time, wake, behind>>
    BY <1>4 DEF Examine, UnlinkFile
  <2> QED
    BY <1>0, <2>1 DEF Timely
<1>5. CASE LstatFails \/ EndOfDir
  <2>1. /\ scan = "read" /\ now' = now /\ (Leave(FALSE) \/ Leave(TRUE))
    BY <1>5 DEF LstatFails, EndOfDir
  <2>2. mode = "start" \/ mode = "run"
    BY <1>0, <2>1 DEF Timely, TypeOK
  <2> QED
    BY <2>1, <2>2, <1>b
<1>6. CASE Start
  <2>1. mode = "down" /\ mode' = "start" /\ behind' = TRUE /\ UNCHANGED <<scan, now>>
    BY <1>6 DEF Start, cleaner
  <2> QED
    BY <1>0, <2>1 DEF Timely
<1>7. CASE Crash
  <2>1. mode' = "down" /\ scan' = "none"
    BY <1>7 DEF Crash
  <2> QED
    BY <2>1 DEF Timely
<1>8. CASE Remove
  BY <1>a, <1>8 DEF Remove, cleaner
<1>9. CASE Tick
  <2>1. /\ scan # "none" => now - the_time < Pause
        /\ ~ (scan = "none" /\ (mode = "start" \/ (mode = "run" /\ wake <= now)))
        /\ now' = now + 1 /\ UNCHANGED <<mode, scan, the_time, wake, behind>>
    BY <1>9 DEF Tick, Due, cleaner
  <2> QED
    BY <1>0, <2>1, CleanerNumbers DEF Timely
<1>10. CASE UNCHANGED vars
  BY <1>a, <1>10 DEF vars, cleaner
<1> QED
  BY <1>1, <1>2, <1>3, <1>4, <1>5, <1>6, <1>7, <1>8, <1>9, <1>10 DEF Next, Scan

(* What is left behind a scan is fresh.                                    *)
LEMMA FreshStep == CleanInv /\ [Next]_vars => Fresh'
<1> SUFFICES ASSUME CleanInv, [Next]_vars PROVE Fresh'
  OBVIOUS
<1>0. TypeOK /\ Timely /\ Fresh
  BY DEF CleanInv
<1>a. ASSUME UNCHANGED <<slash, mode, scan, the_time, wake, seen, behind>>, now' = now,
             mtime' = mtime \/ mtime' = now \/ mtime' = Absent
      PROVE  Fresh'
  <2>1. CASE mtime' = mtime \/ mtime' = Absent
    BY <1>0, <1>a, <2>1 DEF Fresh
  <2>2. CASE mtime' = now
    <3>1. mode = "run" => now >= wake - Period - Pause - Keep
      BY <1>0, CleanerNumbers DEF Timely
    <3>2. scan = "read" => now >= the_time - Keep
      BY <1>0, CleanerNumbers DEF Timely
    <3> QED
      BY <1>a, <2>2, <3>1, <3>2 DEF Fresh
  <2> QED
    BY <1>a, <2>1, <2>2
<1>b. ASSUME Leave(FALSE) PROVE Fresh'
  <2>1. scan' = "none" /\ behind'
    BY <1>b DEF Leave
  <2> QED
    BY <2>1 DEF Fresh
<1>1. ASSUME NEW w \in Writers, Log(w) PROVE Fresh'
  BY <1>a, <1>1 DEF Log, Begin, OpenFile, OpenFails, Write, cleaner, disk
<1>2. CASE OpenDir
  <2>1. /\ scan' = "read" /\ the_time' = now /\ seen' = (~ slash \/ mtime = Absent)
        /\ UNCHANGED <<slash, mode, mtime, wake, behind>>
    BY <1>2, Zenon DEF OpenDir, disk
  <2> QED
    BY <1>0, <2>1 DEF Fresh
<1>3. CASE OpenDirFails \/ LstatFails
  BY <1>3, <1>b DEF OpenDirFails, LstatFails
<1>4. CASE Examine
  <2>1. /\ scan' = IF mtime # Absent /\ Old THEN "unlink" ELSE "read"
        /\ UNCHANGED <<slash, mode, mtime, the_time, wake, behind>>
    BY <1>4 DEF Examine, disk
  <2>2. ASSUME mode = "run", scan' = "read" PROVE mtime = Absent \/ mtime >= the_time - Keep
    <3>1. mtime = Absent \/ ~ Old
      BY <2>1, <2>2
    <3> QED
      BY <1>0, <2>2, <3>1, CleanerNumbers DEF Old
  <2> QED
    BY <1>0, <2>1, <2>2 DEF Fresh
<1>5. CASE UnlinkFile
  <2>1. mtime' = Absent
    BY <1>5 DEF UnlinkFile, Unlink
  <2> QED
    BY <2>1 DEF Fresh
<1>6. CASE EndOfDir
  <2>1. /\ scan = "read" /\ seen /\ scan' = "none" /\ mode' = "run"
        /\ wake' = IF mode = "start" THEN now ELSE now + Period
        /\ behind' = (mode = "start" \/ ~ TRUE)
        /\ UNCHANGED <<slash, mtime>>
    BY <1>6, Zenon DEF EndOfDir, Leave, disk
  <2>2. CASE mode = "start"
    BY <2>1, <2>2 DEF Fresh
  <2>3. CASE mode = "run"
    <3>1. slash => mtime = Absent \/ mtime >= the_time - Keep
      BY <1>0, <2>1, <2>3 DEF Fresh
    <3>2. now <= the_time + Pause /\ wake' = now + Period
      BY <1>0, <2>1, <2>3 DEF Timely
    <3>3. mtime >= the_time - Keep => mtime >= wake' - Period - Pause - Keep
      BY <1>0, <3>2, CleanerNumbers
    <3> QED
      BY <2>1, <3>1, <3>3 DEF Fresh
  <2> QED
    BY <1>0, <2>1, <2>2, <2>3 DEF Timely, TypeOK
<1>7. CASE Start
  <2>1. mode' = "start"
    BY <1>7 DEF Start
  <2> QED
    BY <2>1 DEF Fresh
<1>8. CASE Crash
  <2>1. mode' = "down"
    BY <1>8 DEF Crash
  <2> QED
    BY <2>1 DEF Fresh
<1>9. CASE Remove
  BY <1>a, <1>9 DEF Remove, Unlink, cleaner
<1>10. CASE Tick
  <2>1. UNCHANGED <<slash, mode, scan, the_time, wake, seen, behind, mtime>>
    BY <1>10 DEF Tick, cleaner, disk
  <2> QED
    BY <1>0, <2>1 DEF Fresh
<1>11. CASE UNCHANGED vars
  BY <1>a, <1>11 DEF vars, cleaner, disk
<1> QED
  BY <1>1, <1>2, <1>3, <1>4, <1>5, <1>6, <1>7, <1>8, <1>9, <1>10, <1>11 DEF Next, Scan

(* Between scans now is before wake, and in a scan not long after it.      *)
LEMMA CleanIsCleaned == CleanInv => Cleaned
<1> SUFFICES ASSUME CleanInv, mode = "run", ~ behind, slash, mtime # Absent
             PROVE  mtime >= now - Keep - Period - 2 * Pause
  BY DEF Cleaned
<1>1. mtime >= wake - Period - Pause - Keep
  BY DEF CleanInv, Fresh
<1>2. now <= wake + Pause
  BY CleanerNumbers DEF CleanInv, Timely
<1> QED
  BY <1>1, <1>2, CleanerNumbers DEF CleanInv

(* While the scans are completed no file grows older than the retention,   *)
(* for every retention and period.                                         *)
THEOREM FilesCleaned == Spec => []Cleaned
<1>1. CleanInv /\ [Next]_vars => CleanInv'
  BY TypeStep, TimelyStep, FreshStep DEF CleanInv
<1> QED
  BY InitClean, <1>1, CleanIsCleaned, PTL DEF Spec
==============================================================================
