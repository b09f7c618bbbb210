--------------------------- MODULE ClientStartProofs ---------------------------
(* Proofs about the start of the client, for every configuration file and  *)
(* any size of the pool.                                                   *)
EXTENDS ClientStart, FiniteSetTheorems, TLAPS

(* The services are asked before any thread can send, and the pool grows   *)
(* one thread at a time.                                                   *)
Started == pc \in {"pool", "report", "running"}

(* What is sent without a value was not known when the services were       *)
(* asked, unless something did not fit; nobody asks again.                 *)
Asked ==
    /\ pc \notin Ended => assigned = answered \/ misfit
    /\ pc \in {"log", "perf", "semaphore", "metadata"} => answered = {} /\ assigned = {}
    /\ alive # {} => Started
    /\ junk # {} => Started \/ pc \in Ended
    /\ junk \cap answered # {} => misfit
    /\ pc = "crashed" => answered # Members \/ misfit

(* The pool is that of the first i numbers.                                *)
Counted ==
    /\ pc \notin Ended => alive = 1 .. i
    /\ i # 0 => i <= pool
    /\ pc \in {"report", "running"} => i >= pool
    /\ pc \notin Ended /\ ~ Started => i = 0
    /\ Started => clean = TRUE

IInv == TypeOK /\ Asked /\ Counted
------------------------------------------------------------------------------
(* No command sends anything but members.                                  *)
LEMMA SendsMembers == \A c \in DOMAIN Sends : Sends[c] \subseteq Members
BY DEF Sends, Members, Metadata

(* The order of main's steps.                                              *)
LEMMA Order ==
    /\ After("log") = "perf" /\ After("perf") = "semaphore"
    /\ After("semaphore") = "metadata" /\ After("metadata") = "address"
    /\ After("address") = "clean" /\ After("clean") = "pool"
    /\ After("pool") = "report" /\ After("report") = "running"
BY DEF After

(* main starts with nothing known and nothing running.                     *)
LEMMA InitInv == Init => IInv
<1> SUFFICES ASSUME Init PROVE IInv
  OBVIOUS
<1>1. pool \in Int /\ i = 0 /\ 1 .. i = {}
  BY PoolAssumption DEF Init
<1>2. TypeOK
  <2>1. clean \in BOOLEAN /\ report \in BOOLEAN /\ misfit \in BOOLEAN
    BY Zenon DEF Init
  <2>2. pc \in Steps /\ pool \in PoolSizes /\ i \in Nat
    BY DEF Init, Steps
  <2>3. assigned \subseteq Members /\ answered \subseteq Members /\ junk \subseteq Members
    BY DEF Init
  <2>4. alive \subseteq 1 .. pool
    BY DEF Init
  <2> QED
    BY <2>1, <2>2, <2>3, <2>4 DEF TypeOK
<1>3. Asked
  BY DEF Init, Asked, Started, Ended
<1>4. Counted
  BY <1>1 DEF Init, Counted, Started
<1> QED
  BY <1>2, <1>3, <1>4 DEF IInv

(* Types.                                                                  *)
LEMMA TypeStep == TypeOK /\ Counted /\ [Next]_vars => TypeOK'
<1> SUFFICES ASSUME TypeOK, Counted, [Next]_vars PROVE TypeOK'
  OBVIOUS
<1> USE PoolAssumption DEF TypeOK, Steps, Ended, threads
<1>1. CASE InitModules
  BY <1>1, Order DEF InitModules, Goto
<1>2. CASE InitSemaphore
  BY <1>2, Order DEF InitSemaphore
<1>3. CASE FetchMetadata
  BY <1>3, Order DEF FetchMetadata, Members
<1>4. CASE FetchAddress
  BY <1>4, Order DEF FetchAddress, Goto, Members
<1>5. CASE CreateClean
  BY <1>5, Order DEF CreateClean, Goto
<1>6. CASE CreateAlive
  <2>1. pool \in Int /\ i \in Nat
    BY PoolAssumption
  <2>2. pc' \in Steps \cup Ended
    BY <1>6, Order DEF CreateAlive
  <2>3. i' \in Nat
    BY <1>6, <2>1 DEF CreateAlive
  <2>4. alive' \subseteq 1 .. pool
    <3>1. CASE i < pool
      <4>1. i + 1 \in 1 .. pool
        BY <2>1, <3>1
      <4> QED
        BY <1>6, <3>1, <4>1 DEF CreateAlive
    <3>2. CASE ~ (i < pool)
      BY <1>6, <3>2 DEF CreateAlive
    <3> QED
      BY <3>1, <3>2
  <2>5. UNCHANGED <<pool, assigned, clean, report, answered, misfit, junk>>
    BY <1>6 DEF CreateAlive
  <2> QED
    BY <2>2, <2>3, <2>4, <2>5
<1>7. CASE CreateReport
  BY <1>7, Order DEF CreateReport, Goto
<1>8. ASSUME NEW step \in Steps, CreateFails(step) PROVE TypeOK'
  BY <1>8 DEF CreateFails
<1>9. ASSUME NEW t \in alive, NEW c \in DOMAIN Sends, Command(t, c) PROVE TypeOK'
  BY <1>9, SendsMembers DEF Command
<1>10. CASE UNCHANGED vars
  BY <1>10 DEF vars
<1> QED
  BY <1>1, <1>2, <1>3, <1>4, <1>5, <1>6, <1>7, <1>8, <1>9, <1>10 DEF Next, Main

(* What is assigned and what has been sent.                                *)
LEMMA AskedStep == IInv /\ [Next]_vars => Asked'
<1> SUFFICES ASSUME IInv, [Next]_vars PROVE Asked'
  OBVIOUS
<1> USE DEF IInv, TypeOK, Asked, Started, Ended, threads
<1>1. CASE InitModules
  BY <1>1, Order DEF InitModules, Goto
<1>2. CASE InitSemaphore
  BY <1>2, Order DEF InitSemaphore
<1>3. CASE FetchMetadata
  <2>1. PICK doc \in [Metadata -> Values] :
          /\ answered' = {m \in Metadata : doc[m] \in {"empty", "text", "long"}}
          /\ misfit' = (\E m \in Metadata : doc[m] = "long")
          /\ \/ /\ ~ \E m \in Metadata : doc[m] = "other"
                /\ pc' = After(pc)
                /\ assigned' \in IF \E m \in Metadata : doc[m] = "long"
                                 THEN SUBSET {m \in Metadata : ReadValueString(doc, m)}
                                 ELSE {{m \in Metadata : ReadValueString(doc, m)}}
             \/ /\ \/ \E m \in Metadata : doc[m] = "other"
                   \/ \E m \in Metadata : doc[m] = "long"
                /\ pc' = "crashed"
                /\ UNCHANGED assigned
    BY <1>3, Zenon DEF FetchMetadata
  <2>2. pc = "metadata" /\ assigned = {} /\ alive = {} /\ junk = {}
        /\ alive' = alive /\ junk' = junk
    BY <1>3 DEF FetchMetadata
  <2>3. answered' # Members
    BY <2>1 DEF Members, Metadata
  <2>4. CASE pc' = "crashed"
    BY <2>2, <2>3, <2>4
  <2>5. CASE pc' # "crashed"
    <3>1. pc' = "address" /\ ~ \E m \in Metadata : doc[m] = "other"
      BY <2>1, <2>2, <2>5, Order
    <3>2. assigned' = answered' \/ misfit'
      <4>1. CASE \E m \in Metadata : doc[m] = "long"
        BY <2>1, <4>1, Zenon
      <4>2. CASE ~ \E m \in Metadata : doc[m] = "long"
        <5>1. assigned' = {m \in Metadata : ReadValueString(doc, m)}
          BY <2>1, <2>5, <4>2
        <5>2. \A m \in Metadata : ReadValueString(doc, m) <=> doc[m] \in {"empty", "text", "long"}
          BY <3>1, <4>2 DEF ReadValueString, Values
        <5> QED
          BY <2>1, <5>1, <5>2
      <4> QED
        BY <4>1, <4>2
    <3> QED
      BY <2>2, <3>1, <3>2
  <2> QED
    BY <2>4, <2>5
<1>4. CASE FetchAddress
  BY <1>4, Order DEF FetchAddress, Goto
<1>5. CASE CreateClean
  BY <1>5, Order DEF CreateClean, Goto
<1>6. CASE CreateAlive
  BY <1>6, Order DEF CreateAlive
<1>7. CASE CreateReport
  BY <1>7, Order DEF CreateReport, Goto
<1>8. ASSUME NEW step \in Steps, CreateFails(step) PROVE Asked'
  BY <1>8 DEF CreateFails
<1>9. ASSUME NEW t \in alive, NEW c \in DOMAIN Sends, Command(t, c) PROVE Asked'
  <2>1. (Sends[c] \ assigned) \cap answered # {} => misfit
    OBVIOUS
  <2>2. Sends[c] \ assigned # {} => answered # Members \/ misfit
    BY SendsMembers
  <2> QED
    BY <1>9, <2>1, <2>2 DEF Command
<1>10. CASE UNCHANGED vars
  BY <1>10 DEF vars
<1> QED
  BY <1>1, <1>2, <1>3, <1>4, <1>5, <1>6, <1>7, <1>8, <1>9, <1>10 DEF Next, Main

(* How far the pool has come.                                              *)
LEMMA CountedStep == IInv /\ [Next]_vars => Counted'
<1> SUFFICES ASSUME IInv, [Next]_vars PROVE Counted'
  OBVIOUS
<1>0. pool \in Int /\ i \in Nat
  BY PoolAssumption DEF IInv, TypeOK
<1> USE <1>0 DEF IInv, Counted, Started, Ended, threads
<1>1. CASE InitModules
  BY <1>1, Order DEF InitModules, Goto
<1>2. CASE InitSemaphore
  BY <1>2, Order DEF InitSemaphore
<1>3. CASE FetchMetadata
  BY <1>3, Order DEF FetchMetadata
<1>4. CASE FetchAddress
  BY <1>4, Order DEF FetchAddress, Goto
<1>5. CASE CreateClean
  BY <1>5, Order DEF CreateClean, Goto
<1>6. CASE CreateAlive
  <2>1. pc = "pool" /\ alive = 1 .. i /\ clean = TRUE /\ clean' = clean /\ pool' = pool
    BY <1>6 DEF CreateAlive
  <2>2. CASE i < pool
    <3>1. pc' = "pool" /\ i' = i + 1 /\ alive' = (1 .. i) \cup {i + 1}
      BY <1>6, <2>1, <2>2 DEF CreateAlive
    <3>2. (1 .. i) \cup {i + 1} = 1 .. (i + 1) /\ i + 1 <= pool
      BY <1>0, <2>2
    <3>3. alive' = 1 .. i' /\ i' <= pool'
      BY <2>1, <3>1, <3>2
    <3> QED
      BY <2>1, <3>1, <3>3
  <2>3. CASE ~ (i < pool)
    <3>1. pc' = "report" /\ i' = i /\ alive' = alive
      BY <1>6, <2>1, <2>3, Order DEF CreateAlive
    <3>2. i >= pool
      BY <1>0, <2>3
    <3> QED
      BY <2>1, <3>1, <3>2
  <2> QED
    BY <2>2, <2>3
<1>7. CASE CreateReport
  BY <1>7, Order DEF CreateReport, Goto
<1>8. ASSUME NEW step \in Steps, CreateFails(step) PROVE Counted'
  BY <1>8 DEF CreateFails
<1>9. ASSUME NEW t \in alive, NEW c \in DOMAIN Sends, Command(t, c) PROVE Counted'
  BY <1>9 DEF Command
<1>10. CASE UNCHANGED vars
  BY <1>10 DEF vars
<1> QED
  BY <1>1, <1>2, <1>3, <1>4, <1>5, <1>6, <1>7, <1>8, <1>9, <1>10 DEF Next, Main

(* The three together are kept by the steps of Boot.                       *)
LEMMA BootStep == IInv /\ [Next]_vars => IInv'
BY TypeStep, AskedStep, CountedStep DEF IInv
------------------------------------------------------------------------------
(* The reader has taken the settings it has from lines of the file.        *)
Lines == \A k \in 1 .. Len(format) : settings[k] < at

(* A pool that is not empty has been read.                                 *)
PoolRead ==
    /\ format = Config!Client
    /\ confcount < at
    /\ Lines
    /\ pool # 0 => settings[PoolSetting] # Config!Unset

StartInv == IInv /\ Config!TypeOK /\ PoolRead

(* The client has six settings.                                            *)
LEMMA SixSettings == Len(Config!Client) = 6 /\ PoolSetting \in 1 .. 6
BY DEF Config!Client, PoolSetting

(* A file that has not been read has set nothing.                          *)
LEMMA StartInitInv == StartInit => StartInv
<1> SUFFICES ASSUME StartInit PROVE StartInv
  OBVIOUS
<1>1. IInv
  BY InitInv DEF StartInit
<1>2. format = Config!Client /\ file \in Files /\ at = 1 /\ confcount = 0 /\ done = FALSE
  BY DEF StartInit, Config!Init
<1>3. settings = [k \in 1 .. Len(format) |-> 0]
  BY DEF StartInit, Config!Init, Config!Unset
<1>4. Len(file) \in Nat /\ Len(format) = 6
  BY <1>2, SixSettings, FilesAssumption
<1>5. Config!TypeOK
  <2>1. settings \in [1 .. Len(format) -> 0 .. Len(file)]
    BY <1>3, <1>4
  <2>2. done \in BOOLEAN
    BY <1>2
  <2>3. at \in 1 .. Len(file) + 1 /\ confcount \in 0 .. Len(file)
    BY <1>2, <1>4
  <2> QED
    BY <1>2, <2>1, <2>2, <2>3, Zenon DEF Config!TypeOK
<1>6. PoolRead
  BY <1>2, <1>3, <1>4 DEF PoolRead, Lines, StartInit
<1> QED
  BY <1>1, <1>5, <1>6 DEF StartInv

(* A line that is read sets at most one setting, from that line.           *)
LEMMA ReadStep ==
    StartInv /\ ReadSettings => StartInv'
<1> SUFFICES ASSUME StartInv, ReadSettings PROVE StartInv'
  OBVIOUS
<1>1. pc = "log" /\ pool \in PoolSizes /\ pool' \in PoolSizes
      /\ UNCHANGED <<pc, i, assigned, threads, answered, misfit, junk>>
  BY DEF ReadSettings, ReadPool, StartInv, IInv, TypeOK
<1>2. i = 0 /\ alive = {} /\ pool' \in Int /\ pool \in Int
  <2>1. alive = 1 .. i /\ i = 0
    BY <1>1 DEF StartInv, IInv, Counted, Started, Ended
  <2> QED
    BY <1>1, <2>1, PoolAssumption
<1>3. IInv'
  <2>1. TypeOK'
    BY <1>1, <1>2 DEF StartInv, IInv, TypeOK, threads
  <2>2. Asked'
    BY <1>1 DEF StartInv, IInv, Asked, Started, Ended, threads
  <2>3. Counted'
    BY <1>1, <1>2 DEF StartInv, IInv, Counted, Started, Ended, threads
  <2> QED
    BY <2>1, <2>2, <2>3 DEF IInv
<1>4. /\ format = Config!Client /\ Len(format) = 6
      /\ file \in Files /\ Len(file) \in Nat
      /\ at \in 1 .. Len(file) + 1 /\ confcount \in 0 .. Len(file) /\ confcount < at
      /\ settings \in [1 .. 6 -> 0 .. Len(file)]
      /\ \A k \in 1 .. 6 : settings[k] < at
      /\ done \in BOOLEAN
      /\ pool # 0 => settings[5] # 0
  BY SixSettings, FilesAssumption
     DEF StartInv, Config!TypeOK, PoolRead, Lines, PoolSetting, Config!Unset
<1>5. pool' # pool => settings'[5] # settings[5]
  BY DEF ReadSettings, ReadPool, PoolSetting
<1>6. CASE Config!Stop
  <2>1. UNCHANGED <<format, file, at, confcount, settings>> /\ done' = TRUE
    BY <1>6 DEF Config!Stop
  <2>2. Config!TypeOK'
    BY <1>4, <2>1 DEF StartInv, Config!TypeOK
  <2>3. PoolRead'
    BY <1>4, <1>5, <2>1 DEF StartInv, PoolRead, Lines, PoolSetting, Config!Unset
  <2> QED
    BY <1>3, <2>2, <2>3 DEF StartInv
<1>7. CASE Config!ReadLine
  <2>1. /\ at <= Len(file) /\ confcount' = confcount + 1
        /\ at' \in at + 1 .. Len(file) + 1
        /\ UNCHANGED <<format, file, done>>
    BY <1>7 DEF Config!ReadLine
  <2>2. \/ settings' = settings
        \/ \E k \in 1 .. 6 : settings' = [settings EXCEPT ![k] = at]
    <3>1. confcount + 1 \in 1 .. Len(file)
      BY <1>4, <2>1
    <3> QED
      BY <1>4, <1>7, <3>1 DEF Config!ReadLine
  <2>3. /\ settings' \in [1 .. 6 -> 0 .. Len(file)]
        /\ \A k \in 1 .. 6 : settings'[k] < at'
    <3> DEFINE n == Len(file)
    <3>1. n \in Nat /\ at \in 1 .. n /\ at' \in Nat /\ at < at'
      BY <1>4, <2>1
    <3>2. settings \in [1 .. 6 -> 0 .. n] /\ \A k \in 1 .. 6 : settings[k] < at
      BY <1>4
    <3> HIDE DEF n
    <3>3. settings' \in [1 .. 6 -> 0 .. n]
      BY <2>2, <3>1, <3>2
    <3>4. ASSUME NEW k \in 1 .. 6 PROVE settings'[k] < at'
      <4>1. settings'[k] = settings[k] \/ settings'[k] = at
        BY <2>2, <3>2
      <4>2. settings[k] \in Nat /\ settings[k] < at
        BY <3>1, <3>2
      <4> QED
        BY <3>1, <4>1, <4>2
    <3> QED
      BY <3>3, <3>4 DEF n
  <2>4. settings'[5] # settings[5] => settings'[5] = at
    BY <1>4, <2>2
  <2>5. pool' # 0 => settings'[5] # 0
    BY <1>4, <1>5, <2>4
  <2>6. Config!TypeOK'
    <3>1. settings' \in [1 .. Len(format') -> 0 .. Len(file')]
      BY <1>4, <2>1, <2>3
    <3>2. at' \in 1 .. Len(file') + 1 /\ confcount' \in 0 .. Len(file')
      BY <1>4, <2>1
    <3>3. /\ done' \in BOOLEAN /\ file' \in Files
          /\ format' \in {Config!Client, Config!Service}
      BY <1>4, <2>1
    <3> QED
      BY <3>1, <3>2, <3>3, Zenon DEF Config!TypeOK
  <2>7. PoolRead'
    <3>1. Lines'
      BY <1>4, <2>1, <2>3 DEF Lines
    <3>2. confcount' < at' /\ format' = Config!Client
      BY <1>4, <2>1
    <3> QED
      BY <2>5, <3>1, <3>2 DEF PoolRead, PoolSetting, Config!Unset
  <2> QED
    BY <1>3, <2>6, <2>7 DEF StartInv
<1> QED
  BY <1>6, <1>7 DEF ReadSettings

(* The whole start.                                                        *)
LEMMA StartStep == StartInv /\ [StartNext]_startVars => StartInv'
<1> SUFFICES ASSUME StartInv, [StartNext]_startVars PROVE StartInv'
  OBVIOUS
<1>0. ASSUME UNCHANGED config, pool' = pool, IInv' PROVE StartInv'
  <2>1. UNCHANGED <<format, file, at, confcount, settings, done>>
    BY <1>0 DEF config
  <2>2. Config!TypeOK' /\ PoolRead'
    BY <1>0, <2>1 DEF StartInv, Config!TypeOK, PoolRead, Lines
  <2> QED
    BY <1>0, <2>2 DEF StartInv
<1>1. CASE NoFile
  <2>1. UNCHANGED config /\ pool' = pool
    BY <1>1 DEF NoFile
  <2>2. IInv'
    BY <1>1 DEF NoFile, StartInv, IInv, TypeOK, Asked, Counted, Started, Ended, Steps, threads
  <2> QED
    BY <1>0, <2>1, <2>2
<1>2. CASE ReadSettings
  BY <1>2, ReadStep
<1>3. CASE Start
  <2>1. UNCHANGED config /\ IInv'
    BY <1>3, BootStep DEF Start, StartInv
  <2>2. pool' = pool
    BY <1>3 DEF Start, Next, Main, InitModules, InitSemaphore, FetchMetadata, FetchAddress,
                CreateClean, CreateAlive, CreateReport, CreateFails, Command
  <2> QED
    BY <1>0, <2>1, <2>2
<1>4. CASE UNCHANGED startVars
  <2>1. UNCHANGED vars /\ UNCHANGED config
    BY <1>4 DEF startVars
  <2>2. IInv' /\ pool' = pool
    BY <2>1, BootStep DEF StartInv, vars
  <2> QED
    BY <1>0, <2>1, <2>2
<1> QED
  BY <1>1, <1>2, <1>3, <1>4 DEF StartNext

(* The invariant of the whole start.                                       *)
THEOREM Invariance == StartSpec => []StartInv
BY StartInitInv, StartStep, PTL DEF StartSpec

(* Junk is sent, and the process crashes, only for want of an answer at    *)
(* start-up.                                                               *)
THEOREM JunkExplained == StartSpec => []Explained
<1>1. StartInv => Explained
  BY DEF StartInv, IInv, Asked, Explained
<1> QED
  BY <1>1, Invariance, PTL

(* Once main idles its pool is whole, and there is one only if the file    *)
(* gives its size in the fifth place.                                      *)
THEOREM ConfiguredPool == StartSpec => []PoolAsConfigured
<1>1. StartInv => PoolAsConfigured
  <2> SUFFICES ASSUME StartInv PROVE PoolAsConfigured
    OBVIOUS
  <2>1. pool \in Int /\ i \in Nat
    BY PoolAssumption DEF StartInv, IInv, TypeOK
  <2>2. WholePool
    <3> SUFFICES ASSUME pc = "running" PROVE clean /\ alive = 1 .. pool
      BY DEF WholePool
    <3>1. alive = 1 .. i /\ clean /\ (i = 0 \/ i = pool) /\ i >= pool
      BY <2>1 DEF StartInv, IInv, Counted, Started, Ended
    <3>2. 1 .. i = 1 .. pool
      BY <2>1, <3>1
    <3> QED
      BY <3>1, <3>2
  <2>3. alive # {} => settings[PoolSetting] # Config!Unset
    <3> SUFFICES ASSUME alive # {} PROVE settings[PoolSetting] # Config!Unset
      OBVIOUS
    <3>1. alive \subseteq 1 .. pool
      BY DEF StartInv, IInv, TypeOK
    <3>2. PICK t \in alive : t \in 1 .. pool
      BY <3>1
    <3>3. pool # 0
      BY <2>1, <3>2
    <3> QED
      BY <3>3 DEF StartInv, PoolRead
  <2> QED
    BY <2>2, <2>3 DEF PoolAsConfigured, StartInv, IInv
<1> QED
  BY <1>1, Invariance, PTL
------------------------------------------------------------------------------
(* A first line without text takes the first place.                        *)
Moved == IF file[1] \in Config!Text THEN 0 ELSE 1

ComesFrom(k, n) ==
    /\ file[n] \in Config!Text /\ k = Config!Place(n) + Moved
    /\ format[k] = "d" => file[n] = "number"

(* Up to the line that is read next, confcount is the place of the last    *)
(* line with text, and each setting is from the line that fits it.         *)
Placed ==
    /\ at = 1 => confcount = 0 /\ \A k \in 1 .. 6 : settings[k] = 0
    /\ at > 1 => /\ file[1] # "empty" /\ confcount = Config!Place(at - 1) + Moved
                 /\ at <= Len(file) => file[at] \in Config!Text
    /\ \A k \in 1 .. 6, n \in 1 .. at - 1 : settings[k] = n <=> ComesFrom(k, n)
    /\ done /\ at <= Len(file) => file[at] = "empty"

(* Places are counted from 0, one for each line with text.                 *)
LEMMA Places ==
    /\ Config!Place(0) = 0
    /\ \A n \in Nat : Config!Place(n) \in Nat
    /\ \A n \in Nat \ {0} :
          Config!Place(n) = Config!Place(n - 1) + (IF file[n] \in Config!Text THEN 1 ELSE 0)
    /\ \A m, n \in Nat : m <= n => Config!Place(m) <= Config!Place(n)
    /\ \A m, n \in Nat : m <= n /\ (\A j \in m + 1 .. n : file[j] \notin Config!Text)
                           => Config!Place(m) = Config!Place(n)
<1> DEFINE T(n) == {j \in 1 .. n : file[j] \in Config!Text}
<1>1. \A n \in Nat : IsFiniteSet(T(n)) /\ Cardinality(T(n)) \in Nat
  <2> TAKE n \in Nat
  <2>1. IsFiniteSet(1 .. n)
    BY FS_Interval
  <2>2. T(n) \subseteq 1 .. n
    OBVIOUS
  <2> QED
    BY <2>1, <2>2, FS_Subset, FS_CardinalityType
<1>2. \A n \in Nat : Config!Place(n) = Cardinality(T(n))
  BY Zenon DEF Config!Place, Config!Cardinality, Cardinality
<1>3. Config!Place(0) = 0
  <2>1. T(0) = {}
    OBVIOUS
  <2> QED
    BY <1>2, <2>1, FS_EmptySet
<1>4. ASSUME NEW n \in Nat \ {0}
      PROVE  Config!Place(n) = Config!Place(n - 1) + (IF file[n] \in Config!Text THEN 1 ELSE 0)
  <2>1. n - 1 \in Nat /\ n \in Nat /\ n \notin T(n - 1)
    OBVIOUS
  <2>2. CASE file[n] \in Config!Text
    <3>1. T(n) = T(n - 1) \cup {n}
      BY <2>2
    <3>2. Cardinality(T(n)) = Cardinality(T(n - 1)) + 1
      BY <1>1, <2>1, <3>1, FS_AddElement
    <3>3. Config!Place(n) = Cardinality(T(n)) /\ Config!Place(n - 1) = Cardinality(T(n - 1))
      BY <1>2, <2>1
    <3> QED
      BY <2>2, <3>2, <3>3
  <2>3. CASE file[n] \notin Config!Text
    <3>1. T(n) = T(n - 1)
      BY <2>3
    <3>2. Config!Place(n) = Config!Place(n - 1) /\ Config!Place(n - 1) \in Nat
      BY <1>1, <1>2, <2>1, <3>1
    <3> QED
      BY <2>3, <3>2
  <2> QED
    BY <2>2, <2>3
<1>5. ASSUME NEW m \in Nat, NEW n \in Nat, m <= n
      PROVE  Config!Place(m) <= Config!Place(n)
  <2>1. T(m) \subseteq T(n)
    BY <1>5
  <2> QED
    BY <1>1, <1>2, <2>1, FS_Subset
<1>6. ASSUME NEW m \in Nat, NEW n \in Nat, m <= n,
             \A j \in m + 1 .. n : file[j] \notin Config!Text
      PROVE  Config!Place(m) = Config!Place(n)
  <2>1. T(m) = T(n)
    BY <1>6
  <2> QED
    BY <1>2, <2>1
<1> QED
  BY <1>1, <1>2, <1>3, <1>4, <1>5, <1>6

(* What the reader starts from.                                            *)
LEMMA ReaderTypes ==
    ASSUME StartInv
    PROVE  /\ format = Config!Client /\ Len(format) = 6
           /\ Len(file) \in Nat /\ at \in 1 .. Len(file) + 1 /\ confcount \in Nat
           /\ settings \in [1 .. 6 -> Nat] /\ \A k \in 1 .. 6 : settings[k] < at
<1>1. file \in Files /\ format = Config!Client /\ Len(format) = 6
  BY SixSettings DEF StartInv, PoolRead, Config!TypeOK
<1>2. Len(file) \in Nat
  BY <1>1, FilesAssumption
<1>3. settings \in [1 .. 6 -> 0 .. Len(file)]
  BY <1>1 DEF StartInv, Config!TypeOK
<1>4. settings \in [1 .. 6 -> Nat]
  BY <1>2, <1>3
<1> QED
  BY <1>1, <1>2, <1>4 DEF StartInv, PoolRead, Lines, Config!TypeOK

(* A line that is read takes the next place.                               *)
LEMMA ReadLinePlaced ==
    ASSUME StartInv, Placed, Config!ReadLine
    PROVE  Placed'
<1> DEFINE N(n) == Config!Place(n)
<1>1. /\ at <= Len(file) /\ file[at] # "empty" /\ ~ done
      /\ at' \in at + 1 .. Len(file) + 1 /\ Config!Follows(at, at')
      /\ confcount' = confcount + 1
      /\ UNCHANGED <<format, file, done>>
      /\ settings' = IF confcount + 1 <= 6 /\ Config!Takes(format[confcount + 1], file[at])
                     THEN [settings EXCEPT ![confcount + 1] = at] ELSE settings
  BY ReaderTypes DEF Config!ReadLine
<1>2. PICK m \in Nat : at' = m /\ at < m
  <2> DEFINE l == Len(file)
  <2>1. l \in Nat /\ at \in 1 .. l + 1 /\ at' \in at + 1 .. l + 1
    BY <1>1, ReaderTypes
  <2> HIDE DEF l
  <2>2. at' \in Nat /\ at < at'
    BY <2>1
  <2> QED
    BY <2>2
<1>a. /\ at \in Nat /\ at >= 1 /\ m - 1 \in Nat /\ at - 1 \in Nat /\ at <= m - 1
      /\ confcount \in Nat
      /\ settings \in [1 .. 6 -> Nat] /\ \A k \in 1 .. 6 : settings[k] < at
  <2>1. at \in Nat /\ at >= 1
    <3> DEFINE l == Len(file)
    <3>1. l \in Nat /\ at \in 1 .. l + 1
      BY ReaderTypes
    <3> HIDE DEF l
    <3> QED
      BY <3>1
  <2>2. m - 1 \in Nat /\ at - 1 \in Nat /\ at <= m - 1
    BY <1>2, <2>1
  <2> QED
    BY <2>1, <2>2, ReaderTypes
<1>3. /\ \A j \in at + 1 .. m - 1 : file[j] \notin Config!Text
      /\ at' <= Len(file) => file[at'] \in Config!Text
  BY <1>1, <1>2 DEF Config!Follows
<1>4. N(m - 1) = N(at)
  BY <1>2, <1>a, <1>3, Places
<1>5. /\ N(at) \in Nat /\ N(at - 1) \in Nat
      /\ N(at) = N(at - 1) + (IF file[at] \in Config!Text THEN 1 ELSE 0)
  <2>1. at \in Nat \ {0} /\ at - 1 \in Nat
    BY <1>2, <1>a
  <2> QED
    BY <2>1, Places
<1>6. file[1] # "empty"
  BY <1>1, <1>2, <1>a DEF Placed
<1>7. confcount + 1 = N(at) + Moved
  <2>1. CASE at = 1
    <3>1. confcount = 0 /\ N(at - 1) = 0
      BY <2>1, Places DEF Placed
    <3> QED
      BY <1>5, <2>1, <3>1 DEF Moved
  <2>2. CASE at > 1
    <3>1. confcount = N(at - 1) + Moved /\ file[at] \in Config!Text
      BY <1>1, <2>2 DEF Placed
    <3> QED
      BY <1>5, <3>1 DEF Moved
  <2> QED
    BY <1>2, <1>a, <2>1, <2>2
<1>8. Moved' = Moved /\ Moved \in {0, 1} /\ \A n : N(n)' = N(n)
  BY <1>1 DEF Moved, Config!Place
<1>9. \A k, n : ComesFrom(k, n)' <=> ComesFrom(k, n)
  BY <1>1, <1>8 DEF ComesFrom
<1>10. ASSUME NEW k \in 1 .. 6, NEW n \in 1 .. m - 1
       PROVE  settings'[k] = n <=> ComesFrom(k, n)
  <2> DEFINE c == confcount + 1
  <2> DEFINE taken == Config!Takes(format[c], file[at])
  <2>0. /\ c \in Nat /\ settings \in [1 .. 6 -> Nat]
        /\ settings' = IF c <= 6 /\ taken THEN [settings EXCEPT ![c] = at] ELSE settings
    BY <1>1, <1>a
  <2> HIDE DEF c, taken
  <2>1. /\ n \in Nat /\ n >= 1 /\ n < m /\ k \in Nat
        /\ settings'[k] = IF k = c /\ taken THEN at ELSE settings[k]
    <3>1. n \in Nat /\ n >= 1 /\ n < m
      BY <1>2, <1>a
    <3>2. settings'[k] = IF k = c /\ taken THEN at ELSE settings[k]
      BY <2>0
    <3> QED
      BY <3>1, <3>2
  <2>2. settings[k] \in Nat /\ settings[k] < at
    BY <1>2, <1>a
  <2>3. CASE n < at
    <3>1. n \in 1 .. at - 1
      BY <1>2, <1>a, <2>1, <2>3
    <3>2. settings[k] = n <=> ComesFrom(k, n)
      BY <3>1 DEF Placed
    <3>3. CASE k # c
      BY <2>1, <3>2, <3>3
    <3>4. CASE k = c
      <4>1. CASE file[at] \in Config!Text
        <5>0. n \in Nat /\ at - 1 \in Nat /\ n <= at - 1
          BY <1>2, <1>a, <2>1, <2>3
        <5>1. N(n) <= N(at - 1) /\ N(n) \in Nat
          BY <5>0, Places
        <5>2. k # N(n) + Moved
          BY <1>5, <1>7, <1>8, <3>4, <4>1, <5>1 DEF c
        <5>3. settings[k] # n /\ ~ ComesFrom(k, n)
          BY <3>2, <5>2 DEF ComesFrom
        <5> QED
          BY <1>2, <1>a, <2>1, <2>3, <5>3
      <4>2. CASE file[at] \notin Config!Text
        <5>1. at = 1
          <6>1. ~ at > 1
            BY <1>1, <4>2 DEF Placed
          <6> QED
            BY <1>2, <1>a, <6>1
        <5> QED
          BY <2>1, <2>3, <5>1
      <4> QED
        BY <4>1, <4>2
    <3> QED
      BY <3>3, <3>4
  <2>4. CASE n = at
    <3>1. settings'[k] = n <=> k = c /\ taken
      BY <2>1, <2>2, <2>4, <1>a
    <3>2. k = c <=> k = N(n) + Moved
      BY <1>7, <2>4 DEF c
    <3>3. k = c => (taken <=> /\ file[at] \in Config!Text
                              /\ format[k] = "d" => file[at] = "number")
      BY DEF Config!Takes, Config!Text, taken
    <3> QED
      BY <2>4, <3>1, <3>2, <3>3 DEF ComesFrom
  <2>5. CASE n > at
    <3>1. n \in at + 1 .. m - 1
      BY <1>2, <1>a, <2>1, <2>5
    <3>2. ~ ComesFrom(k, n)
      BY <1>3, <3>1 DEF ComesFrom
    <3>3. settings'[k] # n
      BY <1>2, <1>a, <2>1, <2>2, <2>5
    <3> QED
      BY <3>2, <3>3
  <2> QED
    BY <1>2, <1>a, <2>1, <2>3, <2>4, <2>5
<1>11. /\ at' # 1 /\ file'[1] # "empty" /\ ~ done'
       /\ confcount' = Config!Place(at - 1)' + Moved'
  BY <1>1, <1>2, <1>a, <1>4, <1>6, <1>7, <1>8
<1> QED
  BY <1>1, <1>2, <1>3, <1>9, <1>10, <1>11 DEF Placed

(* So do the other steps of the start keep to the places.                  *)
LEMMA PlacedStep == StartInv /\ Placed /\ [StartNext]_startVars => Placed'
<1> SUFFICES ASSUME StartInv, Placed, [StartNext]_startVars PROVE Placed'
  OBVIOUS
<1>1. ASSUME UNCHANGED <<format, file, at, confcount, settings>>,
             done' = done \/ (at <= Len(file) => file[at] = "empty")
      PROVE  Placed'
  <2>1. Moved' = Moved /\ \A k, n : ComesFrom(k, n)' <=> ComesFrom(k, n)
    BY <1>1 DEF Moved, ComesFrom, Config!Place
  <2>2. Config!Place(at - 1)' = Config!Place(at - 1)
    BY <1>1 DEF Config!Place
  <2> QED
    BY <1>1, <2>1, <2>2 DEF Placed
<1>2. CASE Config!ReadLine
  BY <1>2, ReadLinePlaced
<1>3. CASE Config!Stop
  BY <1>1, <1>3 DEF Config!Stop
<1>4. CASE UNCHANGED config
  BY <1>1, <1>4 DEF config
<1> QED
  BY <1>2, <1>3, <1>4 DEF StartNext, NoFile, ReadSettings, Start, startVars

(* Nothing has been read at first.                                         *)
LEMMA InitPlaced == StartInit => Placed
<1> SUFFICES ASSUME StartInit PROVE Placed
  OBVIOUS
<1>1. at = 1 /\ confcount = 0 /\ done = FALSE /\ format = Config!Client
  BY DEF StartInit, Config!Init
<1>2. \A k \in 1 .. 6 : settings[k] = 0
  BY <1>1, SixSettings DEF StartInit, Config!Init, Config!Unset
<1> QED
  BY <1>1, <1>2 DEF Placed

(* Each setting of the client comes from the line with text in its place,  *)
(* in every file.                                                          *)
THEOREM SettingsByPosition == StartSpec => []ByPosition
<1>1. StartInv /\ Placed => ByPosition
  <2> SUFFICES ASSUME StartInv, Placed, done, file # <<>>,
                      NEW k \in 1 .. Len(format), NEW n \in 1 .. Len(file)
               PROVE  settings[k] = n <=> file[1] # "empty" /\ ComesFrom(k, n)
    BY Zenon DEF ByPosition, Config!ByPosition, ComesFrom, Moved
  <2>1. /\ k \in 1 .. 6 /\ Len(file) \in Nat /\ at \in 1 .. Len(file) + 1
        /\ n \in Nat /\ n >= 1 /\ n <= Len(file)
    <3> DEFINE l == Len(file)
    <3>1. l \in Nat /\ at \in 1 .. l + 1 /\ Len(format) = 6
      BY ReaderTypes
    <3> HIDE DEF l
    <3>2. n \in 1 .. l
      BY DEF l
    <3>3. n \in Nat /\ n >= 1 /\ n <= l
      BY <3>1, <3>2
    <3> QED
      BY <3>1, <3>3 DEF l
  <2>2. CASE at = 1
    BY <2>1, <2>2 DEF Placed
  <2>3. CASE at > 1
    <3>1. at > Len(file)
      BY <2>1, <2>3 DEF Placed, Config!Text
    <3>2. n \in 1 .. at - 1 /\ file[1] # "empty"
      BY <2>1, <2>3, <3>1 DEF Placed
    <3> QED
      BY <2>1, <3>2 DEF Placed
  <2> QED
    BY <2>1, <2>2, <2>3
<1> QED
  BY StartInitInv, StartStep, InitPlaced, PlacedStep, <1>1, PTL DEF StartSpec
==============================================================================
