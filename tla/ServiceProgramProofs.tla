-------------------------- MODULE ServiceProgramProofs --------------------------
(* Proofs about the HTTP service, for any number of requests and of pieces *)
(* of their bodies, every configuration file and any outcome of the start. *)
EXTENDS ServiceProgram, SequenceTheorems, TLAPS

Info == [type : Methods, body : 0 .. MaxPieces, request : 1 .. MaxRequests, deleted : BOOLEAN]

(* The pointer is NULL between requests and until the headers have been    *)
(* seen, and set while the handler is called for anything else.            *)
Pointer ==
    /\ state \in {"waiting", "headers", "closed"} => con_cls = NULL
    /\ state \in {"upload", "footers"} => con_cls # NULL
    /\ con_cls # NULL => con_cls \in Ids /\ ~ infos[con_cls].deleted
                         /\ infos[con_cls].request = requests
                         /\ infos[con_cls].type = method
    /\ \A k \in Ids : ~ infos[k].deleted => k = con_cls \/ infos[k].type = "other"

(* A request gets its object at its headers.                               *)
OnePerRequest == state = "headers" => Len(infos) < requests

(* The body has the pieces that have come, and nothing is done before they *)
(* all have.                                                               *)
Collected ==
    /\ state = "headers" => left = total
    /\ state = "upload" => left > 0
    /\ state = "footers" => left = 0
    /\ state \in {"upload", "footers"} /\ method \in Uploads =>
           infos[con_cls].body = total - left
    /\ Called => works = {}
    /\ \A w \in works : w.no = 1 /\ (method \in Uploads => w.body = total)

HttpInv == TypeOK /\ Pointer /\ OnePerRequest /\ Collected
------------------------------------------------------------------------------
(* What the type invariant says of an object.                              *)
LEMMA InfoType ==
    ASSUME TypeOK
    PROVE  /\ infos \in Seq(Info) /\ Len(infos) \in Nat /\ Ids = 1 .. Len(infos)
           /\ \A k \in Ids : infos[k] \in Info
           /\ requests \in Nat /\ total \in Nat /\ left \in Nat /\ left <= total
           /\ con_cls \in 0 .. Len(infos)
<1>1. infos \in Seq(Info)
  BY DEF TypeOK, Info
<1>2. Len(infos) \in Nat /\ Ids = 1 .. Len(infos) /\ \A k \in Ids : infos[k] \in Info
  BY <1>1 DEF Ids
<1>3. requests \in Nat /\ total \in Nat /\ left \in Nat /\ left <= total
  BY BoundsAssumption DEF TypeOK
<1> QED
  BY <1>1, <1>2, <1>3 DEF TypeOK

(* A connection starts without an object.                                  *)
LEMMA HttpInitInv == Init => HttpInv
<1> SUFFICES ASSUME Init PROVE HttpInv
  OBVIOUS
<1> USE BoundsAssumption DEF Init
<1>1. TypeOK
  BY DEF TypeOK, States, Methods, NULL
<1>2. Pointer /\ OnePerRequest /\ Collected
  BY DEF Pointer, OnePerRequest, Collected, Called, Ids, NULL
<1> QED
  BY <1>1, <1>2 DEF HttpInv

(* The client begins a request.                                            *)
LEMMA RequestStep == HttpInv /\ Request => HttpInv'
<1> SUFFICES ASSUME HttpInv, Request PROVE HttpInv'
  OBVIOUS
<1> USE BoundsAssumption, InfoType DEF HttpInv, Request
<1>1. TypeOK'
  BY DEF TypeOK, States
<1>2. Pointer'
  BY DEF Pointer, Ids
<1>3. OnePerRequest'
  BY DEF OnePerRequest, TypeOK
<1>4. Collected'
  BY DEF Collected, Called
<1> QED
  BY <1>1, <1>2, <1>3, <1>4

(* The reply is sent, or the connection breaks: nothing of this changes.   *)
LEMMA OutsideStep == HttpInv /\ (Sent \/ Break) => HttpInv'
<1> SUFFICES ASSUME HttpInv, Sent \/ Break PROVE HttpInv'
  OBVIOUS
<1>1. /\ UNCHANGED <<method, total, left, con_cls, infos, requests, works>>
      /\ state' \in {"sent", "closed", "failed"}
      /\ state' = "closed" => state \in {"waiting", "headers"}
      /\ state \in {"waiting"} => state' = "closed"
  BY DEF Sent, Break, input
<1>2. TypeOK'
  BY <1>1 DEF HttpInv, TypeOK, States
<1>3. Pointer'
  BY <1>1 DEF HttpInv, Pointer, Ids
<1>4. OnePerRequest'
  BY <1>1 DEF HttpInv, OnePerRequest
<1>5. Collected'
  BY <1>1 DEF HttpInv, Collected, Called
<1> QED
  BY <1>2, <1>3, <1>4, <1>5 DEF HttpInv

(* The first call of a request makes its object.                           *)
LEMMA IncomingStep == HttpInv /\ Incoming => HttpInv'
<1> SUFFICES ASSUME HttpInv, Incoming PROVE HttpInv'
  OBVIOUS
<1> DEFINE new == [type |-> method, body |-> 0, request |-> requests, deleted |-> FALSE]
<1>1. /\ state = "headers" /\ con_cls = 0 /\ left = total /\ works = {}
      /\ Len(infos) < requests
  BY DEF HttpInv, Pointer, Collected, OnePerRequest, Incoming, Called, NULL
<1>2. /\ infos' = Append(infos, new)
      /\ con_cls' = (IF method = "other" THEN 0 ELSE Len(infos) + 1)
      /\ UNCHANGED <<method, total, requests, works>>
      /\ left' = left
      /\ state' = IF method = "other" THEN "failed"
                  ELSE IF left > 0 THEN "upload" ELSE "footers"
  BY <1>1 DEF Incoming, Proceed, HasData, NULL, input
<1>3. /\ infos \in Seq(Info) /\ Len(infos) \in Nat /\ requests \in 1 .. MaxRequests
      /\ method \in Methods /\ total \in 0 .. MaxPieces /\ left \in 0 .. total
  BY <1>1, InfoType, BoundsAssumption DEF HttpInv, TypeOK
<1>4. new \in Info
  BY <1>3, BoundsAssumption DEF Info
<1>5. /\ infos' \in Seq(Info) /\ Len(infos') = Len(infos) + 1
      /\ infos'[Len(infos) + 1] = new
      /\ \A k \in 1 .. Len(infos) : infos'[k] = infos[k]
  BY <1>2, <1>3, <1>4
<1> HIDE DEF new
<1>6. TypeOK'
  <2>1. Len(infos') <= requests' /\ con_cls' \in 0 .. Len(infos')
    BY <1>1, <1>2, <1>3, <1>5
  <2>2. works' \subseteq [no : {1, 2}, body : 0 .. MaxPieces]
    BY <1>1, <1>2
  <2>3. state' \in States /\ left' \in 0 .. total' /\ total' \in 0 .. MaxPieces
        /\ method' \in Methods
    BY <1>2, <1>3 DEF States
  <2>4. requests' \in 0 .. MaxRequests
    BY <1>2, <1>3
  <2> QED
    BY <1>5, <2>1, <2>2, <2>3, <2>4 DEF TypeOK, Info
<1>7. Pointer'
  <2>1. Ids' = 1 .. Len(infos) + 1 /\ Ids = 1 .. Len(infos)
    BY <1>3, <1>5 DEF Ids
  <2>2. new.type = method /\ new.request = requests /\ new.deleted = FALSE
    BY DEF new
  <2>3. state' \notin {"waiting", "headers", "closed"}
        /\ (state' \in {"upload", "footers"} => con_cls' # 0)
    BY <1>2, <1>3
  <2>4. con_cls' # 0 => con_cls' = Len(infos) + 1 /\ con_cls' \in Ids'
    BY <1>2, <1>3, <2>1
  <2>5. ASSUME NEW k \in Ids', ~ infos'[k].deleted
        PROVE  k = con_cls' \/ infos'[k].type = "other"
    <3>1. CASE k = Len(infos) + 1
      BY <1>2, <1>5, <2>2, <3>1
    <3>2. CASE k # Len(infos) + 1
      <4>1. k \in Ids /\ infos'[k] = infos[k]
        BY <1>3, <1>5, <2>1, <3>2
      <4>2. k # con_cls
        BY <1>1, <2>1, <4>1
      <4> QED
        BY <2>5, <4>1, <4>2 DEF HttpInv, Pointer
    <3> QED
      BY <3>1, <3>2
  <2> QED
    BY <1>2, <1>5, <2>2, <2>3, <2>4, <2>5 DEF Pointer, NULL
<1>8. OnePerRequest'
  BY <1>1, <1>2, <1>3 DEF OnePerRequest
<1>9. Collected'
  <2>1. con_cls' # 0 => infos'[con_cls'].body = 0
    BY <1>2, <1>5 DEF new
  <2>2. method' # "other" => con_cls' # 0
    BY <1>2, <1>3
  <2>3. state' \in {"upload", "footers"} => infos'[con_cls'].body = total' - left'
    BY <1>1, <1>2, <1>3, <2>1, <2>2
  <2> QED
    BY <1>1, <1>2, <1>3, <2>3 DEF Collected
<1> QED
  BY <1>6, <1>7, <1>8, <1>9 DEF HttpInv

(* A piece of the body is added to the object of its request.              *)
LEMMA CollectStep == HttpInv /\ Collect => HttpInv'
<1> SUFFICES ASSUME HttpInv, Collect PROVE HttpInv'
  OBVIOUS
<1> DEFINE c == con_cls
<1>1. /\ state = "upload" /\ c # 0 /\ c \in Ids /\ method \in Uploads
      /\ infos[c].body = total - left /\ left > 0 /\ works = {}
  BY DEF HttpInv, Pointer, Collected, Collect, Collecting, Called, HasData, NULL
<1>2. /\ infos' = [infos EXCEPT ![c].body = @ + 1]
      /\ UNCHANGED <<method, total, con_cls, requests, works>>
      /\ left' = left - 1
      /\ state' = IF left' > 0 THEN "upload" ELSE "footers"
  BY <1>1 DEF Collect, Proceed, HasData, input
<1>3. /\ infos \in Seq(Info) /\ Len(infos) \in Nat /\ Ids = 1 .. Len(infos)
      /\ \A k \in Ids : infos[k] \in Info
      /\ total \in 0 .. MaxPieces /\ left \in 0 .. total
  BY InfoType, BoundsAssumption DEF HttpInv, TypeOK
<1>4. infos[c].body + 1 \in 0 .. MaxPieces
  BY <1>1, <1>3, BoundsAssumption
<1>5. /\ infos' \in Seq(Info) /\ Len(infos') = Len(infos) /\ Ids' = Ids
      /\ \A k \in Ids \ {c} : infos'[k] = infos[k]
      /\ infos'[c] = [infos[c] EXCEPT !.body = @ + 1]
  <2> DEFINE e == [infos[c] EXCEPT !.body = infos[c].body + 1]
  <2>1. e \in Info
    BY <1>1, <1>3, <1>4 DEF Info
  <2>2. infos' = [infos EXCEPT ![c] = e]
    BY <1>2
  <2> HIDE DEF e
  <2>3. infos' \in Seq(Info) /\ Len(infos') = Len(infos)
        /\ \A k \in 1 .. Len(infos) : infos'[k] = IF k = c THEN e ELSE infos[k]
    BY <1>1, <1>3, <2>1, <2>2, ExceptSeq
  <2>4. Ids' = Ids
    BY <1>3, <2>3 DEF Ids
  <2> QED
    BY <1>1, <1>3, <2>3, <2>4 DEF e
<1>6. /\ infos'[c].body = total - left' /\ infos'[c].type = infos[c].type
      /\ infos'[c].request = infos[c].request /\ infos'[c].deleted = infos[c].deleted
  <2>1. infos[c] \in Info
    BY <1>1, <1>3
  <2> QED
    BY <1>1, <1>2, <1>3, <1>5, <2>1 DEF Info
<1> HIDE DEF c
<1>7. TypeOK'
  <2>1. left' \in 0 .. total' /\ state' \in States
    BY <1>1, <1>2, <1>3 DEF States
  <2> QED
    BY <1>2, <1>5, <2>1 DEF HttpInv, TypeOK, Info, c
<1>8. Pointer'
  <2>1. \A k \in Ids : infos'[k].deleted = infos[k].deleted /\ infos'[k].type = infos[k].type
    BY <1>5, <1>6
  <2> QED
    BY <1>1, <1>2, <1>5, <1>6, <2>1 DEF HttpInv, Pointer, NULL, c
<1>9. OnePerRequest'
  BY <1>1, <1>2 DEF HttpInv, OnePerRequest
<1>10. Collected'
  BY <1>1, <1>2, <1>3, <1>6 DEF HttpInv, Collected, c
<1> QED
  BY <1>7, <1>8, <1>9, <1>10 DEF HttpInv

(* The work is done, once, and the handler is not called again.            *)
LEMMA WorkStep == HttpInv /\ Work => HttpInv'
<1> SUFFICES ASSUME HttpInv, Work PROVE HttpInv'
  OBVIOUS
<1>1. /\ state \in {"upload", "footers"} /\ con_cls # 0 /\ con_cls \in Ids
      /\ works = {} /\ (method \in Uploads => state = "footers")
      /\ infos[con_cls].type = method
  BY DEF HttpInv, Pointer, Collected, Work, Collecting, Called, HasData, NULL
<1>2. /\ works' = {[no |-> 1, body |-> infos[con_cls].body]}
      /\ UNCHANGED <<method, total, con_cls, infos, requests>>
  BY <1>1 DEF Work, input
<1>3. state' \in {"failed", "reply"} /\ left' = IF state = "upload" THEN left - 1 ELSE left
  BY <1>1 DEF Work, send_page, Proceed, HasData
<1>4. /\ total \in 0 .. MaxPieces /\ left \in 0 .. total
      /\ infos[con_cls].body \in 0 .. MaxPieces
      /\ (state = "upload" => left > 0)
  BY <1>1, InfoType DEF HttpInv, TypeOK, Info, Collected
<1>5. method \in Uploads => infos[con_cls].body = total
  BY <1>1, <1>4 DEF HttpInv, Collected
<1>6. TypeOK'
  <2>1. left' \in 0 .. total'
    BY <1>2, <1>3, <1>4, BoundsAssumption
  <2> QED
    BY <1>2, <1>3, <1>4, <2>1 DEF HttpInv, TypeOK, States
<1>7. Pointer'
  BY <1>1, <1>2, <1>3 DEF HttpInv, Pointer, Ids
<1>8. OnePerRequest'
  BY <1>1, <1>2, <1>3 DEF HttpInv, OnePerRequest
<1>9. Collected'
  BY <1>2, <1>3, <1>5 DEF Collected, Called
<1> QED
  BY <1>6, <1>7, <1>8, <1>9 DEF HttpInv

(* The object goes with its request.                                       *)
LEMMA CompletedStep == HttpInv /\ Completed => HttpInv'
<1> SUFFICES ASSUME HttpInv, Completed PROVE HttpInv'
  OBVIOUS
<1>1. /\ state \in {"sent", "failed"} /\ state' \in {"waiting", "closed"} /\ con_cls' = 0
      /\ UNCHANGED <<method, total, left, requests, works>>
      /\ infos' = IF con_cls = 0 THEN infos
                  ELSE [infos EXCEPT ![con_cls].deleted = TRUE]
  BY DEF Completed, CleanUp, NULL, input
<1>2. /\ infos \in Seq(Info) /\ Len(infos) \in Nat /\ Ids = 1 .. Len(infos)
      /\ \A k \in Ids : infos[k] \in Info
      /\ con_cls # 0 => con_cls \in Ids
  BY InfoType DEF HttpInv, Pointer, NULL
<1>3. /\ infos' \in Seq(Info) /\ Len(infos') = Len(infos) /\ Ids' = Ids
      /\ \A k \in Ids \ {con_cls} : infos'[k] = infos[k]
      /\ con_cls # 0 => infos'[con_cls].deleted = TRUE
  <2>1. CASE con_cls = 0
    BY <1>1, <1>2, <2>1 DEF Ids
  <2>2. CASE con_cls # 0
    <3> DEFINE e == [infos[con_cls] EXCEPT !.deleted = TRUE]
    <3>1. con_cls \in Ids /\ e \in Info /\ e.deleted = TRUE
      BY <1>2, <2>2 DEF Info
    <3>2. infos' = [infos EXCEPT ![con_cls] = e]
      BY <1>1, <2>2
    <3> HIDE DEF e
    <3>3. infos' \in Seq(Info) /\ Len(infos') = Len(infos)
          /\ \A k \in 1 .. Len(infos) : infos'[k] = IF k = con_cls THEN e ELSE infos[k]
      BY <1>2, <3>1, <3>2, ExceptSeq
    <3>4. Ids' = Ids
      BY <1>2, <3>3 DEF Ids
    <3> QED
      BY <1>2, <3>1, <3>3, <3>4
  <2> QED
    BY <2>1, <2>2
<1>4. TypeOK'
  <2>1. con_cls' \in 0 .. Len(infos') /\ state' \in States
    BY <1>1, <1>2, <1>3 DEF States
  <2> QED
    BY <1>1, <1>3, <2>1 DEF HttpInv, TypeOK, Info
<1>5. Pointer'
  <2>1. ASSUME NEW k \in Ids', ~ infos'[k].deleted PROVE infos'[k].type = "other"
    <3>1. k \in Ids /\ k # con_cls
      BY <1>2, <1>3, <2>1
    <3>2. infos'[k] = infos[k]
      BY <1>3, <3>1
    <3> QED
      BY <2>1, <3>1, <3>2 DEF HttpInv, Pointer
  <2> QED
    BY <1>1, <2>1 DEF Pointer, NULL
<1>6. OnePerRequest'
  BY <1>1 DEF HttpInv, OnePerRequest
<1>7. Collected'
  BY <1>1 DEF HttpInv, Collected, Called
<1> QED
  BY <1>4, <1>5, <1>6, <1>7 DEF HttpInv

(* The callbacks keep their invariant, whatever main does meanwhile.       *)
LEMMA HttpStep == HttpInv /\ [ProgramNext]_all => HttpInv'
<1> SUFFICES ASSUME HttpInv, [ProgramNext]_all PROVE HttpInv'
  OBVIOUS
<1>1. CASE UNCHANGED vars
  BY <1>1 DEF vars, input, HttpInv, TypeOK, Pointer, OnePerRequest, Collected, Called, Ids
<1>2. CASE Next
  BY <1>2, RequestStep, OutsideStep, IncomingStep, CollectStep, WorkStep, CompletedStep
     DEF Next, Handler
<1>3. UNCHANGED vars \/ Next
  BY DEF ProgramNext, NoFile, ReadSettings, Starting, Serving, all
<1> QED
  BY <1>1, <1>2, <1>3

(* The invariant of the callbacks.                                         *)
THEOREM Invariance == ProgramSpec => []HttpInv
<1>1. ProgramInit => HttpInv
  BY HttpInitInv DEF ProgramInit
<1> QED
  BY <1>1, HttpStep, PTL DEF ProgramSpec

(* A request uses no object but its own, and leaves none behind but those  *)
(* of a method that is not known.                                          *)
THEOREM ObjectsOwned == ProgramSpec => []OwnInfo
<1>1. HttpInv => OwnInfo
  BY DEF HttpInv, Pointer, OwnInfo, Live
<1> QED
  BY <1>1, Invariance, PTL

(* Work is done once for a request, with the whole body.                   *)
THEOREM WorkDoneOnce == ProgramSpec => []WorkOnce
<1>1. HttpInv => WorkOnce
  BY DEF HttpInv, Collected, WorkOnce
<1> QED
  BY <1>1, Invariance, PTL
------------------------------------------------------------------------------
(* How far main has come decides what there is.                            *)
First == {"command", "watchdog", "watching", "limit"}
Early == First \cup {"db", "retry"}
Late  == {"pool", "apns", "clean", "daemon", "streams", "running"}

(* What main has at each of its steps.                                     *)
HasBase ==
    /\ pc \in First \cup {"db"} => db = "none"
    /\ pc \in {"lock", "semaphore"} \cup Late => db = "open"
    /\ pc \in Early \cup {"lock"} => sync = {}
    /\ pc = "semaphore" => sync = {"lock"}
    /\ pc \in Late => sync = {"lock", "semaphore"}
    /\ pc = "retry" => try < MaxTry - 1

HasThreads ==
    /\ pc \in Early \cup {"lock", "semaphore", "exited"} => threads = 0
    /\ threads > 0 => threads <= pool
    /\ pc \in Late \ {"pool"} => threads >= pool
    /\ pc \notin {"clean", "daemon", "streams", "running"} => others = {}
    /\ pc = "clean" => others = {"apns"}
    /\ pc \in {"daemon", "streams", "running"} => others = {"apns", "clean"}

HasDaemon ==
    /\ pc \in {"streams", "running"} => daemon = TRUE
    /\ pc \notin {"streams", "running"} => daemon = FALSE
    /\ pc # "running" => streams = TRUE
    /\ pc = "exited" => told = TRUE \/ behind # "nothing"
    /\ pc \in {"command", "watchdog"} => behind = "nothing"
    /\ behind = "child" /\ pc \notin {"watching", "exited"} => stop = TRUE

Has == HasBase /\ HasThreads /\ HasDaemon

StartInv == Start!TypeOK /\ Has

(* The reader has taken the settings it has from lines of the file, and    *)
(* only a running daemon has seen a request.                               *)
ReadSoFar ==
    /\ format = Config!Service
    /\ confcount < at
    /\ pool > 0 => settings[PoolSetting] # Config!Unset
    /\ requests > 0 => daemon = TRUE

ProgramInv == HttpInv /\ StartInv /\ Config!TypeOK /\ ReadSoFar

(* The service has ten settings.                                           *)
LEMMA TenSettings == Len(Config!Service) = 10 /\ PoolSetting \in 1 .. 10
BY DEF Config!Service, PoolSetting

(* The order of main's steps.                                              *)
LEMMA Order ==
    /\ Start!After("command") = "limit" /\ Start!After("watchdog") = "limit"
    /\ Start!After("limit") = "db" /\ Start!After("db") = "lock"
    /\ Start!After("lock") = "semaphore" /\ Start!After("semaphore") = "pool"
    /\ Start!After("pool") = "apns" /\ Start!After("apns") = "clean"
    /\ Start!After("clean") = "daemon" /\ Start!After("daemon") = "streams"
    /\ Start!After("streams") = "running"
BY DEF Start!After

(* main starts with nothing.                                               *)
LEMMA ProgramInitInv == ProgramInit => ProgramInv
<1> SUFFICES ASSUME ProgramInit PROVE ProgramInv
  OBVIOUS
<1>1. HttpInv /\ requests = 0
  BY HttpInitInv DEF ProgramInit, Init
<1>2. /\ pc = "command" /\ stop = FALSE /\ behind = "nothing" /\ try = 0 /\ db = "none" /\ sync = {}
      /\ pool \in PoolSizes /\ pool = 0 /\ threads = 0 /\ others = {} /\ daemon = FALSE /\ streams = TRUE /\ told = FALSE
  BY DEF ProgramInit, Start!Init
<1>3. Start!TypeOK
  <2>1. try \in 0 .. MaxTry - 1 /\ threads \in Nat
    BY <1>2, TryAssumption
  <2>2. daemon \in BOOLEAN /\ streams \in BOOLEAN /\ told \in BOOLEAN /\ stop \in BOOLEAN
    BY <1>2, Zenon
  <2>3. pc \in Start!Steps /\ db \in Start!Pools /\ behind \in Start!Places
    BY <1>2 DEF Start!Steps, Start!Pools, Start!Places
  <2> QED
    BY <1>2, <2>1, <2>2, <2>3 DEF Start!TypeOK
<1>4. Has
  BY <1>2 DEF Has, HasBase, HasThreads, HasDaemon, First, Early, Late
<1>5. format = Config!Service /\ file \in Files /\ at = 1 /\ confcount = 0 /\ done = FALSE
  BY DEF ProgramInit, Config!Init
<1>6. settings = [k \in 1 .. Len(format) |-> 0]
  BY DEF ProgramInit, Config!Init, Config!Unset
<1>7. Len(file) \in Nat
  BY <1>5, FilesAssumption
<1>8. Config!TypeOK
  <2>1. settings \in [1 .. Len(format) -> 0 .. Len(file)]
    BY <1>6, <1>7
  <2>2. done \in BOOLEAN
    BY <1>5, Zenon
  <2>3. at \in 1 .. Len(file) + 1 /\ confcount \in 0 .. Len(file)
    BY <1>5, <1>7
  <2> QED
    BY <1>5, <2>1, <2>2, <2>3, Zenon DEF Config!TypeOK
<1>9. ReadSoFar
  BY <1>1, <1>2, <1>5 DEF ReadSoFar
<1> QED
  BY <1>1, <1>3, <1>4, <1>8, <1>9 DEF ProgramInv, StartInv

(* exit ends all threads, and main has its streams until it serves.        *)
LEMMA ExitStep ==
    ASSUME StartInv, pc \notin {"streams", "running"}, Start!Exit,
           UNCHANGED <<try, db, sync, pool, streams, stop, behind>>
    PROVE  StartInv'
<1>1. streams = TRUE /\ told' = TRUE /\ threads' = 0 /\ others' = {} /\ daemon' = FALSE
      /\ pc' = "exited" /\ streams' = TRUE
  BY DEF StartInv, Has, HasDaemon, Start!Exit
<1>2. Start!TypeOK'
  BY <1>1 DEF StartInv, Start!TypeOK
<1>3. Has'
  BY <1>1 DEF Has, HasBase, HasThreads, HasDaemon, First, Early, Late
<1> QED
  BY <1>2, <1>3 DEF StartInv

(* The command line: the process goes on, or leaves its place to another.  *)
LEMMA LaunchStep == StartInv /\ Start!Launch => StartInv' /\ pool' = pool
<1> SUFFICES ASSUME StartInv, Start!Launch PROVE StartInv' /\ pool' = pool
  OBVIOUS
<1> USE DEF StartInv, Start!TypeOK, Has, HasBase, HasThreads, HasDaemon, First, Early, Late,
            Start!Steps, Start!Pools, Start!Places
<1>1. CASE Start!ProcessCommand
  BY <1>1, Order DEF Start!ProcessCommand, Start!Goto
<1>2. CASE Start!DoService
  BY <1>2 DEF Start!DoService, Start!LeaveTo
<1>3. CASE Start!Upgrading
  BY <1>3 DEF Start!Upgrading, Start!LeaveTo
<1>4. CASE Start!WatchDog
  BY <1>4, Order DEF Start!WatchDog
<1>5. CASE Start!ChildEnds
  BY <1>5 DEF Start!ChildEnds, Start!LeaveTo
<1>6. CASE Start!Terminate
  BY <1>6 DEF Start!Terminate
<1> QED
  BY <1>1, <1>2, <1>3, <1>4, <1>5, <1>6 DEF Start!Launch

(* The steps of main after the configuration.                              *)
LEMMA MainStep ==
    StartInv /\ Start!Next => StartInv' /\ pool' = pool
<1> SUFFICES ASSUME StartInv, Start!Next PROVE StartInv' /\ pool' = pool
  OBVIOUS
<1>0. pool \in Int /\ threads \in Nat /\ try \in 0 .. MaxTry - 1 /\ MaxTry \in Nat \ {0}
  BY PoolAssumption, TryAssumption DEF StartInv, Start!TypeOK
<1> USE DEF StartInv, Start!TypeOK, Has, HasBase, HasThreads, HasDaemon, First, Early, Late,
            Start!Steps, Start!Pools, Start!Places
<1>0a. CASE Start!Launch
  BY <1>0a, LaunchStep
<1>1. CASE Start!SetLimit
  BY <1>1, Order DEF Start!SetLimit, Start!Goto
<1>2. CASE Start!OpenDb
  BY <1>2, Order DEF Start!OpenDb, Start!Goto
<1>3. CASE Start!OpenDbFails
  BY <1>0, <1>3 DEF Start!OpenDbFails, Start!GiveUp
<1>4. CASE Start!LastAttemptFails
  <2>1. streams = TRUE /\ told' = TRUE /\ threads' = 0 /\ others' = {} /\ daemon' = FALSE
        /\ pc' = "exited" /\ streams' = TRUE
    BY <1>4 DEF Start!LastAttemptFails, Start!Exit
  <2> QED
    BY <1>4, <2>1 DEF Start!LastAttemptFails
<1>5. CASE Start!Destroy
  BY <1>0, <1>5 DEF Start!Destroy
<1>6. CASE Start!InitSync("lock")
  BY <1>6, Order DEF Start!InitSync, Start!Goto
<1>7. CASE Start!InitSync("semaphore")
  BY <1>7, Order DEF Start!InitSync, Start!Goto
<1>8. CASE Start!CreatePool
  BY <1>0, <1>8, Order DEF Start!CreatePool
<1>9. CASE Start!CreateThread("apns")
  BY <1>9, Order DEF Start!CreateThread, Start!Goto
<1>10. CASE Start!CreateThread("clean")
  BY <1>10, Order DEF Start!CreateThread, Start!Goto
<1>11. CASE Start!StartDaemon
  BY <1>11, Order DEF Start!StartDaemon, Start!Goto
<1>12. CASE Start!Fails
  BY <1>12, ExitStep DEF Start!Fails
<1>13. CASE Start!CloseStreams
  BY <1>13, Order DEF Start!CloseStreams, Start!Goto
<1> QED
  BY <1>0a, <1>1, <1>2, <1>3, <1>4, <1>5, <1>6, <1>7, <1>8, <1>9, <1>10, <1>11, <1>12,
     <1>13 DEF Start!Next

(* What is left alone keeps the invariant.                                 *)
LEMMA StartKept == StartInv /\ UNCHANGED start => StartInv'
BY DEF StartInv, Start!TypeOK, Has, HasBase, HasThreads, HasDaemon, First, Early, Late, start

LEMMA ConfigKept ==
    Config!TypeOK /\ ReadSoFar /\ UNCHANGED config /\ pool' = pool
    /\ (requests' > 0 => daemon' = TRUE)
    => Config!TypeOK' /\ ReadSoFar'
BY DEF Config!TypeOK, ReadSoFar, config

LEMMA HttpKept == HttpInv /\ UNCHANGED vars => HttpInv' /\ requests' = requests
<1> SUFFICES ASSUME HttpInv, UNCHANGED vars PROVE HttpInv' /\ requests' = requests
  OBVIOUS
<1>1. requests' = requests
  BY DEF vars
<1>2. HttpInv'
  BY HttpStep DEF HttpInv, vars, input, TypeOK, Pointer, OnePerRequest, Collected, Called, Ids
<1> QED
  BY <1>1, <1>2

(* A line that is read sets at most one setting, from that line.           *)
LEMMA ReadStep == ProgramInv /\ ReadSettings => ProgramInv'
<1> SUFFICES ASSUME ProgramInv, ReadSettings PROVE ProgramInv'
  OBVIOUS
<1>1. HttpInv' /\ requests' = requests
  BY HttpKept DEF ProgramInv, ReadSettings
<1>2. /\ pc = "command" /\ pool \in PoolSizes /\ pool' \in PoolSizes
      /\ UNCHANGED <<pc, try, db, sync, threads, others, daemon, streams, told, stop, behind>>
  BY DEF ReadSettings, ProgramInv, StartInv, Start!TypeOK
<1>3. StartInv'
  <2>1. threads = 0
    BY <1>2 DEF ProgramInv, StartInv, Has, HasThreads, First, Early
  <2>2. Start!TypeOK'
    BY <1>2 DEF ProgramInv, StartInv, Start!TypeOK
  <2>3. Has'
    BY <1>2, <2>1 DEF ProgramInv, StartInv, Has, HasBase, HasThreads, HasDaemon, First, Early, Late
  <2> QED
    BY <2>2, <2>3 DEF StartInv
<1>4. /\ format = Config!Service /\ Len(format) = 10
      /\ file \in Files /\ Len(file) \in Nat
      /\ at \in 1 .. Len(file) + 1 /\ confcount \in 0 .. Len(file) /\ confcount < at
      /\ settings \in [1 .. 10 -> 0 .. Len(file)]
  BY TenSettings, FilesAssumption DEF ProgramInv, Config!TypeOK, ReadSoFar
<1>5. /\ pool \in Int /\ pool' \in Int
      /\ pool > 0 => settings[8] # 0
      /\ pool' # pool => settings'[8] # settings[8]
  BY <1>2, PoolAssumption DEF ProgramInv, ReadSettings, ReadSoFar, PoolSetting, Config!Unset
<1>6. requests' > 0 => daemon' = TRUE
  BY <1>1, <1>2 DEF ProgramInv, ReadSoFar
<1>7. CASE Config!Stop
  <2>1. UNCHANGED <<format, file, at, confcount, settings>> /\ done' = TRUE
    BY <1>7 DEF Config!Stop
  <2>2. Config!TypeOK'
    BY <1>4, <2>1 DEF ProgramInv, Config!TypeOK
  <2>3. ReadSoFar'
    BY <1>4, <1>5, <1>6, <2>1 DEF ProgramInv, ReadSoFar, PoolSetting, Config!Unset
  <2> QED
    BY <1>1, <1>3, <2>2, <2>3 DEF ProgramInv
<1>8. CASE Config!ReadLine
  <2>1. /\ at <= Len(file) /\ confcount' = confcount + 1
        /\ at' \in at + 1 .. Len(file) + 1
        /\ UNCHANGED <<format, file, done>>
    BY <1>8 DEF Config!ReadLine
  <2>2. \/ settings' = settings
        \/ \E k \in 1 .. 10 : settings' = [settings EXCEPT ![k] = at]
    <3>1. confcount + 1 \in 1 .. Len(file)
      BY <1>4, <2>1
    <3> QED
      BY <1>4, <1>8, <3>1 DEF Config!ReadLine
  <2>0. at \in 1 .. Len(file)
    BY <1>4, <2>1
  <2>3. settings' \in [1 .. 10 -> 0 .. Len(file)]
    <3>1. CASE settings' = settings
      BY <1>4, <3>1
    <3>2. ASSUME NEW k \in 1 .. 10, settings' = [settings EXCEPT ![k] = at]
          PROVE  settings' \in [1 .. 10 -> 0 .. Len(file)]
      <4>1. settings \in [1 .. 10 -> 0 .. Len(file)] /\ at \in 0 .. Len(file)
        BY <1>4, <2>0
      <4> QED
        BY <3>2, <4>1
    <3> QED
      BY <2>2, <3>1, <3>2
  <2>4. settings'[8] # settings[8] => settings'[8] = at
    <3>1. ASSUME NEW k \in 1 .. 10, settings' = [settings EXCEPT ![k] = at]
          PROVE  settings'[8] # settings[8] => settings'[8] = at
      BY <1>4, <3>1
    <3> QED
      BY <2>2, <3>1
  <2>5. pool' > 0 => settings'[8] # 0
    <3>1. CASE pool' = pool
      <4>1. settings[8] # 0 => settings'[8] # 0
        BY <2>0, <2>4
      <4> QED
        BY <1>5, <3>1, <4>1
    <3>2. CASE pool' # pool
      <4>1. settings'[8] = at /\ at # 0
        BY <1>5, <2>0, <2>4, <3>2
      <4> QED
        BY <4>1
    <3> QED
      BY <3>1, <3>2
  <2>6. Config!TypeOK'
    <3>1. settings' \in [1 .. Len(format') -> 0 .. Len(file')]
      BY <1>4, <2>1, <2>3
    <3>2. at' \in 1 .. Len(file') + 1 /\ confcount' \in 0 .. Len(file')
      BY <1>4, <2>1
    <3>3. done' \in BOOLEAN /\ file' \in Files /\ format' = Config!Service
      BY <1>4, <2>1 DEF ProgramInv, Config!TypeOK
    <3> QED
      BY <3>1, <3>2, <3>3, Zenon DEF Config!TypeOK
  <2>7. ReadSoFar'
    <3>1. confcount' < at' /\ format' = Config!Service
      BY <1>4, <2>1
    <3> QED
      BY <1>6, <2>5, <3>1 DEF ReadSoFar, PoolSetting, Config!Unset
  <2> QED
    BY <1>1, <1>3, <2>6, <2>7 DEF ProgramInv
<1> QED
  BY <1>7, <1>8 DEF ReadSettings

(* The program: its configuration, its start, and its requests.            *)
LEMMA ProgramStep == ProgramInv /\ [ProgramNext]_all => ProgramInv'
<1> SUFFICES ASSUME ProgramInv, [ProgramNext]_all PROVE ProgramInv'
  OBVIOUS
<1>1. CASE NoFile
  <2>1. HttpInv' /\ requests' = requests
    BY <1>1, HttpKept DEF NoFile, ProgramInv
  <2>2. StartInv'
    BY <1>1, ExitStep DEF NoFile, ProgramInv
  <2>3. daemon = FALSE /\ requests \in Nat /\ ~ (requests > 0)
    BY <1>1 DEF NoFile, ProgramInv, StartInv, Has, HasDaemon, ReadSoFar, HttpInv, TypeOK
  <2>4. Config!TypeOK' /\ ReadSoFar'
    BY <1>1, <2>1, <2>3, ConfigKept DEF NoFile, ProgramInv
  <2> QED
    BY <2>1, <2>2, <2>4 DEF ProgramInv
<1>2. CASE ReadSettings
  BY <1>2, ReadStep
<1>3. CASE Starting
  <2>1. HttpInv' /\ requests' = requests
    BY <1>3, HttpKept DEF Starting, ProgramInv
  <2>2. StartInv' /\ pool' = pool
    BY <1>3, MainStep DEF Starting, ProgramInv
  <2>3. requests > 0 => daemon' = TRUE
    <3> SUFFICES ASSUME requests > 0 PROVE daemon' = TRUE
      OBVIOUS
    <3>1. pc \in {"streams", "running"}
      BY DEF ProgramInv, StartInv, Has, HasDaemon, ReadSoFar
    <3>2. Start!CloseStreams
      BY <1>3, <3>1 DEF Starting, Start!Next, Start!SetLimit, Start!OpenDb, Start!OpenDbFails,
            Start!LastAttemptFails, Start!Destroy, Start!InitSync, Start!CreatePool,
            Start!CreateThread, Start!StartDaemon, Start!Fails, Start!Goto, Start!Launch,
            Start!ProcessCommand, Start!DoService, Start!Upgrading, Start!WatchDog,
            Start!ChildEnds, Start!Terminate
    <3> QED
      BY <3>1, <3>2 DEF Start!CloseStreams, ProgramInv, StartInv, Has, HasDaemon
  <2>4. Config!TypeOK' /\ ReadSoFar'
    BY <1>3, <2>1, <2>2, <2>3, ConfigKept DEF Starting, ProgramInv
  <2> QED
    BY <2>1, <2>2, <2>4 DEF ProgramInv
<1>4. CASE Serving(Next)
  <2>1. HttpInv'
    BY <1>4, HttpStep DEF ProgramNext, ProgramInv
  <2>2. StartInv' /\ pool' = pool /\ daemon' = TRUE
    <3>1. UNCHANGED start /\ daemon = TRUE
      BY <1>4 DEF Serving, ProgramInv, StartInv, Start!TypeOK
    <3> QED
      BY <3>1, StartKept DEF ProgramInv, start
  <2>3. Config!TypeOK' /\ ReadSoFar'
    BY <1>4, <2>2, ConfigKept DEF Serving, ProgramInv
  <2> QED
    BY <2>1, <2>2, <2>3 DEF ProgramInv
<1>5. CASE UNCHANGED all
  <2>1. UNCHANGED vars /\ UNCHANGED start /\ UNCHANGED config
    BY <1>5 DEF all
  <2>2. HttpInv' /\ requests' = requests
    BY <2>1, HttpKept DEF ProgramInv
  <2>3. StartInv' /\ pool' = pool /\ daemon' = daemon
    BY <2>1, StartKept DEF ProgramInv, start
  <2>4. Config!TypeOK' /\ ReadSoFar'
    BY <2>1, <2>2, <2>3, ConfigKept DEF ProgramInv, ReadSoFar
  <2> QED
    BY <2>2, <2>3, <2>4 DEF ProgramInv
<1> QED
  BY <1>1, <1>2, <1>3, <1>4, <1>5 DEF ProgramNext

(* Nothing runs, and nothing is served, before what it needs; there is a   *)
(* pool only if the file gives its size in the eighth place, and main      *)
(* idles only when it is whole; a process ends with a word or leaves its   *)
(* place to another; and none but a watchdog told to stop between two      *)
(* children is the service next to its own child.                          *)
THEOREM StartsInOrder == ProgramSpec => []StartInOrder
<1>1. ProgramInv => StartInOrder
  <2> SUFFICES ASSUME ProgramInv PROVE StartInOrder
    OBVIOUS
  <2>1. pool \in Int /\ threads \in Nat /\ pc \in Start!Steps \cup {"exited"}
    BY PoolAssumption DEF ProgramInv, StartInv, Start!TypeOK
  <2> USE DEF ProgramInv, StartInv, Has, HasBase, HasThreads, HasDaemon, First, Early, Late,
              Start!Steps
  <2>2. Start!Prepared /\ Start!FreshPool /\ Start!Told /\ Start!Alone
    BY <2>1 DEF Start!Prepared, Start!FreshPool, Start!Told, Start!Alone
  <2>3. Start!Complete
    BY <2>1 DEF Start!Complete
  <2>4. requests > 0 => db = "open" /\ sync = {"lock", "semaphore"}
    BY <2>1 DEF ReadSoFar
  <2>5. threads > 0 => settings[PoolSetting] # Config!Unset
    BY <2>1 DEF ReadSoFar
  <2>6. TypeOK
    BY DEF HttpInv
  <2> QED
    BY <2>2, <2>3, <2>4, <2>5, <2>6 DEF StartInOrder
<1>2. ProgramSpec => []ProgramInv
  BY ProgramInitInv, ProgramStep, PTL DEF ProgramSpec
<1> QED
  BY <1>1, <1>2, PTL
==============================================================================
