----------------------------- MODULE AQueueProofs -----------------------------
(***************************************************************************)
(* Proofs about AQueue, for every number of threads and slots.  Mutual     *)
(* exclusion holds for producers that do not use batches, and for one that *)
(* does (MCAQueueShared shows that two that do break it).  Without batches *)
(* the count and the pointers are right, and the ring implements a lossy   *)
(* queue.  With them, a consumer reads the batch it asked for.             *)
(***************************************************************************)
EXTENDS AQueue, SequenceTheorems, FiniteSetTheorems, TLAPS

(* The places of a thread that IInv speaks of.                             *)
Pcs == Critical \cup {"idle", "lock", "lower", "read", "setlast"}

Control ==
    /\ mutex \in Threads \cup {Free}
    /\ pc \in [Threads -> Pcs]
    /\ inside \subseteq Producers

(* The invariant, with the types it needs.                                 *)
Strong == Control /\ IInv

(* Steps of a producer keep IInv; each changes the place of one thread.    *)
LEMMA ProducerKeepsStrong ==
    ASSUME Strong, NEW p \in Producers, Produce(p)
    PROVE  Strong'
<1> USE QueueAssumption DEF Strong, Control, Pcs, IInv, Disciplined, InCritical, Critical,
        Adding, Reading, Threads, Goto
<1>1. CASE BeginLock(p)
  BY <1>1, Zenon DEF BeginLock, Acquire
<1>2. CASE BeginMark(p)
  BY <1>2 DEF BeginMark
<1>3. CASE EndUnlock(p)
  BY <1>3 DEF EndUnlock, Release
<1>4. CASE EndLower(p)
  BY <1>4 DEF EndLower
<1>5. CASE AddTestFlag(p)
  BY <1>5 DEF AddTestFlag, lock
<1>6. CASE AddLock(p)
  BY <1>6 DEF AddLock, Acquire
<1>7. CASE AddStore(p)
  BY <1>7 DEF AddStore, lock
<1>8. CASE AddAdvance(p)
  BY <1>8 DEF AddAdvance, lock
<1>9. CASE AddAccount(p)
  BY <1>9 DEF AddAccount, lock
<1>10. CASE AddUnlock(p)
  BY <1>10 DEF AddUnlock, lock, Release
<1> QED
  BY <1>1, <1>2, <1>3, <1>4, <1>5, <1>6, <1>7, <1>8, <1>9, <1>10 DEF Produce

(* So do the steps of a consumer, which holds the mutex whenever it reads. *)
LEMMA ConsumerKeepsStrong ==
    ASSUME Strong, NEW c \in Consumers, Consume(c)
    PROVE  Strong'
<1> USE QueueAssumption DEF Strong, Control, Pcs, IInv, Disciplined, InCritical, Critical,
        Adding, Reading, Threads, Goto, Home
<1>1. CASE SetLastClear(c)
  BY <1>1 DEF SetLastClear, lock
<1>2. CASE SetLastLock(c)
  BY <1>2 DEF SetLastLock, Acquire
<1>3. CASE SetLastMove(c)
  BY <1>3 DEF SetLastMove, Release
<1>4. ASSUME NEW op \in Reading \ {"move"}, ReadLock(c, op) PROVE Strong'
  BY <1>4 DEF ReadLock, Acquire
<1>5. CASE GetNext(c)
  <2>1. /\ pc' = [pc EXCEPT ![c] = "read"] \/ pc' = [pc EXCEPT ![c] = Home(c)]
        /\ pc[c] = "next" /\ mutex' = Free /\ UNCHANGED <<flag, inside>>
    BY <1>5 DEF GetNext, Release
  <2> QED
    BY <2>1
<1>6. CASE GetCur(c)
  BY <1>6 DEF GetCur, Release
<1>7. CASE GetHead(c)
  BY <1>7 DEF GetHead, Release
<1>8. CASE Empty(c)
  BY <1>8 DEF Empty, Release
<1> QED
  BY <1>1, <1>2, <1>3, <1>4, <1>5, <1>6, <1>7, <1>8 DEF Consume

(* The threads start outside every critical section.                       *)
LEMMA InitStrong == Init /\ Disciplined => Strong
BY QueueAssumption DEF Init, Strong, Control, Pcs, IInv, InCritical, Critical, Adding,
   Reading, Threads, Home

(* The next-state relation keeps the invariant.                            *)
LEMMA NextStrong == Strong /\ [Next]_vars => Strong'
<1>1. Strong /\ UNCHANGED vars => Strong'
  BY DEF Strong, Control, IInv, Disciplined, InCritical, vars, lock
<1> QED
  BY <1>1, ProducerKeepsStrong, ConsumerKeepsStrong DEF Next

(* Of threads that own the mutex there is one.                             *)
LEMMA StrongExcludes == Strong => IInv /\ Exclusive
BY DEF Strong, IInv, Exclusive

(* IInv, for every ring and every disciplined set of threads.              *)
THEOREM LockInvariant == Spec /\ Disciplined => []IInv
<1>1. Strong => IInv
  BY StrongExcludes
<1> QED
  BY InitStrong, NextStrong, <1>1, PTL DEF Spec

(* No two threads are ever in a section the mutex protects.                *)
THEOREM MutualExclusion == Spec /\ Disciplined => []Exclusive
<1>1. Strong => Exclusive
  BY StrongExcludes
<1> QED
  BY InitStrong, NextStrong, <1>1, PTL DEF Spec
------------------------------------------------------------------------------
(* The ring wraps.                                                         *)
LEMMA FollowingInSlots == \A i \in Slots : Following(i) \in Slots
BY QueueAssumption DEF Slots, Following

(* The queue starts empty and unlocked.                                    *)
LEMMA InitTypes == Init => TypeOK
<1> SUFFICES ASSUME Init PROVE TypeOK
  OBVIOUS
<1>1. list \in [Slots -> Nat]
  BY DEF Init, Nothing
<1>2. /\ 0 \in Slots
      /\ head = 0 /\ tail = 0 /\ count = 0 /\ loss = 0 /\ added = 0
      /\ begin = -1 /\ end = -1 /\ last = -1
  BY QueueAssumption DEF Init, Slots
<1>3. flag \in BOOLEAN /\ mutex \in Threads \cup {Free} /\ inside \subseteq Producers
  BY DEF Init
<1>4. pc \in [Threads -> Critical \cup {"idle", "lock", "lower", "read", "setlast"}]
  BY DEF Init, Home
<1> QED
  BY <1>1, <1>2, <1>3, <1>4 DEF TypeOK

(* A producer's step keeps the types.                                      *)
LEMMA ProducerTypes ==
    ASSUME TypeOK, NEW p \in Producers, Produce(p)
    PROVE  TypeOK'
<1> USE QueueAssumption DEF TypeOK, Goto, Threads, Critical, Adding, ring, marks, lock, history
<1>1. CASE BeginLock(p)
  BY <1>1 DEF BeginLock, Acquire
<1>2. CASE BeginMark(p)
  BY <1>2 DEF BeginMark
<1>3. CASE EndUnlock(p)
  BY <1>3 DEF EndUnlock, Release
<1>4. CASE EndLower(p)
  BY <1>4 DEF EndLower
<1>5. CASE AddTestFlag(p)
  BY <1>5 DEF AddTestFlag
<1>6. CASE AddLock(p)
  BY <1>6 DEF AddLock, Acquire
<1>7. CASE AddStore(p)
  BY <1>7 DEF AddStore
<1>8. CASE AddAdvance(p)
  BY <1>8, FollowingInSlots DEF AddAdvance
<1>9. CASE AddAccount(p)
  BY <1>9, FollowingInSlots DEF AddAccount
<1>10. CASE AddUnlock(p)
  BY <1>10 DEF AddUnlock, Release
<1> QED
  BY <1>1, <1>2, <1>3, <1>4, <1>5, <1>6, <1>7, <1>8, <1>9, <1>10 DEF Produce

(* So does a consumer's.                                                   *)
LEMMA ConsumerTypes ==
    ASSUME TypeOK, NEW c \in Consumers, Consume(c)
    PROVE  TypeOK'
<1> USE QueueAssumption DEF TypeOK, Goto, Threads, Critical, Reading, ring, marks, lock, history,
        Home
<1>1. CASE SetLastClear(c)
  BY <1>1 DEF SetLastClear
<1>2. CASE SetLastLock(c)
  BY <1>2 DEF SetLastLock, Acquire
<1>3. CASE SetLastMove(c)
  BY <1>3 DEF SetLastMove, Release, Slots
<1>4. ASSUME NEW op \in Reading \ {"move"}, ReadLock(c, op) PROVE TypeOK'
  BY <1>4 DEF ReadLock, Acquire
<1>5. CASE GetNext(c)
  <2>1. CASE Bound # tail
    <3>1. /\ pc' = [pc EXCEPT ![c] = "read"] /\ mutex' = Free
          /\ tail' = Following(tail) /\ count' = count - 1
          /\ UNCHANGED <<list, head, loss, begin, end, last, flag, inside, added>>
      BY <1>5, <2>1, Zenon DEF GetNext, Release
    <3>2. tail' \in Slots
      BY <3>1, FollowingInSlots
    <3> QED
      BY <3>1, <3>2
  <2>2. CASE Bound = tail
    BY <1>5, <2>2 DEF GetNext, Release
  <2> QED
    BY <2>1, <2>2
<1>6. CASE GetCur(c)
  BY <1>6 DEF GetCur, Release
<1>7. CASE GetHead(c)
  BY <1>7 DEF GetHead, Release
<1>8. CASE Empty(c)
  <2>1. 0 \in Slots
    BY DEF Slots
  <2>2. /\ pc' = [pc EXCEPT ![c] = "read"] /\ mutex' = Free
        /\ head' = 0 /\ tail' = 0 /\ count' = 0 /\ loss' = 0
        /\ UNCHANGED <<list, begin, end, last, flag, inside, added>>
    BY <1>8, Zenon DEF Empty, Release
  <2> QED
    BY <2>1, <2>2
<1> QED
  BY <1>1, <1>2, <1>3, <1>4, <1>5, <1>6, <1>7, <1>8 DEF Consume

(* The ring, the marks and the threads keep their types, disciplined or    *)
(* not.                                                                    *)
THEOREM TypeCorrect == Spec => []TypeOK
<1>1. TypeOK /\ [Next]_vars => TypeOK'
  <2>1. TypeOK /\ UNCHANGED vars => TypeOK'
    BY DEF TypeOK, vars, ring, marks, lock, history
  <2> QED
    BY <2>1, ProducerTypes, ConsumerTypes DEF Next
<1> QED
  BY InitTypes, <1>1, PTL DEF Spec
------------------------------------------------------------------------------
(* One turn of the ring: the remainder of a number below 2 m.              *)
LEMMA OneTurn ==
    ASSUME NEW m \in Nat \ {0}, NEW x \in 0 .. 2 * m - 1
    PROVE  x % m = IF x < m THEN x ELSE x - m
<1>1. \A y \in 0 .. m - 1 : (y + m) % m = y
  OBVIOUS
<1>2. \A y \in 0 .. m - 1 : y % m = y
  OBVIOUS
<1>3. CASE x < m
  BY <1>2, <1>3
<1>4. CASE x >= m
  <2>1. x - m \in 0 .. m - 1 /\ (x - m) + m = x
    BY <1>4
  <2> QED
    BY <1>1, <1>4, <2>1
<1> QED
  BY <1>3, <1>4

(* The slot before another, the number of slots from one to another, and   *)
(* the i-th slot from one on.                                              *)
Preceding(i)   == (i + Max - 1) % Max
Distance(s, t) == (s - t + Max) % Max
At(t, i)       == (t + i - 1) % Max

(* They are what a wrap at the last slot makes of them.                    *)
LEMMA RingSteps ==
    /\ \A i \in Slots : Following(i) = IF i = Max - 1 THEN 0 ELSE i + 1
    /\ \A i \in Slots : Preceding(i) = IF i = 0 THEN Max - 1 ELSE i - 1
    /\ \A s, t \in Slots : Distance(s, t) = IF s >= t THEN s - t ELSE s - t + Max
    /\ \A t \in Slots, i \in 1 .. Max :
            At(t, i) = IF t + i - 1 < Max THEN t + i - 1 ELSE t + i - 1 - Max
<1>0. Max \in Nat \ {0} /\ Max > 1
  BY QueueAssumption
<1>1. ASSUME NEW i \in Slots
      PROVE  Following(i) = IF i = Max - 1 THEN 0 ELSE i + 1
  <2>1. i + 1 \in 0 .. 2 * Max - 1
    BY <1>0 DEF Slots
  <2>2. Following(i) = IF i + 1 < Max THEN i + 1 ELSE (i + 1) - Max
    BY <1>0, <2>1, OneTurn, Zenon DEF Following
  <2> QED
    BY <1>0, <2>2 DEF Slots
<1>2. ASSUME NEW i \in Slots
      PROVE  Preceding(i) = IF i = 0 THEN Max - 1 ELSE i - 1
  <2>1. i + Max - 1 \in 0 .. 2 * Max - 1
    BY <1>0 DEF Slots
  <2>2. Preceding(i) = IF i + Max - 1 < Max THEN i + Max - 1 ELSE (i + Max - 1) - Max
    BY <1>0, <2>1, OneTurn, Zenon DEF Preceding
  <2> QED
    BY <1>0, <2>2 DEF Slots
<1>3. ASSUME NEW s \in Slots, NEW t \in Slots
      PROVE  Distance(s, t) = IF s >= t THEN s - t ELSE s - t + Max
  <2>1. s - t + Max \in 0 .. 2 * Max - 1
    BY <1>0 DEF Slots
  <2>2. Distance(s, t) = IF s - t + Max < Max THEN s - t + Max ELSE (s - t + Max) - Max
    BY <1>0, <2>1, OneTurn, Zenon DEF Distance
  <2> QED
    BY <1>0, <2>2 DEF Slots
<1>4. ASSUME NEW t \in Slots, NEW i \in 1 .. Max
      PROVE  At(t, i) = IF t + i - 1 < Max THEN t + i - 1 ELSE t + i - 1 - Max
  <2>1. t + i - 1 \in 0 .. 2 * Max - 1
    BY <1>0 DEF Slots
  <2>2. At(t, i) = IF t + i - 1 < Max THEN t + i - 1 ELSE (t + i - 1) - Max
    BY <1>0, <2>1, OneTurn, Zenon DEF At
  <2> QED
    BY <1>0, <2>2 DEF Slots
<1> QED
  BY <1>1, <1>2, <1>3, <1>4

(* One slot on, and one back.                                              *)
LEMMA Steps ==
    ASSUME NEW i \in Slots
    PROVE  /\ Following(i) \in Slots /\ Preceding(i) \in Slots
           /\ Preceding(Following(i)) = i
<1>1. Max \in Nat /\ Max > 1
  BY QueueAssumption
<1>2. Following(i) = (IF i = Max - 1 THEN 0 ELSE i + 1) /\ Following(i) \in Slots
  BY <1>1, RingSteps DEF Slots
<1>3. Preceding(i) = (IF i = 0 THEN Max - 1 ELSE i - 1) /\ Preceding(i) \in Slots
  BY <1>1, RingSteps DEF Slots
<1>4. Preceding(Following(i)) = IF Following(i) = 0 THEN Max - 1 ELSE Following(i) - 1
  BY <1>2, RingSteps
<1> QED
  BY <1>1, <1>2, <1>3, <1>4 DEF Slots

(* How many items lie between two slots.                                   *)
LEMMA Distances ==
    ASSUME NEW s \in Slots, NEW t \in Slots
    PROVE  /\ Distance(s, t) \in 0 .. Max - 1
           /\ s = t <=> Distance(s, t) = 0
           /\ s = t => Distance(Preceding(s), t) = Max - 1 /\ Distance(s, Following(t)) = Max - 1
           /\ s # t => /\ Distance(Preceding(s), t) = Distance(s, t) - 1
                      /\ Distance(s, Following(t)) = Distance(s, t) - 1
<1>1. Max \in Nat /\ Max > 1
  BY QueueAssumption
<1>2. Following(t) = (IF t = Max - 1 THEN 0 ELSE t + 1) /\ Following(t) \in Slots
  BY RingSteps, Steps
<1>3. Preceding(s) = (IF s = 0 THEN Max - 1 ELSE s - 1) /\ Preceding(s) \in Slots
  BY RingSteps, Steps
<1>4. /\ Distance(s, t) = IF s >= t THEN s - t ELSE s - t + Max
      /\ Distance(s, Following(t))
            = IF s >= Following(t) THEN s - Following(t) ELSE s - Following(t) + Max
      /\ Distance(Preceding(s), t)
            = IF Preceding(s) >= t THEN Preceding(s) - t ELSE Preceding(s) - t + Max
  BY <1>2, <1>3, RingSteps
<1> QED
  BY <1>1, <1>2, <1>3, <1>4 DEF Slots

(* The i-th slot from t.                                                   *)
LEMMA Places ==
    ASSUME NEW t \in Slots, NEW i \in 1 .. Max - 1
    PROVE  /\ At(t, i) \in Slots
           /\ At(t, 1) = t
           /\ At(Following(t), i) = At(t, i + 1)
           /\ \A s \in Slots : /\ i <= Distance(s, t) => At(t, i) # s
                               /\ At(t, Distance(s, t) + 1) = s
<1>1. Max \in Nat /\ Max > 1
  BY QueueAssumption
<1>2. Following(t) = (IF t = Max - 1 THEN 0 ELSE t + 1) /\ Following(t) \in Slots
  BY RingSteps, Steps
<1>3. At(t, i) = IF t + i - 1 < Max THEN t + i - 1 ELSE t + i - 1 - Max
  BY <1>1, RingSteps
<1>4. At(t, 1) = IF t + 1 - 1 < Max THEN t + 1 - 1 ELSE t + 1 - 1 - Max
  BY <1>1, RingSteps
<1>5. At(t, i + 1) = IF t + i < Max THEN t + i ELSE t + i - Max
  <2>1. i + 1 \in 1 .. Max
    BY <1>1
  <2>2. At(t, i + 1) = IF t + (i + 1) - 1 < Max THEN t + (i + 1) - 1 ELSE t + (i + 1) - 1 - Max
    BY <1>1, <2>1, RingSteps
  <2> QED
    BY <1>1, <2>2 DEF Slots
<1>6. At(Following(t), i)
        = IF Following(t) + i - 1 < Max THEN Following(t) + i - 1 ELSE Following(t) + i - 1 - Max
  BY <1>1, <1>2, RingSteps
<1>7. ASSUME NEW s \in Slots
      PROVE  /\ i <= Distance(s, t) => At(t, i) # s
             /\ At(t, Distance(s, t) + 1) = s
  <2> DEFINE d == Distance(s, t)
  <2>1. d = (IF s >= t THEN s - t ELSE s - t + Max) /\ d \in 0 .. Max - 1
    BY RingSteps, Distances
  <2>2. At(t, d + 1) = IF t + (d + 1) - 1 < Max THEN t + (d + 1) - 1 ELSE t + (d + 1) - 1 - Max
    BY <1>1, <2>1, RingSteps
  <2> HIDE DEF d
  <2>3. i <= d => At(t, i) # s
    BY <1>1, <1>3, <2>1 DEF Slots
  <2>4. At(t, d + 1) = s
    BY <1>1, <2>1, <2>2 DEF Slots
  <2> QED
    BY <2>3, <2>4 DEF d
<1>8. At(t, i) \in Slots /\ At(t, 1) = t
  BY <1>1, <1>3, <1>4 DEF Slots
<1>9. At(Following(t), i) = At(t, i + 1)
  BY <1>1, <1>2, <1>5, <1>6 DEF Slots
<1> QED
  BY <1>7, <1>8, <1>9
------------------------------------------------------------------------------
(* The queue without batches.                                              *)
Taking  == {"next", "cur", "head", "empty"}
Waiting == {p \in Producers : pc[p] \in {"lock", "store"}}
Given   == [at : Slots, item : Nat, added : Nat]

(* No thread uses batches.                                                 *)
Plain ==
    /\ ~ Batches /\ last = -1
    /\ \A c \in Consumers : pc[c] \in Taking \cup {"read"}

(* The item of an AddTail under way is the one behind the stable head.     *)
Stored ==
    \A p \in Producers :
        pc[p] \in {"advance", "account"} => list[StableHead] = added /\ added \in Items

Bounded ==
    /\ IsFiniteSet(Waiting)
    /\ added + Cardinality(Waiting) <= MaxItems

(* A pointer that is not void names its item while at most one item has    *)
(* been added since; until one is, it is not the slot that one goes to.    *)
Points(c) ==
    LET g == given[c]
    IN  /\ g.added <= added
        /\ g.item # Nothing =>
                /\ added <= g.added + 1 => g.item = list[g.at]
                /\ added = g.added => /\ g.at # head
                                     /\ \A p \in Producers : pc[p] # "advance"

Pointers ==
    /\ given \in [Consumers -> Given]
    /\ \A c \in Consumers : Points(c)

(* Together with the count these are inductive.                            *)
PlainInv ==
    /\ Strong /\ TypeOK /\ Plain
    /\ got \in Seq(Nat)
    /\ count = Size /\ Stored
    /\ Bounded
    /\ Pointers

(* Size and Contents in terms of the ring.                                 *)
LEMMA SizeIs ==
    /\ Size = Distance(StableHead, tail)
    /\ Contents = [i \in 1 .. Size |-> list[At(tail, i)]]
    /\ (\E p \in Producers : pc[p] = "account") => StableHead = Preceding(head)
    /\ (\A p \in Producers : pc[p] # "account") => StableHead = head
BY Zenon DEF Size, Distance, Contents, At, StableHead, Preceding

(* The same after a step.                                                  *)
LEMMA SizeIsNext ==
    /\ Size' = Distance(StableHead', tail')
    /\ Contents' = [i \in 1 .. Size' |-> list'[At(tail', i)]]
    /\ (\E p \in Producers : pc'[p] = "account") => StableHead' = Preceding(head')
    /\ (\A p \in Producers : pc'[p] # "account") => StableHead' = head'
BY Zenon DEF Size, Distance, Contents, At, StableHead, Preceding

(* Who is in a critical section is there alone.                            *)
LEMMA Alone ==
    ASSUME Strong, NEW t \in Threads, pc[t] \in Critical
    PROVE  \A p \in Producers : p # t => pc[p] \notin Adding
BY DEF Strong, IInv, InCritical, Critical, Threads

(* The stable head is the head, but for an AddTail that has moved it.      *)
LEMMA StableHeads ==
    ASSUME PlainInv
    PROVE  /\ StableHead \in Slots
           /\ \A p \in Producers : pc[p] \in {"store", "advance", "unlock"} => StableHead = head
           /\ \A p \in Producers : pc[p] = "account" => StableHead = Preceding(head)
           /\ \A c \in Consumers : pc[c] \in Taking => StableHead = head
<1>1. head \in Slots
  BY DEF PlainInv, TypeOK
<1>2. StableHead \in Slots
  BY <1>1, SizeIs, Steps
<1>3. ASSUME NEW p \in Producers, pc[p] \in {"store", "advance", "unlock"}
      PROVE  StableHead = head
  BY <1>3, Alone, SizeIs DEF PlainInv, Threads, Critical, Adding
<1>4. ASSUME NEW c \in Consumers, pc[c] \in Taking
      PROVE  StableHead = head
  <2>1. c \notin Producers
    BY QueueAssumption
  <2> QED
    BY <1>4, <2>1, Alone, SizeIs DEF PlainInv, Threads, Critical, Adding, Reading, Taking
<1> QED
  BY <1>2, <1>3, <1>4, SizeIs

(* A step that leaves the ring alone, as far as AddTail has got.           *)
LEMMA QuietKeeps ==
    ASSUME PlainInv, UNCHANGED <<list, head, tail>>,
           \A p \in Producers : pc'[p] = "account" <=> pc[p] = "account"
    PROVE  StableHead' = StableHead /\ Size' = Size /\ Contents' = Contents
<1>1. StableHead' = StableHead
  BY SizeIs, SizeIsNext
<1> QED
  BY <1>1, SizeIs, SizeIsNext

(* The size of the queue, and the slots of its items.                      *)
LEMMA Filled ==
    ASSUME PlainInv
    PROVE  /\ Size \in 0 .. Max - 1
           /\ \A i \in 1 .. Size : At(tail, i) \in Slots /\ At(tail, i) # StableHead
<1>1. StableHead \in Slots /\ tail \in Slots /\ Max \in Nat
  BY StableHeads, QueueAssumption DEF PlainInv, TypeOK
<1>2. Size = Distance(StableHead, tail) /\ Size \in 0 .. Max - 1
  BY <1>1, SizeIs, Distances
<1>3. ASSUME NEW i \in 1 .. Size PROVE At(tail, i) \in Slots /\ At(tail, i) # StableHead
  <2>1. i \in 1 .. Max - 1 /\ i <= Distance(StableHead, tail)
    BY <1>1, <1>2
  <2> QED
    BY <1>1, <2>1, Places
<1> QED
  BY <1>2, <1>3

(* Storing an item does not show: it goes to the slot behind the others.   *)
LEMMA StoreKeepsContents ==
    ASSUME PlainInv, NEW p \in Producers, AddStore(p)
    PROVE  /\ StableHead = head /\ StableHead' = head
           /\ Size' = Size /\ Contents' = Contents
           /\ list'[head] = added + 1
           /\ \A i \in Slots : i # head => list'[i] = list[i]
<1>1. /\ pc[p] = "store" /\ pc' = [pc EXCEPT ![p] = "advance"]
      /\ list' = [list EXCEPT ![head] = added + 1]
      /\ head' = head /\ tail' = tail
  BY Zenon DEF AddStore, Goto
<1>2. /\ pc \in [Threads -> Pcs] /\ p \in Threads
      /\ list \in [Slots -> Nat] /\ head \in Slots /\ added \in Nat
  BY DEF PlainInv, TypeOK, Pcs, Threads
<1>3. StableHead = head
  BY <1>1, StableHeads
<1>4. \A q \in Producers : pc'[q] # "account"
  BY <1>1, <1>2, Alone DEF PlainInv, Critical, Adding
<1>5. StableHead' = head
  BY <1>1, <1>4, SizeIsNext
<1>6. Size' = Size
  BY <1>1, <1>3, <1>5, SizeIs, SizeIsNext
<1>7. list'[head] = added + 1 /\ \A i \in Slots : i # head => list'[i] = list[i]
  BY <1>1, <1>2
<1>8. \A i \in 1 .. Size : list'[At(tail, i)] = list[At(tail, i)]
  BY <1>3, <1>7, Filled
<1>9. Contents' = Contents
  BY <1>1, <1>6, <1>8, SizeIs, SizeIsNext
<1> QED
  BY <1>3, <1>5, <1>6, <1>7, <1>9

(* Moving the head does not show either, until the item is accounted for.  *)
LEMMA AdvanceKeepsContents ==
    ASSUME PlainInv, NEW p \in Producers, AddAdvance(p)
    PROVE  /\ StableHead = head /\ StableHead' = head
           /\ Size' = Size /\ Contents' = Contents
<1>1. /\ pc[p] = "advance" /\ pc' = [pc EXCEPT ![p] = "account"]
      /\ head' = Following(head) /\ list' = list /\ tail' = tail
  BY Zenon DEF AddAdvance, Goto
<1>2. pc \in [Threads -> Pcs] /\ p \in Threads /\ head \in Slots
  BY DEF PlainInv, TypeOK, Pcs, Threads
<1>3. StableHead = head
  BY <1>1, StableHeads
<1>4. pc'[p] = "account"
  BY <1>1, <1>2
<1>5. StableHead' = head
  BY <1>1, <1>2, <1>4, SizeIsNext, Steps
<1> QED
  BY <1>1, <1>3, <1>5, SizeIs, SizeIsNext

(* Accounting for it does: it is then in the queue, whose oldest item is   *)
(* gone if it was full.                                                    *)
LEMMA AccountPuts ==
    ASSUME PlainInv, NEW p \in Producers, AddAccount(p)
    PROVE  /\ StableHead' = head
           /\ IF Size = Max - 1
              THEN Size' = Size /\ Contents' = Tail(Append(Contents, added)) /\ loss' = loss + 1
              ELSE Size' = Size + 1 /\ Contents' = Append(Contents, added) /\ loss' = loss
           /\ count' = Size'
<1>1. /\ pc[p] = "account" /\ pc' = [pc EXCEPT ![p] = "unlock"]
      /\ head' = head /\ list' = list /\ added' = added
      /\ IF head = tail
         THEN tail' = Following(tail) /\ loss' = loss + 1 /\ count' = count
         ELSE count' = count + 1 /\ tail' = tail /\ loss' = loss
  BY DEF AddAccount, Goto, history
<1>2. /\ pc \in [Threads -> Pcs] /\ p \in Threads
      /\ head \in Slots /\ tail \in Slots /\ count = Size
      /\ list \in [Slots -> Nat] /\ Max \in Nat /\ Max > 1
      /\ added \in Nat
  BY QueueAssumption DEF PlainInv, TypeOK, Pcs, Threads
<1>3. StableHead = Preceding(head) /\ list[Preceding(head)] = added
  BY <1>1, StableHeads DEF PlainInv, Stored
<1>4. \A q \in Producers : pc'[q] # "account"
  BY <1>1, <1>2, Alone DEF PlainInv, Critical, Adding
<1>5. StableHead' = head
  BY <1>1, <1>4, SizeIsNext
<1>6. /\ Size = Distance(Preceding(head), tail) /\ Size \in 0 .. Max - 1
      /\ Size' = Distance(head, tail')
      /\ Contents = [i \in 1 .. Size |-> list[At(tail, i)]]
      /\ Contents' = [i \in 1 .. Size' |-> list[At(tail', i)]]
  BY <1>1, <1>3, <1>5, SizeIs, SizeIsNext, Filled
<1>7. /\ Contents \in Seq(Nat) /\ Len(Contents) = Size
      /\ \A i \in 1 .. Size : Contents[i] = list[At(tail, i)]
  <2>1. \A i \in 1 .. Size : list[At(tail, i)] \in Nat
    BY <1>2, Filled
  <2> QED
    BY <1>6, <2>1
<1>8. At(tail, Size + 1) = Preceding(head)
  BY <1>2, <1>6, Steps, Places
<1>9. CASE head = tail
  <2>1. Size = Max - 1 /\ Size' = Max - 1
    BY <1>1, <1>2, <1>6, <1>9, Distances
  <2>2. \A i \in 1 .. Max - 1 : At(tail', i) = At(tail, i + 1)
    BY <1>1, <1>2, <1>9, Places
  <2> DEFINE s == Append(Contents, added)
  <2>3. /\ s \in Seq(Nat) /\ Len(s) = Size + 1
        /\ \A i \in 1 .. Size + 1 : s[i] = list[At(tail, i)]
    BY <1>2, <1>3, <1>7, <1>8, AppendProperties
  <2> HIDE DEF s
  <2> DEFINE r == Tail(s)
  <2>4. /\ r \in Seq(Nat) /\ Len(r) = Size
        /\ \A i \in 1 .. Size : r[i] = s[i + 1]
    BY <1>2, <2>1, <2>3, HeadTailProperties
  <2> HIDE DEF r
  <2>5. \A i \in 1 .. Max - 1 : r[i] = list[At(tail', i)]
    BY <1>2, <2>1, <2>2, <2>3, <2>4
  <2>6. r = [i \in 1 .. Max - 1 |-> list[At(tail', i)]]
    BY <2>1, <2>4, <2>5
  <2> QED
    BY <1>1, <1>2, <1>5, <1>6, <1>9, <2>1, <2>6 DEF r, s
<1>10. CASE head # tail
  <2>1. /\ Size = Distance(head, tail) - 1 /\ Distance(head, tail) \in 0 .. Max - 1
        /\ Size' = Size + 1 /\ Size # Max - 1
    BY <1>1, <1>2, <1>6, <1>10, Distances
  <2> DEFINE s == Append(Contents, added)
  <2>3. /\ s \in Seq(Nat) /\ Len(s) = Size + 1
        /\ \A i \in 1 .. Size + 1 : s[i] = list[At(tail, i)]
    BY <1>2, <1>3, <1>7, <1>8, AppendProperties
  <2> HIDE DEF s
  <2>4. s = [i \in 1 .. Size + 1 |-> list[At(tail, i)]]
    BY <2>3
  <2> QED
    BY <1>1, <1>2, <1>5, <1>6, <1>10, <2>1, <2>4 DEF s
<1> QED
  BY <1>9, <1>10

(* GetNext takes the oldest item.                                          *)
LEMMA GetNextTakes ==
    ASSUME PlainInv, NEW c \in Consumers, GetNext(c), head # tail
    PROVE  /\ StableHead' = head
           /\ Size' = Size - 1 /\ count' = Size'
           /\ Contents # <<>> /\ Contents' = Tail(Contents)
           /\ got' = Append(got, Head(Contents))
<1>1. Bound = head
  BY DEF Bound, PlainInv, Plain
<1>2. /\ pc[c] = "next" /\ pc' = [pc EXCEPT ![c] = "read"]
      /\ head' = head /\ list' = list
      /\ tail' = Following(tail) /\ count' = count - 1
      /\ got' = Append(got, list[tail])
  BY <1>1, Zenon DEF GetNext, Goto
<1>3. /\ pc \in [Threads -> Pcs] /\ c \in Threads /\ c \notin Producers
      /\ head \in Slots /\ tail \in Slots /\ count = Size
      /\ list \in [Slots -> Nat] /\ Max \in Nat /\ Max > 1
  BY QueueAssumption DEF PlainInv, TypeOK, Pcs, Threads
<1>4. StableHead = head
  BY <1>2, StableHeads DEF Taking
<1>5. \A q \in Producers : pc'[q] # "account"
  BY <1>2, <1>3, Alone DEF PlainInv, Critical, Adding, Reading
<1>6. StableHead' = head
  BY <1>2, <1>5, SizeIsNext
<1>7. /\ Size = Distance(head, tail) /\ Size \in 0 .. Max - 1
      /\ Size' = Distance(head, tail')
      /\ Contents = [i \in 1 .. Size |-> list[At(tail, i)]]
      /\ Contents' = [i \in 1 .. Size' |-> list[At(tail', i)]]
  BY <1>2, <1>4, <1>6, SizeIs, SizeIsNext, Filled
<1>8. Size \in 1 .. Max - 1 /\ Size' = Size - 1
  BY <1>2, <1>3, <1>7, Distances
<1>9. /\ \A i \in 1 .. Size : list[At(tail, i)] \in Nat
      /\ \A i \in 1 .. Size - 1 : At(tail', i) = At(tail, i + 1)
      /\ At(tail, 1) = tail
  BY <1>2, <1>3, <1>8, Filled, Places
<1> DEFINE s == Contents
<1>10. /\ s \in Seq(Nat) /\ Len(s) = Size
       /\ \A i \in 1 .. Size : s[i] = list[At(tail, i)]
  BY <1>7, <1>8, <1>9
<1> HIDE DEF s
<1> DEFINE r == Tail(s)
<1>11. /\ r \in Seq(Nat) /\ Len(r) = Size - 1
       /\ \A i \in 1 .. Size - 1 : r[i] = s[i + 1]
       /\ s # <<>>
  BY <1>3, <1>8, <1>10, HeadTailProperties
<1>12. Head(s) = list[tail]
  BY <1>8, <1>9, <1>10
<1> HIDE DEF r
<1>13. \A i \in 1 .. Size - 1 : r[i] = list[At(tail', i)]
  BY <1>3, <1>8, <1>9, <1>10, <1>11
<1>14. r = [i \in 1 .. Size - 1 |-> list[At(tail', i)]]
  BY <1>8, <1>11, <1>13
<1>15. Contents' = r
  BY <1>7, <1>8, <1>14, Zenon
<1> QED
  BY <1>2, <1>3, <1>6, <1>8, <1>11, <1>12, <1>15 DEF r, s

(* Empty leaves nothing.                                                   *)
LEMMA EmptyClears ==
    ASSUME PlainInv, NEW c \in Consumers, Empty(c)
    PROVE  /\ StableHead' = 0
           /\ Size' = 0 /\ count' = 0
           /\ Contents' = <<>>
<1>1. /\ pc[c] = "empty" /\ pc' = [pc EXCEPT ![c] = "read"]
      /\ head' = 0 /\ tail' = 0 /\ count' = 0
  BY Zenon DEF Empty, Goto
<1>2. pc \in [Threads -> Pcs] /\ c \in Threads /\ c \notin Producers /\ 0 \in Slots
  BY QueueAssumption DEF PlainInv, TypeOK, Pcs, Threads, Slots
<1>3. \A q \in Producers : pc'[q] # "account"
  BY <1>1, <1>2, Alone DEF PlainInv, Critical, Adding, Reading
<1>4. StableHead' = 0 /\ Size' = 0
  BY <1>1, <1>2, <1>3, SizeIsNext, Distances
<1> QED
  BY <1>1, <1>4, SizeIsNext

(* The calls of AddTail that are to add an item.                           *)
LEMMA SameWaiting ==
    ASSUME Bounded, added' = added, Waiting' = Waiting
    PROVE  Bounded'
BY DEF Bounded

(* One more call is to add an item.                                        *)
LEMMA TestFlagBounded ==
    ASSUME PlainInv, NEW p \in Producers, AddTestFlag(p)
    PROVE  Bounded'
<1>1. /\ pc[p] = "idle" /\ pc' = [pc EXCEPT ![p] = IF flag THEN "store" ELSE "lock"]
      /\ added + Cardinality(Waiting) < MaxItems /\ added' = added
  BY DEF AddTestFlag, Goto, MayAdd, Waiting, history
<1>2. /\ pc \in [Threads -> Pcs] /\ p \in Threads
      /\ added \in Nat /\ MaxItems \in Nat /\ IsFiniteSet(Waiting)
  BY QueueAssumption DEF PlainInv, TypeOK, Pcs, Threads, Bounded
<1>3. p \notin Waiting /\ Waiting' = Waiting \cup {p}
  BY <1>1, <1>2 DEF Waiting, Threads
<1>4. /\ Cardinality(Waiting) \in Nat /\ IsFiniteSet(Waiting')
      /\ Cardinality(Waiting') = Cardinality(Waiting) + 1
  BY <1>2, <1>3, FS_CardinalityType, FS_AddElement
<1> DEFINE n == Cardinality(Waiting)
<1> HIDE DEF n
<1>5. n \in Nat /\ added + n < MaxItems => added + (n + 1) <= MaxItems
  BY <1>2
<1> QED
  BY <1>1, <1>4, <1>5, Zenon DEF Bounded, n

(* A call has added its item, which is one of Items.                       *)
LEMMA StoreBounded ==
    ASSUME PlainInv, NEW p \in Producers, AddStore(p)
    PROVE  Bounded' /\ added' \in Items
<1>1. /\ pc[p] = "store" /\ pc' = [pc EXCEPT ![p] = "advance"]
      /\ added' = added + 1
  BY DEF AddStore, Goto
<1>2. /\ pc \in [Threads -> Pcs] /\ p \in Threads
      /\ added \in Nat /\ MaxItems \in Nat /\ IsFiniteSet(Waiting)
      /\ added + Cardinality(Waiting) <= MaxItems
  BY QueueAssumption DEF PlainInv, TypeOK, Pcs, Threads, Bounded
<1>3. p \in Waiting /\ Waiting' = Waiting \ {p}
  BY <1>1, <1>2 DEF Waiting, Threads
<1>4. /\ IsFiniteSet(Waiting') /\ Cardinality(Waiting') \in Nat
      /\ Cardinality(Waiting) \in Nat
      /\ Cardinality(Waiting') = Cardinality(Waiting) - 1
  BY <1>2, <1>3, FS_CardinalityType, FS_RemoveElement
<1> DEFINE n == Cardinality(Waiting)
           m == Cardinality(Waiting')
<1>5. n \in Nat /\ m \in Nat /\ m = n - 1 /\ added + n <= MaxItems
  BY <1>2, <1>4
<1> HIDE DEF n, m
<1>6. added' + m <= MaxItems /\ added' \in 1 .. MaxItems
  BY <1>1, <1>2, <1>5
<1> QED
  BY <1>4, <1>6 DEF Bounded, Items, m

(* A step that leaves the ring alone keeps the invariant.                  *)
LEMMA QuietKeepsPlain ==
    ASSUME PlainInv, Strong', TypeOK', Pointers',
           UNCHANGED <<list, head, tail, count, last, added, got>>,
           \A p \in Producers : \A at \in {"advance", "account"} : pc'[p] = at <=> pc[p] = at,
           \A c \in Consumers : pc'[c] \in Taking \cup {"read"},
           Bounded'
    PROVE  PlainInv' /\ Contents' = Contents
<1>1. StableHead' = StableHead /\ Size' = Size /\ Contents' = Contents
  BY QuietKeeps
<1>2. Stored'
  BY <1>1 DEF PlainInv, Stored
<1>3. Plain'
  BY DEF PlainInv, Plain
<1> QED
  BY <1>1, <1>2, <1>3 DEF PlainInv

(* Nor does it touch what the pointers name.                               *)
LEMMA QuietPointers ==
    ASSUME PlainInv, UNCHANGED <<list, head, added, given>>,
           \A p \in Producers : pc'[p] = "advance" => pc[p] = "advance"
    PROVE  Pointers'
BY DEF PlainInv, Pointers, Points

(* AddTail tests the flag, which is down, locks, and unlocks.              *)
LEMMA AddOutside ==
    ASSUME PlainInv, NEW p \in Producers, AddTestFlag(p) \/ AddLock(p) \/ AddUnlock(p)
    PROVE  PlainInv' /\ UNCHANGED <<Contents, loss, got>>
<1>1. Strong' /\ TypeOK'
  BY ProducerKeepsStrong, ProducerTypes DEF PlainInv, Produce
<1>2. /\ pc \in [Threads -> Pcs] /\ p \in Threads /\ p \notin Consumers
      /\ ~ flag
  BY QueueAssumption DEF PlainInv, TypeOK, Pcs, Threads, Strong, IInv, Plain
<1>3. \E to \in {"lock", "store", "idle"} :
         /\ pc[p] \in {"idle", "lock", "unlock"}
         /\ pc' = [pc EXCEPT ![p] = to]
  BY <1>2, Zenon DEF AddTestFlag, AddLock, AddUnlock, Goto
<1>4. UNCHANGED <<list, head, tail, count, loss, last, added, got, given>>
  BY DEF AddTestFlag, AddLock, AddUnlock, ring, marks, history
<1>5. \A q \in Producers : \A at \in {"advance", "account"} : pc'[q] = at <=> pc[q] = at
  BY <1>2, <1>3 DEF Threads
<1>6. \A c \in Consumers : pc'[c] = pc[c]
  BY <1>2, <1>3
<1>7. Bounded'
  <2>1. CASE AddTestFlag(p)
    BY <2>1, TestFlagBounded
  <2>2. CASE AddLock(p)
    <3>1. pc[p] = "lock" /\ pc' = [pc EXCEPT ![p] = "store"]
      BY <2>2 DEF AddLock, Goto
    <3>2. Waiting' = Waiting
      BY <1>2, <3>1 DEF Waiting, Threads
    <3> QED
      BY <1>4, <3>2, SameWaiting DEF PlainInv
  <2>3. CASE AddUnlock(p)
    <3>1. pc[p] = "unlock" /\ pc' = [pc EXCEPT ![p] = "idle"]
      BY <2>3 DEF AddUnlock, Goto
    <3>2. Waiting' = Waiting
      BY <1>2, <3>1 DEF Waiting, Threads
    <3> QED
      BY <1>4, <3>2, SameWaiting DEF PlainInv
  <2> QED
    BY <2>1, <2>2, <2>3
<1>8. Pointers'
  BY <1>4, <1>5, QuietPointers
<1>9. \A c \in Consumers : pc'[c] \in Taking \cup {"read"}
  BY <1>6 DEF PlainInv, Plain
<1> QED
  BY <1>1, <1>4, <1>5, <1>7, <1>8, <1>9, QuietKeepsPlain

(* AddTail stores its item.                                                *)
LEMMA AddStorePlain ==
    ASSUME PlainInv, NEW p \in Producers, AddStore(p)
    PROVE  PlainInv' /\ UNCHANGED <<Contents, loss, got>>
<1>1. Strong' /\ TypeOK'
  BY ProducerKeepsStrong, ProducerTypes DEF PlainInv, Produce
<1>2. /\ pc[p] = "store" /\ pc' = [pc EXCEPT ![p] = "advance"]
      /\ added' = added + 1
      /\ UNCHANGED <<head, tail, count, loss, last, got, given>>
  BY DEF AddStore, Goto, marks
<1>3. /\ pc \in [Threads -> Pcs] /\ p \in Threads /\ p \notin Consumers
      /\ head \in Slots /\ added \in Nat
  BY QueueAssumption DEF PlainInv, TypeOK, Pcs, Threads
<1>4. /\ StableHead' = head /\ Size' = Size /\ Contents' = Contents
      /\ list'[head] = added + 1
      /\ \A i \in Slots : i # head => list'[i] = list[i]
  BY StoreKeepsContents
<1>5. Bounded' /\ added' \in Items
  BY StoreBounded
<1>6. Stored'
  BY <1>2, <1>4, <1>5 DEF Stored
<1>7. Plain'
  BY <1>2, <1>3 DEF PlainInv, Plain
<1>8. Pointers'
  <2> SUFFICES ASSUME NEW c \in Consumers PROVE Points(c)'
    BY <1>2 DEF PlainInv, Pointers
  <2> DEFINE g == given[c]
  <2>1. /\ g.added \in Nat /\ g.at \in Slots /\ g.added <= added
        /\ g.item # Nothing =>
              /\ added <= g.added + 1 => g.item = list[g.at]
              /\ added = g.added => g.at # head
    BY DEF PlainInv, Pointers, Points, Given
  <2> HIDE DEF g
  <2>2. /\ g.added <= added' /\ added' # g.added
        /\ added' <= g.added + 1 => added = g.added
    BY <1>2, <1>3, <2>1
  <2>3. g.item # Nothing /\ added' <= g.added + 1 => g.item = list'[g.at]
    <3> SUFFICES ASSUME g.item # Nothing, added = g.added PROVE g.item = list'[g.at]
      BY <2>2
    <3>1. g.at # head /\ g.item = list[g.at]
      BY <1>3, <2>1
    <3> QED
      BY <1>4, <2>1, <3>1
  <2>4. given' = given
    BY <1>2
  <2> QED
    BY <2>2, <2>3, <2>4 DEF Points, g
<1> QED
  BY <1>1, <1>2, <1>4, <1>5, <1>6, <1>7, <1>8 DEF PlainInv

(* It moves the head, which no pointer given since it stored the item can  *)
(* mind.                                                                   *)
LEMMA AddAdvancePlain ==
    ASSUME PlainInv, NEW p \in Producers, AddAdvance(p)
    PROVE  PlainInv' /\ UNCHANGED <<Contents, loss, got>>
<1>1. Strong' /\ TypeOK'
  BY ProducerKeepsStrong, ProducerTypes DEF PlainInv, Produce
<1>2. /\ pc[p] = "advance" /\ pc' = [pc EXCEPT ![p] = "account"]
      /\ UNCHANGED <<list, tail, count, loss, last, added, got, given>>
  BY DEF AddAdvance, Goto, marks, history
<1>3. /\ pc \in [Threads -> Pcs] /\ p \in Threads /\ p \notin Consumers
  BY QueueAssumption DEF PlainInv, TypeOK, Pcs, Threads
<1>4. StableHead' = StableHead /\ Size' = Size /\ Contents' = Contents
  BY AdvanceKeepsContents
<1>5. Waiting' = Waiting
  BY <1>2, <1>3 DEF Waiting, Threads
<1>6. Bounded'
  BY <1>2, <1>5, SameWaiting DEF PlainInv
<1>7. Stored'
  <2>1. list[StableHead] = added /\ added \in Items
    BY <1>2 DEF PlainInv, Stored
  <2> QED
    BY <1>2, <1>4, <2>1 DEF Stored
<1>8. Plain'
  BY <1>2, <1>3 DEF PlainInv, Plain
<1>9. Pointers'
  BY <1>2 DEF PlainInv, Pointers, Points
<1> QED
  BY <1>1, <1>2, <1>4, <1>6, <1>7, <1>8, <1>9 DEF PlainInv

(* It accounts for the item.                                               *)
LEMMA AddAccountPlain ==
    ASSUME PlainInv, NEW p \in Producers, AddAccount(p)
    PROVE  PlainInv'
<1>1. Strong' /\ TypeOK'
  BY ProducerKeepsStrong, ProducerTypes DEF PlainInv, Produce
<1>2. /\ pc[p] = "account" /\ pc' = [pc EXCEPT ![p] = "unlock"]
      /\ UNCHANGED <<list, head, last, added, got, given>>
  BY DEF AddAccount, Goto, marks, history
<1>3. /\ pc \in [Threads -> Pcs] /\ p \in Threads /\ p \notin Consumers
  BY QueueAssumption DEF PlainInv, TypeOK, Pcs, Threads
<1>4. count' = Size'
  BY AccountPuts
<1>5. Waiting' = Waiting
  BY <1>2, <1>3 DEF Waiting, Threads
<1>6. Bounded'
  BY <1>2, <1>5, SameWaiting DEF PlainInv
<1>7. \A q \in Producers : pc'[q] \notin {"advance", "account"}
  BY <1>2, <1>3, Alone DEF PlainInv, Critical, Adding
<1>8. Stored' /\ Plain'
  BY <1>2, <1>3, <1>7 DEF PlainInv, Plain, Stored
<1>9. Pointers'
  BY <1>2, <1>7, QuietPointers
<1> QED
  BY <1>1, <1>2, <1>4, <1>6, <1>8, <1>9 DEF PlainInv

(* A consumer that holds the mutex is alone with the ring: a pointer it is *)
(* given names its item, and the slot is not the one the next item goes to.*)
LEMMA GivePointers ==
    ASSUME PlainInv, NEW c \in Consumers, pc[c] \in Taking, NEW i \in Slots,
           i # head, Give(c, i), UNCHANGED <<list, head, added>>,
           \A p \in Producers : pc'[p] = pc[p]
    PROVE  Pointers'
<1> DEFINE g == [at |-> i, item |-> list[i], added |-> added]
<1>1. /\ given \in [Consumers -> Given] /\ list \in [Slots -> Nat] /\ added \in Nat
      /\ given' = [given EXCEPT ![c] = g]
  BY Zenon DEF PlainInv, Pointers, TypeOK, Give
<1>2. g \in Given
  BY <1>1 DEF Given
<1>3. given' \in [Consumers -> Given]
  BY <1>1, <1>2
<1>4. c \in Threads /\ c \notin Producers
  BY QueueAssumption DEF Threads
<1>5. \A p \in Producers : pc'[p] # "advance"
  BY <1>4, Alone DEF PlainInv, Critical, Adding, Reading, Taking
<1>6. ASSUME NEW k \in Consumers PROVE Points(k)'
  <2>1. CASE k = c
    <3>1. given'[k] = g
      BY <1>1, <2>1
    <3>2. g.added = added /\ g.item = list[i] /\ g.at = i
      OBVIOUS
    <3> HIDE DEF g
    <3> QED
      BY <1>1, <1>5, <3>1, <3>2 DEF Points
  <2>2. CASE k # c
    <3>1. given'[k] = given[k]
      BY <1>1, <2>2
    <3>2. Points(k)
      BY DEF PlainInv, Pointers
    <3> QED
      BY <3>1, <3>2 DEF Points
  <2> QED
    BY <2>1, <2>2
<1> QED
  BY <1>3, <1>6 DEF Pointers

(* The steps of a consumer that take nothing out.                          *)
LEMMA LookKeepsPlain ==
    ASSUME PlainInv, NEW c \in Consumers,
           (\E op \in Reading \ {"move"} : ReadLock(c, op)) \/ GetCur(c) \/ GetHead(c)
           \/ (GetNext(c) /\ head = tail)
    PROVE  PlainInv' /\ UNCHANGED <<Contents, loss, got>>
<1>1. Strong' /\ TypeOK'
  BY ConsumerKeepsStrong, ConsumerTypes DEF PlainInv, Consume
<1>2. /\ pc \in [Threads -> Pcs] /\ c \in Threads /\ c \notin Producers
      /\ head \in Slots /\ tail \in Slots /\ last = -1 /\ ~ Batches
      /\ pc[c] \in Taking \cup {"read"}
  BY QueueAssumption DEF PlainInv, TypeOK, Pcs, Threads, Plain
<1>3. Bound = head
  BY <1>2 DEF Bound
<1> DEFINE Still == UNCHANGED <<list, head, tail, count, loss, last, added, got>>
           Moves == \E to \in Taking \cup {"read"} : pc' = [pc EXCEPT ![c] = to]
<1>4. Still /\ Moves
  <2>1. ASSUME NEW op \in Reading \ {"move"}, ReadLock(c, op) PROVE Still /\ Moves
    BY <2>1 DEF ReadLock, Goto, ring, marks, history, Reading, Taking
  <2>2. CASE GetCur(c) \/ GetHead(c)
    BY <2>2 DEF GetCur, GetHead, Goto, ring, marks
  <2>3. CASE GetNext(c) /\ head = tail
    <3>1. Bound = tail
      BY <1>3, <2>3
    <3>2. /\ pc' = [pc EXCEPT ![c] = Home(c)] /\ last' = -1
          /\ UNCHANGED <<list, head, tail, count, loss, added, got>>
      BY <2>3, <3>1 DEF GetNext, Goto
    <3> QED
      BY <1>2, <3>2 DEF Home
  <2> QED
    BY <2>1, <2>2, <2>3
<1>5. \A p \in Producers : pc'[p] = pc[p]
  BY <1>2, <1>4
<1>6. \A k \in Consumers : pc'[k] \in Taking \cup {"read"}
  BY <1>2, <1>4 DEF PlainInv, Plain, Threads
<1>7. Waiting' = Waiting
  BY <1>5 DEF Waiting
<1>8. Bounded'
  BY <1>4, <1>7, SameWaiting DEF PlainInv
<1>9. Pointers'
  <2>1. CASE UNCHANGED given
    BY <1>4, <1>5, <2>1, QuietPointers
  <2>2. CASE GetCur(c) /\ head # tail
    <3>1. Give(c, tail) /\ pc[c] = "cur"
      BY <2>2 DEF GetCur, Goto
    <3> QED
      BY <1>2, <1>4, <1>5, <2>2, <3>1, GivePointers DEF Taking
  <2>3. CASE GetHead(c) /\ head > 0
    <3>1. Give(c, head - 1) /\ pc[c] = "head"
      BY <2>3 DEF GetHead, Goto
    <3>2. head - 1 \in Slots /\ head - 1 # head
      BY <1>2, <2>3, QueueAssumption DEF Slots
    <3> QED
      BY <1>4, <1>5, <3>1, <3>2, GivePointers DEF Taking
  <2>4. \/ UNCHANGED given
        \/ GetCur(c) /\ head # tail
        \/ GetHead(c) /\ head > 0
    BY <1>3 DEF ReadLock, GetCur, GetHead, GetNext, history
  <2> QED
    BY <2>1, <2>2, <2>3, <2>4
<1> QED
  BY <1>1, <1>4, <1>5, <1>6, <1>8, <1>9, QuietKeepsPlain

(* GetNext finds an item.                                                  *)
LEMMA GetNextPlain ==
    ASSUME PlainInv, NEW c \in Consumers, GetNext(c), head # tail
    PROVE  PlainInv' /\ loss' = loss
<1>1. Strong' /\ TypeOK'
  BY ConsumerKeepsStrong, ConsumerTypes DEF PlainInv, Consume
<1>2. Bound = head
  BY DEF Bound, PlainInv, Plain
<1>3. /\ pc[c] = "next" /\ pc' = [pc EXCEPT ![c] = "read"]
      /\ Give(c, tail) /\ got' = Append(got, list[tail])
      /\ UNCHANGED <<list, head, loss, last, added>>
  BY <1>2 DEF GetNext, Goto
<1>4. /\ pc \in [Threads -> Pcs] /\ c \in Threads /\ c \notin Producers
      /\ tail \in Slots /\ list \in [Slots -> Nat] /\ got \in Seq(Nat)
  BY QueueAssumption DEF PlainInv, TypeOK, Pcs, Threads
<1>5. \A p \in Producers : pc'[p] = pc[p]
  BY <1>3, <1>4
<1>6. \A p \in Producers : pc[p] \notin Adding
  BY <1>3, <1>4, Alone DEF PlainInv, Critical, Reading
<1>7. Stored' /\ Plain'
  BY <1>3, <1>4, <1>5, <1>6 DEF PlainInv, Plain, Stored, Adding, Threads
<1>8. Waiting' = Waiting
  BY <1>5 DEF Waiting
<1>9. Bounded'
  BY <1>3, <1>8, SameWaiting DEF PlainInv
<1>10. Pointers'
  BY <1>3, <1>4, <1>5, GivePointers DEF Taking
<1>11. count' = Size'
  BY GetNextTakes
<1>12. got' \in Seq(Nat)
  BY <1>3, <1>4, AppendProperties
<1> QED
  BY <1>1, <1>3, <1>7, <1>9, <1>10, <1>11, <1>12 DEF PlainInv

(* Empty voids every pointer.                                              *)
LEMMA EmptyPlain ==
    ASSUME PlainInv, NEW c \in Consumers, Empty(c)
    PROVE  PlainInv' /\ loss' = 0 /\ got' = got
<1>1. Strong' /\ TypeOK'
  BY ConsumerKeepsStrong, ConsumerTypes DEF PlainInv, Consume
<1>2. /\ pc[c] = "empty" /\ pc' = [pc EXCEPT ![c] = "read"]
      /\ given' = [k \in Consumers |-> [given[k] EXCEPT !.item = Nothing]]
      /\ loss' = 0
      /\ UNCHANGED <<list, last, added, got>>
  BY DEF Empty, Goto, marks
<1>3. /\ pc \in [Threads -> Pcs] /\ c \in Threads /\ c \notin Producers
  BY QueueAssumption DEF PlainInv, TypeOK, Pcs, Threads
<1>4. \A p \in Producers : pc'[p] = pc[p]
  BY <1>2, <1>3
<1>5. \A p \in Producers : pc[p] \notin Adding
  BY <1>2, <1>3, Alone DEF PlainInv, Critical, Reading
<1>6. Stored' /\ Plain'
  BY <1>2, <1>3, <1>4, <1>5 DEF PlainInv, Plain, Stored, Adding, Threads
<1>7. Waiting' = Waiting
  BY <1>4 DEF Waiting
<1>8. Bounded'
  BY <1>2, <1>7, SameWaiting DEF PlainInv
<1>9. Pointers'
  <2>1. \A k \in Consumers : /\ given[k] \in Given
                            /\ given[k].added <= added
    BY DEF PlainInv, Pointers, Points
  <2>2. \A k \in Consumers : /\ given'[k] \in Given
                            /\ given'[k].added = given[k].added
                            /\ given'[k].item = Nothing
    BY <1>2, <2>1 DEF Given, Nothing
  <2>3. given' \in [Consumers -> Given]
    BY <1>2, <2>2
  <2> QED
    BY <1>2, <2>1, <2>2, <2>3 DEF Pointers, Points
<1>10. count' = Size'
  BY EmptyClears
<1> QED
  BY <1>1, <1>2, <1>6, <1>8, <1>9, <1>10 DEF PlainInv

(* Without batches a producer only calls AddTail.                          *)
LEMMA PlainProducer ==
    ASSUME PlainInv, NEW p \in Producers, Produce(p)
    PROVE  \/ AddTestFlag(p) \/ AddLock(p) \/ AddUnlock(p)
           \/ AddStore(p) \/ AddAdvance(p) \/ AddAccount(p)
<1>1. /\ ~ Batches /\ pc[p] # "raise" /\ pc[p] # "lower" /\ p \notin inside
  BY DEF PlainInv, Plain, Strong, IInv
<1> QED
  BY <1>1 DEF Produce, BeginLock, BeginMark, EndUnlock, EndLower, Goto

(* Nor do the consumers.                                                   *)
LEMMA PlainConsumer ==
    ASSUME PlainInv, NEW c \in Consumers, Consume(c)
    PROVE  \/ \E op \in Reading \ {"move"} : ReadLock(c, op)
           \/ GetNext(c) \/ GetCur(c) \/ GetHead(c) \/ Empty(c)
<1>1. ~ Batches /\ pc[c] \notin {"setlast", "move"}
  BY DEF PlainInv, Plain, Taking
<1> QED
  BY <1>1 DEF Consume, SetLastClear, SetLastLock, SetLastMove, Goto

(* A step of somebody else.                                                *)
LEMMA StutterPlain ==
    ASSUME PlainInv, UNCHANGED vars
    PROVE  PlainInv' /\ UNCHANGED <<Contents, loss, got>>
<1>1. UNCHANGED <<list, head, tail, count, loss, pc, last, added, got, given>>
  BY DEF vars, ring, marks, history
<1>2. Strong' /\ TypeOK'
  <2>1. [Next]_vars
    OBVIOUS
  <2>2. Strong'
    BY <2>1, NextStrong DEF PlainInv
  <2>3. TypeOK'
    BY DEF PlainInv, TypeOK, vars, ring, marks, lock, history
  <2> QED
    BY <2>2, <2>3
<1>3. Waiting' = Waiting
  BY <1>1 DEF Waiting
<1>4. Bounded' /\ Pointers'
  BY <1>1, <1>3, SameWaiting, QuietPointers DEF PlainInv
<1>5. \A c \in Consumers : pc'[c] \in Taking \cup {"read"}
  BY <1>1 DEF PlainInv, Plain
<1> QED
  BY <1>1, <1>2, <1>4, <1>5, QuietKeepsPlain

(* Every step keeps the invariant.                                         *)
LEMMA NextPlain == PlainInv /\ [Next]_vars => PlainInv'
<1> SUFFICES ASSUME PlainInv, [Next]_vars PROVE PlainInv'
  OBVIOUS
<1>1. ASSUME NEW p \in Producers, Produce(p) PROVE PlainInv'
  BY <1>1, PlainProducer, AddOutside, AddStorePlain, AddAdvancePlain, AddAccountPlain
<1>2. ASSUME NEW c \in Consumers, Consume(c) PROVE PlainInv'
  BY <1>2, PlainConsumer, LookKeepsPlain, GetNextPlain, EmptyPlain
<1> QED
  BY <1>1, <1>2, StutterPlain DEF Next

(* The queue starts empty.                                                 *)
LEMMA InitPlain == Init /\ ~ Batches => PlainInv /\ Contents = <<>>
<1> SUFFICES ASSUME Init, ~ Batches PROVE PlainInv /\ Contents = <<>>
  OBVIOUS
<1>1. Strong /\ TypeOK
  BY InitStrong, InitTypes DEF Disciplined
<1>2. /\ \A p \in Producers : pc[p] = "idle"
      /\ \A c \in Consumers : pc[c] = "read"
      /\ head = 0 /\ tail = 0 /\ count = 0 /\ added = 0 /\ got = <<>> /\ last = -1
      /\ 0 \in Slots
      /\ given = [c \in Consumers |-> [at |-> 0, item |-> Nothing, added |-> 0]]
  BY QueueAssumption DEF Init, Home, Threads, Slots
<1>3. Size = 0
  BY <1>2, SizeIs, Distances
<1>4. Contents = <<>>
  BY <1>3, SizeIs
<1>5. Bounded
  <2>1. Waiting = {}
    BY <1>2 DEF Waiting
  <2>2. IsFiniteSet(Waiting) /\ Cardinality(Waiting) = 0
    BY <2>1, FS_EmptySet
  <2> QED
    BY <1>2, <2>2, QueueAssumption DEF Bounded
<1>6. Pointers
  <2>1. [at |-> 0, item |-> Nothing, added |-> 0] \in Given
    BY <1>2 DEF Given, Nothing
  <2> QED
    BY <1>2, <2>1 DEF Pointers, Points
<1>7. Plain /\ Stored
  BY <1>2 DEF Plain, Stored
<1> QED
  BY <1>1, <1>2, <1>3, <1>4, <1>5, <1>6, <1>7 DEF PlainInv

(* The invariant implies what is asked of it.                              *)
LEMMA PlainImplies == PlainInv => CountIsSize /\ PointerHolds
BY DEF PlainInv, CountIsSize, PointerHolds, Pointers, Points

(* It holds in every state of a queue without batches.                     *)
LEMMA PlainAlways == Spec /\ ~ Batches => []PlainInv
<1> DEFINE Without == ~ Batches
<1>1. Init /\ Without => PlainInv
  BY InitPlain
<1> QED
  BY <1>1, NextPlain, PTL DEF Spec

(* GetCount and IsEmpty are right whenever no AddTail is half done, for    *)
(* any number of threads and slots.                                        *)
THEOREM CountCorrect == Spec /\ ~ Batches => []CountIsSize
BY PlainAlways, PlainImplies, PTL

(* A pointer that was returned names its item while at most one more has   *)
(* been added, although no lock is held any more.                          *)
THEOREM PointersHold == Spec /\ ~ Batches => []PointerHolds
BY PlainAlways, PlainImplies, PTL

(* AddTail puts its item into the abstract queue when it accounts for it,  *)
(* GetNext takes one, Empty clears it, and all other steps stutter.        *)
LEMMA StepImplementsLossyQueue ==
    ASSUME PlainInv, [Next]_vars
    PROVE  [Lossy!Next]_(Lossy!vars)
<1> USE DEF Lossy!vars, Lossy!Next
<1>1. ASSUME NEW p \in Producers, Produce(p) PROVE [Lossy!Next]_(Lossy!vars)
  <2>1. CASE AddAccount(p)
    <3>1. added \in Items /\ got' = got
      BY <2>1 DEF AddAccount, Goto, PlainInv, Stored, history
    <3>2. Len(Contents) = Size /\ Size \in 0 .. Max - 1 /\ Max \in Nat
      BY SizeIs, Filled, QueueAssumption
    <3>3. CASE Size = Max - 1
      <4>1. Lossy!PutAndDrop(added)
        BY <2>1, <3>1, <3>2, <3>3, AccountPuts DEF Lossy!PutAndDrop
      <4> QED
        BY <3>1, <4>1
    <3>4. CASE Size # Max - 1
      <4>1. Lossy!Put(added)
        BY <2>1, <3>1, <3>2, <3>4, AccountPuts DEF Lossy!Put
      <4> QED
        BY <3>1, <4>1
    <3> QED
      BY <3>3, <3>4
  <2>2. CASE ~ AddAccount(p)
    <3>1. UNCHANGED <<Contents, loss, got>>
      BY <1>1, <2>2, PlainProducer, AddOutside, AddStorePlain, AddAdvancePlain
    <3> QED
      BY <3>1
  <2> QED
    BY <2>1, <2>2
<1>2. ASSUME NEW c \in Consumers, Consume(c) PROVE [Lossy!Next]_(Lossy!vars)
  <2>1. CASE GetNext(c) /\ head # tail
    <3>1. Lossy!Take
      BY <2>1, GetNextTakes, GetNextPlain DEF Lossy!Take
    <3> QED
      BY <3>1
  <2>2. CASE Empty(c)
    <3>1. Lossy!Clear
      BY <2>2, EmptyClears, EmptyPlain DEF Lossy!Clear
    <3> QED
      BY <3>1
  <2>3. CASE ~ Empty(c) /\ ~ (GetNext(c) /\ head # tail)
    <3>1. UNCHANGED <<Contents, loss, got>>
      BY <1>2, <2>3, PlainConsumer, LookKeepsPlain
    <3> QED
      BY <3>1
  <2> QED
    BY <2>1, <2>2, <2>3
<1>3. CASE UNCHANGED vars
  BY <1>3, StutterPlain
<1> QED
  BY <1>1, <1>2, <1>3 DEF Next

(* The ring without batches implements the lossy queue.                    *)
THEOREM QueueImplementsLossyQueue == Spec /\ ~ Batches => ImplementsLossyQueue
<1> DEFINE Without == ~ Batches
<1>1. Init /\ Without => Lossy!Init
  BY InitPlain DEF Init, Lossy!Init
<1>2. PlainInv /\ [Next]_vars => [Lossy!Next]_(Lossy!vars)
  BY StepImplementsLossyQueue
<1>3. Spec /\ Without => []PlainInv
  BY PlainAlways
<1> QED
  BY <1>1, <1>2, <1>3, PTL DEF Spec, ImplementsLossyQueue, Lossy!Spec
------------------------------------------------------------------------------
(* Quotient and remainder.                                                 *)
LEMMA Division ==
    ASSUME NEW m \in Nat \ {0}, NEW x \in Nat
    PROVE  /\ x \div m \in Int /\ x % m \in 0 .. m - 1 /\ x % m <= x
           /\ x = m * (x \div m) + (x % m)
<1>1. x \div m \in Int
  OBVIOUS
<1>2. x % m \in 0 .. m - 1 /\ x % m <= x
  OBVIOUS
<1>3. x = m * (x \div m) + (x % m)
  OBVIOUS
<1> QED
  BY <1>1, <1>2, <1>3

(* A remainder is not changed by whole turns.                              *)
LEMMA Turns ==
    ASSUME NEW m \in Nat \ {0}, NEW q \in Int, NEW r \in 0 .. m - 1
    PROVE  (m * q + r) % m = r
OBVIOUS

(* Whole turns.                                                            *)
LEMMA Product ==
    ASSUME NEW m \in Nat \ {0}, NEW a \in Int, NEW b \in Int
    PROVE  /\ m * a \in Int /\ m * (a - b) = m * a - m * b /\ m * (a + 1) = m * a + m
           /\ a - b >= 1 => m * (a - b) >= m
           /\ a - b <= -1 => m * (a - b) <= - m
<1>1. m * a \in Int /\ m * (a - b) = m * a - m * b /\ m * (a + 1) = m * a + m
  OBVIOUS
<1>2. \A c \in Int : (c >= 1 => m * c >= m) /\ (c <= -1 => m * c <= - m)
  OBVIOUS
<1> QED
  BY <1>1, <1>2

(* The next number is at the next slot, and that of a whole turn later at  *)
(* the same.                                                               *)
LEMMA Onward ==
    ASSUME NEW m \in Nat \ {0}, NEW x \in Nat
    PROVE  /\ (x + 1) % m = IF x % m = m - 1 THEN 0 ELSE (x % m) + 1
           /\ (x + m) % m = x % m
<1> DEFINE q == x \div m
           r == x % m
<1>1. q \in Int /\ r \in 0 .. m - 1 /\ x = m * q + r
  BY Division
<1> HIDE DEF q, r
<1>2. m * (q + 1) = m * q + m /\ m * q \in Int
  BY <1>1, Product
<1>3. (x + m) % m = r
  <2>1. x + m = m * (q + 1) + r /\ q + 1 \in Int
    BY <1>1, <1>2
  <2>2. (m * (q + 1) + r) % m = r
    BY <1>1, <2>1, Turns
  <2> QED
    BY <2>1, <2>2
<1>4. CASE r = m - 1
  <2>1. x + 1 = m * (q + 1) + 0 /\ q + 1 \in Int /\ 0 \in 0 .. m - 1
    BY <1>1, <1>2, <1>4
  <2>2. (m * (q + 1) + 0) % m = 0
    BY <2>1, Turns
  <2> QED
    BY <1>3, <1>4, <2>1, <2>2 DEF r
<1>5. CASE r # m - 1
  <2>1. x + 1 = m * q + (r + 1) /\ r + 1 \in 0 .. m - 1
    BY <1>1, <1>2, <1>5
  <2>2. (m * q + (r + 1)) % m = r + 1
    BY <1>1, <2>1, Turns
  <2> QED
    BY <1>3, <1>5, <2>1, <2>2 DEF r
<1> QED
  BY <1>4, <1>5

(* Numbers less than a turn apart are at different slots.                  *)
LEMMA Apart ==
    ASSUME NEW m \in Nat \ {0}, NEW x \in Nat, NEW y \in Nat, x % m = y % m,
           x <= y, y < x + m
    PROVE  x = y
<1> DEFINE p == x \div m
           q == y \div m
           r == x % m
<1>1. p \in Int /\ q \in Int /\ r \in 0 .. m - 1 /\ x = m * p + r /\ y = m * q + r
  <2>1. p \in Int /\ r \in 0 .. m - 1 /\ x = m * p + r
    BY Division
  <2>2. q \in Int /\ y = m * q + (y % m)
    BY Division
  <2> QED
    BY <2>1, <2>2
<1> HIDE DEF p, q, r
<1>2. m * p \in Int /\ m * q \in Int /\ m * (q - p) = m * q - m * p /\ q - p \in Int
  BY <1>1, Product
<1>3. /\ q - p >= 1 => m * (q - p) >= m
      /\ q - p <= -1 => m * (q - p) <= - m
  BY <1>1, Product
<1>4. y - x = m * (q - p)
  BY <1>1, <1>2
<1>5. q - p = 0
  BY <1>2, <1>3, <1>4
<1>6. q = p
  BY <1>1, <1>5
<1> QED
  BY <1>1, <1>6

(* The slot of the n-th item, counted from 0.                              *)
Slot(n) == n % Max

(* Slots follow each other, and two items less than a turn apart are not   *)
(* in the same one.                                                        *)
LEMMA SlotFacts ==
    /\ \A n \in Nat : Slot(n) \in Slots /\ Slot(n) <= n /\ Slot(n + 1) = Following(Slot(n))
                      /\ Slot(n + Max) = Slot(n)
    /\ \A n \in Nat : n < Max => Slot(n) = n
    /\ \A m, n \in Nat : Slot(m) = Slot(n) /\ m <= n /\ n < m + Max => m = n
<1>0. Max \in Nat \ {0} /\ Max > 1
  BY QueueAssumption
<1>1. ASSUME NEW n \in Nat
      PROVE  Slot(n) \in Slots /\ Slot(n) <= n
  BY <1>0, Division DEF Slot, Slots
<1>2. ASSUME NEW n \in Nat
      PROVE  Slot(n + 1) = Following(Slot(n))
  <2>1. Slot(n + 1) = IF Slot(n) = Max - 1 THEN 0 ELSE Slot(n) + 1
    BY <1>0, Onward DEF Slot
  <2> QED
    BY <1>1, <2>1, RingSteps
<1>3. ASSUME NEW n \in Nat PROVE Slot(n + Max) = Slot(n)
  BY <1>0, Onward DEF Slot
<1>4. ASSUME NEW n \in Nat, n < Max PROVE Slot(n) = n
  BY <1>0, <1>4, OneTurn DEF Slot
<1>5. ASSUME NEW m \in Nat, NEW n \in Nat, Slot(m) = Slot(n), m <= n, n < m + Max
      PROVE  m = n
  BY <1>0, <1>5, Apart DEF Slot
<1> QED
  BY <1>1, <1>2, <1>3, <1>4, <1>5
------------------------------------------------------------------------------
(* Batches: one producer, and one consumer, which always calls SetLast     *)
(* before it starts to read.                                               *)
Solo ==
    /\ Batches
    /\ \A p, q \in Producers : p = q
    /\ \A c, d \in Consumers : c = d

Entering == {"idle", "setlast", "move"}
Scanning == {"read", "next", "cur", "head"}

(* AddTail has stored an item and not moved the head; or not yet made room *)
(* for it.                                                                 *)
Moving  == \E p \in Producers : pc[p] = "advance"
Filling == \E p \in Producers : pc[p] \in {"advance", "account"}

(* The items the head has passed, and those AddTail is done with.          *)
Advanced == IF Moving THEN added - 1 ELSE added
Complete == IF Filling THEN added - 1 ELSE added

(* The first item of the read, counted from 0, and how far it has got.     *)
Start   == IF wanted # <<>> THEN wanted[1] ELSE got[1] - 1
Reached == Start + Len(got)

Shapes ==
    /\ batch \in Nat \X Nat
    /\ wanted \in {<<>>} \cup (Nat \X Nat)
    /\ got \in Seq(Nat)

(* The mark a read stops at is where its batch ends.                       *)
Lasts ==
    \A c \in Consumers :
        /\ pc[c] \in Entering \cup Scanning
        /\ pc[c] \in Entering => last = -1
        /\ pc[c] \in Scanning => last = IF wanted # <<>> THEN Slot(wanted[2]) ELSE -1

(* A slot holds the last item that was added there.                        *)
Holds(s) ==
    \/ list[s] = Nothing /\ added <= s
    \/ list[s] \in 1 .. added /\ list[s] > added - Max /\ Slot(list[s] - 1) = s

Ring ==
    /\ Advanced \in Nat /\ Complete \in Nat
    /\ head = Slot(Advanced)
    /\ \A s \in Slots : Holds(s)
    /\ Complete < Max => tail <= Complete

(* The marks are where the last batch begins and ends.                     *)
Marks ==
    /\ begin >= 0 => begin = Slot(batch[1]) /\ batch[1] <= added
    /\ inside # {} => begin >= 0
    /\ inside = {} => (begin >= 0 <=> end >= 0)
    /\ inside = {} /\ end >= 0 => end = Slot(batch[2]) /\ batch[1] <= batch[2] /\ batch[2] <= added

(* As long as the producer has not gone round the ring since the first     *)
(* item of the read, the tail is where the read has got.                   *)
InStep ==
    /\ tail = Slot(Reached) /\ Reached <= Complete
    /\ wanted # <<>> => Reached <= wanted[2]
    /\ \A i \in 1 .. Len(got) : got[i] = Start + i

Progress ==
    /\ wanted # <<>> => wanted[1] <= wanted[2] /\ wanted[2] <= added
    /\ wanted # <<>> \/ got # <<>> =>
            /\ Start \in Nat /\ Start <= added
            /\ added - Start < Max => InStep

(* Together they are inductive.                                            *)
BatchInv == Strong /\ TypeOK /\ Solo /\ Shapes /\ Lasts /\ Ring /\ Marks /\ Progress

(* A thread in a critical section has the ring to itself.                  *)
LEMMA SoloAlone ==
    ASSUME BatchInv
    PROVE  /\ \A p \in Producers, to \in Pcs : pc[p] = to =>
                    /\ Moving <=> to = "advance"
                    /\ Filling <=> to \in {"advance", "account"}
           /\ \A c \in Consumers : pc[c] \in Critical => ~ Moving /\ ~ Filling /\ inside = {}
<1>1. ASSUME NEW p \in Producers, NEW to \in Pcs, pc[p] = to
      PROVE  /\ Moving <=> to = "advance"
             /\ Filling <=> to \in {"advance", "account"}
  BY <1>1 DEF BatchInv, Solo, Moving, Filling
<1>2. ASSUME NEW c \in Consumers, pc[c] \in Critical
      PROVE  ~ Moving /\ ~ Filling /\ inside = {}
  <2>1. c \in Threads /\ c \notin Producers
    BY QueueAssumption DEF Threads
  <2>2. \A p \in Producers : pc[p] \notin Adding
    BY <1>2, <2>1, Alone DEF BatchInv
  <2>3. mutex = c /\ inside \subseteq Producers /\ \A p \in inside : mutex = p
    BY <1>2, <2>1 DEF BatchInv, Strong, Control, IInv, InCritical, Threads
  <2> QED
    BY <2>1, <2>2, <2>3 DEF Moving, Filling, Adding
<1> QED
  BY <1>1, <1>2

(* The same for a producer after its step.                                 *)
LEMMA SoloNext ==
    ASSUME BatchInv, NEW p \in Producers, NEW to \in Pcs, pc' = [pc EXCEPT ![p] = to]
    PROVE  /\ Moving' <=> to = "advance"
           /\ Filling' <=> to \in {"advance", "account"}
           /\ \A c \in Consumers : pc'[c] = pc[c]
<1>1. pc \in [Threads -> Pcs] /\ p \in Threads /\ p \notin Consumers
  BY QueueAssumption DEF BatchInv, TypeOK, Pcs, Threads
<1>2. pc'[p] = to /\ \A t \in Threads \ {p} : pc'[t] = pc[t]
  BY <1>1
<1>3. Producers = {p}
  BY DEF BatchInv, Solo
<1>4. /\ Moving' <=> to = "advance"
      /\ Filling' <=> to \in {"advance", "account"}
  BY <1>2, <1>3 DEF Moving, Filling
<1> QED
  BY <1>1, <1>2, <1>4 DEF Threads

(* A consumer's step moves no producer.                                    *)
LEMMA SoloConsumer ==
    ASSUME BatchInv, NEW c \in Consumers, NEW to \in Pcs, pc' = [pc EXCEPT ![c] = to]
    PROVE  /\ (Moving' <=> Moving) /\ (Filling' <=> Filling)
           /\ pc'[c] = to /\ \A d \in Consumers : d = c
<1>1. pc \in [Threads -> Pcs] /\ c \in Threads /\ c \notin Producers
  BY QueueAssumption DEF BatchInv, TypeOK, Pcs, Threads
<1>2. pc'[c] = to /\ \A t \in Producers : pc'[t] = pc[t]
  BY <1>1 DEF Threads
<1>3. \A d \in Consumers : d = c
  BY DEF BatchInv, Solo
<1> QED
  BY <1>2, <1>3 DEF Moving, Filling

(* A step that leaves the items where they are.                            *)
LEMMA QuietRing ==
    ASSUME BatchInv, UNCHANGED <<list, head, tail, added>>,
           Moving' <=> Moving, Filling' <=> Filling
    PROVE  Ring' /\ Complete' = Complete
<1>1. Advanced' = Advanced /\ Complete' = Complete
  BY DEF Advanced, Complete
<1> QED
  BY <1>1 DEF BatchInv, Ring, Holds

(* A step that leaves the read where it is.                                *)
LEMMA QuietProgress ==
    ASSUME BatchInv, UNCHANGED <<tail, added, wanted, got>>, Complete' = Complete
    PROVE  Progress'
<1>1. Start' = Start /\ Reached' = Reached
  BY DEF Start, Reached
<1> QED
  BY <1>1 DEF BatchInv, Progress, InStep

(* A step that leaves the consumer where it is.                            *)
LEMMA QuietLasts ==
    ASSUME BatchInv, UNCHANGED <<last, wanted>>, \A c \in Consumers : pc'[c] = pc[c]
    PROVE  Lasts'
BY DEF BatchInv, Lasts

(* A step that leaves the marks alone.                                     *)
LEMMA QuietMarks ==
    ASSUME BatchInv, UNCHANGED <<begin, end, inside, batch, added>>
    PROVE  Marks'
BY DEF BatchInv, Marks

(* A step that leaves the history of batches alone.                        *)
LEMMA QuietShapes ==
    ASSUME BatchInv, UNCHANGED <<batch, wanted, got>>
    PROVE  Shapes'
BY DEF BatchInv, Shapes

(* Every step keeps the first two parts.                                   *)
LEMMA BatchKeepsStrong ==
    ASSUME BatchInv, [Next]_vars
    PROVE  Strong' /\ TypeOK' /\ Solo'
<1>1. Strong'
  BY NextStrong DEF BatchInv
<1>2. TypeOK'
  <2>1. CASE UNCHANGED vars
    BY <2>1 DEF BatchInv, TypeOK, vars, ring, marks, lock, history
  <2> QED
    BY <2>1, ProducerTypes, ConsumerTypes DEF BatchInv, Next
<1> QED
  BY <1>1, <1>2 DEF BatchInv, Solo

(* The steps that touch neither the ring nor the marks.                    *)
LEMMA QuietBatch ==
    ASSUME BatchInv, [Next]_vars, UNCHANGED <<list, head, tail, begin, end, inside, added, batch>>,
           UNCHANGED <<wanted, got>>, Moving' <=> Moving, Filling' <=> Filling, Lasts'
    PROVE  BatchInv'
BY BatchKeepsStrong, QuietRing, QuietProgress, QuietMarks, QuietShapes DEF BatchInv

(* The steps of a producer that lock, unlock and look at the flag.         *)
LEMMA ProducerQuiet ==
    ASSUME BatchInv, NEW p \in Producers,
           BeginLock(p) \/ EndLower(p) \/ AddTestFlag(p) \/ AddLock(p) \/ AddUnlock(p)
    PROVE  BatchInv'
<1>1. [Next]_vars
  BY DEF Next, Produce
<1> DEFINE Quiet == {"idle", "raise", "lower", "lock", "store", "unlock"}
<1>2. /\ UNCHANGED <<list, head, tail, begin, end, last, inside, added, batch, wanted, got>>
      /\ pc[p] \in Quiet /\ \E to \in Quiet : pc' = [pc EXCEPT ![p] = to]
  BY DEF BeginLock, EndLower, AddTestFlag, AddLock, AddUnlock, Goto, ring, marks, history
<1>3. PICK to \in Quiet : pc' = [pc EXCEPT ![p] = to]
  BY <1>2
<1>4. ~ Moving /\ ~ Filling
  BY <1>2, SoloAlone DEF Pcs, Critical, Adding
<1>5. ~ Moving' /\ ~ Filling' /\ \A c \in Consumers : pc'[c] = pc[c]
  BY <1>3, SoloNext DEF Pcs, Critical, Adding
<1>6. Lasts'
  BY <1>2, <1>5, QuietLasts
<1> QED
  BY <1>1, <1>2, <1>4, <1>5, <1>6, QuietBatch

(* Begin and End mark where the head is; nobody is in AddTail.             *)
LEMMA MarkBatch ==
    ASSUME BatchInv, NEW p \in Producers, BeginMark(p) \/ EndUnlock(p)
    PROVE  BatchInv'
<1>1. [Next]_vars
  BY DEF Next, Produce
<1>2. /\ UNCHANGED <<list, head, tail, last, added, wanted, got>>
      /\ pc[p] \in {"raise", "idle"}
      /\ \E to \in {"idle", "lower"} : pc' = [pc EXCEPT ![p] = to]
  BY DEF BeginMark, EndUnlock, Goto, ring
<1>3. PICK to \in {"idle", "lower"} : pc' = [pc EXCEPT ![p] = to]
  BY <1>2
<1>4. ~ Moving /\ ~ Filling
  BY <1>2, SoloAlone DEF Pcs, Critical
<1>5. ~ Moving' /\ ~ Filling' /\ \A c \in Consumers : pc'[c] = pc[c]
  BY <1>3, SoloNext DEF Pcs, Critical
<1>6. Lasts'
  BY <1>2, <1>5, QuietLasts
<1>7. Ring' /\ Progress'
  BY <1>2, <1>4, <1>5, QuietRing, QuietProgress
<1>8. /\ head = Slot(added) /\ head >= 0 /\ added \in Nat
      /\ batch \in Nat \X Nat /\ batch = <<batch[1], batch[2]>>
  BY <1>4 DEF BatchInv, Ring, Advanced, Shapes, TypeOK, Slots
<1>9. CASE BeginMark(p)
  <2>1. /\ begin' = head /\ end' = end /\ batch' = <<added, batch[2]>>
        /\ inside' = inside \cup {p}
    BY <1>9 DEF BeginMark
  <2>2. Marks'
    BY <1>2, <1>8, <2>1 DEF Marks
  <2>3. Shapes'
    BY <1>2, <1>8, <2>1 DEF BatchInv, Shapes
  <2> QED
    BY <1>1, <1>6, <1>7, <2>2, <2>3, BatchKeepsStrong DEF BatchInv
<1>10. CASE EndUnlock(p)
  <2>1. /\ end' = head /\ begin' = begin /\ batch' = <<batch[1], added>>
        /\ inside' = inside \ {p} /\ p \in inside
    BY <1>10 DEF EndUnlock
  <2>2. begin >= 0 /\ begin = Slot(batch[1]) /\ batch[1] <= added
    BY <2>1 DEF BatchInv, Marks
  <2>3. Marks'
    BY <1>2, <1>8, <2>1, <2>2 DEF Marks
  <2>4. Shapes'
    BY <1>2, <1>8, <2>1 DEF BatchInv, Shapes
  <2> QED
    BY <1>1, <1>6, <1>7, <2>3, <2>4, BatchKeepsStrong DEF BatchInv
<1> QED
  BY <1>9, <1>10

(* AddTail overwrites the item a whole turn older.                         *)
LEMMA AddStoreBatch ==
    ASSUME BatchInv, NEW p \in Producers, AddStore(p)
    PROVE  BatchInv'
<1>1. [Next]_vars
  BY DEF Next, Produce
<1>2. /\ pc[p] = "store" /\ pc' = [pc EXCEPT ![p] = "advance"]
      /\ added' = added + 1 /\ list' = [list EXCEPT ![head] = added + 1]
      /\ UNCHANGED <<head, tail, begin, end, last, inside, batch, wanted, got>>
  BY DEF AddStore, Goto, marks
<1>3. ~ Moving /\ ~ Filling
  BY <1>2, SoloAlone DEF Pcs, Critical, Adding
<1>4. Moving' /\ Filling' /\ \A c \in Consumers : pc'[c] = pc[c]
  BY <1>2, SoloNext DEF Pcs, Critical, Adding
<1>5. /\ head \in Slots /\ head = Slot(added) /\ added \in Nat /\ list \in [Slots -> Nat]
      /\ Max \in Nat /\ Max > 1 /\ Slots = 0 .. Max - 1
      /\ Advanced = added /\ Complete = added
  BY <1>3, QueueAssumption DEF BatchInv, Ring, Advanced, Complete, TypeOK, Slots
<1>6. Advanced' = added /\ Complete' = added
  <2>1. Advanced' = added' - 1 /\ Complete' = added' - 1
    BY <1>4 DEF Advanced, Complete
  <2>2. (added + 1) - 1 = added
    BY <1>5
  <2> QED
    BY <1>2, <2>1, <2>2
<1>7. ASSUME NEW s \in Slots PROVE Holds(s)'
  <2>1. CASE s = head
    <3>1. list'[s] = added + 1
      BY <1>2, <1>5, <2>1
    <3>2. added + 1 \in 1 .. added + 1 /\ added + 1 > (added + 1) - Max /\ Slot((added + 1) - 1) = s
      BY <1>5, <2>1
    <3> QED
      BY <1>2, <3>1, <3>2 DEF Holds
  <2>2. CASE s # head
    <3>1. list'[s] = list[s] /\ Holds(s)
      BY <1>2, <1>5, <2>2 DEF BatchInv, Ring
    <3>2. CASE list[s] = Nothing /\ added <= s
      <4>0. added < Max
        BY <1>5, <3>2
      <4>1. Slot(added) = added
        BY <1>5, <4>0, SlotFacts
      <4>2. added + 1 <= s
        BY <1>5, <2>2, <3>2, <4>0, <4>1
      <4> QED
        BY <1>2, <3>1, <3>2, <4>2 DEF Holds, Nothing
    <3>3. CASE list[s] \in 1 .. added /\ list[s] > added - Max /\ Slot(list[s] - 1) = s
      <4>1. list[s] # (added + 1) - Max
        <5>1. SUFFICES ASSUME list[s] = (added + 1) - Max PROVE FALSE
          OBVIOUS
        <5>2. PICK k \in Nat : k = list[s] - 1
          BY <1>5, <3>3
        <5>3. k + Max = added
          BY <1>5, <5>1, <5>2
        <5>4. Slot(k) = Slot(added)
          BY <5>3, SlotFacts
        <5> QED
          BY <1>5, <2>2, <3>3, <5>2, <5>4
      <4>2. list[s] \in 1 .. added + 1 /\ list[s] > (added + 1) - Max
        BY <1>5, <3>3, <4>1
      <4> QED
        BY <1>2, <3>1, <3>3, <4>2 DEF Holds
    <3> QED
      BY <3>1, <3>2, <3>3 DEF Holds
  <2> QED
    BY <2>1, <2>2
<1>8. Ring'
  BY <1>2, <1>5, <1>6, <1>7 DEF BatchInv, Ring
<1>9. Progress'
  <2>1. Start' = Start /\ Reached' = Reached /\ Complete' = Complete
    BY <1>2, <1>5, <1>6 DEF Start, Reached
  <2>2. InStep => InStep'
    BY <1>2, <2>1 DEF InStep
  <2>3. wanted # <<>> => wanted[2] \in Nat
    BY DEF BatchInv, Shapes
  <2>4. (wanted # <<>> => wanted[1] <= wanted[2] /\ wanted[2] <= added + 1)
    BY <1>5, <2>3 DEF BatchInv, Progress, Shapes
  <2>5. (wanted # <<>> \/ got # <<>>) =>
            /\ Start \in Nat /\ Start <= added + 1
            /\ added + 1 - Start < Max => InStep'
    BY <1>5, <2>2 DEF BatchInv, Progress
  <2>6. wanted' = wanted /\ got' = got /\ added' = added + 1 /\ Start' = Start
    BY <1>2, <2>1
  <2>7. (wanted' # <<>> => wanted'[1] <= wanted'[2] /\ wanted'[2] <= added')
    BY <2>4, <2>6
  <2>8. (wanted' # <<>> \/ got' # <<>>) => Start' \in Nat /\ Start' <= added'
    BY <2>5, <2>6, Zenon
  <2>9. Start \in Nat => added' - Start' = added + 1 - Start
    BY <1>5, <2>6
  <2>10. (wanted' # <<>> \/ got' # <<>>) => (added' - Start' < Max => InStep')
    BY <2>5, <2>6, <2>9
  <2> QED
    BY <2>7, <2>8, <2>10, Zenon DEF Progress
<1>10. Marks'
  <2>1. batch[1] \in Nat /\ batch[2] \in Nat
    BY DEF BatchInv, Shapes
  <2> QED
    BY <1>2, <1>5, <2>1 DEF BatchInv, Marks
<1>11. Lasts' /\ Shapes'
  BY <1>2, <1>4, QuietLasts, QuietShapes
<1> QED
  BY <1>1, <1>8, <1>9, <1>10, <1>11, BatchKeepsStrong DEF BatchInv

(* It moves the head.                                                      *)
LEMMA AddAdvanceBatch ==
    ASSUME BatchInv, NEW p \in Producers, AddAdvance(p)
    PROVE  BatchInv'
<1>1. [Next]_vars
  BY DEF Next, Produce
<1>2. /\ pc[p] = "advance" /\ pc' = [pc EXCEPT ![p] = "account"]
      /\ head' = Following(head)
      /\ UNCHANGED <<list, tail, added, begin, end, last, inside, batch, wanted, got>>
  BY DEF AddAdvance, Goto, marks, history
<1>3. Moving /\ Filling
  BY <1>2, SoloAlone DEF Pcs, Critical, Adding
<1>4. ~ Moving' /\ Filling' /\ \A c \in Consumers : pc'[c] = pc[c]
  <2>1. "account" \in Pcs /\ "account" # "advance"
    BY DEF Pcs, Critical, Adding
  <2> QED
    BY <1>2, <2>1, SoloNext
<1>5. /\ added \in Nat /\ Advanced = added - 1 /\ Advanced \in Nat /\ head = Slot(Advanced)
      /\ Advanced' = added /\ Complete' = Complete
  BY <1>2, <1>3, <1>4 DEF BatchInv, Ring, Advanced, Complete, TypeOK
<1>6. head' = Slot(added)
  <2>1. Slot(Advanced + 1) = Following(Slot(Advanced)) /\ Advanced + 1 = added
    BY <1>5, SlotFacts
  <2> QED
    BY <1>2, <1>5, <2>1
<1>7. Ring'
  BY <1>2, <1>5, <1>6 DEF BatchInv, Ring, Holds
<1>8. Progress' /\ Marks' /\ Lasts' /\ Shapes'
  BY <1>2, <1>4, <1>5, QuietProgress, QuietMarks, QuietLasts, QuietShapes
<1> QED
  BY <1>1, <1>7, <1>8, BatchKeepsStrong DEF BatchInv

(* It finds the queue full only if it has gone round the ring since the    *)
(* read began: otherwise the tail is behind it, on another slot.           *)
LEMMA AddAccountBatch ==
    ASSUME BatchInv, NEW p \in Producers, AddAccount(p)
    PROVE  BatchInv'
<1>1. [Next]_vars
  BY DEF Next, Produce
<1>2. /\ pc[p] = "account" /\ pc' = [pc EXCEPT ![p] = "unlock"]
      /\ head = tail \/ tail' = tail
      /\ UNCHANGED <<list, head, added, begin, end, last, inside, batch, wanted, got>>
  BY DEF AddAccount, Goto, marks, history
<1>3. ~ Moving /\ Filling
  <2>1. "account" \in Pcs /\ "account" # "advance"
    BY DEF Pcs, Critical, Adding
  <2> QED
    BY <1>2, <2>1, SoloAlone
<1>4. ~ Moving' /\ ~ Filling' /\ \A c \in Consumers : pc'[c] = pc[c]
  <2>1. "unlock" \in Pcs /\ "unlock" \notin {"advance", "account"}
    BY DEF Pcs, Critical, Adding
  <2> QED
    BY <1>2, <2>1, SoloNext
<1>5. /\ added \in Nat /\ head = Slot(added) /\ Complete = added - 1 /\ Complete \in Nat
      /\ Advanced' = added /\ Complete' = added /\ Max \in Nat
  BY <1>2, <1>3, <1>4, QueueAssumption DEF BatchInv, Ring, Advanced, Complete, TypeOK
<1>6. added < Max => tail' <= added
  <2>1. SUFFICES ASSUME added < Max PROVE tail' <= added
    OBVIOUS
  <2>2. head = added /\ tail <= Complete /\ tail \in Nat
    BY <1>5, <2>1, SlotFacts DEF BatchInv, Ring, TypeOK, Slots
  <2>3. tail' = tail
    BY <1>2, <1>5, <2>2
  <2> QED
    BY <1>5, <2>2, <2>3
<1>7. Ring'
  BY <1>2, <1>5, <1>6 DEF BatchInv, Ring, Holds
<1>8. Start' = Start /\ Reached' = Reached
  BY <1>2 DEF Start, Reached
<1>9. ASSUME Start \in Nat, added - Start < Max, InStep
      PROVE  InStep'
  <2>1. Len(got) \in Nat
    BY DEF BatchInv, Shapes
  <2>2. tail = Slot(Reached) /\ Reached <= Complete /\ Reached \in Nat /\ Reached >= Start
    BY <1>9, <2>1 DEF InStep, Reached
  <2>3. Reached <= added /\ added < Reached + Max /\ Reached # added
    BY <1>5, <1>9, <2>2
  <2>4. Slot(Reached) # Slot(added)
    BY <1>5, <2>2, <2>3, SlotFacts
  <2>5. tail' = tail /\ Reached <= added
    BY <1>2, <1>5, <2>2, <2>3, <2>4
  <2> QED
    BY <1>2, <1>5, <1>8, <1>9, <2>5 DEF InStep
<1>10. Progress'
  BY <1>2, <1>8, <1>9 DEF BatchInv, Progress
<1>11. Marks' /\ Lasts' /\ Shapes'
  BY <1>2, <1>4, QuietMarks, QuietLasts, QuietShapes
<1> QED
  BY <1>1, <1>7, <1>10, <1>11, BatchKeepsStrong DEF BatchInv

(* The steps of a consumer that take nothing out.                          *)
LEMMA ConsumerQuiet ==
    ASSUME BatchInv, NEW c \in Consumers,
           \/ SetLastClear(c) \/ SetLastLock(c)
           \/ \E op \in Reading \ {"move"} : ReadLock(c, op)
           \/ GetCur(c) \/ GetHead(c)
           \/ GetNext(c) /\ Bound = tail
    PROVE  BatchInv'
<1>1. [Next]_vars
  BY DEF Next, Consume
<1>2. UNCHANGED <<list, head, tail, begin, end, inside, added, batch, wanted, got>>
  BY DEF SetLastClear, SetLastLock, ReadLock, GetCur, GetHead, GetNext, ring, marks, history
<1>3. /\ pc[c] \in Entering \cup Scanning
      /\ pc[c] \in Entering => last = -1
      /\ Batches
  BY DEF BatchInv, Lasts, Solo
<1> DEFINE To(S) == \E to \in S : pc' = [pc EXCEPT ![c] = to]
<1>4. \/ To(Entering) /\ last' = -1
      \/ To(Scanning) /\ last' = last /\ pc[c] \in Scanning
  <2>1. CASE SetLastClear(c)
    BY <2>1 DEF SetLastClear, Goto, Entering
  <2>2. CASE SetLastLock(c)
    BY <1>3, <2>2 DEF SetLastLock, Goto, Entering, marks
  <2>3. ASSUME NEW op \in Reading \ {"move"}, ReadLock(c, op)
        PROVE  To(Scanning) /\ last' = last /\ pc[c] \in Scanning
    <3>1. op \in Scanning /\ pc[c] = "read" /\ pc' = [pc EXCEPT ![c] = op] /\ last' = last
      BY <1>3, <2>3 DEF ReadLock, Goto, Reading, Scanning, marks
    <3> QED
      BY <3>1 DEF Scanning
  <2>4. CASE GetCur(c) \/ GetHead(c)
    BY <2>4 DEF GetCur, GetHead, Goto, Scanning, marks
  <2>5. CASE GetNext(c) /\ Bound = tail
    BY <1>3, <2>5 DEF GetNext, Goto, Home, Entering
  <2> QED
    BY <2>1, <2>2, <2>3, <2>4, <2>5
<1>5. Entering \cup Scanning \subseteq Pcs /\ Entering \cap Scanning = {}
  BY DEF Entering, Scanning, Pcs, Critical, Reading
<1>6. PICK to \in Entering \cup Scanning :
            /\ pc' = [pc EXCEPT ![c] = to]
            /\ \/ to \in Entering /\ last' = -1
               \/ to \in Scanning /\ last' = last /\ pc[c] \in Scanning
  BY <1>4
<1>7. (Moving' <=> Moving) /\ (Filling' <=> Filling) /\ pc'[c] = to
      /\ \A d \in Consumers : d = c
  BY <1>5, <1>6, SoloConsumer
<1>8. Lasts'
  BY <1>2, <1>5, <1>6, <1>7 DEF BatchInv, Lasts
<1> QED
  BY <1>1, <1>2, <1>7, <1>8, QuietBatch

(* SetLast moves the tail to where the last batch begins.                  *)
LEMMA SetLastMoveBatch ==
    ASSUME BatchInv, NEW c \in Consumers, SetLastMove(c)
    PROVE  BatchInv'
<1>1. [Next]_vars
  BY DEF Next, Consume
<1>2. /\ pc[c] = "move" /\ pc' = [pc EXCEPT ![c] = "read"]
      /\ tail' = IF begin >= 0 THEN begin ELSE tail
      /\ last' = IF end >= 0 THEN end ELSE last
      /\ begin' = -1 /\ end' = -1
      /\ wanted' = IF begin >= 0 THEN batch ELSE <<>>
      /\ got' = <<>>
      /\ UNCHANGED <<list, head, inside, added, batch>>
  BY DEF SetLastMove, Goto
<1>3. ~ Moving /\ ~ Filling /\ inside = {}
  BY <1>2, SoloAlone DEF Critical, Reading
<1>4. /\ (Moving' <=> Moving) /\ (Filling' <=> Filling) /\ pc'[c] = "read"
      /\ \A d \in Consumers : d = c
  BY <1>2, SoloConsumer DEF Pcs
<1>5. /\ added \in Nat /\ Complete = added /\ Complete' = added /\ Advanced' = Advanced
  BY <1>2, <1>3, <1>4 DEF BatchInv, Advanced, Complete, TypeOK
<1>6. /\ batch[1] \in Nat /\ batch[2] \in Nat /\ batch # <<>> /\ batch \in Nat \X Nat
      /\ last = -1
  <2>1. batch \in Nat \X Nat
    BY DEF BatchInv, Shapes
  <2>2. last = -1
    BY <1>2 DEF BatchInv, Lasts, Entering
  <2> QED
    BY <2>1, <2>2
<1>7. /\ begin >= 0 <=> end >= 0
      /\ begin >= 0 => /\ begin = Slot(batch[1]) /\ end = Slot(batch[2])
                      /\ batch[1] <= batch[2] /\ batch[2] <= added /\ batch[1] <= added
  BY <1>3 DEF BatchInv, Marks
<1>8. Ring'
  <2>1. added < Max => tail' <= added
    <3>1. begin >= 0 => begin <= batch[1]
      BY <1>6, <1>7, SlotFacts
    <3>2. begin >= 0 => begin <= added
      BY <1>5, <1>6, <1>7, <3>1 DEF BatchInv, TypeOK, Slots
    <3> QED
      BY <1>2, <1>5, <3>2 DEF BatchInv, Ring
  <2> QED
    BY <1>2, <1>5, <2>1 DEF BatchInv, Ring, Holds
<1>9. Marks'
  BY <1>2, <1>3 DEF Marks
<1>10. Lasts'
  <2>1. last' = IF wanted' # <<>> THEN Slot(wanted'[2]) ELSE -1
    BY <1>2, <1>6, <1>7
  <2>2. pc'[c] \in Scanning /\ pc'[c] \notin Entering
    BY <1>4 DEF Scanning, Entering
  <2> QED
    BY <1>4, <2>1, <2>2 DEF Lasts
<1>11. Shapes'
  BY <1>2, <1>6 DEF Shapes
<1>12. Progress'
  <2>1. CASE begin >= 0
    <3>1. wanted' = batch /\ got' = <<>> /\ tail' = Slot(batch[1]) /\ wanted' # <<>>
      BY <1>2, <1>6, <1>7, <2>1
    <3>2. Start' = batch[1] /\ Reached' = batch[1]
      BY <1>6, <3>1 DEF Start, Reached
    <3>3. InStep'
      BY <1>5, <1>6, <1>7, <2>1, <3>1, <3>2 DEF InStep
    <3> QED
      BY <1>2, <1>6, <1>7, <2>1, <3>1, <3>2, <3>3 DEF Progress
  <2>2. CASE ~ (begin >= 0)
    BY <1>2, <2>2 DEF Progress
  <2> QED
    BY <2>1, <2>2
<1> QED
  BY <1>1, <1>8, <1>9, <1>10, <1>11, <1>12, BatchKeepsStrong DEF BatchInv

(* The slot of item n, counted from 0, holds it until the producer has     *)
(* gone round.                                                             *)
LEMMA HeldItem ==
    ASSUME BatchInv, NEW n \in Nat, n < added, added - n <= Max
    PROVE  list[Slot(n)] = n + 1
<1> DEFINE k == list[Slot(n)]
<1>1. /\ added \in Nat /\ Max \in Nat /\ Max > 1
      /\ Slot(n) \in Slots /\ Slot(n) <= n /\ Slot(n) \in Nat
  <2>1. Slot(n) \in Slots /\ Slot(n) <= n
    BY SlotFacts
  <2> QED
    BY <2>1, QueueAssumption DEF BatchInv, TypeOK, Slots
<1>2. Holds(Slot(n))
  BY <1>1 DEF BatchInv, Ring
<1>3. k \in 1 .. added /\ k > added - Max /\ Slot(k - 1) = Slot(n)
  BY <1>1, <1>2 DEF Holds
<1> HIDE DEF k
<1>4. PICK j \in Nat : j = k - 1
  BY <1>1, <1>3
<1>5. /\ j <= n => n < j + Max
      /\ n <= j => j < n + Max
  BY <1>1, <1>3, <1>4
<1>6. Slot(j) = Slot(n)
  BY <1>3, <1>4
<1>7. j = n
  <2>1. j <= n \/ n <= j
    OBVIOUS
  <2> QED
    BY <1>5, <1>6, <2>1, SlotFacts
<1> QED
  BY <1>1, <1>3, <1>4, <1>7 DEF k

(* GetNext finds an item.                                                  *)
LEMMA TakeBatch ==
    ASSUME BatchInv, NEW c \in Consumers, GetNext(c), Bound # tail
    PROVE  BatchInv'
<1>1. [Next]_vars
  BY DEF Next, Consume
<1>2. /\ pc[c] = "next" /\ pc' = [pc EXCEPT ![c] = "read"]
      /\ got' = Append(got, list[tail]) /\ tail' = Following(tail)
      /\ UNCHANGED <<list, head, begin, end, last, inside, added, batch, wanted>>
  BY DEF GetNext, Goto
<1>3. ~ Moving /\ ~ Filling
  BY <1>2, SoloAlone DEF Critical, Reading
<1>4. /\ (Moving' <=> Moving) /\ (Filling' <=> Filling) /\ pc'[c] = "read"
      /\ \A d \in Consumers : d = c
  BY <1>2, SoloConsumer DEF Pcs
<1>5. /\ added \in Nat /\ Complete = added /\ Complete' = added /\ Advanced' = Advanced
      /\ Advanced = added
  BY <1>2, <1>3, <1>4 DEF BatchInv, Advanced, Complete, TypeOK
<1>6. /\ head = Slot(added) /\ tail \in Slots /\ tail \in Nat /\ Slots = 0 .. Max - 1
      /\ Max \in Nat /\ Max > 1
      /\ last = IF wanted # <<>> THEN Slot(wanted[2]) ELSE -1
      /\ wanted # <<>> => wanted[1] \in Nat /\ wanted[2] \in Nat
                          /\ wanted[1] <= wanted[2] /\ wanted[2] <= added
  <2>1. last = IF wanted # <<>> THEN Slot(wanted[2]) ELSE -1
    BY <1>2 DEF BatchInv, Lasts, Scanning
  <2>2. wanted # <<>> => wanted[1] \in Nat /\ wanted[2] \in Nat
                         /\ wanted[1] <= wanted[2] /\ wanted[2] <= added
    BY DEF BatchInv, Progress, Shapes
  <2> QED
    BY <1>5, <2>1, <2>2, QueueAssumption DEF BatchInv, Ring, TypeOK, Slots
<1>7. /\ wanted # <<>> => tail # Slot(wanted[2])
      /\ wanted = <<>> => tail # Slot(added)
  <2>1. CASE wanted # <<>>
    <3>1. Slot(wanted[2]) \in Slots
      BY <1>6, <2>1, SlotFacts
    <3>2. Bound = Slot(wanted[2])
      BY <1>6, <2>1, <3>1 DEF Bound
    <3> QED
      BY <2>1, <3>2
  <2>2. CASE wanted = <<>>
    BY <1>6, <2>2 DEF Bound
  <2> QED
    BY <2>1, <2>2
<1>8. Len(got) \in Nat /\ got \in Seq(Nat)
  BY DEF BatchInv, Shapes
<1>9. list \in [Slots -> Nat] /\ list[tail] \in Nat
  BY <1>6 DEF BatchInv, TypeOK
<1>10. /\ got' \in Seq(Nat) /\ Len(got') = Len(got) + 1 /\ got' # <<>>
       /\ \A i \in 1 .. Len(got) : got'[i] = got[i]
       /\ got'[Len(got) + 1] = list[tail]
  BY <1>2, <1>8, <1>9, AppendProperties
(* In step, the read has not come to the bound, and takes the next item.   *)
<1>11. ASSUME wanted # <<>> \/ got # <<>>, added - Start < Max
       PROVE  /\ InStep /\ Reached \in Nat /\ Start <= Reached /\ Reached < added
              /\ wanted # <<>> => Reached < wanted[2]
              /\ list[tail] = Reached + 1
  <2>1. Start \in Nat /\ InStep
    BY <1>11 DEF BatchInv, Progress
  <2>2. /\ Reached \in Nat /\ Start <= Reached /\ Reached <= added /\ tail = Slot(Reached)
        /\ wanted # <<>> => Reached <= wanted[2]
    BY <1>5, <1>8, <2>1 DEF InStep, Reached
  <2>3. wanted # <<>> => Reached < wanted[2]
    BY <1>6, <1>7, <2>2
  <2>4. Reached < added
    BY <1>5, <1>6, <1>7, <2>2, <2>3
  <2>5. added - Reached <= Max
    BY <1>5, <1>6, <1>11, <2>1, <2>2
  <2>6. list[tail] = Reached + 1
    BY <2>2, <2>4, <2>5, HeldItem
  <2> QED
    BY <2>1, <2>2, <2>3, <2>4, <2>6
(* Before the first turn is over, there is an item between tail and head.  *)
<1>12. added < Max => tail < added
  <2>1. SUFFICES ASSUME added < Max PROVE tail < added
    OBVIOUS
  <2>2. tail <= added /\ Slot(added) = added
    BY <1>5, <2>1, SlotFacts DEF BatchInv, Ring
  <2>3. CASE wanted = <<>>
    BY <1>5, <1>6, <1>7, <2>2, <2>3
  <2>4. CASE wanted # <<>>
    <3>1. Start \in Nat
      BY <2>4 DEF BatchInv, Progress
    <3>2. added - Start < Max
      BY <1>5, <1>6, <2>1, <3>1
    <3>3. Reached < added /\ tail = Slot(Reached) /\ Reached \in Nat
      BY <1>11, <2>4, <3>2 DEF InStep
    <3>4. Slot(Reached) <= Reached
      BY <3>3, SlotFacts
    <3> QED
      BY <1>5, <1>6, <3>3, <3>4
  <2> QED
    BY <2>3, <2>4
<1>13. Ring'
  <2>1. added < Max => tail' <= added
    <3>1. Following(tail) = IF tail = Max - 1 THEN 0 ELSE tail + 1
      BY <1>6, RingSteps
    <3> QED
      BY <1>2, <1>5, <1>6, <1>12, <3>1
  <2> QED
    BY <1>2, <1>5, <2>1 DEF BatchInv, Ring, Holds
<1>14. Lasts'
  <2>1. pc'[c] \in Scanning /\ pc'[c] \notin Entering
    BY <1>4 DEF Scanning, Entering
  <2> QED
    BY <1>2, <1>4, <1>6, <2>1 DEF Lasts
<1>15. Shapes'
  BY <1>2, <1>10 DEF BatchInv, Shapes
<1>16. Progress'
  <2>1. CASE wanted # <<>> \/ got # <<>>
    <3>1. Start' = Start
      <4>1. wanted = <<>> => got'[1] = got[1]
        BY <1>8, <1>10, <2>1
      <4> QED
        BY <1>2, <4>1 DEF Start
    <3>2. Start \in Nat /\ Start <= added
      BY <2>1 DEF BatchInv, Progress
    <3>3. Reached' = Reached + 1
      BY <1>8, <1>10, <3>1, <3>2 DEF Reached
    <3>4. ASSUME added - Start < Max PROVE InStep'
      <4>1. /\ InStep /\ Reached \in Nat /\ Reached < added
            /\ wanted # <<>> => Reached < wanted[2]
            /\ list[tail] = Reached + 1
        BY <1>11, <2>1, <3>4
      <4>2. tail' = Slot(Reached + 1)
        <5>1. tail = Slot(Reached)
          BY <4>1 DEF InStep
        <5> QED
          BY <1>2, <4>1, <5>1, SlotFacts
      <4>3. ASSUME NEW i \in 1 .. Len(got) + 1 PROVE got'[i] = Start + i
        <5>1. CASE i \in 1 .. Len(got)
          BY <1>10, <4>1, <5>1 DEF InStep
        <5>2. CASE i = Len(got) + 1
          BY <1>8, <1>10, <3>2, <4>1, <5>2 DEF Reached
        <5> QED
          BY <1>8, <5>1, <5>2
      <4>4. Reached + 1 <= added /\ (wanted # <<>> => Reached + 1 <= wanted[2])
        BY <1>5, <1>6, <4>1
      <4> QED
        BY <1>2, <1>5, <1>10, <3>1, <3>3, <4>2, <4>3, <4>4 DEF InStep
    <3> QED
      BY <1>2, <1>6, <3>1, <3>2, <3>4 DEF Progress
  <2>2. CASE wanted = <<>> /\ got = <<>>
    <3>1. Holds(tail)
      BY <1>6 DEF BatchInv, Ring
    <3>2. ~ (added <= tail)
      BY <1>5, <1>6, <1>12
    <3>3. list[tail] \in 1 .. added /\ Slot(list[tail] - 1) = tail
      BY <3>1, <3>2 DEF Holds
    <3>4. PICK k \in Nat : k = list[tail] - 1
      BY <1>5, <3>3
    <3>5. Len(got) = 0 /\ got'[1] = k + 1 /\ Len(got') = 1
      BY <1>10, <1>9, <2>2, <3>4
    <3>6. Start' = k /\ Reached' = k + 1 /\ wanted' = <<>>
      <4>1. Start' = got'[1] - 1 /\ wanted' = <<>>
        BY <1>2, <2>2 DEF Start
      <4>2. Start' = k
        BY <3>5, <4>1
      <4> QED
        BY <3>5, <4>1, <4>2 DEF Reached
    <3>7. k + 1 <= added /\ k <= added
      BY <1>5, <3>3, <3>4
    <3>8. tail' = Slot(k + 1)
      BY <1>2, <3>3, <3>4, SlotFacts
    <3>9. \A i \in 1 .. Len(got') : got'[i] = Start' + i
      BY <3>5, <3>6
    <3>10. InStep'
      BY <1>5, <3>6, <3>7, <3>8, <3>9 DEF InStep
    <3> QED
      BY <1>2, <3>6, <3>7, <3>10 DEF Progress
  <2> QED
    BY <2>1, <2>2
<1>17. Marks'
  BY <1>2, QuietMarks
<1> QED
  BY <1>1, <1>13, <1>14, <1>15, <1>16, <1>17, BatchKeepsStrong DEF BatchInv

(* The next-state relation keeps the invariant.                            *)
LEMMA NextBatch == BatchInv /\ [Next]_vars => BatchInv'
<1> SUFFICES ASSUME BatchInv, [Next]_vars PROVE BatchInv'
  OBVIOUS
<1>1. ASSUME NEW p \in Producers, Produce(p) PROVE BatchInv'
  BY <1>1, ProducerQuiet, MarkBatch, AddStoreBatch, AddAdvanceBatch, AddAccountBatch
     DEF Produce
<1>2. ASSUME NEW c \in Consumers, Consume(c) PROVE BatchInv'
  <2>1. ~ Empty(c)
    BY DEF BatchInv, Lasts, Entering, Scanning, Empty, Goto
  <2> QED
    BY <1>2, <2>1, ConsumerQuiet, SetLastMoveBatch, TakeBatch DEF Consume
<1>3. CASE UNCHANGED vars
  <2>1. /\ UNCHANGED <<list, head, tail, begin, end, last, inside, added, batch, wanted, got>>
        /\ pc' = pc
    BY <1>3 DEF vars, ring, marks, history
  <2>2. (Moving' <=> Moving) /\ (Filling' <=> Filling) /\ Lasts'
    BY <2>1, QuietLasts DEF Moving, Filling
  <2> QED
    BY <2>1, <2>2, QuietBatch
<1> QED
  BY <1>1, <1>2, <1>3 DEF Next

(* The queue starts with nothing in its slots.                             *)
LEMMA InitBatch == Init /\ Solo => BatchInv
<1> SUFFICES ASSUME Init, Solo PROVE BatchInv
  OBVIOUS
<1>1. Strong /\ TypeOK
  BY InitStrong, InitTypes DEF Disciplined, Solo
<1>2. /\ \A t \in Producers \cup Consumers : pc[t] = "idle"
      /\ list = [i \in Slots |-> Nothing] /\ head = 0 /\ tail = 0
      /\ begin = -1 /\ end = -1 /\ last = -1 /\ inside = {}
      /\ added = 0 /\ batch = <<0, 0>> /\ wanted = <<>> /\ got = <<>>
  BY DEF Init, Home, Solo, Threads
<1>3. ~ Moving /\ ~ Filling
  BY <1>2 DEF Moving, Filling
<1>4. Advanced = 0 /\ Complete = 0 /\ Slot(0) = 0
  BY <1>2, <1>3, QueueAssumption, SlotFacts DEF Advanced, Complete
<1>5. Ring
  BY <1>2, <1>4 DEF Ring, Holds, Slots
<1>6. Shapes /\ Marks /\ Progress
  BY <1>2 DEF Shapes, Marks, Progress
<1>7. Lasts
  BY <1>2 DEF Lasts, Entering, Scanning
<1> QED
  BY <1>1, <1>5, <1>6, <1>7 DEF BatchInv

(* While the read is in step it returns what BatchRead says.               *)
LEMMA BatchImplies == BatchInv => BatchRead
<1> SUFFICES ASSUME BatchInv, got # <<>>, added - Start < Max
             PROVE  /\ \A i \in 1 .. Len(got) : got[i] = Start + i
                    /\ wanted # <<>> => Len(got) <= wanted[2] - wanted[1]
  BY Zenon DEF BatchRead, Start
<1>1. InStep
  BY DEF BatchInv, Progress
<1>2. ASSUME wanted # <<>> PROVE Len(got) <= wanted[2] - wanted[1]
  <2>1. Start = wanted[1] /\ wanted[1] \in Nat /\ wanted[2] \in Nat /\ Len(got) \in Nat
    BY <1>2 DEF BatchInv, Shapes, Start
  <2>2. wanted[1] + Len(got) <= wanted[2]
    BY <1>1, <1>2, <2>1 DEF InStep, Reached
  <2> QED
    BY <2>1, <2>2
<1> QED
  BY <1>1, <1>2 DEF InStep

(* One producer and one consumer, with batches: GetNext returns the items  *)
(* of the batch SetLast found, in order, none twice and none left out, for *)
(* every number of slots, as long as the producer has not gone round.      *)
THEOREM BatchReadInOrder == Spec /\ Solo => []BatchRead
BY InitBatch, NextBatch, BatchImplies, PTL DEF Spec
==============================================================================
