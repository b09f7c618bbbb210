-------------------------------- MODULE AQueue --------------------------------
(***************************************************************************)
(* AQueue (inc/aqueue.h): a ring of Max slots behind a mutex.  A producer  *)
(* calls AddTail, alone or several times between Begin and End; a consumer *)
(* calls GetNext until it returns nothing, after SetLast if only the last  *)
(* batch is wanted.                                                        *)
(*                                                                         *)
(* Begin keeps the mutex until End and raises a flag that tells AddTail    *)
(* not to lock.  The flag does not say who raised it.  A step is what a    *)
(* thread does between two accesses another thread may see: the tests of   *)
(* the flag, the calls of the mutex, and the statements of AddTail.        *)
(***************************************************************************)
EXTENDS Integers, Sequences, FiniteSets

CONSTANTS
    Producers, Consumers,   \* threads that call the queue
    Free,                   \* owner of an unlocked mutex
    Max,                    \* slots, the argument of SetMax
    Batches,                \* whether Begin, End and SetLast are used
    MaxItems                \* bound of the model: items added

ASSUME QueueAssumption ==
    /\ Producers \cap Consumers = {}
    /\ Free \notin Producers \cup Consumers
    /\ Max \in Nat /\ Max > 1
    /\ Batches \in BOOLEAN
    /\ MaxItems \in Nat

Threads == Producers \cup Consumers
Slots   == 0 .. Max - 1
Items   == 1 .. MaxItems    \* in the order they are added
Nothing == 0                \* an empty slot, or no item

VARIABLES
    list,               \* m_pqList
    head, tail,         \* m_nHead, m_nTail
    begin, end, last,   \* m_nBegin, m_nEnd, m_nLast
    count, loss,        \* m_nCount, m_nLoss
    flag,               \* m_bLock
    mutex,              \* owner of m_mLock
    pc,                 \* where each thread is
    inside,             \* producers between their Begin and their End
    added,              \* history: items stored so far
    batch,              \* history: items stored at the last Begin and End
    wanted,             \* history: the batch the last SetLast chose, or <<>>
    got,                \* history: items GetNext returned (since SetLast)
    given               \* history: the pointer each consumer was last given,
                        \* void once the queue is emptied

ring    == <<list, head, tail, count, loss>>
marks   == <<begin, end, last>>
lock    == <<flag, mutex>>
history == <<added, batch, wanted, got, given>>
vars    == <<ring, marks, lock, pc, inside, history>>

Adding   == {"store", "advance", "account", "unlock"}
Reading  == {"next", "cur", "head", "empty", "move"}
Critical == Adding \cup Reading \cup {"raise"}

(* Threads that touch what the mutex is there to protect.                  *)
InCritical == {t \in Threads : pc[t] \in Critical \/ t \in inside}

TypeOK ==
    /\ list \in [Slots -> Nat]
    /\ head \in Slots /\ tail \in Slots
    /\ {begin, end, last} \subseteq Slots \cup {-1}
    /\ count \in Int /\ loss \in Nat
    /\ flag \in BOOLEAN
    /\ mutex \in Threads \cup {Free}
    /\ pc \in [Threads -> Critical \cup {"idle", "lock", "lower", "read", "setlast"}]
    /\ inside \subseteq Producers
    /\ added \in Nat

Home(c) == IF Batches THEN "idle" ELSE "read"

Init ==
    /\ list = [i \in Slots |-> Nothing]
    /\ head = 0 /\ tail = 0 /\ count = 0 /\ loss = 0
    /\ begin = -1 /\ end = -1 /\ last = -1
    /\ flag = FALSE /\ mutex = Free
    /\ pc = [t \in Threads |-> IF t \in Consumers THEN Home(t) ELSE "idle"]
    /\ inside = {}
    /\ added = 0 /\ batch = <<0, 0>> /\ wanted = <<>> /\ got = <<>>
    /\ given = [c \in Consumers |-> [at |-> 0, item |-> Nothing, added |-> 0]]

Goto(t, from, to) == pc[t] = from /\ pc' = [pc EXCEPT ![t] = to]

(* pthread_mutex_lock and _unlock of a default mutex, which does not look  *)
(* at who unlocks it.                                                      *)
Acquire(t) == mutex = Free /\ mutex' = t /\ UNCHANGED flag
Release    == mutex' = Free /\ UNCHANGED flag

Following(i) == (i + 1) % Max

(* Bound of the model: calls of AddTail begun, or over.                    *)
MayAdd == added + Cardinality({p \in Producers : pc[p] \in {"lock", "store"}}) < MaxItems
------------------------------------------------------------------------------
(* Faulty variants of definitions below; no specification uses them.       *)

(* AddTail locks if the flag is up.                                        *)
AddTestFlagInverted(p) ==
    /\ MayAdd
    /\ Goto(p, "idle", IF flag THEN "lock" ELSE "store")
    /\ UNCHANGED <<ring, marks, lock, inside, history>>

(* The item goes to the slot after the head.                               *)
AddStoreAfterHead(p) ==
    /\ Goto(p, "store", "advance")
    /\ added' = added + 1
    /\ list' = [list EXCEPT ![Following(head)] = added + 1]
    /\ UNCHANGED <<head, tail, count, loss, marks, lock, inside, batch, wanted, got, given>>

(* The count goes up when the queue is full.                               *)
AddAccountCountsLoss(p) ==
    /\ Goto(p, "account", "unlock")
    /\ count' = count + 1
    /\ IF head = tail
       THEN tail' = Following(tail) /\ loss' = loss + 1
       ELSE UNCHANGED <<tail, loss>>
    /\ UNCHANGED <<list, head, marks, lock, inside, history>>

(* A full queue keeps its oldest item.                                     *)
AddAccountKeepsTail(p) ==
    /\ Goto(p, "account", "unlock")
    /\ IF head = tail
       THEN loss' = loss + 1 /\ UNCHANGED count
       ELSE count' = count + 1 /\ UNCHANGED loss
    /\ UNCHANGED <<list, head, tail, marks, lock, inside, history>>

(* GetNext looks at the head only.                                         *)
BoundIgnoresLast == head
------------------------------------------------------------------------------
(* Begin.                                                                  *)
BeginLock(p) ==
    /\ Batches /\ p \notin inside
    /\ Goto(p, "idle", "raise")
    /\ Acquire(p)
    /\ UNCHANGED <<ring, marks, inside, history>>

BeginMark(p) ==
    /\ Goto(p, "raise", "idle")
    /\ flag' = TRUE
    /\ begin' = head
    /\ inside' = inside \cup {p}
    /\ batch' = <<added, batch[2]>>
    /\ UNCHANGED <<ring, end, last, mutex, added, wanted, got, given>>

(* End.                                                                    *)
EndUnlock(p) ==
    /\ p \in inside
    /\ Goto(p, "idle", "lower")
    /\ end' = head
    /\ inside' = inside \ {p}
    /\ batch' = <<batch[1], added>>
    /\ Release
    /\ UNCHANGED <<ring, begin, last, added, wanted, got, given>>

EndLower(p) ==
    /\ Goto(p, "lower", "idle")
    /\ flag' = FALSE
    /\ UNCHANGED <<ring, marks, mutex, inside, history>>

(* AddTail.                                                                *)
AddTestFlag(p) ==
    /\ MayAdd
    /\ Goto(p, "idle", IF flag THEN "store" ELSE "lock")
    /\ UNCHANGED <<ring, marks, lock, inside, history>>

AddLock(p) ==
    /\ Goto(p, "lock", "store")
    /\ Acquire(p)
    /\ UNCHANGED <<ring, marks, inside, history>>

AddStore(p) ==
    /\ Goto(p, "store", "advance")
    /\ added' = added + 1
    /\ list' = [list EXCEPT ![head] = added + 1]
    /\ UNCHANGED <<head, tail, count, loss, marks, lock, inside, batch, wanted, got, given>>

AddAdvance(p) ==
    /\ Goto(p, "advance", "account")
    /\ head' = Following(head)
    /\ UNCHANGED <<list, tail, count, loss, marks, lock, inside, history>>

AddAccount(p) ==
    /\ Goto(p, "account", "unlock")
    /\ IF head = tail
       THEN tail' = Following(tail) /\ loss' = loss + 1 /\ UNCHANGED count
       ELSE count' = count + 1 /\ UNCHANGED <<tail, loss>>
    /\ UNCHANGED <<list, head, marks, lock, inside, history>>

AddUnlock(p) ==
    /\ Goto(p, "unlock", "idle")
    /\ IF flag THEN UNCHANGED lock ELSE Release
    /\ UNCHANGED <<ring, marks, inside, history>>

Produce(p) ==
    \/ BeginLock(p) \/ BeginMark(p) \/ EndUnlock(p) \/ EndLower(p)
    \/ AddTestFlag(p) \/ AddLock(p) \/ AddStore(p) \/ AddAdvance(p) \/ AddAccount(p)
    \/ AddUnlock(p)
------------------------------------------------------------------------------
(* SetLast clears m_nLast before it locks.                                 *)
SetLastClear(c) ==
    /\ Batches
    /\ Goto(c, "idle", "setlast")
    /\ last' = -1
    /\ UNCHANGED <<ring, begin, end, lock, inside, history>>

SetLastLock(c) ==
    /\ Goto(c, "setlast", "move")
    /\ Acquire(c)
    /\ UNCHANGED <<ring, marks, inside, history>>

SetLastMove(c) ==
    /\ Goto(c, "move", "read")
    /\ Release
    /\ tail' = IF begin >= 0 THEN begin ELSE tail
    /\ last' = IF end >= 0 THEN end ELSE last
    /\ begin' = -1 /\ end' = -1
    /\ wanted' = IF begin >= 0 THEN batch ELSE <<>>
    /\ got' = <<>>
    /\ UNCHANGED <<list, head, count, loss, inside, added, batch, given>>

(* GetNext, GetCur, GetHead and Empty lock first.                          *)
ReadLock(c, op) ==
    /\ op = "empty" => ~ Batches
    /\ Goto(c, "read", op)
    /\ Acquire(c)
    /\ UNCHANGED <<ring, marks, inside, history>>

(* The consumer is given a pointer to slot i, which it follows after the   *)
(* mutex is unlocked.                                                      *)
Give(c, i) == given' = [given EXCEPT ![c] = [at |-> i, item |-> list[i], added |-> added]]

(* Where GetNext stops.                                                    *)
Bound == IF last >= 0 THEN last ELSE head

GetNext(c) ==
    /\ IF Bound # tail
       THEN /\ Goto(c, "next", "read")
            /\ Give(c, tail)
            /\ got' = Append(got, list[tail])
            /\ tail' = Following(tail)
            /\ count' = count - 1
            /\ UNCHANGED last
       ELSE /\ Goto(c, "next", Home(c))
            /\ last' = -1
            /\ UNCHANGED <<tail, count, got, given>>
    /\ Release
    /\ UNCHANGED <<list, head, loss, begin, end, inside, added, batch, wanted>>

GetCur(c) ==
    /\ Goto(c, "cur", "read")
    /\ IF head # tail THEN Give(c, tail) ELSE UNCHANGED given
    /\ Release
    /\ UNCHANGED <<ring, marks, inside, added, batch, wanted, got>>

GetHead(c) ==
    /\ Goto(c, "head", "read")
    /\ IF head > 0 THEN Give(c, head - 1) ELSE UNCHANGED given
    /\ Release
    /\ UNCHANGED <<ring, marks, inside, added, batch, wanted, got>>

Empty(c) ==
    /\ Goto(c, "empty", "read")
    /\ head' = 0 /\ tail' = 0 /\ count' = 0 /\ loss' = 0
    /\ given' = [k \in Consumers |-> [given[k] EXCEPT !.item = Nothing]]
    /\ Release
    /\ UNCHANGED <<list, marks, inside, added, batch, wanted, got>>

Consume(c) ==
    \/ SetLastClear(c) \/ SetLastLock(c) \/ SetLastMove(c)
    \/ \E op \in Reading \ {"move"} : ReadLock(c, op)
    \/ GetNext(c) \/ GetCur(c) \/ GetHead(c) \/ Empty(c)

Next == (\E p \in Producers : Produce(p)) \/ (\E c \in Consumers : Consume(c))

Spec == Init /\ [][Next]_vars
------------------------------------------------------------------------------
(* Nobody is in the middle of AddTail.                                     *)
Settled == \A p \in Producers : pc[p] \notin {"advance", "account"}

(* Where the head is for a reader that is not confused by an AddTail that  *)
(* has moved it and not yet made room.                                     *)
StableHead ==
    IF \E p \in Producers : pc[p] = "account" THEN (head + Max - 1) % Max ELSE head

Size == (StableHead - tail + Max) % Max

Contents == [i \in 1 .. Size |-> list[(tail + i - 1) % Max]]

(* The first line of aqueue.h: "array queue (thread safe)".  No two        *)
(* threads are in a section the mutex protects.                            *)
Exclusive == \A s, t \in InCritical : s = t

(* How the queue must be used for that: by any number of producers that    *)
(* call AddTail alone, or by a single one.                                 *)
Disciplined == Batches => \A p, q \in Producers : p = q

(* Then the flag is up only while its producer is between Begin and End,   *)
(* and who is in a critical section owns the mutex.  Inductive.            *)
IInv ==
    /\ Disciplined
    /\ ~ Batches => ~ flag /\ inside = {}
    /\ \A p \in Producers : pc[p] \in {"raise", "lower"} => Batches /\ p \notin inside
    /\ \A p \in Producers : pc[p] = "lock" => p \notin inside
    /\ \A p \in Producers : flag /\ pc[p] # "lower" => p \in inside
    /\ \A p \in inside : flag
    /\ \A c \in Consumers : pc[c] \in Reading \cup {"idle", "setlast", "read"}
    /\ \A p \in Producers : pc[p] \notin Reading \cup {"setlast", "read"}
    /\ \A t \in InCritical : mutex = t

(* GetCount and IsEmpty say how many items the queue holds (aqueue.h:45,   *)
(* :39) whenever no AddTail is half done.                                  *)
CountIsSize == Settled => count = Size

(* A pointer GetNext, GetCur or GetHead returned outlives the lock: it     *)
(* still names its item while no more than one item has been added since.  *)
PointerHolds ==
    \A c \in Consumers :
        added <= given[c].added + 1 => given[c].item \in {Nothing, list[given[c].at]}

(* After SetLast, GetNext returns items in the order they were added, none *)
(* twice and none left out, and if SetLast found a batch those of that     *)
(* batch, as long as the producer has not gone round the ring since.       *)
BatchRead ==
    LET start == IF wanted # <<>> THEN wanted[1] ELSE got[1] - 1
    IN  got # <<>> /\ added - start < Max =>
            /\ \A i \in 1 .. Len(got) : got[i] = start + i
            /\ wanted # <<>> => Len(got) <= wanted[2] - wanted[1]

(* Without batches the queue is a lossy FIFO, for any number of threads.   *)
Lossy == INSTANCE LossyQueue
            WITH Capacity <- Max - 1, queue <- Contents, taken <- got

ImplementsLossyQueue == Lossy!Spec
==============================================================================
