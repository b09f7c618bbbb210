------------------------------ MODULE LossyQueue ------------------------------
(***************************************************************************)
(* What AQueue (inc/aqueue.h) promises when no batches are used: a FIFO    *)
(* queue of bounded length that drops its oldest item when it is full, and *)
(* counts what it dropped.                                                 *)
(***************************************************************************)
EXTENDS Naturals, Sequences

CONSTANTS
    Capacity,   \* most items in the queue
    Items       \* what may be put into it

VARIABLES
    queue,      \* its items, oldest first
    loss,       \* items dropped since it was last emptied
    taken       \* items that have been taken out, in order

vars == <<queue, loss, taken>>

Init == queue = <<>> /\ loss = 0 /\ taken = <<>>

Put(x) ==
    /\ Len(queue) < Capacity
    /\ queue' = Append(queue, x)
    /\ UNCHANGED <<loss, taken>>

PutAndDrop(x) ==
    /\ Len(queue) = Capacity
    /\ queue' = Tail(Append(queue, x))
    /\ loss' = loss + 1
    /\ UNCHANGED taken

Take ==
    /\ queue # <<>>
    /\ taken' = Append(taken, Head(queue))
    /\ queue' = Tail(queue)
    /\ UNCHANGED loss

Clear ==
    /\ queue' = <<>> /\ loss' = 0
    /\ UNCHANGED taken

Next == (\E x \in Items : Put(x) \/ PutAndDrop(x)) \/ Take \/ Clear

Spec == Init /\ [][Next]_vars
==============================================================================
