---------------------------- MODULE BoundedFifo ----------------------------
(***************************************************************************)
(* What ioqueue.c promises: a first-in first-out buffer of bounded size.   *)
(* A put waits for room and a get for an item; both take effect at once.   *)
(***************************************************************************)
EXTENDS Integers, Sequences

CONSTANTS Items,    \* what is put
          Capacity, \* how much fits
          NoItem    \* before the first get

VARIABLES queue,    \* the items put and not yet got, oldest first
          last      \* the item the last get returned

Put(x) == /\ Len(queue) < Capacity
          /\ queue' = Append(queue, x)
          /\ UNCHANGED last

Get == /\ queue # <<>>
       /\ last' = Head(queue)
       /\ queue' = Tail(queue)

Init == queue = <<>> /\ last = NoItem

Next == Get \/ \E x \in Items : Put(x)

Spec == Init /\ [][Next]_<<queue, last>>
=============================================================================
