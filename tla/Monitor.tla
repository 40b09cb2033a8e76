------------------------------ MODULE Monitor ------------------------------
(***************************************************************************)
(* What the lock of sync.c promises its callers: a monitor with one        *)
(* condition, in the manner of Mesa.  One thread at a time owns it; the    *)
(* owner may wait, which gives the monitor up, and may notify waiting      *)
(* threads, which then compete for it with everybody else.                 *)
(***************************************************************************)
CONSTANTS Threads,    \* the threads that use the monitor
          NoThread    \* nobody

VARIABLES owner,      \* who owns the monitor
          waiters     \* who waits to be notified

Acquire(t) == /\ owner = NoThread
              /\ t \notin waiters
              /\ owner' = t
              /\ UNCHANGED waiters

Release(t) == /\ owner = t
              /\ owner' = NoThread
              /\ UNCHANGED waiters

Wait(t) == /\ owner = t
           /\ owner' = NoThread
           /\ waiters' = waiters \cup {t}

\* only the owner notifies; one waiter or several
Notify(t) == /\ owner = t
             /\ \E woken \in SUBSET waiters : waiters' = waiters \ woken
             /\ UNCHANGED owner

Init == owner = NoThread /\ waiters = {}

Next == \E t \in Threads : Acquire(t) \/ Release(t) \/ Wait(t) \/ Notify(t)

Spec == Init /\ [][Next]_<<owner, waiters>>
=============================================================================
