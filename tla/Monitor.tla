------------------------------ MODULE Monitor ------------------------------
(***************************************************************************)
(* What kern/include/synch.h promises of a lock and the condition          *)
(* variables used with it: every operation is one atomic step, one thread  *)
(* at a time owns the lock, cv_wait gives the lock up and starts waiting   *)
(* in the same step, and a wake-up takes waiters off (Mesa semantics: a    *)
(* woken thread competes for the lock like any other).                     *)
(*                                                                         *)
(* Module Synch models the code and is shown to implement this module.     *)
(***************************************************************************)
CONSTANTS Threads, CVs, NoThread

VARIABLES owner,    \* the thread that holds the lock, or NoThread
          waiting   \* waiting[c]: the threads inside cv_wait on c, not yet woken

mvars == <<owner, waiting>>

Init == /\ owner = NoThread
        /\ waiting = [c \in CVs |-> {}]

\* lock_acquire, and the re-acquisition at the end of cv_wait
Acquire(t) == /\ owner = NoThread
              /\ \A c \in CVs : t \notin waiting[c]
              /\ owner' = t
              /\ UNCHANGED waiting

Release(t) == /\ owner = t
              /\ owner' = NoThread
              /\ UNCHANGED waiting

Wait(t, c) == /\ owner = t
              /\ owner' = NoThread
              /\ waiting' = [waiting EXCEPT ![c] = @ \cup {t}]

Signal(t, c) == /\ owner = t
                /\ \E u \in waiting[c] :
                      waiting' = [waiting EXCEPT ![c] = @ \ {u}]
                /\ UNCHANGED owner

Broadcast(t, c) == /\ owner = t
                   /\ waiting' = [waiting EXCEPT ![c] = {}]
                   /\ UNCHANGED owner

Next == \E t \in Threads :
           \/ Acquire(t)
           \/ Release(t)
           \/ \E c \in CVs : Wait(t, c) \/ Signal(t, c) \/ Broadcast(t, c)

Spec == Init /\ [][Next]_mvars
=============================================================================
