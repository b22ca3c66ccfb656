---------------------------- MODULE AbsSemaphore ----------------------------
(***************************************************************************)
(* What kern/include/synch.h promises of a semaphore: P waits until the    *)
(* count is greater than 0 and then takes one, V adds one, both atomic.    *)
(***************************************************************************)
EXTENDS Naturals

CONSTANTS Threads, InitialCount

VARIABLES count,
          doing     \* doing[t]: the operation t is in, "none", "P" or "V"

avars == <<count, doing>>

Init == count = InitialCount /\ doing = [t \in Threads |-> "none"]

Call(t, op) == /\ doing[t] = "none"
               /\ doing' = [doing EXCEPT ![t] = op]
               /\ UNCHANGED count

DoP(t) == /\ doing[t] = "P" /\ count > 0
          /\ count' = count - 1
          /\ doing' = [doing EXCEPT ![t] = "none"]

DoV(t) == /\ doing[t] = "V"
          /\ count' = count + 1
          /\ doing' = [doing EXCEPT ![t] = "none"]

Next == \E t \in Threads : Call(t, "P") \/ Call(t, "V") \/ DoP(t) \/ DoV(t)

Spec == Init /\ [][Next]_avars
=============================================================================
