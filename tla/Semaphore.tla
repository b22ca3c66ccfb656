----------------------------- MODULE Semaphore -----------------------------
(***************************************************************************)
(* The semaphore of kern/thread/synch.c on its spinlock and wait channel.  *)
(* As in module Synch, taking the spinlock is a step and what is done      *)
(* under it, up to its release, is a step.                                 *)
(***************************************************************************)
EXTENDS Naturals, Sequences, FiniteSets

CONSTANTS Threads,       \* the threads that use the semaphore
          NoThread,      \* nobody
          InitialCount,  \* the count it is created with
          MaxCount       \* bound on the count: V is not called above it

ASSUME SemAssumption == /\ IsFiniteSet(Threads) /\ NoThread \notin Threads
                        /\ InitialCount \in Nat /\ MaxCount \in Nat

VARIABLES pc, sem_lock, sem_count, sem_wchan

vars == <<pc, sem_lock, sem_count, sem_wchan>>

Init ==
  /\ pc = [t \in Threads |-> "run"]
  /\ sem_lock = NoThread
  /\ sem_count = InitialCount
  /\ sem_wchan = <<>>

Goto(t, l) == pc' = [pc EXCEPT ![t] = l]

P(t) ==
  /\ pc[t] = "run"
  /\ Goto(t, "p_spin")
  /\ UNCHANGED <<sem_lock, sem_count, sem_wchan>>

P_spin(t) ==
  /\ pc[t] = "p_spin" /\ sem_lock = NoThread
  /\ sem_lock' = t
  /\ Goto(t, "p_test")
  /\ UNCHANGED <<sem_count, sem_wchan>>

\* Mutant: a woken thread takes a unit without testing the count again.
P_take_NoRetest(t) ==
  /\ pc[t] = "p_test"
  /\ sem_count' = IF sem_count = 0 THEN 0 ELSE sem_count - 1
  /\ sem_lock' = NoThread
  /\ Goto(t, "run")
  /\ UNCHANGED sem_wchan

P_take(t) ==
  /\ pc[t] = "p_test" /\ sem_count > 0
  /\ sem_count' = sem_count - 1
  /\ sem_lock' = NoThread
  /\ Goto(t, "run")
  /\ UNCHANGED sem_wchan

\* Mutant: goes to sleep without giving the spinlock up.
P_sleep_KeepsLock(t) ==
  /\ pc[t] = "p_test" /\ sem_count = 0
  /\ sem_wchan' = Append(sem_wchan, t)
  /\ Goto(t, "p_sleep")
  /\ UNCHANGED <<sem_lock, sem_count>>

\* wchan_sleep
P_sleep(t) ==
  /\ pc[t] = "p_test" /\ sem_count = 0
  /\ sem_wchan' = Append(sem_wchan, t)
  /\ sem_lock' = NoThread
  /\ Goto(t, "p_sleep")
  /\ UNCHANGED sem_count

V(t) ==
  /\ pc[t] = "run" /\ sem_count < MaxCount
  /\ Goto(t, "v_spin")
  /\ UNCHANGED <<sem_lock, sem_count, sem_wchan>>

V_spin(t) ==
  /\ pc[t] = "v_spin" /\ sem_lock = NoThread
  /\ sem_lock' = t
  /\ Goto(t, "v_do")
  /\ UNCHANGED <<sem_count, sem_wchan>>

\* Mutant: wakes a thread only when the count was 0.
V_do_WakesAtZero(t) ==
  LET wake == sem_count = 0 /\ sem_wchan # <<>> IN
  /\ pc[t] = "v_do"
  /\ sem_count' = sem_count + 1
  /\ sem_wchan' = IF wake THEN Tail(sem_wchan) ELSE sem_wchan
  /\ sem_lock' = NoThread
  /\ pc' = [u \in Threads |-> IF u = t THEN "run"
                              ELSE IF wake /\ u = Head(sem_wchan) THEN "p_spin"
                              ELSE pc[u]]

\* The count goes up and wchan_wakeone wakes the head of the channel.
V_do(t) ==
  /\ pc[t] = "v_do"
  /\ sem_count' = sem_count + 1
  /\ sem_wchan' = IF sem_wchan = <<>> THEN <<>> ELSE Tail(sem_wchan)
  /\ sem_lock' = NoThread
  /\ pc' = [u \in Threads |-> IF u = t THEN "run"
                              ELSE IF sem_wchan # <<>> /\ u = Head(sem_wchan) THEN "p_spin"
                              ELSE pc[u]]

Step(t) == P_spin(t) \/ P_take(t) \/ P_sleep(t) \/ V_spin(t) \/ V_do(t)

Next == \E t \in Threads : P(t) \/ V(t) \/ Step(t)

Spec == Init /\ [][Next]_vars

\* A thread inside P or V keeps being scheduled.
FairSpec == Spec /\ \A t \in Threads : WF_vars(Step(t))
-----------------------------------------------------------------------------
(* Properties *)

\* The threads that are on their way to test the count.
Testing == {t \in Threads : pc[t] \in {"p_spin", "p_test"}}

\* Type invariant; the spinlock's holder is the thread inside a section.
TypeOK ==
  /\ pc \in [Threads -> {"run", "p_spin", "p_test", "p_sleep", "v_spin", "v_do"}]
  /\ sem_lock \in Threads \cup {NoThread}
  /\ sem_count \in Nat
  /\ sem_wchan \in Seq(Threads)
  /\ \A t \in Threads : sem_lock = t <=> pc[t] \in {"p_test", "v_do"}

\* The wait channel holds exactly the sleeping threads, each once.
SleepersQueued ==
  /\ \A t \in Threads : pc[t] = "p_sleep" <=> \E i \in 1..Len(sem_wchan) : sem_wchan[i] = t
  /\ \A i, j \in 1..Len(sem_wchan) : sem_wchan[i] = sem_wchan[j] => i = j

\* No unit is left unclaimed while a thread sleeps in P: for each there is a
\* thread on its way to test the count, though V wakes only one thread and
\* others may overtake it.
UnitsClaimed == sem_wchan # <<>> => sem_count <= Cardinality(Testing)

\* The inductive invariant.
IndInv == TypeOK /\ SleepersQueued /\ UnitsClaimed

\* P and V are atomic: every P takes one unit, when there is one, and every V
\* adds one.
Abs == INSTANCE AbsSemaphore WITH
         count <- sem_count,
         doing <- [t \in Threads |->
                     IF pc[t] \in {"p_spin", "p_test", "p_sleep"} THEN "P"
                     ELSE IF pc[t] \in {"v_spin", "v_do"} THEN "V" ELSE "none"]
ImplementsSemaphore == Abs!Spec

\* A unit does not stay unused while a thread sleeps: the count drops to 0 or
\* the thread is woken.
NoIdleUnit ==
  \A t \in Threads : (pc[t] = "p_sleep" /\ sem_count > 0) ~>
                       (pc[t] # "p_sleep" \/ sem_count = 0)
=============================================================================
