------------------------------- MODULE Synch -------------------------------
(***************************************************************************)
(* A sleep lock and the condition variables used with it                   *)
(* (kern/thread/synch.c), on top of spinlocks (kern/thread/spinlock.c) and *)
(* wait channels (kern/thread/thread.c).                                   *)
(*                                                                         *)
(* A step of a thread is the code between two points at which another      *)
(* thread can get in: taking a spinlock is a step of its own, and what is  *)
(* done under the spinlock, up to its release, is one step.  A thread that *)
(* holds a spinlock runs with interrupts off, so the thread stands for the *)
(* cpu recorded in splk_holder.  lock_do_i_hold() reads lk_holder under    *)
(* the spinlock and compares it with the caller: only the caller changes   *)
(* the answer, so the assertions built on it are the guards of the calls.  *)
(* lk_priority and t_priority are always 0: both priority schedulers are   *)
(* compiled out (kern/include/thread.h).                                   *)
(***************************************************************************)
EXTENDS Naturals, Sequences

CONSTANTS Threads,   \* the threads that use the lock
          CVs,       \* the condition variables used with it
          NoThread,  \* a NULL thread pointer
          NoCV       \* the cv argument of a thread that is in no cv call

ASSUME SynchAssumption == NoThread \notin Threads /\ NoCV \notin CVs

VARIABLES pc,         \* where each thread is
          cvarg,      \* the cv argument of its call
          lk_splk,    \* the thread holding the lock's spinlock
          lk_holder,  \* the thread holding the lock
          lk_wchan,   \* threads asleep on the lock's wait channel, in order
          cv_lock,    \* cv_lock[c]: the thread holding c's spinlock
          cv_wchan    \* cv_wchan[c]: threads asleep on c's wait channel

lkvars == <<lk_splk, lk_holder, lk_wchan>>
cvvars == <<cv_lock, cv_wchan>>
vars == <<pc, cvarg, lkvars, cvvars>>

\* Inside lock_acquire: spinning, testing lk_holder, asleep.
AcquirePCs == {"la_spin", "la_test", "la_sleep"}
\* Inside lock_release called directly: spinning, releasing.
ReleasePCs == {"lr_spin", "lr_do"}
\* Inside cv_wait up to the re-acquisition: spinning for cv_lock, spinning
\* for lk_splk, releasing the lock, about to sleep, asleep, woken.
WaitPCs == {"cw_spin", "cw_rel", "cw_do", "cw_enq", "cw_sleep", "cw_wake"}
\* Inside cv_signal and cv_broadcast: spinning, waking.
WakePCs == {"cs_spin", "cs_do", "cb_spin", "cb_do"}
PCs == {"run"} \cup AcquirePCs \cup ReleasePCs \cup WaitPCs \cup WakePCs

Init ==
  /\ pc = [t \in Threads |-> "run"]
  /\ cvarg = [t \in Threads |-> NoCV]
  /\ lk_splk = NoThread
  /\ lk_holder = NoThread
  /\ lk_wchan = <<>>
  /\ cv_lock = [c \in CVs |-> NoThread]
  /\ cv_wchan = [c \in CVs |-> <<>>]

Goto(t, l) == pc' = [pc EXCEPT ![t] = l]
-----------------------------------------------------------------------------
(* Wait channels.  wchan_wakeone takes the thread at the head and makes it  *)
(* runnable; wchan_wakeall takes them all.  A thread made runnable goes on  *)
(* inside wchan_sleep, where it takes the channel's spinlock again.         *)

wchan_wakeone(wc) == IF wc = <<>> THEN <<>> ELSE Tail(wc)

Woken(wc) == IF wc = <<>> THEN {} ELSE {Head(wc)}

AllWoken(wc) == {wc[i] : i \in 1..Len(wc)}

\* t goes on to l, and the threads of W, asleep until now, go on to w.
GotoWaking(t, l, W, w) ==
  pc' = [u \in Threads |-> IF u = t THEN l ELSE IF u \in W THEN w ELSE pc[u]]
-----------------------------------------------------------------------------
(* lock_acquire *)

lock_acquire(t) ==
  /\ pc[t] = "run"
  /\ lk_holder # t
  /\ Goto(t, "la_spin")
  /\ UNCHANGED <<cvarg, lkvars, cvvars>>

lock_acquire_spin(t) ==
  /\ pc[t] = "la_spin"
  /\ lk_splk = NoThread
  /\ lk_splk' = t
  /\ Goto(t, "la_test")
  /\ UNCHANGED <<cvarg, lk_holder, lk_wchan, cvvars>>

\* Mutant: takes the lock after one sleep without testing lk_holder again.
lock_acquire_take_NoRetest(t) ==
  /\ pc[t] = "la_test"
  /\ lk_holder' = t
  /\ lk_splk' = NoThread
  /\ Goto(t, "run")
  /\ UNCHANGED <<cvarg, lk_wchan, cvvars>>

lock_acquire_take(t) ==
  /\ pc[t] = "la_test"
  /\ lk_holder = NoThread
  /\ lk_holder' = t
  /\ lk_splk' = NoThread
  /\ Goto(t, "run")
  /\ UNCHANGED <<cvarg, lk_wchan, cvvars>>

\* wchan_sleep: thread_switch queues the thread and then drops the spinlock.
lock_acquire_sleep(t) ==
  /\ pc[t] = "la_test"
  /\ lk_holder # NoThread
  /\ lk_wchan' = Append(lk_wchan, t)
  /\ lk_splk' = NoThread
  /\ Goto(t, "la_sleep")
  /\ UNCHANGED <<cvarg, lk_holder, cvvars>>
-----------------------------------------------------------------------------
(* lock_release *)

lock_release(t) ==
  /\ pc[t] = "run"
  /\ lk_holder = t
  /\ Goto(t, "lr_spin")
  /\ UNCHANGED <<cvarg, lkvars, cvvars>>

lock_release_spin(t) ==
  /\ pc[t] = "lr_spin"
  /\ lk_splk = NoThread
  /\ lk_splk' = t
  /\ Goto(t, "lr_do")
  /\ UNCHANGED <<cvarg, lk_holder, lk_wchan, cvvars>>

\* Mutant: wakes nobody when a single thread sleeps on the lock.
ReleaseBody_NoLastWake(t, l) ==
  LET many == Len(lk_wchan) > 1 IN
  /\ lk_holder' = NoThread
  /\ lk_wchan' = IF many THEN Tail(lk_wchan) ELSE lk_wchan
  /\ lk_splk' = NoThread
  /\ GotoWaking(t, l, IF many THEN {Head(lk_wchan)} ELSE {}, "la_spin")
  /\ UNCHANGED <<cvarg, cvvars>>

\* The body of lock_release, shared with cv_wait: l is where t goes on.
ReleaseBody(t, l) ==
  /\ lk_holder' = NoThread
  /\ lk_wchan' = wchan_wakeone(lk_wchan)
  /\ lk_splk' = NoThread
  /\ GotoWaking(t, l, Woken(lk_wchan), "la_spin")
  /\ UNCHANGED <<cvarg, cvvars>>

lock_release_do(t) ==
  /\ pc[t] = "lr_do"
  /\ ReleaseBody(t, "run")
-----------------------------------------------------------------------------
(* cv_wait, cv_signal, cv_broadcast *)

\* A call of a cv operation: the lock must be held (KASSERT lock_do_i_hold).
CvCall(t, c, l) ==
  /\ pc[t] = "run"
  /\ lk_holder = t
  /\ cvarg' = [cvarg EXCEPT ![t] = c]
  /\ Goto(t, l)
  /\ UNCHANGED <<lkvars, cvvars>>

cv_wait(t, c) == CvCall(t, c, "cw_spin")
cv_signal(t, c) == CvCall(t, c, "cs_spin")
cv_broadcast(t, c) == CvCall(t, c, "cb_spin")

\* spinlock_acquire(&cv->cv_lock) from `from', going on at `to'.
CvSpin(t, from, to) ==
  /\ pc[t] = from
  /\ cv_lock[cvarg[t]] = NoThread
  /\ cv_lock' = [cv_lock EXCEPT ![cvarg[t]] = t]
  /\ Goto(t, to)
  /\ UNCHANGED <<cvarg, lkvars, cv_wchan>>

cv_wait_spin(t) == CvSpin(t, "cw_spin", "cw_rel")
cv_signal_spin(t) == CvSpin(t, "cs_spin", "cs_do")
cv_broadcast_spin(t) == CvSpin(t, "cb_spin", "cb_do")

\* Mutant: drops cv_lock as soon as it goes to release the lock.
cv_wait_release_spin_DropsCvLock(t) ==
  /\ pc[t] = "cw_rel"
  /\ lk_splk = NoThread
  /\ lk_splk' = t
  /\ cv_lock' = [cv_lock EXCEPT ![cvarg[t]] = NoThread]
  /\ Goto(t, "cw_do")
  /\ UNCHANGED <<cvarg, lk_holder, lk_wchan, cv_wchan>>

\* lock_release called with cv_lock held: its spinlock is the second one.
cv_wait_release_spin(t) ==
  /\ pc[t] = "cw_rel"
  /\ lk_splk = NoThread
  /\ lk_splk' = t
  /\ Goto(t, "cw_do")
  /\ UNCHANGED <<cvarg, lk_holder, lk_wchan, cvvars>>

cv_wait_release(t) ==
  /\ pc[t] = "cw_do"
  /\ ReleaseBody(t, "cw_enq")

cv_wait_sleep(t) ==
  /\ pc[t] = "cw_enq"
  /\ cv_wchan' = [cv_wchan EXCEPT ![cvarg[t]] = Append(@, t)]
  /\ cv_lock' = [cv_lock EXCEPT ![cvarg[t]] = NoThread]
  /\ Goto(t, "cw_sleep")
  /\ UNCHANGED <<cvarg, lkvars>>

\* wchan_sleep takes cv_lock again, cv_wait drops it and calls lock_acquire.
cv_wait_woken(t) ==
  /\ pc[t] = "cw_wake"
  /\ cv_lock[cvarg[t]] = NoThread
  /\ cvarg' = [cvarg EXCEPT ![t] = NoCV]
  /\ Goto(t, "la_spin")
  /\ UNCHANGED <<lkvars, cvvars>>

\* Mutant: cv_signal returns with its cv argument still set.
cv_signal_wake_KeepsArg(t) ==
  LET c == cvarg[t] IN
  /\ pc[t] = "cs_do"
  /\ cv_wchan' = [cv_wchan EXCEPT ![c] = wchan_wakeone(@)]
  /\ cv_lock' = [cv_lock EXCEPT ![c] = NoThread]
  /\ GotoWaking(t, "run", Woken(cv_wchan[c]), "cw_wake")
  /\ UNCHANGED <<cvarg, lkvars>>

cv_signal_wake(t) ==
  LET c == cvarg[t] IN
  /\ pc[t] = "cs_do"
  /\ cv_wchan' = [cv_wchan EXCEPT ![c] = wchan_wakeone(@)]
  /\ cv_lock' = [cv_lock EXCEPT ![c] = NoThread]
  /\ cvarg' = [cvarg EXCEPT ![t] = NoCV]
  /\ GotoWaking(t, "run", Woken(cv_wchan[c]), "cw_wake")
  /\ UNCHANGED lkvars

\* Mutant: wakes every thread but unlinks only the first.
cv_broadcast_wake_UnlinksOne(t) ==
  LET c == cvarg[t] IN
  /\ pc[t] = "cb_do"
  /\ cv_wchan' = [cv_wchan EXCEPT ![c] = wchan_wakeone(@)]
  /\ cv_lock' = [cv_lock EXCEPT ![c] = NoThread]
  /\ cvarg' = [cvarg EXCEPT ![t] = NoCV]
  /\ GotoWaking(t, "run", AllWoken(cv_wchan[c]), "cw_wake")
  /\ UNCHANGED lkvars

cv_broadcast_wake(t) ==
  LET c == cvarg[t] IN
  /\ pc[t] = "cb_do"
  /\ cv_wchan' = [cv_wchan EXCEPT ![c] = <<>>]
  /\ cv_lock' = [cv_lock EXCEPT ![c] = NoThread]
  /\ cvarg' = [cvarg EXCEPT ![t] = NoCV]
  /\ GotoWaking(t, "run", AllWoken(cv_wchan[c]), "cw_wake")
  /\ UNCHANGED lkvars
-----------------------------------------------------------------------------
\* The calls a thread may make, and the steps it takes inside a call.
Call(t) ==
  \/ lock_acquire(t)
  \/ lock_release(t)
  \/ \E c \in CVs : cv_wait(t, c) \/ cv_signal(t, c) \/ cv_broadcast(t, c)

Step(t) ==
  \/ lock_acquire_spin(t) \/ lock_acquire_take(t) \/ lock_acquire_sleep(t)
  \/ lock_release_spin(t) \/ lock_release_do(t)
  \/ cv_wait_spin(t) \/ cv_wait_release_spin(t) \/ cv_wait_release(t)
  \/ cv_wait_sleep(t) \/ cv_wait_woken(t)
  \/ cv_signal_spin(t) \/ cv_signal_wake(t)
  \/ cv_broadcast_spin(t) \/ cv_broadcast_wake(t)

Next == \E t \in Threads : Call(t) \/ Step(t)

Spec == Init /\ [][Next]_vars

(* Fairness.  A thread inside a call is scheduled again and again           *)
(* (hardclock yields, the run queue is first in, first out), so its steps   *)
(* are weakly fair.  Critical sections end: a thread that holds the lock    *)
(* and is again and again between calls does call lock_release.             *)
FairSpec == /\ Spec
            /\ \A t \in Threads : WF_vars(Step(t)) /\ SF_vars(lock_release(t))
-----------------------------------------------------------------------------
(* Properties *)

\* Type invariant.  A thread has a cv argument exactly while it is in a cv
\* call, up to the point where cv_wait turns into lock_acquire.
TypeOK ==
  /\ pc \in [Threads -> PCs]
  /\ cvarg \in [Threads -> CVs \cup {NoCV}]
  /\ lk_splk \in Threads \cup {NoThread}
  /\ lk_holder \in Threads \cup {NoThread}
  /\ lk_wchan \in Seq(Threads)
  /\ cv_lock \in [CVs -> Threads \cup {NoThread}]
  /\ cv_wchan \in [CVs -> Seq(Threads)]
  /\ \A t \in Threads : cvarg[t] = NoCV <=> pc[t] \notin WaitPCs \cup WakePCs

\* The threads waiting on c: those asleep, and one that has released the lock
\* and, still holding cv_lock, is about to be queued.
Waiting(c) == AllWoken(cv_wchan[c])
                \cup {t \in Threads : pc[t] = "cw_enq" /\ cvarg[t] = c}

\* The lock and its condition variables implement the atomic operations
\* synch.h promises ("These operations must be atomic"): one holder at a
\* time, only the holder releases, and cv_wait gives up the lock and starts
\* waiting in one step.
Mon == INSTANCE Monitor WITH owner <- lk_holder,
                             waiting <- [c \in CVs |-> Waiting(c)]
ImplementsMonitor == Mon!Spec

\* No wake-up of the lock is lost: when the lock is free and threads sleep on
\* its wait channel, some thread is on its way to test lk_holder, so the
\* sleepers do not depend on a later lock_acquire/lock_release pair.
NoLostWakeup ==
  lk_holder = NoThread /\ lk_wchan # <<>> =>
    \E t \in Threads : pc[t] \in {"la_spin", "la_test"}

Distinct(wc) == \A i, j \in 1..Len(wc) : wc[i] = wc[j] => i = j

\* A thread is on a wait channel exactly while it sleeps there, and once:
\* wchan_wakeone and wchan_wakeall never make a running thread runnable.
SleepersQueuedOnce ==
  /\ \A t \in Threads : pc[t] = "la_sleep" <=> t \in AllWoken(lk_wchan)
  /\ \A t \in Threads, c \in CVs :
        (pc[t] = "cw_sleep" /\ cvarg[t] = c) <=> t \in AllWoken(cv_wchan[c])
  /\ Distinct(lk_wchan)
  /\ \A c \in CVs : Distinct(cv_wchan[c])

\* The inductive invariant: besides the above, each spinlock is held exactly
\* by the thread whose position says so, and a thread's position says whether
\* it holds the lock (what KASSERT(lock_do_i_hold) tests on every call).
IndInv ==
  /\ TypeOK
  /\ \A t \in Threads : lk_splk = t <=> pc[t] \in {"la_test", "lr_do", "cw_do"}
  /\ \A t \in Threads, c \in CVs :
        cv_lock[c] = t <=>
          /\ cvarg[t] = c
          /\ pc[t] \in {"cw_rel", "cw_do", "cw_enq", "cs_do", "cb_do"}
  /\ \A t \in Threads :
       /\ pc[t] \in ReleasePCs \cup {"cw_spin", "cw_rel", "cw_do"} \cup WakePCs
            => lk_holder = t
       /\ pc[t] \in AcquirePCs \cup {"cw_enq", "cw_sleep", "cw_wake"}
            => lk_holder # t
  /\ SleepersQueuedOnce
  /\ NoLostWakeup

\* cv_signal and cv_broadcast miss nobody: a thread that has given up the
\* lock in cv_wait counts as waiting for every later signal, although
\* lock_release and wchan_sleep are two steps of cv_wait.
SignalNotLost ==
  [][\A t \in Threads : \A c \in CVs :
       /\ pc[t] = "cs_do" /\ pc'[t] = "run" /\ cvarg[t] = c /\ Waiting(c) # {}
            => \E u \in Waiting(c) : Waiting(c)' = Waiting(c) \ {u}
       /\ pc[t] = "cb_do" /\ pc'[t] = "run" /\ cvarg[t] = c
            => Waiting(c)' = {}]_vars

\* The spinlocks never deadlock (cv_wait takes lk_splk while it holds
\* cv_lock) and the lock never strands a sleeper: when no thread can move
\* inside a call, every thread is outside, asleep on a cv, or asleep on the
\* lock while another thread holds it.
StuckOnlyWhenWaiting ==
  ~ ENABLED (\E t \in Threads : Step(t)) =>
     \A t \in Threads : \/ pc[t] \in {"run", "cw_sleep"}
                        \/ pc[t] = "la_sleep" /\ lk_holder # NoThread

\* Every thread asleep on the lock is woken eventually: releases wake the
\* channel in order, and threads that overtake a woken one do not reorder it.
LockSleeperWoken ==
  \A t \in Threads : pc[t] = "la_sleep" ~> pc[t] # "la_sleep"
=============================================================================
