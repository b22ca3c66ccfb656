---------------------------- MODULE SynchProofs ----------------------------
(***************************************************************************)
(* Proofs about module Synch, for any set of threads and of condition      *)
(* variables: the inductive invariant, the safety properties it implies,   *)
(* and that the lock and its condition variables implement module Monitor. *)
(***************************************************************************)
EXTENDS Synch, TLAPS

-----------------------------------------------------------------------------
(* Wait channels *)

\* wchan_sleep puts a thread that is on no channel at the tail: the channel
\* then holds that thread as well, and still each thread once.
LEMMA AppendChannel ==
  ASSUME NEW wc \in Seq(Threads), NEW t \in Threads,
         Distinct(wc), t \notin AllWoken(wc)
  PROVE  /\ Append(wc, t) \in Seq(Threads)
         /\ Append(wc, t) # <<>>
         /\ Distinct(Append(wc, t))
         /\ AllWoken(Append(wc, t)) = AllWoken(wc) \cup {t}
<1>1. Len(Append(wc, t)) = Len(wc) + 1 /\ Append(wc, t) \in Seq(Threads)
  OBVIOUS
<1>2. \A i \in 1..(Len(wc) + 1) :
         Append(wc, t)[i] = IF i = Len(wc) + 1 THEN t ELSE wc[i]
  OBVIOUS
<1>3. Distinct(Append(wc, t))
  BY <1>1, <1>2 DEF Distinct, AllWoken
<1>4. AllWoken(Append(wc, t)) = AllWoken(wc) \cup {t}
  BY <1>1, <1>2 DEF AllWoken
<1>5. QED
  BY <1>1, <1>3, <1>4

\* wchan_wakeone takes exactly the thread it wakes off the channel, and leaves
\* each of the others on it once.
LEMMA WakeoneChannel ==
  ASSUME NEW wc \in Seq(Threads), Distinct(wc)
  PROVE  /\ wchan_wakeone(wc) \in Seq(Threads)
         /\ Distinct(wchan_wakeone(wc))
         /\ AllWoken(wchan_wakeone(wc)) = AllWoken(wc) \ Woken(wc)
         /\ Woken(wc) \subseteq AllWoken(wc)
         /\ AllWoken(wc) \subseteq Threads
         /\ wc # <<>> => Woken(wc) # {}
<1>0. AllWoken(wc) \subseteq Threads
  BY DEF AllWoken
<1>1. CASE wc = <<>>
  BY <1>0, <1>1 DEF Distinct, AllWoken, Woken, wchan_wakeone
<1>2. CASE wc # <<>>
  <2>1. /\ Tail(wc) \in Seq(Threads) /\ Len(Tail(wc)) = Len(wc) - 1
        /\ Len(wc) \in Nat \ {0} /\ Head(wc) = wc[1]
    BY <1>2
  <2>2. \A i \in 1..(Len(wc) - 1) : Tail(wc)[i] = wc[i + 1]
    BY <1>2
  <2>3. Distinct(Tail(wc))
    BY <2>1, <2>2 DEF Distinct
  <2>4. AllWoken(Tail(wc)) \subseteq AllWoken(wc) \ {Head(wc)}
    BY <2>1, <2>2 DEF Distinct, AllWoken
  <2>5. ASSUME NEW u \in AllWoken(wc) \ {Head(wc)}
        PROVE  u \in AllWoken(Tail(wc))
    <3>1. PICK i \in 1..Len(wc) : u = wc[i]
      BY DEF AllWoken
    <3>2. i # 1 /\ i - 1 \in 1..(Len(wc) - 1)
      BY <2>1, <2>5, <3>1
    <3>3. Tail(wc)[i - 1] = u
      BY <2>1, <2>2, <3>1, <3>2
    <3>4. QED
      BY <2>1, <3>2, <3>3 DEF AllWoken
  <2>6. Head(wc) \in AllWoken(wc)
    BY <2>1 DEF AllWoken
  <2>7. QED
    BY <1>0, <1>2, <2>1, <2>3, <2>4, <2>5, <2>6 DEF Woken, wchan_wakeone
<1>3. QED
  BY <1>1, <1>2

\* An empty channel holds nobody.
LEMMA EmptyChannel == Distinct(<<>>) /\ AllWoken(<<>>) = {} /\ <<>> \in Seq(Threads)
BY DEF Distinct, AllWoken
-----------------------------------------------------------------------------
(* The inductive invariant *)

\* The states lock_create and cv_create make satisfy the invariant.
LEMMA InitIndInv == Init => IndInv
BY EmptyChannel, SynchAssumption
   DEF Init, IndInv, TypeOK, SleepersQueuedOnce, NoLostWakeup,
       PCs, AcquirePCs, ReleasePCs, WaitPCs, WakePCs

\* lock_release's critical section preserves the invariant, whether t goes on
\* to return ("run") or, in cv_wait, to sleep ("cw_enq").
LEMMA ReleaseBodyInv ==
  ASSUME IndInv, NEW t \in Threads, NEW l,
         \/ pc[t] = "lr_do" /\ l = "run"
         \/ pc[t] = "cw_do" /\ l = "cw_enq",
         ReleaseBody(t, l)
  PROVE  IndInv'
<1> USE DEF PCs, AcquirePCs, ReleasePCs, WaitPCs, WakePCs
<1>1. /\ wchan_wakeone(lk_wchan) \in Seq(Threads)
      /\ Distinct(wchan_wakeone(lk_wchan))
      /\ AllWoken(wchan_wakeone(lk_wchan)) = AllWoken(lk_wchan) \ Woken(lk_wchan)
      /\ Woken(lk_wchan) \subseteq AllWoken(lk_wchan)
      /\ AllWoken(lk_wchan) \subseteq Threads
      /\ lk_wchan # <<>> => Woken(lk_wchan) # {}
  BY WakeoneChannel DEF IndInv, TypeOK, SleepersQueuedOnce
<1>2. \A u \in Woken(lk_wchan) : u \in Threads /\ pc[u] = "la_sleep"
  BY <1>1 DEF IndInv, SleepersQueuedOnce
<1>3. /\ lk_wchan' = wchan_wakeone(lk_wchan)
      /\ lk_holder' = NoThread /\ lk_splk' = NoThread
      /\ UNCHANGED <<cvarg, cv_lock, cv_wchan>>
      /\ pc' = [u \in Threads |-> IF u = t THEN l
                                  ELSE IF u \in Woken(lk_wchan) THEN "la_spin"
                                  ELSE pc[u]]
  BY DEF ReleaseBody, GotoWaking, cvvars
<1>4. TypeOK'
  BY <1>1, <1>2, <1>3 DEF IndInv, TypeOK
<1>5. \A u \in Threads : lk_splk' = u <=> pc'[u] \in {"la_test", "lr_do", "cw_do"}
  BY <1>2, <1>3, SynchAssumption DEF IndInv, TypeOK
<1>6. \A u \in Threads, c \in CVs :
         cv_lock'[c] = u <=>
           /\ cvarg'[u] = c
           /\ pc'[u] \in {"cw_rel", "cw_do", "cw_enq", "cs_do", "cb_do"}
  BY <1>2, <1>3, SynchAssumption DEF IndInv, TypeOK
<1>7. \A u \in Threads :
       /\ pc'[u] \in ReleasePCs \cup {"cw_spin", "cw_rel", "cw_do"} \cup WakePCs
            => lk_holder' = u
       /\ pc'[u] \in AcquirePCs \cup {"cw_enq", "cw_sleep", "cw_wake"}
            => lk_holder' # u
  BY <1>2, <1>3, SynchAssumption DEF IndInv, TypeOK
<1>8. SleepersQueuedOnce'
  BY <1>1, <1>2, <1>3 DEF IndInv, TypeOK, SleepersQueuedOnce
<1>9. NoLostWakeup'
  BY <1>1, <1>2, <1>3 DEF IndInv, TypeOK, SleepersQueuedOnce, NoLostWakeup, wchan_wakeone
<1>10. QED
  BY <1>4, <1>5, <1>6, <1>7, <1>8, <1>9 DEF IndInv

\* Every step of every thread preserves the invariant.
LEMMA NextIndInv == IndInv /\ [Next]_vars => IndInv'
<1> SUFFICES ASSUME IndInv, [Next]_vars PROVE IndInv'
  OBVIOUS
<1> USE DEF PCs, AcquirePCs, ReleasePCs, WaitPCs, WakePCs
<1>1. ASSUME NEW t \in Threads, lock_acquire(t) PROVE IndInv'
  BY <1>1, SynchAssumption
     DEF lock_acquire, Goto, IndInv, TypeOK, SleepersQueuedOnce, NoLostWakeup, lkvars, cvvars
<1>2. ASSUME NEW t \in Threads, lock_acquire_spin(t) PROVE IndInv'
  BY <1>2, SynchAssumption
     DEF lock_acquire_spin, Goto, IndInv, TypeOK, SleepersQueuedOnce, NoLostWakeup, lkvars, cvvars
<1>3. ASSUME NEW t \in Threads, lock_acquire_take(t) PROVE IndInv'
  BY <1>3, SynchAssumption
     DEF lock_acquire_take, Goto, IndInv, TypeOK, SleepersQueuedOnce, NoLostWakeup, lkvars, cvvars
<1>4. ASSUME NEW t \in Threads, lock_acquire_sleep(t) PROVE IndInv'
  BY <1>4, SynchAssumption, AppendChannel
     DEF lock_acquire_sleep, Goto, IndInv, TypeOK, SleepersQueuedOnce, NoLostWakeup, lkvars, cvvars
<1>5. ASSUME NEW t \in Threads, lock_release(t) PROVE IndInv'
  BY <1>5, SynchAssumption
     DEF lock_release, Goto, IndInv, TypeOK, SleepersQueuedOnce, NoLostWakeup, lkvars, cvvars
<1>6. ASSUME NEW t \in Threads, lock_release_spin(t) PROVE IndInv'
  BY <1>6, SynchAssumption
     DEF lock_release_spin, Goto, IndInv, TypeOK, SleepersQueuedOnce, NoLostWakeup, lkvars, cvvars
<1>7. ASSUME NEW t \in Threads, lock_release_do(t) PROVE IndInv'
  BY <1>7, ReleaseBodyInv DEF lock_release_do
<1>8. ASSUME NEW t \in Threads, NEW c \in CVs,
              NEW l \in {"cw_spin", "cs_spin", "cb_spin"}, CvCall(t, c, l)
      PROVE  IndInv'
  BY <1>8, SynchAssumption
     DEF CvCall, Goto, IndInv, TypeOK, SleepersQueuedOnce, NoLostWakeup, lkvars, cvvars
<1>9. ASSUME NEW t \in Threads, cv_wait_spin(t) PROVE IndInv'
  BY <1>9, SynchAssumption
     DEF cv_wait_spin, CvSpin, Goto, IndInv, TypeOK, SleepersQueuedOnce, NoLostWakeup, lkvars, cvvars
<1>10. ASSUME NEW t \in Threads, cv_signal_spin(t) PROVE IndInv'
  BY <1>10, SynchAssumption
     DEF cv_signal_spin, CvSpin, Goto, IndInv, TypeOK, SleepersQueuedOnce, NoLostWakeup, lkvars, cvvars
<1>11. ASSUME NEW t \in Threads, cv_broadcast_spin(t) PROVE IndInv'
  BY <1>11, SynchAssumption
     DEF cv_broadcast_spin, CvSpin, Goto, IndInv, TypeOK, SleepersQueuedOnce, NoLostWakeup, lkvars, cvvars
<1>12. ASSUME NEW t \in Threads, cv_wait_release_spin(t) PROVE IndInv'
  BY <1>12, SynchAssumption
     DEF cv_wait_release_spin, Goto, IndInv, TypeOK, SleepersQueuedOnce, NoLostWakeup, lkvars, cvvars
<1>13. ASSUME NEW t \in Threads, cv_wait_release(t) PROVE IndInv'
  BY <1>13, ReleaseBodyInv DEF cv_wait_release
<1>14. ASSUME NEW t \in Threads, cv_wait_sleep(t) PROVE IndInv'
  BY <1>14, SynchAssumption, AppendChannel
     DEF cv_wait_sleep, Goto, IndInv, TypeOK, SleepersQueuedOnce, NoLostWakeup, lkvars, cvvars
<1>15. ASSUME NEW t \in Threads, cv_wait_woken(t) PROVE IndInv'
  BY <1>15, SynchAssumption
     DEF cv_wait_woken, Goto, IndInv, TypeOK, SleepersQueuedOnce, NoLostWakeup, lkvars, cvvars
<1>16. ASSUME NEW t \in Threads, cv_signal_wake(t) PROVE IndInv'
  BY <1>16, SynchAssumption, WakeoneChannel
     DEF cv_signal_wake, GotoWaking, Goto, IndInv, TypeOK, SleepersQueuedOnce, NoLostWakeup, lkvars, cvvars
<1>17. ASSUME NEW t \in Threads, cv_broadcast_wake(t) PROVE IndInv'
  BY <1>17, SynchAssumption, EmptyChannel, WakeoneChannel
     DEF cv_broadcast_wake, GotoWaking, Goto, IndInv, TypeOK, SleepersQueuedOnce, NoLostWakeup, lkvars, cvvars
<1>18. CASE UNCHANGED vars
  BY <1>18 DEF vars, lkvars, cvvars, IndInv, TypeOK, SleepersQueuedOnce, NoLostWakeup
<1>19. QED
  BY <1>1, <1>2, <1>3, <1>4, <1>5, <1>6, <1>7, <1>8, <1>9, <1>10, <1>11, <1>12, <1>13, <1>14, <1>15, <1>16, <1>17, <1>18
     DEF Next, Call, Step, cv_wait, cv_signal, cv_broadcast
-----------------------------------------------------------------------------
(* The safety properties *)

\* The inductive invariant holds in every reachable state.
THEOREM SynchInvariant == Spec => []IndInv
BY InitIndInv, NextIndInv, PTL DEF Spec

\* Type correctness of synch.c's model.
THEOREM SynchTypeCorrect == Spec => []TypeOK
<1>1. IndInv => TypeOK
  BY DEF IndInv
<1>2. QED
  BY <1>1, SynchInvariant, PTL

\* lock_release never loses a wake-up, for any number of threads.
THEOREM SynchNoLostWakeup == Spec => []NoLostWakeup
<1>1. IndInv => NoLostWakeup
  BY DEF IndInv
<1>2. QED
  BY <1>1, SynchInvariant, PTL

\* A thread sleeps on at most one wait channel, once, and is asleep exactly
\* while it is on it.
THEOREM SynchSleepersQueuedOnce == Spec => []SleepersQueuedOnce
<1>1. IndInv => SleepersQueuedOnce
  BY DEF IndInv
<1>2. QED
  BY <1>1, SynchInvariant, PTL
-----------------------------------------------------------------------------
(* Refinement *)

\* The waiters of c as the wake-ups change them: a wake-up that takes the
\* threads of W off c's channel takes exactly W out of Waiting(c).
LEMMA WakeWaiting ==
  ASSUME IndInv, NEW t \in Threads, NEW c \in CVs, NEW W,
         W \subseteq AllWoken(cv_wchan[c]),
         pc[t] \in {"cs_do", "cb_do"},
         cvarg[t] = c,
         GotoWaking(t, "run", W, "cw_wake"),
         cvarg' = [cvarg EXCEPT ![t] = NoCV],
         \A d \in CVs : AllWoken(cv_wchan'[d]) =
            IF d = c THEN AllWoken(cv_wchan[c]) \ W ELSE AllWoken(cv_wchan[d])
  PROVE  \A d \in CVs : Waiting(d)' = IF d = c THEN Waiting(c) \ W ELSE Waiting(d)
<1>1. \A u \in W : u \in Threads /\ pc[u] = "cw_sleep" /\ cvarg[u] = c
  BY DEF IndInv, TypeOK, SleepersQueuedOnce, AllWoken
<1>2. ASSUME NEW u \in Threads, NEW d \in CVs
      PROVE  (pc'[u] = "cw_enq" /\ cvarg'[u] = d) <=> (pc[u] = "cw_enq" /\ cvarg[u] = d)
  BY <1>1 DEF GotoWaking, IndInv, TypeOK
<1>3. QED
  BY <1>1, <1>2 DEF Waiting

\* cv_lock keeps the thread that is giving up the lock and a waking thread
\* apart: nobody is about to be queued on c while c is being signalled.
LEMMA WakerAlone ==
  ASSUME IndInv, NEW t \in Threads, pc[t] \in {"cs_do", "cb_do"}
  PROVE  cvarg[t] \in CVs /\ Waiting(cvarg[t]) = AllWoken(cv_wchan[cvarg[t]])
<1>1. cvarg[t] \in CVs
  BY DEF IndInv, TypeOK, WaitPCs, WakePCs
<1>2. cv_lock[cvarg[t]] = t
  BY <1>1 DEF IndInv
<1>3. \A u \in Threads : ~(pc[u] = "cw_enq" /\ cvarg[u] = cvarg[t])
  BY <1>1, <1>2 DEF IndInv
<1>4. QED
  BY <1>1, <1>3 DEF Waiting

\* What cv_signal does to the waiters.
LEMMA SignalWaiting ==
  ASSUME IndInv, NEW t \in Threads, cv_signal_wake(t)
  PROVE  /\ cvarg[t] \in CVs
         /\ lk_holder = t /\ lk_holder' = lk_holder
         /\ Waiting(cvarg[t]) = AllWoken(cv_wchan[cvarg[t]])
         /\ \A d \in CVs : Waiting(d)' =
              IF d = cvarg[t] THEN Waiting(d) \ Woken(cv_wchan[d]) ELSE Waiting(d)
<1> DEFINE c == cvarg[t]
<1>1. c \in CVs /\ Waiting(c) = AllWoken(cv_wchan[c])
  BY WakerAlone DEF cv_signal_wake
<1>2. /\ AllWoken(wchan_wakeone(cv_wchan[c])) = AllWoken(cv_wchan[c]) \ Woken(cv_wchan[c])
      /\ Woken(cv_wchan[c]) \subseteq AllWoken(cv_wchan[c])
  BY <1>1, WakeoneChannel DEF IndInv, TypeOK, SleepersQueuedOnce
<1>3. \A d \in CVs : AllWoken(cv_wchan'[d]) =
         IF d = c THEN AllWoken(cv_wchan[c]) \ Woken(cv_wchan[c]) ELSE AllWoken(cv_wchan[d])
  <2> TAKE d \in CVs
  <2>1. cv_wchan'[d] = IF d = c THEN wchan_wakeone(cv_wchan[c]) ELSE cv_wchan[d]
    BY <1>1 DEF cv_signal_wake, IndInv, TypeOK
  <2>2. CASE d = c
    <3>1. cv_wchan'[d] = wchan_wakeone(cv_wchan[c])
      BY <2>1, <2>2
    <3>2. QED
      BY <1>2, <2>2, <3>1
  <2>3. CASE d # c
    <3>1. cv_wchan'[d] = cv_wchan[d]
      BY <2>1, <2>3
    <3>2. QED
      BY <2>3, <3>1
  <2>4. QED
    BY <2>2, <2>3
<1>4. \A d \in CVs : Waiting(d)' =
         IF d = c THEN Waiting(c) \ Woken(cv_wchan[c]) ELSE Waiting(d)
  BY Zenon, <1>1, <1>2, <1>3, WakeWaiting DEF cv_signal_wake
<1>5. lk_holder = t /\ lk_holder' = lk_holder
  BY DEF cv_signal_wake, IndInv, WakePCs, lkvars
<1>6. QED
  BY <1>1, <1>4, <1>5

\* What cv_broadcast does to the waiters.
LEMMA BroadcastWaiting ==
  ASSUME IndInv, NEW t \in Threads, cv_broadcast_wake(t)
  PROVE  /\ cvarg[t] \in CVs
         /\ lk_holder = t /\ lk_holder' = lk_holder
         /\ \A d \in CVs : Waiting(d)' = IF d = cvarg[t] THEN {} ELSE Waiting(d)
<1> DEFINE c == cvarg[t]
<1>1. c \in CVs /\ Waiting(c) = AllWoken(cv_wchan[c])
  BY WakerAlone DEF cv_broadcast_wake
<1>2. \A d \in CVs : AllWoken(cv_wchan'[d]) =
         IF d = c THEN AllWoken(cv_wchan[c]) \ AllWoken(cv_wchan[c])
         ELSE AllWoken(cv_wchan[d])
  <2> TAKE d \in CVs
  <2>1. cv_wchan'[d] = IF d = c THEN <<>> ELSE cv_wchan[d]
    BY <1>1 DEF cv_broadcast_wake, IndInv, TypeOK
  <2>2. CASE d = c
    <3>1. cv_wchan'[d] = <<>>
      BY <2>1, <2>2
    <3>2. QED
      BY EmptyChannel, <2>2, <3>1
  <2>3. CASE d # c
    <3>1. cv_wchan'[d] = cv_wchan[d]
      BY <2>1, <2>3
    <3>2. QED
      BY <2>3, <3>1
  <2>4. QED
    BY <2>2, <2>3
<1>3. \A d \in CVs : Waiting(d)' =
         IF d = c THEN Waiting(c) \ AllWoken(cv_wchan[c]) ELSE Waiting(d)
  BY Zenon, <1>1, <1>2, WakeWaiting DEF cv_broadcast_wake
<1>4. lk_holder = t /\ lk_holder' = lk_holder
  BY DEF cv_broadcast_wake, IndInv, WakePCs, lkvars
<1>5. QED
  BY <1>1, <1>3, <1>4

\* A step that leaves the channels alone, and moves no thread into or out of
\* "cw_enq", leaves the waiters alone.
LEMMA SameWaiting ==
  ASSUME cv_wchan' = cv_wchan,
         \A u \in Threads, d \in CVs :
            (pc'[u] = "cw_enq" /\ cvarg'[u] = d) <=> (pc[u] = "cw_enq" /\ cvarg[u] = d)
  PROVE  \A d \in CVs : Waiting(d)' = Waiting(d)
BY DEF Waiting

\* wchan_sleep in cv_wait: the thread was waiting already.
LEMMA SleepWaiting ==
  ASSUME IndInv, NEW t \in Threads, cv_wait_sleep(t)
  PROVE  /\ lk_holder' = lk_holder
         /\ \A d \in CVs : Waiting(d)' = Waiting(d)
<1> DEFINE c == cvarg[t]
<1>1. c \in CVs /\ pc[t] = "cw_enq"
  BY DEF cv_wait_sleep, IndInv, TypeOK, WaitPCs, WakePCs
<1>2. t \notin AllWoken(cv_wchan[c])
  BY <1>1 DEF IndInv, SleepersQueuedOnce
<1>3. AllWoken(Append(cv_wchan[c], t)) = AllWoken(cv_wchan[c]) \cup {t}
  BY <1>1, <1>2, AppendChannel DEF IndInv, TypeOK, SleepersQueuedOnce
<1>4. lk_holder' = lk_holder /\ cvarg' = cvarg /\ pc' = [pc EXCEPT ![t] = "cw_sleep"]
  BY DEF cv_wait_sleep, Goto, lkvars
<1>5. ASSUME NEW d \in CVs PROVE Waiting(d)' = Waiting(d)
  <2>1. CASE d = c
    <3>1. cv_wchan'[d] = Append(cv_wchan[c], t)
      BY <1>1, <2>1 DEF cv_wait_sleep, IndInv, TypeOK
    <3>2. AllWoken(cv_wchan'[d]) = AllWoken(cv_wchan[d]) \cup {t}
      BY <1>3, <2>1, <3>1
    <3>3. QED
      BY <1>1, <1>4, <2>1, <3>2 DEF Waiting, IndInv, TypeOK
  <2>2. CASE d # c
    <3>1. cv_wchan'[d] = cv_wchan[d]
      BY <1>1, <2>2 DEF cv_wait_sleep, IndInv, TypeOK
    <3>2. AllWoken(cv_wchan'[d]) = AllWoken(cv_wchan[d])
      BY <3>1
    <3>3. QED
      BY <1>1, <1>4, <2>2, <3>2 DEF Waiting, IndInv, TypeOK
  <2>3. QED
    BY <2>1, <2>2
<1>6. QED
  BY <1>4, <1>5

\* The release inside cv_wait is where the thread starts to wait.
LEMMA ReleaseWaiting ==
  ASSUME IndInv, NEW t \in Threads, cv_wait_release(t)
  PROVE  /\ cvarg[t] \in CVs
         /\ lk_holder = t /\ lk_holder' = NoThread
         /\ \A d \in CVs : Waiting(d)' =
               IF d = cvarg[t] THEN Waiting(d) \cup {t} ELSE Waiting(d)
<1>1. cvarg[t] \in CVs /\ lk_holder = t /\ lk_holder' = NoThread
  BY DEF cv_wait_release, ReleaseBody, IndInv, TypeOK, WaitPCs, WakePCs
<1>2. \A u \in Woken(lk_wchan) : u \in Threads /\ pc[u] = "la_sleep"
  BY WakeoneChannel DEF IndInv, TypeOK, SleepersQueuedOnce
<1>3. cv_wchan' = cv_wchan /\ cvarg' = cvarg
  BY DEF cv_wait_release, ReleaseBody, cvvars
<1>4. \A u \in Threads : pc'[u] = "cw_enq" <=> (pc[u] = "cw_enq" \/ u = t)
  BY <1>2 DEF cv_wait_release, ReleaseBody, GotoWaking
<1>5. QED
  BY <1>1, <1>3, <1>4 DEF Waiting
\* Every step of synch.c is a step of the monitor or changes nothing in it.
LEMMA StepRefines == IndInv /\ [Next]_vars => [Mon!Next]_(Mon!mvars)
<1> DEFINE w == [c \in CVs |-> Waiting(c)]
<1> SUFFICES ASSUME IndInv, [Next]_vars
             PROVE  Mon!Next \/ UNCHANGED <<lk_holder, w>>
  BY DEF Mon!mvars
<1> USE DEF PCs, AcquirePCs, ReleasePCs, WaitPCs, WakePCs
<1>s. ASSUME lk_holder' = lk_holder, cv_wchan' = cv_wchan,
             \A u \in Threads, d \in CVs :
               (pc'[u] = "cw_enq" /\ cvarg'[u] = d) <=> (pc[u] = "cw_enq" /\ cvarg[u] = d)
      PROVE  UNCHANGED <<lk_holder, w>>
  BY <1>s, SameWaiting
<1>1. ASSUME NEW t \in Threads,
             \/ lock_acquire(t) \/ lock_acquire_spin(t) \/ lock_acquire_sleep(t)
             \/ lock_release(t) \/ lock_release_spin(t)
      PROVE  UNCHANGED <<lk_holder, w>>
  BY <1>1, <1>s DEF lock_acquire, lock_acquire_spin, lock_acquire_sleep,
       lock_release, lock_release_spin, Goto, IndInv, TypeOK, lkvars, cvvars
<1>2. ASSUME NEW t \in Threads, lock_acquire_take(t)
      PROVE  Mon!Acquire(t)
  <2>1. \A c \in CVs : t \notin Waiting(c)
    BY <1>2 DEF lock_acquire_take, Waiting, IndInv, SleepersQueuedOnce
  <2>2. \A c \in CVs : Waiting(c)' = Waiting(c)
    BY <1>2, SameWaiting DEF lock_acquire_take, Goto, IndInv, TypeOK, cvvars
  <2>3. lk_holder = NoThread /\ lk_holder' = t
    BY <1>2 DEF lock_acquire_take
  <2>4. QED
    BY <2>1, <2>2, <2>3 DEF Mon!Acquire
<1>3. ASSUME NEW t \in Threads, lock_release_do(t)
      PROVE  Mon!Release(t)
  <2>1. lk_holder = t /\ lk_holder' = NoThread
    BY <1>3 DEF lock_release_do, ReleaseBody, IndInv
  <2>2. \A u \in Woken(lk_wchan) : u \in Threads /\ pc[u] = "la_sleep"
    BY WakeoneChannel DEF IndInv, TypeOK, SleepersQueuedOnce
  <2>3. \A u \in Threads : pc'[u] = "cw_enq" <=> pc[u] = "cw_enq"
    BY <1>3, <2>2 DEF lock_release_do, ReleaseBody, GotoWaking
  <2>4. \A c \in CVs : Waiting(c)' = Waiting(c)
    BY <1>3, <2>3, SameWaiting DEF lock_release_do, ReleaseBody, cvvars
  <2>5. QED
    BY <2>1, <2>4 DEF Mon!Release
<1>4. ASSUME NEW t \in Threads, NEW c \in CVs,
             cv_wait(t, c) \/ cv_signal(t, c) \/ cv_broadcast(t, c)
      PROVE  UNCHANGED <<lk_holder, w>>
  BY <1>4, <1>s DEF cv_wait, cv_signal, cv_broadcast, CvCall, Goto,
       IndInv, TypeOK, lkvars, cvvars
<1>5. ASSUME NEW t \in Threads,
             \/ cv_wait_spin(t) \/ cv_signal_spin(t) \/ cv_broadcast_spin(t)
             \/ cv_wait_release_spin(t) \/ cv_wait_woken(t)
      PROVE  UNCHANGED <<lk_holder, w>>
  BY <1>5, <1>s DEF cv_wait_spin, cv_signal_spin, cv_broadcast_spin, CvSpin,
       cv_wait_release_spin, cv_wait_woken, Goto, IndInv, TypeOK, lkvars, cvvars
<1>6. ASSUME NEW t \in Threads, cv_wait_release(t)
      PROVE  \E c \in CVs : Mon!Wait(t, c)
  BY Zenon, <1>6, ReleaseWaiting DEF Mon!Wait
<1>7. ASSUME NEW t \in Threads, cv_wait_sleep(t)
      PROVE  UNCHANGED <<lk_holder, w>>
  BY <1>7, SleepWaiting
<1>8. ASSUME NEW t \in Threads, cv_signal_wake(t)
      PROVE  (\E c \in CVs : Mon!Signal(t, c)) \/ UNCHANGED <<lk_holder, w>>
  <2> DEFINE c == cvarg[t]
  <2>1. /\ c \in CVs /\ lk_holder = t /\ lk_holder' = lk_holder
        /\ Waiting(c) = AllWoken(cv_wchan[c])
        /\ \A d \in CVs : Waiting(d)' =
             IF d = c THEN Waiting(d) \ Woken(cv_wchan[d]) ELSE Waiting(d)
    BY <1>8, SignalWaiting
  <2>2. CASE cv_wchan[c] = <<>>
    BY Zenon, <2>1, <2>2 DEF Woken
  <2>3. CASE cv_wchan[c] # <<>>
    <3>1. Woken(cv_wchan[c]) = {Head(cv_wchan[c])} /\ Head(cv_wchan[c]) \in Waiting(c)
      BY <2>1, <2>3, WakeoneChannel DEF Woken, IndInv, TypeOK, SleepersQueuedOnce
    <3>2. \A d \in CVs : Waiting(d)' =
             IF d = c THEN Waiting(d) \ {Head(cv_wchan[c])} ELSE Waiting(d)
      BY <2>1, <3>1
    <3>3. Mon!Signal(t, c)
      BY <2>1, <3>1, <3>2 DEF Mon!Signal
    <3>4. QED
      BY <2>1, <3>3
  <2>4. QED
    BY <2>2, <2>3
<1>9. ASSUME NEW t \in Threads, cv_broadcast_wake(t)
      PROVE  \E c \in CVs : Mon!Broadcast(t, c)
  BY Zenon, <1>9, BroadcastWaiting DEF Mon!Broadcast
<1>10. CASE UNCHANGED vars
  BY <1>10, <1>s DEF vars, lkvars, cvvars
<1>11. QED
  BY <1>1, <1>2, <1>3, <1>4, <1>5, <1>6, <1>7, <1>8, <1>9, <1>10
     DEF Next, Call, Step, Mon!Next

\* The lock and the condition variables of synch.c implement the atomic
\* operations that synch.h promises, for any number of threads.
THEOREM SynchImplementsMonitor == Spec => ImplementsMonitor
<1>1. Init => Mon!Init
  BY EmptyChannel DEF Init, Mon!Init, Waiting
<1>2. QED
  BY <1>1, StepRefines, SynchInvariant, PTL DEF Spec, ImplementsMonitor, Mon!Spec

\* A thread that is not asleep is moved by its own steps only.
LEMMA OwnSteps ==
  ASSUME IndInv, NEW t \in Threads, pc[t] \in {"cs_do", "cb_do"},
         NEW u \in Threads, Call(u) \/ Step(u), u # t
  PROVE  pc'[t] = pc[t]
<1>1. \A x \in Woken(lk_wchan) : pc[x] = "la_sleep"
  BY WakeoneChannel DEF IndInv, TypeOK, SleepersQueuedOnce
<1>2. \A c \in CVs : \A x \in AllWoken(cv_wchan[c]) : pc[x] = "cw_sleep"
  BY Zenon, WakeoneChannel DEF IndInv, TypeOK, SleepersQueuedOnce
<1>3. \A c \in CVs : \A x \in Woken(cv_wchan[c]) : pc[x] = "cw_sleep"
  BY <1>2, WakeoneChannel DEF IndInv, TypeOK, SleepersQueuedOnce
<1>4. \/ \E l : Goto(u, l)
      \/ \E l : GotoWaking(u, l, Woken(lk_wchan), "la_spin")
      \/ pc[u] = "cs_do" /\ GotoWaking(u, "run", Woken(cv_wchan[cvarg[u]]), "cw_wake")
      \/ pc[u] = "cb_do" /\ GotoWaking(u, "run", AllWoken(cv_wchan[cvarg[u]]), "cw_wake")
  <2>1. CASE Call(u)
    BY <2>1 DEF Call, lock_acquire, lock_release, cv_wait, cv_signal, cv_broadcast, CvCall
  <2>2. CASE Step(u)
    BY <2>2 DEF Step, lock_acquire_spin, lock_acquire_take, lock_acquire_sleep,
         lock_release_spin, lock_release_do, ReleaseBody, cv_wait_spin, CvSpin,
         cv_wait_release_spin, cv_wait_release, cv_wait_sleep, cv_wait_woken,
         cv_signal_spin, cv_signal_wake, cv_broadcast_spin, cv_broadcast_wake
  <2>3. QED
    BY <2>1, <2>2
<1>5. CASE \E l : Goto(u, l)
  BY <1>5 DEF Goto, IndInv, TypeOK
<1>6. CASE \E l : GotoWaking(u, l, Woken(lk_wchan), "la_spin")
  BY <1>1, <1>6 DEF GotoWaking
<1>7. ASSUME pc[u] \in {"cs_do", "cb_do"}
      PROVE  cvarg[u] \in CVs
  BY <1>7, WakerAlone
<1>8. CASE pc[u] = "cs_do" /\ GotoWaking(u, "run", Woken(cv_wchan[cvarg[u]]), "cw_wake")
  BY <1>3, <1>7, <1>8 DEF GotoWaking
<1>9. CASE pc[u] = "cb_do" /\ GotoWaking(u, "run", AllWoken(cv_wchan[cvarg[u]]), "cw_wake")
  BY <1>2, <1>7, <1>9 DEF GotoWaking
<1>10. QED
  BY <1>4, <1>5, <1>6, <1>8, <1>9

\* No step of cv_signal or cv_broadcast overlooks a thread that has given up
\* the lock in cv_wait.
THEOREM SynchSignalNotLost == Spec => SignalNotLost
<1> DEFINE A == \A t \in Threads : \A c \in CVs :
       /\ pc[t] = "cs_do" /\ pc'[t] = "run" /\ cvarg[t] = c /\ Waiting(c) # {}
            => \E u \in Waiting(c) : Waiting(c)' = Waiting(c) \ {u}
       /\ pc[t] = "cb_do" /\ pc'[t] = "run" /\ cvarg[t] = c
            => Waiting(c)' = {}
<1>1. ASSUME IndInv, Next PROVE A
  <2> SUFFICES ASSUME NEW t \in Threads, NEW c \in CVs, cvarg[t] = c, pc'[t] = "run"
               PROVE  /\ pc[t] = "cs_do" /\ Waiting(c) # {} =>
                           \E u \in Waiting(c) : Waiting(c)' = Waiting(c) \ {u}
                      /\ pc[t] = "cb_do" => Waiting(c)' = {}
    OBVIOUS
  <2>0. pc[t] \in {"cs_do", "cb_do"} => Call(t) \/ Step(t)
    BY <1>1, OwnSteps DEF Next
  <2>1. pc[t] = "cs_do" => cv_signal_wake(t)
    BY <2>0 DEF Call, lock_acquire, lock_release, cv_wait, cv_signal, cv_broadcast, CvCall,
         Step, lock_acquire_spin, lock_acquire_take, lock_acquire_sleep,
         lock_release_spin, lock_release_do, cv_wait_spin, CvSpin,
         cv_wait_release_spin, cv_wait_release, cv_wait_sleep, cv_wait_woken,
         cv_signal_spin, cv_broadcast_spin, cv_broadcast_wake
  <2>2. pc[t] = "cb_do" => cv_broadcast_wake(t)
    BY <2>0 DEF Call, lock_acquire, lock_release, cv_wait, cv_signal, cv_broadcast, CvCall,
         Step, lock_acquire_spin, lock_acquire_take, lock_acquire_sleep,
         lock_release_spin, lock_release_do, cv_wait_spin, CvSpin,
         cv_wait_release_spin, cv_wait_release, cv_wait_sleep, cv_wait_woken,
         cv_signal_spin, cv_signal_wake, cv_broadcast_spin
  <2>3. ASSUME pc[t] = "cs_do", Waiting(c) # {}
        PROVE  \E u \in Waiting(c) : Waiting(c)' = Waiting(c) \ {u}
    <3>1. /\ Waiting(c) = AllWoken(cv_wchan[c])
          /\ Waiting(c)' = Waiting(c) \ Woken(cv_wchan[c])
      BY <1>1, <2>1, <2>3, SignalWaiting
    <3>2. cv_wchan[c] # <<>>
      BY <2>3, <3>1, EmptyChannel
    <3>3. Woken(cv_wchan[c]) = {Head(cv_wchan[c])} /\ Head(cv_wchan[c]) \in Waiting(c)
      BY <1>1, <3>1, <3>2, WakeoneChannel DEF Woken, IndInv, TypeOK, SleepersQueuedOnce
    <3>4. QED
      BY <3>1, <3>3
  <2>4. ASSUME pc[t] = "cb_do" PROVE Waiting(c)' = {}
    BY <1>1, <2>2, <2>4, BroadcastWaiting
  <2>5. QED
    BY <2>3, <2>4
<1>2. IndInv /\ [Next]_vars => [A]_vars
  BY <1>1
<1>3. QED
  BY <1>2, SynchInvariant, PTL DEF Spec, SignalNotLost
=============================================================================
