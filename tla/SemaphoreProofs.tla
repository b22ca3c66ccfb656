-------------------------- MODULE SemaphoreProofs --------------------------
(***************************************************************************)
(* Proofs about module Semaphore, for any finite set of threads and any    *)
(* initial count.                                                          *)
(***************************************************************************)
EXTENDS Semaphore, FiniteSetTheorems, TLAPS

\* The number of threads on their way to test the count is a natural number,
\* and moves by one when one thread joins or leaves them.
LEMMA TestingCount ==
  ASSUME TypeOK
  PROVE  /\ Cardinality(Testing) \in Nat
         /\ \A t \in Threads : t \notin Testing =>
              Cardinality(Testing \cup {t}) = Cardinality(Testing) + 1
         /\ \A t \in Testing : Cardinality(Testing \ {t}) = Cardinality(Testing) - 1
<1>1. IsFiniteSet(Testing)
  <2>1. Testing \in SUBSET Threads
    BY DEF Testing
  <2>2. QED
    BY <2>1, FS_Subset, SemAssumption
<1>2. Cardinality(Testing) \in Nat
  BY <1>1, FS_CardinalityType
<1>3. QED
  BY <1>1, <1>2, FS_AddElement, FS_RemoveElement

\* The semaphore sem_create makes satisfies the invariant.
LEMMA InitIndInv == Init => IndInv
<1> SUFFICES ASSUME Init PROVE IndInv
  OBVIOUS
<1>1. TypeOK /\ SleepersQueued
  BY SemAssumption DEF Init, TypeOK, SleepersQueued
<1>2. QED
  BY <1>1 DEF Init, IndInv, UnitsClaimed

\* A thread that only moves between two places outside the channel, leaving
\* the channel and the count alone, keeps the queue right; the units stay
\* claimed since nobody stops testing.
LEMMA MoveInv ==
  ASSUME IndInv, NEW t \in Threads,
         P(t) \/ P_spin(t) \/ V(t) \/ V_spin(t)
  PROVE  IndInv'
<1>1. TypeOK'
  BY SemAssumption DEF P, P_spin, V, V_spin, Goto, IndInv, TypeOK
<1>2. SleepersQueued'
  BY DEF P, P_spin, V, V_spin, Goto, IndInv, TypeOK, SleepersQueued
<1>3. Testing' = Testing \/ (t \notin Testing /\ Testing' = Testing \cup {t})
  BY DEF P, P_spin, V, V_spin, Goto, IndInv, TypeOK, Testing
<1>4. sem_wchan' = sem_wchan /\ sem_count' = sem_count
  BY DEF P, P_spin, V, V_spin
<1>5. UnitsClaimed'
  BY <1>3, <1>4, TestingCount DEF IndInv, TypeOK, UnitsClaimed
<1>6. QED
  BY <1>1, <1>2, <1>5 DEF IndInv

\* P, the count above 0: one unit and one claimant go.
LEMMA TakeInv ==
  ASSUME IndInv, NEW t \in Threads, P_take(t)
  PROVE  IndInv'
<1>1. TypeOK'
  BY SemAssumption DEF P_take, Goto, IndInv, TypeOK
<1>2. SleepersQueued'
  BY DEF P_take, Goto, IndInv, TypeOK, SleepersQueued
<1>3. t \in Testing /\ Testing' = Testing \ {t}
  BY DEF P_take, Goto, IndInv, TypeOK, Testing
<1>4. sem_wchan' = sem_wchan /\ sem_count' = sem_count - 1
  BY DEF P_take
<1>5. UnitsClaimed'
  BY <1>3, <1>4, TestingCount DEF IndInv, TypeOK, UnitsClaimed
<1>6. QED
  BY <1>1, <1>2, <1>5 DEF IndInv

\* P, the count 0: the thread queues itself, and there is no unit to claim.
LEMMA SleepInv ==
  ASSUME IndInv, NEW t \in Threads, P_sleep(t)
  PROVE  IndInv'
<1>1. TypeOK'
  BY SemAssumption DEF P_sleep, Goto, IndInv, TypeOK
<1>2. /\ Len(sem_wchan') = Len(sem_wchan) + 1 /\ Len(sem_wchan) \in Nat
      /\ \A i \in 1..(Len(sem_wchan) + 1) :
           sem_wchan'[i] = IF i = Len(sem_wchan) + 1 THEN t ELSE sem_wchan[i]
  BY DEF P_sleep, IndInv, TypeOK
<1>3. \A u \in Threads : pc'[u] = IF u = t THEN "p_sleep" ELSE pc[u]
  BY DEF P_sleep, Goto, IndInv, TypeOK
<1>4. pc[t] # "p_sleep"
  BY DEF P_sleep
<1>5. \A u \in Threads : (\E i \in 1..Len(sem_wchan') : sem_wchan'[i] = u)
                           <=> u = t \/ \E i \in 1..Len(sem_wchan) : sem_wchan[i] = u
  BY <1>2
<1>6. SleepersQueued'
  <2>1. \A i \in 1..Len(sem_wchan) : sem_wchan[i] # t
    BY <1>4 DEF IndInv, SleepersQueued
  <2>2. \A i, j \in 1..Len(sem_wchan') : sem_wchan'[i] = sem_wchan'[j] => i = j
    BY <1>2, <2>1 DEF IndInv, SleepersQueued
  <2>3. QED
    BY <1>3, <1>5, <2>2 DEF IndInv, SleepersQueued
<1>7. IsFiniteSet(Testing') /\ sem_count' = 0
  <2>1. Testing' \in SUBSET Threads
    BY DEF Testing
  <2>2. QED
    BY <2>1, FS_Subset, SemAssumption DEF P_sleep
<1>8. UnitsClaimed'
  BY <1>7, FS_CardinalityType DEF UnitsClaimed
<1>9. QED
  BY <1>1, <1>6, <1>8 DEF IndInv

\* V: one unit more and, if a thread sleeps, the head of the channel becomes
\* one claimant more.
LEMMA VInv ==
  ASSUME IndInv, NEW t \in Threads, V_do(t)
  PROVE  IndInv'
<1>1. CASE sem_wchan = <<>>
  <2>1. /\ sem_wchan' = <<>> /\ sem_wchan' = sem_wchan
        /\ \A u \in Threads : pc'[u] = IF u = t THEN "run" ELSE pc[u]
    BY <1>1 DEF V_do
  <2>2. TypeOK'
    BY <1>1, SemAssumption DEF V_do, IndInv, TypeOK
  <2>3. SleepersQueued'
    BY <2>1 DEF V_do, IndInv, SleepersQueued
  <2>4. QED
    BY <2>1, <2>2, <2>3 DEF IndInv, UnitsClaimed
<1>2. CASE sem_wchan # <<>>
  <2> DEFINE h == Head(sem_wchan)
  <2>1. /\ h = sem_wchan[1] /\ h \in Threads /\ Len(sem_wchan) \in Nat \ {0}
        /\ Len(Tail(sem_wchan)) = Len(sem_wchan) - 1
        /\ Tail(sem_wchan) \in Seq(Threads)
        /\ \A i \in 1..(Len(sem_wchan) - 1) : Tail(sem_wchan)[i] = sem_wchan[i + 1]
    BY <1>2 DEF IndInv, TypeOK
  <2>2. pc[h] = "p_sleep" /\ h # t
    BY <2>1 DEF IndInv, SleepersQueued, V_do
  <2>3. /\ sem_wchan' = Tail(sem_wchan) /\ sem_count' = sem_count + 1
        /\ sem_lock' = NoThread
        /\ pc' = [u \in Threads |-> IF u = t THEN "run"
                                    ELSE IF u = h THEN "p_spin" ELSE pc[u]]
    BY <1>2 DEF V_do
  <2> HIDE DEF h
  <2>4. TypeOK'
    BY <2>1, <2>2, <2>3, SemAssumption DEF V_do, IndInv, TypeOK
  <2>5. SleepersQueued'
    <3>1. \A i, j \in 1..Len(sem_wchan') : sem_wchan'[i] = sem_wchan'[j] => i = j
      BY <2>1, <2>3 DEF IndInv, SleepersQueued
    <3>2. ASSUME NEW u \in Threads, NEW i \in 1..Len(sem_wchan'), sem_wchan'[i] = u
          PROVE  pc'[u] = "p_sleep"
      <4>1. i + 1 \in 1..Len(sem_wchan) /\ sem_wchan[i + 1] = u /\ i + 1 # 1
        BY <2>1, <2>3, <3>2
      <4>2. pc[u] = "p_sleep" /\ u # h
        BY <2>1, <4>1 DEF IndInv, SleepersQueued
      <4>3. QED
        BY <2>3, <4>2 DEF V_do
    <3>3. ASSUME NEW u \in Threads, pc'[u] = "p_sleep"
          PROVE  \E i \in 1..Len(sem_wchan') : sem_wchan'[i] = u
      <4>1. pc[u] = "p_sleep" /\ u # h
        BY <2>3, <3>3
      <4>2. PICK i \in 1..Len(sem_wchan) : sem_wchan[i] = u
        BY <4>1 DEF IndInv, SleepersQueued
      <4>3. i # 1 /\ i - 1 \in 1..Len(sem_wchan') /\ sem_wchan'[i - 1] = u
        BY <2>1, <2>3, <4>1, <4>2
      <4>4. QED
        BY <4>3
    <3>4. QED
      BY <3>1, <3>2, <3>3 DEF SleepersQueued
  <2>6. h \notin Testing /\ Testing' = Testing \cup {h}
    BY <2>1, <2>2, <2>3 DEF Testing, V_do
  <2>7. UnitsClaimed'
    BY <1>2, <2>1, <2>3, <2>6, TestingCount DEF IndInv, TypeOK, UnitsClaimed
  <2>8. QED
    BY <2>4, <2>5, <2>7 DEF IndInv
<1>3. QED
  BY <1>1, <1>2

\* Every step preserves the invariant.
LEMMA NextIndInv == IndInv /\ [Next]_vars => IndInv'
<1> SUFFICES ASSUME IndInv, [Next]_vars PROVE IndInv'
  OBVIOUS
<1>1. ASSUME NEW t \in Threads, P(t) \/ V(t) \/ Step(t)
      PROVE  IndInv'
  BY <1>1, MoveInv, TakeInv, SleepInv, VInv DEF Step
<1>2. CASE UNCHANGED vars
  BY <1>2 DEF vars, IndInv, TypeOK, SleepersQueued, UnitsClaimed, Testing
<1>3. QED
  BY <1>1, <1>2 DEF Next

\* The invariant holds in every reachable state of the semaphore.
THEOREM SemaphoreInvariant == Spec => []IndInv
BY InitIndInv, NextIndInv, PTL DEF Spec

\* In every reachable state the units of the semaphore are claimed: V's single
\* wchan_wakeone is enough although P does not keep the sleepers' order.
THEOREM SemaphoreUnitsClaimed == Spec => []UnitsClaimed
<1>1. IndInv => UnitsClaimed
  BY DEF IndInv
<1>2. QED
  BY <1>1, SemaphoreInvariant, PTL

-----------------------------------------------------------------------------
(* Refinement *)

\* The operation thread t is in, as the refinement mapping reads it off pc.
Doing(p) == [t \in Threads |->
               IF p[t] \in {"p_spin", "p_test", "p_sleep"} THEN "P"
               ELSE IF p[t] \in {"v_spin", "v_do"} THEN "V" ELSE "none"]

\* Every step of the code is a step of the abstract semaphore or none.
LEMMA StepRefines == IndInv /\ [Next]_vars => [Abs!Next]_(Abs!avars)
<1> SUFFICES ASSUME IndInv, [Next]_vars
             PROVE  Abs!Next \/ UNCHANGED <<sem_count, Doing(pc)>>
  BY DEF Abs!avars, Doing
<1>1. ASSUME NEW t \in Threads, P(t)
      PROVE  Abs!Call(t, "P")
  BY Zenon, <1>1 DEF P, Goto, IndInv, TypeOK, Abs!Call
<1>2. ASSUME NEW t \in Threads, V(t)
      PROVE  Abs!Call(t, "V")
  BY Zenon, <1>2 DEF V, Goto, IndInv, TypeOK, Abs!Call
<1>3. ASSUME NEW t \in Threads, P_spin(t) \/ P_sleep(t) \/ V_spin(t)
      PROVE  UNCHANGED <<sem_count, Doing(pc)>>
  BY <1>3 DEF P_spin, P_sleep, V_spin, Goto, IndInv, TypeOK, Doing
<1>4. ASSUME NEW t \in Threads, P_take(t)
      PROVE  Abs!DoP(t)
  BY Zenon, <1>4 DEF P_take, Goto, IndInv, TypeOK, Abs!DoP
<1>5. ASSUME NEW t \in Threads, V_do(t)
      PROVE  Abs!DoV(t)
  <2>1. sem_wchan # <<>> => pc[Head(sem_wchan)] = "p_sleep"
    <3>1. sem_wchan # <<>> => /\ Head(sem_wchan) = sem_wchan[1] /\ 1 \in 1..Len(sem_wchan)
                              /\ Head(sem_wchan) \in Threads
      BY DEF IndInv, TypeOK
    <3>2. QED
      BY <3>1 DEF IndInv, SleepersQueued
  <2>2. \A u \in Threads \ {t} :
           \/ pc'[u] = pc[u]
           \/ pc[u] = "p_sleep" /\ pc'[u] = "p_spin"
    BY <1>5, <2>1 DEF V_do
  <2>3. pc[t] = "v_do" /\ pc'[t] = "run" /\ sem_count' = sem_count + 1
    BY <1>5 DEF V_do
  <2>4. QED
    BY Zenon, <2>2, <2>3 DEF Abs!DoV
<1>6. CASE UNCHANGED vars
  BY <1>6 DEF vars, Doing
<1>7. QED
  BY <1>1, <1>2, <1>3, <1>4, <1>5, <1>6 DEF Next, Step, Abs!Next

\* P and V, with their spinlock, wait channel and re-tests, implement the
\* atomic operations synch.h documents.
THEOREM SemaphoreImplements == Spec => ImplementsSemaphore
<1>1. Init => Abs!Init
  BY DEF Init, Abs!Init
<1>2. QED
  BY <1>1, StepRefines, SemaphoreInvariant, PTL DEF Spec, ImplementsSemaphore, Abs!Spec
=============================================================================
