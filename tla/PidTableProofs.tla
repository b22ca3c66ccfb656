--------------------------- MODULE PidTableProofs ---------------------------
(***************************************************************************)
(* Proofs about module PidTable, for any size of the process table and any *)
(* range of pids that is not smaller than it.                              *)
(***************************************************************************)
EXTENDS PidTable, WellFoundedInduction, TLAPS

Recents == UserPids \cup {KernelPid}

LEMMA Ranges ==
  /\ PROC_MAX \in Nat \ {0} /\ PID_MIN \in Nat /\ PID_MAX \in Nat
  /\ Recents \subseteq Nat /\ PID_INVALID \notin Recents /\ KernelPid \in Recents
  /\ \A p \in Recents : p < PID_MAX /\ slot(p) \in Slots
  BY PidAssumption DEF Recents, UserPids, KernelPid, PID_INVALID, slot, Slots

\* Every pid the loop of pt_get_open_pid looks at is one for a user process,
\* before and after it wraps around.
LEMMA Candidates ==
  ASSUME NEW recent \in Recents, NEW j \in Slots
  PROVE  Candidate(recent, j) \in UserPids
  BY PidAssumption DEF Recents, UserPids, KernelPid, Slots, Candidate

\* What pt_get_open_pid returns: a pid other than the last one, whose slot is
\* free, or none.
LEMMA OpenPid ==
  ASSUME pt_most_recent_pid \in Recents, newpid # PID_INVALID
  PROVE  newpid \in UserPids /\ newpid # pt_most_recent_pid /\ pt_procs[slot(newpid)] = PID_INVALID
<1> DEFINE recent == pt_most_recent_pid
           Leaves(j) == \/ Candidate(recent, j) = recent
                        \/ pt_procs[slot(Candidate(recent, j))] = PID_INVALID
           first == {j \in Slots : Leaves(j) /\ \A k \in Slots : k < j => ~Leaves(k)}
           j0 == CHOOSE j \in first : TRUE
<1>1. newpid = IF \E j \in first : Candidate(recent, j) # recent THEN Candidate(recent, j0) ELSE PID_INVALID
  BY Zenon DEF newpid, pt_get_open_pid
<1>2. PICK j \in first : Candidate(recent, j) # recent
  BY Zenon, <1>1
<1>3. j0 \in first
  BY Zenon, <1>2
<1> HIDE DEF j0
<1>4. j0 = j
  <2>1. j \in Slots /\ j0 \in Slots /\ Leaves(j) /\ Leaves(j0)
        /\ (\A k \in Slots : k < j => ~Leaves(k)) /\ \A k \in Slots : k < j0 => ~Leaves(k)
    BY Zenon, <1>2, <1>3
  <2>2. ~(j0 < j) /\ ~(j < j0) /\ j \in Nat /\ j0 \in Nat
    <3> HIDE DEF Leaves
    <3>1. QED
      BY <2>1, PidAssumption DEF Slots
  <2>3. QED
    BY <2>2
<1>5. newpid = Candidate(recent, j) /\ j \in Slots /\ Leaves(j)
  BY Zenon, <1>1, <1>2, <1>4
<1>6. QED
  BY Zenon, <1>2, <1>5, Candidates

\* A process sits in the slot of its pid, and the kernel process keeps its slot, however
\* often the counter of fork_common wraps around.
THEOREM PidTableTypeCorrect == Spec => []TypeOK
<1>1. ASSUME Init PROVE TypeOK
  <2>1. slot(KernelPid) \in Slots /\ KernelPid \in Recents
    BY Ranges
  <2>2. QED
    BY <1>1, <2>1 DEF Init, TypeOK, Recents
<1>2. ASSUME TypeOK, [Next]_vars PROVE TypeOK'
  <2>1. /\ pt_procs \in [Slots -> Recents \cup {PID_INVALID}] /\ pt_most_recent_pid \in Recents
        /\ \A s \in Slots : pt_procs[s] # PID_INVALID => slot(pt_procs[s]) = s
        /\ pt_procs[slot(KernelPid)] = KernelPid
    BY Zenon, <1>2 DEF TypeOK, Recents
  <2>2. KernelPid # PID_INVALID /\ UserPids \subseteq Recents
    BY Ranges DEF Recents
  <2>3. CASE fork_slot
    <3>1. PICK n \in UserPids : n = newpid /\ pt_procs[slot(n)] = PID_INVALID
      BY Zenon, <2>1, <2>3, OpenPid DEF fork_slot
    <3>2. pt_procs' = [pt_procs EXCEPT ![slot(n)] = n] /\ pt_most_recent_pid' = n
      BY Zenon, <2>3, <3>1 DEF fork_slot
    <3>3. slot(n) \in Slots /\ n \in Recents /\ slot(n) # slot(KernelPid) /\ slot(KernelPid) \in Slots
      BY Zenon, <2>1, <2>2, <3>1, Ranges
    <3>4. QED
      BY <2>1, <3>2, <3>3 DEF TypeOK, Recents
  <2>4. CASE fork_nomem
    <3>1. newpid \in UserPids
      BY Zenon, <2>1, <2>4, OpenPid DEF fork_nomem
    <3>2. QED
      BY Zenon, <1>2, <2>4, <3>1 DEF fork_nomem, TypeOK
  <2>5. ASSUME NEW pid \in UserPids, proc_destroy(pid) PROVE TypeOK'
    <3>1. /\ pid # KernelPid /\ pt_procs[slot(pid)] = pid /\ UNCHANGED pt_most_recent_pid
          /\ pt_procs' = [pt_procs EXCEPT ![slot(pid)] = PID_INVALID]
      BY Zenon, <2>5 DEF proc_destroy
    <3>2. slot(pid) \in Slots /\ slot(pid) # slot(KernelPid) /\ slot(KernelPid) \in Slots
      BY Zenon, <2>1, <2>2, <3>1, Ranges
    <3>3. QED
      BY <2>1, <3>1, <3>2 DEF TypeOK, Recents
  <2>6. CASE UNCHANGED vars
    BY Zenon, <1>2, <2>6 DEF vars, TypeOK
  <2>7. QED
    BY Zenon, <1>2, <2>3, <2>4, <2>5, <2>6 DEF Next
<1>3. QED
  BY <1>1, <1>2, PTL DEF Spec

\* fork displaces no process and never hands out again the pid it handed out last, for any
\* size of the table and any range of pids.
THEOREM PidTableFreshPid == Spec => FreshPid
<1> DEFINE Fresh(s) == pt_procs'[s] \notin {pt_procs[s], PID_INVALID} =>
                         pt_procs[s] = PID_INVALID /\ pt_procs'[s] # pt_most_recent_pid
<1>1. ASSUME TypeOK, [Next]_vars PROVE [\A s \in Slots : Fresh(s)]_vars
  <2>1. pt_most_recent_pid \in Recents /\ pt_procs \in [Slots -> UserPids \cup {KernelPid, PID_INVALID}]
    BY Zenon, <1>1 DEF TypeOK, Recents
  <2>2. CASE fork_slot
    <3>1. PICK n \in UserPids : /\ n = newpid /\ n # pt_most_recent_pid
                                /\ pt_procs[slot(n)] = PID_INVALID
      BY Zenon, <2>1, <2>2, OpenPid DEF fork_slot
    <3>2. pt_procs' = [pt_procs EXCEPT ![slot(n)] = n]
      BY Zenon, <2>2, <3>1 DEF fork_slot
    <3>3. \A s \in Slots : Fresh(s)
      BY <2>1, <3>1, <3>2
    <3>4. QED
      BY Zenon, <3>3
  <2>3. CASE fork_nomem
    BY Zenon, <2>3 DEF fork_nomem
  <2>4. ASSUME NEW pid \in UserPids, proc_destroy(pid) PROVE \A s \in Slots : Fresh(s)
    <3>1. pt_procs' = [pt_procs EXCEPT ![slot(pid)] = PID_INVALID]
      BY Zenon, <2>4 DEF proc_destroy
    <3>2. QED
      BY <2>1, <3>1
  <2>5. QED
    BY Zenon, <1>1, <2>2, <2>3, <2>4 DEF Next
<1>2. TypeOK /\ [Next]_vars =>
        [\A s \in Slots :
           pt_procs'[s] \notin {pt_procs[s], PID_INVALID} =>
             /\ pt_procs[s] = PID_INVALID
             /\ pt_procs'[s] # pt_most_recent_pid]_vars
  BY Zenon, <1>1
<1>3. QED
  BY <1>2, PidTableTypeCorrect, PTL DEF Spec, FreshPid

\* From any number the slots of PROC_MAX numbers in a row are all slots.
LEMMA EverySlot ==
  ASSUME NEW r \in Nat, NEW s \in Slots
  PROVE  \E j \in Slots : slot(r + j) = s
<1> DEFINE P == PROC_MAX
           j == (s - r) % P
           q == (s - r) \div P
<1>1. P \in Nat \ {0} /\ s \in Nat /\ s < P
  BY PidAssumption DEF Slots
<1>2. q \in Int /\ j \in 0..(P - 1) /\ s - r = P * q + j
  BY <1>1
<1> HIDE DEF q, j
<1> DEFINE d == (r + j) \div P
           m == (r + j) % P
<1>3. d \in Int /\ m \in 0..(P - 1) /\ r + j = P * d + m
  BY <1>1, <1>2
<1> HIDE DEF d, m, P
<1>4. m - s = P * (0 - (q + d))
  BY <1>1, <1>2, <1>3
<1>5. PICK e \in Int : e = 0 - (q + d)
  BY <1>2, <1>3
<1>6. ~(e >= 1) /\ ~(e <= -1)
  BY <1>1, <1>3, <1>4, <1>5
<1>7. m = s
  BY <1>1, <1>3, <1>4, <1>5, <1>6
<1>8. j \in Slots
  BY <1>1, <1>2 DEF Slots, P
<1>9. QED
  BY <1>7, <1>8 DEF slot, m, P

\* As long as the loop does not wrap around, pt_get_open_pid finds a free slot if there is
\* one: fork fails with ENPROC only when the table is full.
THEOREM PidTableFullUnlessWrapping == Spec => []FullUnlessWrapping
<1>1. ASSUME TypeOK PROVE FullUnlessWrapping
  <2> DEFINE recent == pt_most_recent_pid
             Leaves(j) == \/ Candidate(recent, j) = recent
                          \/ pt_procs[slot(Candidate(recent, j))] = PID_INVALID
             first == {j \in Slots : Leaves(j) /\ \A k \in Slots : k < j => ~Leaves(k)}
             open == {j \in Slots : Leaves(j)}
             R == OpToRel(<, Nat)
  <2>1. SUFFICES ASSUME recent + PROC_MAX < PID_MAX, NEW s \in Slots, pt_procs[s] = PID_INVALID
                 PROVE  newpid # PID_INVALID
    BY Zenon DEF FullUnlessWrapping
  <2>2. recent \in Recents
    BY Zenon, <1>1 DEF TypeOK, Recents
  <2>3. recent \in Nat /\ recent + 1 \in Nat
    BY <2>2, Ranges
  <2>4. \A j \in Slots : Candidate(recent, j) = recent + 1 + j /\ Candidate(recent, j) # recent
    BY <2>1, <2>3, PidAssumption DEF Candidate, Slots
  <2>5. PICK i \in Slots : slot(recent + 1 + i) = s
    BY <2>3, EverySlot
  <2>6. i \in open
    BY Zenon, <2>1, <2>4, <2>5
  <2>7. open \subseteq Nat
    BY PidAssumption DEF Slots
  <2>8. PICK j \in open : \A n \in open : ~(<<n, j>> \in R)
    <3>1. IsWellFoundedOn(R, Nat)
      BY Zenon, NatLessThanWellFounded
    <3> HIDE DEF R, open
    <3>2. QED
      BY Zenon, <2>6, <2>7, <3>1, WFMin
  <2>9. \A n \in open : ~(n < j)
    BY Zenon, <2>7, <2>8 DEF OpToRel
  <2>10. j \in first
    BY Zenon, <2>8, <2>9
  <2>11. newpid = IF \E x \in first : Candidate(recent, x) # recent
                  THEN Candidate(recent, CHOOSE x \in first : TRUE) ELSE PID_INVALID
    BY Zenon DEF newpid, pt_get_open_pid
  <2>12. PICK x \in first : newpid = Candidate(recent, x)
    BY Zenon, <2>4, <2>10, <2>11
  <2>13. newpid \in UserPids
    BY Zenon, <2>2, <2>12, Candidates
  <2>14. QED
    BY <2>13, Ranges DEF Recents
<1>2. QED
  BY <1>1, PidTableTypeCorrect, PTL
============================================================================
