---------------------------- MODULE ProcLifeSteps ----------------------------
(***************************************************************************)
(* How the steps of waitpid, _exit and thread_exit keep the inductive      *)
(* invariant of module ProcLife, and the lemmas that say what a step which *)
(* touches one thread, one lock or one process leaves alone.               *)
(***************************************************************************)
EXTENDS ProcLife, TLAPS


LEMMA PidRanges ==
  /\ Pids \subseteq Nat /\ PID_INVALID \notin Pids /\ KernelPid \in Pids /\ PID_INVALID = 0
  /\ \A p \in Nat : slot(p) \in Slots
  /\ KernelPid = PID_MIN - 1 /\ MaxPid \in Nat /\ PID_MIN \in Nat
  BY PidAssumption, LifeAssumption DEF Pids, PID_INVALID, KernelPid, slot, Slots, UserPids

\* What pt_get_open_pid finds, while pids do not wrap around: a pid above the
\* last one, and a free slot.
LEMMA NewPid ==
  ASSUME TypeOK, newpid \in Pids \ {PID_INVALID}
  PROVE  newpid > pt_most_recent_pid /\ pt_procs[slot(newpid)] = PID_INVALID
<1> DEFINE recent == pt_most_recent_pid
           Leaves(j) == \/ Candidate(recent, j) = recent
                        \/ pt_procs[slot(Candidate(recent, j))] = PID_INVALID
           first == {j \in Slots : Leaves(j) /\ \A k \in Slots : k < j => ~Leaves(k)}
<1>1. recent \in Nat /\ recent + PROC_MAX < PID_MAX
  BY PidAssumption, LifeAssumption DEF TypeOK, Pids, KernelPid, UserPids
<1>2. \A j \in Slots : Candidate(recent, j) = recent + 1 + j /\ Candidate(recent, j) # recent
  BY <1>1, PidAssumption DEF Candidate, Slots
<1>3. newpid = IF \E j \in first : Candidate(recent, j) # recent
               THEN Candidate(recent, CHOOSE j \in first : TRUE) ELSE PID_INVALID
  BY Zenon DEF newpid, pt_get_open_pid
<1>4. PICK j \in first : newpid = Candidate(recent, j)
  BY Zenon, <1>3
<1>5. QED
  BY <1>1, <1>2, <1>4 DEF Slots

-----------------------------------------------------------------------------
(* What a step leaves alone *)

\* The step is none of q's thread.
Locals(q) ==
  pc'[q] = pc[q] /\ child'[q] = child[q] /\ options'[q] = options[q] /\ ret'[q] = ret[q]

\* About to destroy a child that is off the list.
OffList == {"wp_kwait", "wp_ksleep", "pd_check", "pd_free"}

LEMMA GoodParts ==
  ASSUME Good
  PROVE  /\ TypeOK /\ KernelStays /\ OneForker /\ Queues /\ WillSignal /\ Kept
         /\ \A q \in Pids : StateByPlace(q) /\ Family(q) /\ ChildByPlace(q) /\ SleepByPlace(q)
         /\ \A q \in Pids : LockByPlace(q) /\ HeldByPlace(q)
         /\ pt_coffin # PID_INVALID => Orphan(pt_coffin)
  BY Zenon DEF Good

\* What the variables hold.
LEMMA Types ==
  ASSUME TypeOK, NEW q \in Pids
  PROVE  /\ p_state[q] \in {"none", "new", "alive", "zombie", "freed"}
         /\ p_parent[q] \in Pids \cup {PID_INVALID} /\ child[q] \in Pids \cup {PID_INVALID}
         /\ p_waitlock[q] \in Pids \cup {PID_INVALID} /\ p_cv[q] \subseteq Pids /\ k_waitcv \subseteq Pids
         /\ pc[q] \in PCs /\ ret[q] \in {"run", "ex_lock", "ex_kids"}
         /\ options[q] \in {"none", "WNOHANG"} /\ p_numthreads[q] \in {0, 1}
         /\ p_children[q] \in Seq(Pids) /\ todo[q] \in Seq(Pids)
         /\ p_state[q] \notin {"none", "freed"} <=> pt_procs[slot(q)] = q
         /\ \A s \in Slots : pt_procs[s] \in Pids \cup {PID_INVALID}
         /\ \A s \in Slots : pt_procs[s] # PID_INVALID => slot(pt_procs[s]) = s
  BY Zenon DEF TypeOK

\* A step that moves some threads, which may lose their p_numthreads or become
\* zombies.
LEMMA GroupStep ==
  ASSUME Good, NEW M \in SUBSET Pids, TypeOK',
         UNCHANGED <<pt_procs, pt_most_recent_pid, p_parent>>,
         \A x \in Pids : \/ p_state'[x] = p_state[x]
                         \/ x \in M /\ p_state[x] = "alive" /\ p_state'[x] = "zombie",
         \A x \in Pids : \/ p_numthreads'[x] = p_numthreads[x]
                         \/ x \in M /\ p_numthreads'[x] = 0,
         \A q \in Pids \ M : Locals(q),
         \A q \in M : /\ pc[q] # "none" /\ pc'[q] \notin {"none", "fk_fill", "fk_copy"}
                      /\ StateByPlace(q)' /\ ChildByPlace(q)' /\ SleepByPlace(q)',
         KernelStays', (pt_coffin # PID_INVALID => Orphan(pt_coffin))',
         Kept', Queues', WillSignal', \A q \in Pids : LockByPlace(q)' /\ HeldByPlace(q)'
  PROVE  Good'
<1>0. /\ \A x \in Pids : /\ p_state[x] = "none" <=> p_state'[x] = "none"
                         /\ p_state[x] = "new" <=> p_state'[x] = "new"
                         /\ p_state[x] = "freed" <=> p_state'[x] = "freed"
                         /\ p_state[x] = "zombie" => p_state'[x] = "zombie"
                         /\ p_state[x] \in {"alive", "zombie"} <=> p_state'[x] \in {"alive", "zombie"}
      /\ \A x \in Pids \ M : p_state'[x] = p_state[x] /\ p_numthreads'[x] = p_numthreads[x]
      /\ \A x \in Pids : p_parent[x] \in Pids \cup {PID_INVALID}
  BY Zenon, GoodParts, Types
<1>1. ASSUME NEW q \in Pids PROVE Family(q)'
  <2>1. Family(q) /\ p_parent[q] \in Pids \cup {PID_INVALID} /\ p_parent'[q] = p_parent[q]
    BY Zenon, <1>1, GoodParts, Types
  <2>2. p_parent[q] # PID_INVALID => p_state'[p_parent[q]] \in {"alive", "zombie", "freed"}
    BY Zenon, <1>0, <2>1 DEF Family
  <2>3. QED
    BY Zenon, <1>0, <1>1, <2>1, <2>2 DEF Family
<1>2. ASSUME NEW q \in Pids \ M PROVE StateByPlace(q)' /\ SleepByPlace(q)'
  <2>1. StateByPlace(q) /\ SleepByPlace(q) /\ Locals(q)
    BY Zenon, <1>2, GoodParts
  <2>2. QED
    BY <1>0, <1>2, <2>1 DEF StateByPlace, SleepByPlace, HoldsOwn, Locals
<1>3. ASSUME NEW q \in Pids \ M PROVE ChildByPlace(q)'
  <2>1. ChildByPlace(q) /\ Locals(q) /\ child[q] \in Pids \cup {PID_INVALID} /\ q \in Pids
    BY Zenon, <1>3, GoodParts, Types
  <2>2. ASSUME NEW c \in Pids, Orphan(c) PROVE Orphan(c)'
    BY Zenon, <1>0, <2>2 DEF Orphan
  <2>3. CASE child[q] = PID_INVALID
    <3>1. pc[q] # "fk_fill" /\ pc[q] # "fk_copy" /\ pc[q] # "wp_lock"
          /\ pc[q] \notin Locked \cup Destroying /\ pc[q] # "wp_parent"
      BY Zenon, <2>1, <2>3 DEF ChildByPlace
    <3>2. pc[q] \notin {"wp_relock", "wp_remove", "wp_kwait", "wp_ksleep"} /\ pc[q] # "pd_free"
      BY Zenon, <3>1 DEF Locked, Destroying
    <3>3. QED
      BY Zenon, <2>1, <2>2, <2>3, <3>1, <3>2 DEF ChildByPlace, Locals
  <2>4. CASE child[q] # PID_INVALID
    <3>1. PICK c \in Pids : c = child[q] /\ c = child'[q]
      BY Zenon, <2>1, <2>4 DEF Locals
    <3>2. pc[q] \in {"fk_fill", "fk_copy"} => c \notin M /\ pc'[c] = "none"
      BY <2>1, <3>1 DEF ChildByPlace, Locals
    <3>3. pc[q] = "pd_free" => p_numthreads'[c] = 0
      BY <2>1, <3>1 DEF ChildByPlace
    <3>4. p_state'[q] = p_state[q]
      BY Zenon, <1>0, <1>3
    <3>5. QED
      BY <1>0, <2>1, <2>2, <3>1, <3>2, <3>3, <3>4 DEF ChildByPlace, Locals
  <2>5. QED
    BY Zenon, <2>3, <2>4
<1>4. OneForker'
  BY GoodParts DEF OneForker, Locals
<1>5. ASSUME NEW q \in Pids
      PROVE  /\ StateByPlace(q)' /\ Family(q)' /\ ChildByPlace(q)' /\ SleepByPlace(q)'
             /\ LockByPlace(q)' /\ HeldByPlace(q)'
  BY Zenon, <1>1, <1>2, <1>3, <1>5
<1>6. QED
  BY Zenon, <1>4, <1>5 DEF Good

\* A step that moves one thread and changes no process.
LEMMA LocalStep ==
  ASSUME Good, NEW p \in Pids, TypeOK',
         UNCHANGED <<pt_procs, pt_most_recent_pid, p_state, p_parent, p_numthreads>>,
         \A q \in Pids \ {p} : Locals(q),
         pc[p] # "none", pc'[p] \notin {"none", "fk_fill", "fk_copy"},
         KernelStays', StateByPlace(p)', ChildByPlace(p)', SleepByPlace(p)',
         (pt_coffin # PID_INVALID => Orphan(pt_coffin))',
         Kept', Queues', WillSignal', \A q \in Pids : LockByPlace(q)' /\ HeldByPlace(q)'
  PROVE  Good'
<1>1. PICK M \in SUBSET Pids : M = {p}
  BY Zenon
<1>2. \A q \in M : /\ pc[q] # "none" /\ pc'[q] \notin {"none", "fk_fill", "fk_copy"}
                   /\ StateByPlace(q)' /\ ChildByPlace(q)' /\ SleepByPlace(q)'
  <2> SUFFICES ASSUME NEW q \in M
               PROVE  /\ pc[q] # "none" /\ pc'[q] \notin {"none", "fk_fill", "fk_copy"}
                      /\ StateByPlace(q)' /\ ChildByPlace(q)' /\ SleepByPlace(q)'
    BY Zenon
  <2>1. q = p
    BY Zenon, <1>1
  <2>2. QED
    BY Zenon, <2>1
<1>3. QED
  BY Zenon, <1>1, <1>2, GroupStep

\* Steps that have nothing to do with locks, nor with queues.
LEMMA GroupPlaces ==
  ASSUME Good, NEW M \in SUBSET Pids, UNCHANGED p_waitlock, \A q \in Pids \ M : Locals(q),
         \A q \in M : pc[q] # "wp_test" /\ pc'[q] # "wp_test",
         \A q \in M : HoldsOwn(q)' <=> HoldsOwn(q)
  PROVE  \A q \in Pids : LockByPlace(q)' /\ HeldByPlace(q)'
<1>1. ASSUME NEW q \in Pids PROVE HoldsOwn(q)' <=> HoldsOwn(q)
  <2>1. CASE q \in M
    BY Zenon, <2>1
  <2>2. CASE q \notin M
    BY Zenon, <1>1, <2>2 DEF HoldsOwn, Locals
  <2>3. QED
    BY Zenon, <2>1, <2>2
<1>2. ASSUME NEW q \in Pids PROVE LockByPlace(q)' /\ HeldByPlace(q)'
  <2>1. LockByPlace(q) /\ HeldByPlace(q) /\ p_waitlock[q] \in Pids \cup {PID_INVALID}
    BY Zenon, <1>2, GoodParts, Types
  <2>2. LockByPlace(q)'
    <3>1. pc'[q] = "wp_test" => pc[q] = "wp_test" /\ child'[q] = child[q]
      BY Zenon, <1>2 DEF Locals
    <3>2. QED
      BY Zenon, <1>1, <1>2, <2>1, <3>1 DEF LockByPlace
  <2>3. HeldByPlace(q)'
    <3>1. ASSUME NEW h \in Pids, pc[h] = "wp_test" PROVE pc'[h] = "wp_test" /\ child'[h] = child[h]
      BY Zenon, <3>1 DEF Locals
    <3>2. QED
      BY Zenon, <1>1, <1>2, <2>1, <3>1 DEF HeldByPlace
  <2>4. QED
    BY Zenon, <2>2, <2>3
<1>3. QED
  BY Zenon, <1>2

LEMMA PlacesKept ==
  ASSUME Good, NEW p \in Pids, UNCHANGED p_waitlock, \A q \in Pids \ {p} : Locals(q),
         pc[p] # "wp_test", pc'[p] # "wp_test", HoldsOwn(p)' <=> HoldsOwn(p)
  PROVE  \A q \in Pids : LockByPlace(q)' /\ HeldByPlace(q)'
<1>1. PICK M \in SUBSET Pids : M = {p}
  BY Zenon
<1>2. \A q \in M : HoldsOwn(q)' <=> HoldsOwn(q)
  <2> SUFFICES ASSUME NEW q \in M PROVE HoldsOwn(q)' <=> HoldsOwn(q)
    BY Zenon
  <2>1. q = p
    BY Zenon, <1>1
  <2>2. QED
    BY Zenon, <2>1
<1>3. QED
  BY Zenon, <1>1, <1>2, GroupPlaces

\* The queues when the thread that moves is in none.
LEMMA QueuesKept ==
  ASSUME Good, NEW p \in Pids, UNCHANGED <<p_cv, k_waitcv>>, \A q \in Pids \ {p} : Locals(q),
         pc[p] \notin {"wp_sleep", "wp_ksleep"}, pc'[p] \notin {"wp_sleep", "wp_ksleep"}
  PROVE  Queues'
  BY GoodParts DEF Queues, Locals

LEMMA LocksKept ==
  ASSUME Good, NEW p \in Pids, UNCHANGED <<p_waitlock, p_cv, k_waitcv>>,
         \A q \in Pids \ {p} : Locals(q),
         pc[p] \notin {"wp_test", "wp_sleep", "wp_ksleep"},
         pc'[p] \notin {"wp_test", "wp_sleep", "wp_ksleep"},
         HoldsOwn(p)' <=> HoldsOwn(p)
  PROVE  Queues' /\ \A q \in Pids : LockByPlace(q)' /\ HeldByPlace(q)'
  BY Zenon, PlacesKept, QueuesKept

LEMMA SignalKept ==
  ASSUME Good, NEW p \in Pids, UNCHANGED p_cv, \A q \in Pids \ {p} : Locals(q),
         \A x \in Pids : p_state'[x] = "zombie" => p_state[x] = "zombie",
         \A w \in p_cv[p] : p_state[p] = "zombie" =>
           /\ HoldsOwn(p)' /\ pc'[p] \notin {"ex_bury", "ex_unlock"}
           /\ pc'[p] = "ex_state" => child'[p] = w
  PROVE  WillSignal'
<1>1. ASSUME NEW q \in Pids \ {p} PROVE HoldsOwn(q)' <=> HoldsOwn(q)
  BY Zenon, <1>1 DEF HoldsOwn, Locals
<1>2. ASSUME NEW c \in Pids, NEW w \in Pids, w \in p_cv'[c], p_state'[c] = "zombie"
      PROVE  /\ HoldsOwn(c)' /\ pc'[c] \notin {"ex_bury", "ex_unlock"}
             /\ pc'[c] = "ex_state" => child'[c] = w
  <2>1. HoldsOwn(c) /\ pc[c] \notin {"ex_bury", "ex_unlock"} /\ (pc[c] = "ex_state" => child[c] = w)
    BY Zenon, <1>2, GoodParts DEF WillSignal
  <2>2. CASE c = p
    BY Zenon, <1>2, <2>1, <2>2
  <2>3. CASE c # p
    BY Zenon, <1>1, <1>2, <2>1, <2>3 DEF Locals
  <2>4. QED
    BY Zenon, <2>2, <2>3
<1>3. QED
  BY Zenon, <1>2 DEF WillSignal

LEMMA GroupKept ==
  ASSUME Good, NEW M \in SUBSET Pids, UNCHANGED <<p_parent, p_children>>,
         \A x \in Pids : \/ p_state'[x] = p_state[x]
                         \/ p_state[x] = "alive" /\ p_state'[x] = "zombie",
         \A q \in Pids \ M : Locals(q),
         \A q \in M : (pc[q] \in OffList /\ p_state'[q] = "alive" /\ child[q] \in Pids
                         /\ p_parent[child[q]] = q /\ p_state[child[q]] \in {"alive", "zombie"}) =>
                        (pc'[q] \in OffList /\ child'[q] = child[q])
  PROVE  Kept'
<1> SUFFICES ASSUME NEW c \in Pids, NEW q \in Pids, p_parent'[c] = q,
                    p_state'[c] \in {"alive", "zombie"}, p_state'[q] = "alive"
             PROVE  \/ \E i \in 1..Len(p_children'[q]) : p_children'[q][i] = c
                    \/ child'[q] = c /\ pc'[q] \in OffList
  BY Zenon DEF Kept, OffList
<1>0. p_state[c] \in {"alive", "zombie"} /\ p_state[q] = "alive"
  BY Zenon
<1>1. \/ \E i \in 1..Len(p_children[q]) : p_children[q][i] = c
      \/ child[q] = c /\ pc[q] \in OffList
  BY <1>0, GoodParts DEF Kept, OffList
<1>2. CASE q \in M
  BY Zenon, <1>0, <1>1, <1>2, PidRanges
<1>3. CASE q \notin M
  BY Zenon, <1>1, <1>3 DEF Locals
<1>4. QED
  BY Zenon, <1>2, <1>3

LEMMA KeptKept ==
  ASSUME Good, NEW p \in Pids, UNCHANGED <<p_state, p_parent, p_children>>,
         \A q \in Pids \ {p} : Locals(q),
         (pc[p] \in OffList /\ p_state[p] = "alive" /\ child[p] \in Pids
            /\ p_parent[child[p]] = p /\ p_state[child[p]] \in {"alive", "zombie"}) =>
           (pc'[p] \in OffList /\ child'[p] = child[p])
  PROVE  Kept'
<1>1. PICK M \in SUBSET Pids : M = {p}
  BY Zenon
<1>2. QED
  BY Zenon, <1>1, GroupKept

\* A step of p's thread from one place to another, with locals of its own.
LEMMA MoveStep ==
  ASSUME Good, NEW p \in Pids, NEW l \in PCs, NEW c \in Pids \cup {PID_INVALID},
         NEW o \in {"none", "WNOHANG"}, NEW r \in {"run", "ex_lock", "ex_kids"},
         pc' = [pc EXCEPT ![p] = l], child' = [child EXCEPT ![p] = c],
         options' = [options EXCEPT ![p] = o], ret' = [ret EXCEPT ![p] = r],
         asked' \in [Pids -> Nat], todo' \in [Pids -> Seq(Pids)],
         pt_coffin' \in Pids \cup {PID_INVALID},
         UNCHANGED <<pt_procs, pt_most_recent_pid, pvars, lkvars, mistaken>>,
         pc[p] \notin {"none", "wp_test", "wp_sleep", "wp_ksleep"},
         l \notin {"none", "fk_fill", "fk_copy", "wp_test", "wp_sleep", "wp_ksleep"},
         (pt_coffin # PID_INVALID => Orphan(pt_coffin))',
         HoldsOwn(p)' <=> HoldsOwn(p),
         pc[p] \in OffList => l \in OffList /\ c = child[p],
         \A w \in p_cv[p] : p_state[p] = "zombie" =>
           l \notin {"ex_bury", "ex_unlock"} /\ (l = "ex_state" => c = w),
         p = KernelPid => l \in {"run"} \cup Waiting \cup Destroying /\ r = "run",
         StateByPlace(p)', ChildByPlace(p)', SleepByPlace(p)'
  PROVE  Good'
<1>1. /\ pc'[p] = l /\ child'[p] = c /\ options'[p] = o /\ ret'[p] = r
      /\ \A q \in Pids \ {p} : Locals(q)
      /\ pc' \in [Pids -> PCs] /\ child' \in [Pids -> Pids \cup {PID_INVALID}]
      /\ options' \in [Pids -> {"none", "WNOHANG"}]
      /\ ret' \in [Pids -> {"run", "ex_lock", "ex_kids"}]
  BY SMTT(20), GoodParts DEF TypeOK, Locals
<1>2. TypeOK'
  BY Zenon, <1>1, GoodParts DEF TypeOK, pvars, lkvars
<1>3. KernelStays'
  BY Zenon, <1>1, GoodParts, PidRanges DEF KernelStays, Locals
<1>4. Queues' /\ \A q \in Pids : LockByPlace(q)' /\ HeldByPlace(q)'
  BY Zenon, <1>1, LocksKept DEF lkvars
<1>5. WillSignal'
  <2>1. \A w \in p_cv[p] : p_state[p] = "zombie" => HoldsOwn(p)
    BY Zenon, GoodParts, Types DEF WillSignal
  <2>2. QED
    BY Zenon, <1>1, <2>1, SignalKept DEF lkvars, pvars
<1>6. Kept'
  BY Zenon, <1>1, KeptKept DEF pvars
<1>7. UNCHANGED <<pt_procs, pt_most_recent_pid, p_state, p_parent, p_numthreads>>
  BY Zenon DEF pvars
<1>8. QED
  BY Zenon, <1>1, <1>2, <1>3, <1>4, <1>5, <1>6, <1>7, LocalStep

LEMMA PanicInv ==
  ASSUME Good, UNCHANGED <<ptvars, pvars, lkvars, tvars, pc, mistaken>> PROVE Good'
<1>1. /\ UNCHANGED <<pt_procs, pt_most_recent_pid, pt_coffin, p_state, p_parent, p_numthreads, p_children>>
      /\ UNCHANGED <<p_waitlock, p_cv, k_waitcv, asked, child, options, todo, ret, pc, mistaken>>
  BY Zenon DEF ptvars, pvars, lkvars, tvars
<1>2. TypeOK' /\ KernelStays' /\ OneForker' /\ Queues'
  BY <1>1, GoodParts DEF TypeOK, KernelStays, OneForker, Queues
<1>3. WillSignal' /\ Kept'
  BY <1>1, GoodParts DEF WillSignal, Kept, HoldsOwn
<1>4. ASSUME NEW q \in Pids
      PROVE  StateByPlace(q)' /\ Family(q)' /\ SleepByPlace(q)' /\ LockByPlace(q)' /\ HeldByPlace(q)'
  BY <1>1, GoodParts DEF StateByPlace, Family, SleepByPlace, LockByPlace, HeldByPlace, HoldsOwn
<1>5. ASSUME NEW q \in Pids PROVE ChildByPlace(q)'
  BY <1>1, GoodParts DEF ChildByPlace, Orphan
<1>6. (pt_coffin # PID_INVALID => Orphan(pt_coffin))'
  BY Zenon, <1>1, GoodParts DEF Orphan
<1>7. QED
  BY Zenon, <1>2, <1>3, <1>4, <1>5, <1>6 DEF Good

-----------------------------------------------------------------------------
(* Steps that only move a thread *)

LEMMA ForkFailsInv ==
  ASSUME Good, NEW p \in Pids, fork_copy_nomem(p) \/ fork_thread_nomem(p) PROVE Good'
<1>1. /\ StateByPlace(p) /\ ChildByPlace(p) /\ SleepByPlace(p) /\ TypeOK /\ KernelStays
      /\ pc[p] = "fk_copy" /\ child[p] \in Pids
  BY Zenon, GoodParts, Types DEF ChildByPlace, fork_copy_nomem, fork_thread_nomem, At
<1>2. /\ asked' \in [Pids -> Nat] /\ todo' \in [Pids -> Seq(Pids)]
      /\ pt_coffin' \in Pids \cup {PID_INVALID} /\ options' = [options EXCEPT ![p] = options[p]]
      /\ options[p] \in {"none", "WNOHANG"}
      /\ UNCHANGED <<pt_procs, pt_most_recent_pid, pt_coffin, pvars, lkvars, mistaken>>
  BY <1>1 DEF TypeOK, fork_copy_nomem, fork_thread_nomem, ptvars
<1>3. /\ (pt_coffin # PID_INVALID => Orphan(pt_coffin))' /\ HoldsOwn(p) = FALSE
      /\ UNCHANGED <<p_state, p_parent, p_numthreads, p_cv>>
  BY Zenon, <1>1, <1>2, GoodParts DEF Orphan, HoldsOwn, Waiting, Destroying, Locked, pvars, lkvars
<1>4. CASE fork_copy_nomem(p)
  <2>1. /\ pc' = [pc EXCEPT ![p] = "pd_check"] /\ ret' = [ret EXCEPT ![p] = "run"]
        /\ child' = [child EXCEPT ![p] = child[p]]
    BY Zenon, <1>1, <1>4 DEF TypeOK, fork_copy_nomem, Goto
  <2>2. pc'[p] = "pd_check" /\ ret'[p] = "run" /\ child'[p] = child[p] /\ "pd_check" \in PCs
    BY <1>1, <2>1 DEF TypeOK, PCs
  <2>3. HoldsOwn(p)' = FALSE /\ StateByPlace(p)' /\ SleepByPlace(p)'
    BY Zenon, <1>1, <1>3, <2>2 DEF StateByPlace, SleepByPlace, HoldsOwn, Waiting, Locked, Destroying
  <2>4. ChildByPlace(p)'
    BY Zenon, <1>1, <1>3, <2>2 DEF ChildByPlace, Waiting, Locked, Destroying
  <2>5. QED
    BY Zenon, <1>1, <1>2, <1>3, <2>1, <2>2, <2>3, <2>4, MoveStep DEF OffList, Destroying
<1>5. CASE fork_thread_nomem(p)
  <2>1. /\ pc' = [pc EXCEPT ![p] = "run"] /\ ret' = [ret EXCEPT ![p] = ret[p]]
        /\ child' = [child EXCEPT ![p] = PID_INVALID]
    BY Zenon, <1>1, <1>5 DEF TypeOK, fork_thread_nomem, Goto
  <2>2. /\ pc'[p] = "run" /\ ret'[p] = ret[p] /\ child'[p] = PID_INVALID /\ "run" \in PCs
        /\ p # KernelPid /\ ret[p] \in {"run", "ex_lock", "ex_kids"}
    BY <1>1, <1>5, <2>1 DEF TypeOK, PCs, fork_thread_nomem
  <2>3. HoldsOwn(p)' = FALSE /\ StateByPlace(p)' /\ SleepByPlace(p)'
    BY Zenon, <1>1, <1>3, <2>2 DEF StateByPlace, SleepByPlace, HoldsOwn, Waiting, Locked, Destroying
  <2>4. ChildByPlace(p)'
    BY Zenon, <1>1, <1>3, <2>2 DEF ChildByPlace, Waiting, Locked, Destroying
  <2>5. QED
    BY Zenon, <1>1, <1>2, <1>3, <2>1, <2>2, <2>3, <2>4, MoveStep DEF OffList, Destroying
<1>6. QED
  BY Zenon, <1>4, <1>5

LEMMA Quiet ==
  ASSUME Good, UNCHANGED <<ptvars, pvars, lkvars, mistaken>>
  PROVE  /\ UNCHANGED <<pt_procs, pt_most_recent_pid, pt_coffin, p_state, p_parent, p_numthreads>>
         /\ UNCHANGED <<p_children, p_waitlock, p_cv, k_waitcv, pvars, lkvars, mistaken>>
         /\ (pt_coffin # PID_INVALID => Orphan(pt_coffin))'
         /\ pt_coffin' \in Pids \cup {PID_INVALID}
  BY Zenon, GoodParts DEF TypeOK, Orphan, ptvars, pvars, lkvars

\* waitpid returns before it has looked at a child.
LEMMA ReturnInv ==
  ASSUME Good, NEW p \in Pids, pc[p] \in {"wp_start", "wp_parent"}, Return(p),
         UNCHANGED <<ptvars, pvars, lkvars, options, todo, ret, mistaken>>
  PROVE  Good'
<1>1. /\ StateByPlace(p) /\ ChildByPlace(p) /\ SleepByPlace(p) /\ TypeOK /\ KernelStays
      /\ ret[p] \in {"run", "ex_lock", "ex_kids"} /\ options[p] \in {"none", "WNOHANG"}
      /\ ret[p] \in PCs
  BY Zenon, GoodParts, Types DEF PCs
<1>2. /\ pc' = [pc EXCEPT ![p] = ret[p]] /\ child' = [child EXCEPT ![p] = PID_INVALID]
      /\ options' = [options EXCEPT ![p] = options[p]] /\ ret' = [ret EXCEPT ![p] = ret[p]]
      /\ asked' \in [Pids -> Nat] /\ todo' \in [Pids -> Seq(Pids)]
  BY Zenon, <1>1, PidRanges DEF TypeOK, Return, Goto
<1>3. pc'[p] = ret[p] /\ child'[p] = PID_INVALID /\ options'[p] = options[p] /\ ret'[p] = ret[p]
  BY <1>1, <1>2 DEF TypeOK
<1>4. UNCHANGED <<p_state, p_numthreads>>
  BY Zenon DEF pvars
<1>5. (HoldsOwn(p)' <=> HoldsOwn(p)) /\ StateByPlace(p)' /\ SleepByPlace(p)'
  BY Zenon, <1>1, <1>3, <1>4 DEF StateByPlace, SleepByPlace, HoldsOwn, Waiting, Locked, Destroying
<1>6. ChildByPlace(p)'
  BY Zenon, <1>1, <1>3 DEF ChildByPlace, Locked, Destroying
<1>7. p = KernelPid => ret[p] = "run"
  BY Zenon, <1>1 DEF KernelStays
<1>8. QED
  BY Zenon, <1>1, <1>2, <1>5, <1>6, <1>7, MoveStep, Quiet DEF OffList

LEMMA WaitStartInv ==
  ASSUME Good, NEW p \in Pids, NEW pid \in WaitArgs, NEW opt \in {"none", "WNOHANG"},
         waitpid(p, pid, opt)
  PROVE  Good'
<1>1. /\ StateByPlace(p) /\ ChildByPlace(p) /\ TypeOK /\ pc[p] = "run" /\ p # KernelPid
      /\ child[p] \in Pids \cup {PID_INVALID} /\ pid \in Nat
  BY Zenon, GoodParts, Types, LifeAssumption DEF waitpid, At
<1>2. /\ pc' = [pc EXCEPT ![p] = "wp_start"] /\ child' = [child EXCEPT ![p] = child[p]]
      /\ options' = [options EXCEPT ![p] = opt] /\ ret' = [ret EXCEPT ![p] = "run"]
      /\ asked' \in [Pids -> Nat] /\ todo' \in [Pids -> Seq(Pids)]
      /\ UNCHANGED <<ptvars, pvars, lkvars, mistaken>>
  BY Zenon, <1>1 DEF TypeOK, waitpid, Goto
<1>3. pc'[p] = "wp_start" /\ child'[p] = child[p] /\ options'[p] = opt /\ ret'[p] = "run"
  BY <1>1, <1>2 DEF TypeOK
<1>4. UNCHANGED <<p_state, p_numthreads>> /\ "wp_start" \in PCs
  BY Zenon, <1>2 DEF pvars, PCs
<1>5. ~HoldsOwn(p)' /\ ~HoldsOwn(p) /\ StateByPlace(p)' /\ SleepByPlace(p)'
  BY Zenon, <1>1, <1>3, <1>4 DEF StateByPlace, SleepByPlace, HoldsOwn, Waiting, Locked, Destroying
<1>6. ChildByPlace(p)'
  BY Zenon, <1>1, <1>3, <1>4 DEF ChildByPlace, Locked, Destroying
<1>7. QED
  BY Zenon, <1>1, <1>2, <1>4, <1>5, <1>6, MoveStep, Quiet DEF OffList

LEMMA WaitGetInv == ASSUME Good, NEW p \in Pids, waitpid_get(p) PROVE Good'
<1> DEFINE q == pt_procs[slot(asked[p])]
<1>1. /\ StateByPlace(p) /\ ChildByPlace(p) /\ SleepByPlace(p) /\ TypeOK /\ KernelStays
      /\ pc[p] = "wp_start"
      /\ ret[p] \in {"run", "ex_lock", "ex_kids"} /\ options[p] \in {"none", "WNOHANG"}
  BY Zenon, GoodParts, Types DEF waitpid_get, At
<1>2. q \in Pids \cup {PID_INVALID} /\ (q # PID_INVALID => p_state[q] # "none")
  <2>1. slot(asked[p]) \in Slots
    BY Zenon, <1>1, PidRanges DEF TypeOK
  <2>2. QED
    BY <1>1, <2>1 DEF TypeOK
<1>3. CASE q = PID_INVALID
  BY Zenon, <1>1, <1>3, ReturnInv DEF waitpid_get
<1>4. CASE q # PID_INVALID
  <2>1. /\ pc' = [pc EXCEPT ![p] = "wp_parent"] /\ child' = [child EXCEPT ![p] = q]
        /\ options' = [options EXCEPT ![p] = options[p]] /\ ret' = [ret EXCEPT ![p] = ret[p]]
        /\ asked' \in [Pids -> Nat] /\ todo' \in [Pids -> Seq(Pids)]
        /\ UNCHANGED <<ptvars, pvars, lkvars, mistaken>>
    BY Zenon, <1>1, <1>4 DEF TypeOK, waitpid_get, Goto
  <2> HIDE DEF q
  <2>2. pc'[p] = "wp_parent" /\ child'[p] = q /\ options'[p] = options[p] /\ ret'[p] = ret[p]
    BY <1>1, <2>1 DEF TypeOK
  <2>3. UNCHANGED <<p_state, p_numthreads>> /\ "wp_parent" \in PCs
    BY Zenon, <2>1 DEF pvars, PCs
  <2>4. (HoldsOwn(p)' <=> HoldsOwn(p)) /\ StateByPlace(p)' /\ SleepByPlace(p)'
    BY Zenon, <1>1, <2>2, <2>3 DEF StateByPlace, SleepByPlace, HoldsOwn, Waiting, Locked, Destroying
  <2>5. ChildByPlace(p)'
    BY Zenon, <1>2, <1>4, <2>2, <2>3 DEF ChildByPlace, Locked, Destroying
  <2>6. p = KernelPid => ret[p] = "run"
    BY Zenon, <1>1 DEF KernelStays
  <2>7. QED
    BY Zenon, <1>1, <1>2, <2>1, <2>3, <2>4, <2>5, <2>6, MoveStep, Quiet DEF OffList, Waiting
<1>5. QED
  BY Zenon, <1>3, <1>4

LEMMA WaitParentInv == ASSUME Good, NEW p \in Pids, waitpid_parent(p) PROVE Good'
<1>1. /\ StateByPlace(p) /\ ChildByPlace(p) /\ SleepByPlace(p) /\ TypeOK /\ KernelStays
      /\ pc[p] = "wp_parent" /\ child[p] \in Pids
      /\ ret[p] \in {"run", "ex_lock", "ex_kids"} /\ options[p] \in {"none", "WNOHANG"}
  BY Zenon, GoodParts, Types DEF waitpid_parent, At, ChildByPlace
<1>2. CASE Return(p)
  BY Zenon, <1>1, <1>2, ReturnInv DEF waitpid_parent
<1>3. CASE MayBe(child[p], p_parent[child[p]] = p) /\ Goto(p, "wp_lock") /\ UNCHANGED <<asked, child>>
  <2>1. /\ pc' = [pc EXCEPT ![p] = "wp_lock"] /\ child' = [child EXCEPT ![p] = child[p]]
        /\ options' = [options EXCEPT ![p] = options[p]] /\ ret' = [ret EXCEPT ![p] = ret[p]]
        /\ asked' \in [Pids -> Nat] /\ todo' \in [Pids -> Seq(Pids)]
        /\ UNCHANGED <<ptvars, pvars, lkvars, mistaken>>
    BY Zenon, <1>1, <1>3 DEF TypeOK, waitpid_parent, Goto
  <2>2. pc'[p] = "wp_lock" /\ child'[p] = child[p] /\ options'[p] = options[p] /\ ret'[p] = ret[p]
    BY <1>1, <2>1 DEF TypeOK
  <2>3. /\ UNCHANGED <<p_state, p_numthreads, p_parent>> /\ "wp_lock" \in PCs
        /\ p_parent[child[p]] = p \/ p_state[child[p]] = "freed"
    BY Zenon, <1>3, <2>1 DEF pvars, PCs, MayBe
  <2>4. (HoldsOwn(p)' <=> HoldsOwn(p)) /\ StateByPlace(p)' /\ SleepByPlace(p)'
    BY Zenon, <1>1, <2>2, <2>3 DEF StateByPlace, SleepByPlace, HoldsOwn, Waiting, Locked, Destroying
  <2>5. ChildByPlace(p)'
    BY Zenon, <1>1, <2>2, <2>3 DEF ChildByPlace, Locked, Destroying
  <2>6. p = KernelPid => ret[p] = "run"
    BY Zenon, <1>1 DEF KernelStays
  <2>7. QED
    BY Zenon, <1>1, <2>1, <2>3, <2>4, <2>5, <2>6, MoveStep, Quiet DEF OffList, Waiting
<1>4. QED
  BY Zenon, <1>2, <1>3 DEF waitpid_parent

LEMMA WaitWokenInv == ASSUME Good, NEW p \in Pids, waitpid_woken(p) PROVE Good'
<1>1. /\ StateByPlace(p) /\ ChildByPlace(p) /\ SleepByPlace(p) /\ TypeOK /\ KernelStays
      /\ pc[p] = "wp_relock" /\ child[p] \in Pids
      /\ ret[p] \in {"run", "ex_lock", "ex_kids"} /\ options[p] \in {"none", "WNOHANG"}
  BY Zenon, GoodParts, Types DEF waitpid_woken, At, ChildByPlace, Locked
<1>2. /\ pc' = [pc EXCEPT ![p] = "wp_remove"] /\ child' = [child EXCEPT ![p] = child[p]]
      /\ options' = [options EXCEPT ![p] = options[p]] /\ ret' = [ret EXCEPT ![p] = ret[p]]
      /\ asked' \in [Pids -> Nat] /\ todo' \in [Pids -> Seq(Pids)]
      /\ UNCHANGED <<ptvars, pvars, lkvars, mistaken>>
  BY <1>1 DEF TypeOK, waitpid_woken, Goto, tvars
<1>3. pc'[p] = "wp_remove" /\ child'[p] = child[p] /\ options'[p] = options[p] /\ ret'[p] = ret[p]
  BY <1>1, <1>2 DEF TypeOK
<1>4. UNCHANGED <<p_state, p_numthreads, p_parent>> /\ "wp_remove" \in PCs
  BY Zenon, <1>2 DEF pvars, PCs
<1>5. (HoldsOwn(p)' <=> HoldsOwn(p)) /\ StateByPlace(p)' /\ SleepByPlace(p)'
  BY Zenon, <1>1, <1>3, <1>4 DEF StateByPlace, SleepByPlace, HoldsOwn, Waiting, Locked, Destroying
<1>6. ChildByPlace(p)'
  BY Zenon, <1>1, <1>3, <1>4 DEF ChildByPlace, Locked, Destroying
<1>7. p = KernelPid => ret[p] = "run"
  BY Zenon, <1>1 DEF KernelStays
<1>8. QED
  BY Zenon, <1>1, <1>2, <1>4, <1>5, <1>6, <1>7, MoveStep, Quiet DEF OffList, Waiting, Locked

LEMMA DestroyCheckInv == ASSUME Good, NEW p \in Pids, proc_destroy_check(p) PROVE Good'
<1>1. /\ StateByPlace(p) /\ ChildByPlace(p) /\ SleepByPlace(p) /\ TypeOK /\ KernelStays
      /\ pc[p] = "pd_check" /\ child[p] \in Pids
      /\ ret[p] \in {"run", "ex_lock", "ex_kids"} /\ options[p] \in {"none", "WNOHANG"}
  BY Zenon, GoodParts, Types DEF proc_destroy_check, At, ChildByPlace, Destroying
<1>2. CASE \E why : Panic(why)
  BY Zenon, <1>2, PanicInv DEF Panic
<1>3. CASE /\ p_numthreads[child[p]] = 0 /\ Goto(p, "pd_free")
           /\ UNCHANGED <<ptvars, pvars, lkvars, tvars, halt, mistaken>>
  <2>1. /\ pc' = [pc EXCEPT ![p] = "pd_free"] /\ child' = [child EXCEPT ![p] = child[p]]
        /\ options' = [options EXCEPT ![p] = options[p]] /\ ret' = [ret EXCEPT ![p] = ret[p]]
        /\ asked' \in [Pids -> Nat] /\ todo' \in [Pids -> Seq(Pids)]
        /\ UNCHANGED <<ptvars, pvars, lkvars, mistaken>>
    BY <1>1, <1>3 DEF TypeOK, Goto, tvars
  <2>2. pc'[p] = "pd_free" /\ child'[p] = child[p] /\ options'[p] = options[p] /\ ret'[p] = ret[p]
    BY <1>1, <2>1 DEF TypeOK
  <2>3. UNCHANGED <<p_state, p_numthreads, p_parent>> /\ "pd_free" \in PCs
    BY Zenon, <2>1 DEF pvars, PCs
  <2>4. (HoldsOwn(p)' <=> HoldsOwn(p)) /\ StateByPlace(p)' /\ SleepByPlace(p)'
    BY Zenon, <1>1, <2>2, <2>3 DEF StateByPlace, SleepByPlace, HoldsOwn, Waiting, Locked, Destroying
  <2>5. ChildByPlace(p)'
    BY Zenon, <1>1, <1>3, <2>2, <2>3 DEF ChildByPlace, Locked, Destroying, Orphan
  <2>6. p = KernelPid => ret[p] = "run"
    BY Zenon, <1>1 DEF KernelStays
  <2>7. QED
    BY Zenon, <1>1, <2>1, <2>3, <2>4, <2>5, <2>6, MoveStep, Quiet DEF OffList, Destroying
<1>4. QED
  BY Zenon, <1>2, <1>3 DEF proc_destroy_check

\* pt_reap_coffin: what is in the coffin is an orphan, unless it is mistaken for
\* one.
LEMMA ReapInv == ASSUME Good, NEW p \in Pids, exit_reap(p) PROVE IndInv'
<1> DEFINE q == pt_procs[pt_coffin]
<1>1. /\ StateByPlace(p) /\ ChildByPlace(p) /\ SleepByPlace(p) /\ TypeOK
      /\ pc[p] = "run" /\ p # KernelPid /\ child[p] \in Pids \cup {PID_INVALID}
      /\ ret[p] \in {"run", "ex_lock", "ex_kids"} /\ options[p] \in {"none", "WNOHANG"}
  BY Zenon, GoodParts, Types DEF exit_reap, At
<1>2. CASE \E why : Panic(why)
  BY Zenon, <1>2, PanicInv DEF Panic, IndInv
<1>3. CASE Goto(p, "ex_lock") /\ UNCHANGED <<ptvars, pvars, lkvars, tvars, mistaken>>
  <2>1. /\ pc' = [pc EXCEPT ![p] = "ex_lock"] /\ child' = [child EXCEPT ![p] = child[p]]
        /\ options' = [options EXCEPT ![p] = options[p]] /\ ret' = [ret EXCEPT ![p] = ret[p]]
        /\ asked' \in [Pids -> Nat] /\ todo' \in [Pids -> Seq(Pids)]
    BY Zenon, <1>1, <1>3 DEF TypeOK, Goto, tvars
  <2>2. pc'[p] = "ex_lock" /\ child'[p] = child[p] /\ options'[p] = options[p] /\ ret'[p] = ret[p]
    BY <1>1, <2>1 DEF TypeOK
  <2>3. UNCHANGED <<p_state, p_numthreads>> /\ "ex_lock" \in PCs
    BY Zenon, <1>3 DEF pvars, PCs
  <2>4. ~HoldsOwn(p)' /\ ~HoldsOwn(p) /\ StateByPlace(p)' /\ SleepByPlace(p)'
    BY Zenon, <1>1, <2>2, <2>3 DEF StateByPlace, SleepByPlace, HoldsOwn, Waiting, Locked, Destroying
  <2>5. ChildByPlace(p)'
    BY Zenon, <1>1, <2>2, <2>3 DEF ChildByPlace, Locked, Destroying
  <2>6. QED
    BY Zenon, <1>1, <1>3, <2>1, <2>3, <2>4, <2>5, MoveStep, Quiet DEF OffList, IndInv
<1>4. CASE /\ pt_coffin \in Slots \ {PID_INVALID} /\ q # PID_INVALID /\ pt_coffin' = PID_INVALID
           /\ child' = [child EXCEPT ![p] = q] /\ ret' = [ret EXCEPT ![p] = "ex_lock"]
           /\ mistaken' = IF q = pt_coffin THEN mistaken ELSE "yes"
           /\ Goto(p, "pd_check")
           /\ UNCHANGED <<pt_procs, pt_most_recent_pid, pvars, lkvars, asked, options, todo, halt>>
  <2>1. CASE q # pt_coffin
    BY Zenon, <1>4, <2>1 DEF IndInv
  <2>2. CASE q = pt_coffin
    <3>1. q \in Pids /\ Orphan(q) /\ p_state[q] # "none" /\ mistaken' = mistaken
      <4>1. q \in Pids /\ slot(q) = pt_coffin
        BY Zenon, <1>1, <1>4, Types
      <4>2. QED
        BY Zenon, <1>1, <1>4, <2>2, <4>1, GoodParts, Types
    <3>2. /\ pc' = [pc EXCEPT ![p] = "pd_check"] /\ child' = [child EXCEPT ![p] = q]
          /\ options' = [options EXCEPT ![p] = options[p]] /\ ret' = [ret EXCEPT ![p] = "ex_lock"]
          /\ asked' \in [Pids -> Nat] /\ todo' \in [Pids -> Seq(Pids)]
      BY Zenon, <1>1, <1>4 DEF TypeOK, Goto
    <3>3. UNCHANGED <<pt_procs, pt_most_recent_pid, pvars, lkvars, mistaken>> /\ pt_coffin' = PID_INVALID
      BY Zenon, <1>4, <3>1
    <3> HIDE DEF q
    <3>4. pc'[p] = "pd_check" /\ child'[p] = q /\ options'[p] = options[p] /\ ret'[p] = "ex_lock"
      BY <1>1, <3>2 DEF TypeOK
    <3>5. UNCHANGED <<p_state, p_numthreads, p_parent>> /\ "pd_check" \in PCs
      BY Zenon, <3>3 DEF pvars, PCs
    <3>6. ~HoldsOwn(p)' /\ ~HoldsOwn(p) /\ StateByPlace(p)' /\ SleepByPlace(p)'
      BY Zenon, <1>1, <3>4, <3>5 DEF StateByPlace, SleepByPlace, HoldsOwn, Waiting, Locked, Destroying
    <3>7. ChildByPlace(p)'
      BY Zenon, <1>1, <3>1, <3>4, <3>5, PidRanges DEF ChildByPlace, Locked, Destroying, Orphan
    <3>8. (pt_coffin # PID_INVALID => Orphan(pt_coffin))'
      BY Zenon, <3>3
    <3>9. QED
      BY Zenon, <1>1, <3>1, <3>2, <3>3, <3>5, <3>6, <3>7, <3>8, MoveStep DEF OffList, IndInv
  <2>3. QED
    BY Zenon, <2>1, <2>2
<1>5. QED
  BY Zenon, <1>2, <1>3, <1>4 DEF exit_reap

\* The first node of a list, and the list after it.
LEMMA FirstOfList ==
  ASSUME NEW s \in Seq(Pids), s # <<>>
  PROVE  Head(s) \in Pids /\ Tail(s) \in Seq(Pids)
  OBVIOUS

LEMMA ClearChildrenInv == ASSUME Good, NEW p \in Pids, clear_children(p) PROVE Good'
<1>1. /\ StateByPlace(p) /\ ChildByPlace(p) /\ SleepByPlace(p) /\ TypeOK /\ KernelStays
      /\ pc[p] = "ex_kids" /\ child[p] \in Pids \cup {PID_INVALID} /\ ret[p] = "ex_kids"
      /\ todo[p] \in Seq(Pids) /\ todo[p] # <<>>
  BY Zenon, GoodParts, Types DEF clear_children, At, SleepByPlace
<1>2. /\ pc' = [pc EXCEPT ![p] = "wp_start"] /\ child' = [child EXCEPT ![p] = child[p]]
      /\ options' = [options EXCEPT ![p] = "WNOHANG"] /\ ret' = [ret EXCEPT ![p] = "ex_kids"]
      /\ UNCHANGED <<ptvars, pvars, lkvars, mistaken>>
  BY <1>1 DEF TypeOK, clear_children, Goto
<1>3. asked' \in [Pids -> Nat] /\ todo' \in [Pids -> Seq(Pids)]
  <2>1. Head(todo[p]) \in Nat /\ Tail(todo[p]) \in Seq(Pids)
    BY Zenon, <1>1, FirstOfList, PidRanges
  <2>2. QED
    BY Zenon, <1>1, <2>1 DEF TypeOK, clear_children
<1>4. pc'[p] = "wp_start" /\ child'[p] = child[p] /\ options'[p] = "WNOHANG" /\ ret'[p] = "ex_kids"
  BY <1>1, <1>2 DEF TypeOK
<1>5. UNCHANGED <<p_state, p_numthreads>> /\ "wp_start" \in PCs
  BY Zenon, <1>2 DEF pvars, PCs
<1>6. HoldsOwn(p)' /\ HoldsOwn(p) /\ StateByPlace(p)' /\ SleepByPlace(p)'
  BY Zenon, <1>1, <1>4, <1>5 DEF StateByPlace, SleepByPlace, HoldsOwn, Waiting, Locked, Destroying
<1>7. ChildByPlace(p)'
  BY Zenon, <1>1, <1>4, <1>5 DEF ChildByPlace, Locked, Destroying
<1>8. p # KernelPid
  BY Zenon, <1>1 DEF KernelStays
<1>9. QED
  BY Zenon, <1>1, <1>2, <1>3, <1>5, <1>6, <1>7, <1>8, MoveStep, Quiet DEF OffList

\* A parent that sleeps for p is alive, hence in the table.
LEMMA SleeperAlive ==
  ASSUME Good, NEW c \in Pids, NEW w \in p_cv[c]
  PROVE  w \in Pids /\ p_state[w] = "alive" /\ p_parent[c] = w /\ pt_procs[slot(w)] = w
<1>1. w \in Pids /\ pc[w] = "wp_sleep" /\ child[w] = c
  BY GoodParts, Types DEF Queues
<1>2. ret[w] # "ex_kids" /\ p_parent[c] = w
  BY Zenon, <1>1, GoodParts, PidRanges DEF SleepByPlace, ChildByPlace, Waiting, Locked
<1>3. p_state[w] = "alive"
  BY Zenon, <1>1, <1>2, GoodParts DEF StateByPlace, Waiting, Locked
<1>4. QED
  BY Zenon, <1>1, <1>2, <1>3, GoodParts, Types

LEMMA ExitParentInv == ASSUME Good, NEW p \in Pids, exit_parent(p) PROVE Good'
<1> DEFINE q == pt_procs[slot(p_parent[p])]
<1>1. /\ StateByPlace(p) /\ ChildByPlace(p) /\ SleepByPlace(p) /\ TypeOK /\ KernelStays /\ Family(p)
      /\ pc[p] = "ex_kids" /\ ret[p] = "ex_kids" /\ options[p] \in {"none", "WNOHANG"}
      /\ p # KernelPid /\ p_state[p] = "zombie"
  <2>1. /\ StateByPlace(p) /\ ChildByPlace(p) /\ SleepByPlace(p) /\ TypeOK /\ KernelStays /\ Family(p)
        /\ pc[p] = "ex_kids" /\ options[p] \in {"none", "WNOHANG"}
    BY Zenon, GoodParts, Types DEF exit_parent, At
  <2>2. QED
    BY Zenon, <2>1 DEF StateByPlace, SleepByPlace, KernelStays, HoldsOwn, Waiting, Locked, Destroying
<1>2. /\ p_parent[p] \in Pids /\ p_state[p_parent[p]] \in {"alive", "zombie", "freed"}
      /\ slot(p_parent[p]) \in Slots
  BY Zenon, <1>1, Types, PidRanges DEF Family
<1>3. /\ q \in Pids \cup {PID_INVALID} /\ (q # PID_INVALID => p_state[q] # "none")
      /\ q = p_parent[p] \/ Orphan(p)
  <2>1. q \in Pids \cup {PID_INVALID} /\ (q # PID_INVALID => slot(q) = slot(p_parent[p]))
    BY Zenon, <1>1, <1>2, Types
  <2>2. q # PID_INVALID => p_state[q] # "none"
    BY Zenon, <1>1, <2>1, Types
  <2>3. q # p_parent[p] => p_state[p_parent[p]] = "freed"
    BY Zenon, <1>1, <1>2, Types
  <2>4. QED
    BY Zenon, <1>2, <2>1, <2>2, <2>3, PidRanges DEF Orphan
<1>4. /\ pc' = [pc EXCEPT ![p] = "ex_state"] /\ child' = [child EXCEPT ![p] = q]
      /\ options' = [options EXCEPT ![p] = options[p]] /\ ret' = [ret EXCEPT ![p] = "ex_kids"]
      /\ asked' \in [Pids -> Nat] /\ todo' \in [Pids -> Seq(Pids)]
      /\ UNCHANGED <<ptvars, pvars, lkvars, mistaken>>
  BY <1>1 DEF TypeOK, exit_parent, Goto
<1>5. \A w \in p_cv[p] : q = w
  BY Zenon, SleeperAlive
<1> HIDE DEF q
<1>6. pc'[p] = "ex_state" /\ child'[p] = q /\ options'[p] = options[p] /\ ret'[p] = "ex_kids"
  BY Zenon, <1>1, <1>4 DEF TypeOK
<1>7. UNCHANGED <<p_state, p_numthreads, p_parent>> /\ "ex_state" \in PCs
  BY Zenon, <1>4 DEF pvars, PCs
<1>8. HoldsOwn(p)' /\ HoldsOwn(p) /\ StateByPlace(p)' /\ SleepByPlace(p)'
  BY Zenon, <1>1, <1>6, <1>7 DEF StateByPlace, SleepByPlace, HoldsOwn, Waiting, Locked, Destroying
<1>9. ChildByPlace(p)'
  BY Zenon, <1>3, <1>6, <1>7 DEF ChildByPlace, Locked, Destroying, Orphan
<1>10. QED
  BY Zenon, <1>1, <1>3, <1>4, <1>5, <1>7, <1>8, <1>9, MoveStep, Quiet DEF OffList

LEMMA ExitStateInv == ASSUME Good, NEW p \in Pids, exit_state(p) PROVE Good'
<1>1. /\ StateByPlace(p) /\ ChildByPlace(p) /\ SleepByPlace(p) /\ TypeOK /\ KernelStays /\ Family(p)
      /\ pc[p] = "ex_state" /\ options[p] \in {"none", "WNOHANG"}
      /\ ret[p] \in {"run", "ex_lock", "ex_kids"} /\ child[p] \in Pids \cup {PID_INVALID}
      /\ p_parent[p] \in Pids \cup {PID_INVALID}
  BY Zenon, GoodParts, Types DEF exit_state, At
<1>2. PICK l \in {"ex_bury", "ex_signal"} :
        /\ pc' = [pc EXCEPT ![p] = l]
        /\ l = "ex_bury" => child[p] = PID_INVALID \/ p_state[child[p]] \in {"zombie", "freed"}
  BY Zenon DEF exit_state, Goto, MayBe
<1>3. /\ child' = [child EXCEPT ![p] = PID_INVALID] /\ options' = [options EXCEPT ![p] = options[p]]
      /\ ret' = [ret EXCEPT ![p] = ret[p]]
      /\ asked' \in [Pids -> Nat] /\ todo' \in [Pids -> Seq(Pids)]
      /\ UNCHANGED <<ptvars, pvars, lkvars, mistaken>>
  BY Zenon, <1>1 DEF TypeOK, exit_state
<1>4. p_state[p] = "zombie" /\ p # KernelPid /\ p_parent[p] \in Pids
  <2>1. p_state[p] = "zombie" /\ p # KernelPid
    BY Zenon, <1>1 DEF StateByPlace, HoldsOwn, KernelStays, Waiting, Locked, Destroying
  <2>2. QED
    BY Zenon, <1>1, <2>1 DEF Family
<1>5. l = "ex_bury" => Orphan(p) /\ p_cv[p] = {}
  <2> SUFFICES ASSUME l = "ex_bury" PROVE Orphan(p) /\ p_cv[p] = {}
    BY Zenon
  <2>1. Orphan(p)
    BY Zenon, <1>1, <1>2, <1>4, PidRanges DEF ChildByPlace, Orphan
  <2>2. QED
    BY Zenon, <2>1, SleeperAlive DEF Orphan
<1>6. pc'[p] = l /\ child'[p] = PID_INVALID /\ options'[p] = options[p] /\ ret'[p] = ret[p]
  BY <1>1, <1>2, <1>3 DEF TypeOK
<1>7. UNCHANGED <<p_state, p_numthreads, p_parent>> /\ l \in PCs
  BY Zenon, <1>3 DEF pvars, PCs
<1>8. HoldsOwn(p)' /\ HoldsOwn(p) /\ StateByPlace(p)' /\ SleepByPlace(p)'
  BY Zenon, <1>1, <1>6, <1>7 DEF StateByPlace, SleepByPlace, HoldsOwn, Waiting, Locked, Destroying
<1>9. ChildByPlace(p)'
  BY Zenon, <1>5, <1>6, <1>7 DEF ChildByPlace, Locked, Destroying, Orphan
<1>10. QED
  BY Zenon, <1>1, <1>2, <1>3, <1>4, <1>5, <1>7, <1>8, <1>9, MoveStep, Quiet DEF OffList

LEMMA BuryInv == ASSUME Good, NEW p \in Pids, pt_bury_proc(p) PROVE Good'
<1>1. /\ StateByPlace(p) /\ ChildByPlace(p) /\ SleepByPlace(p) /\ TypeOK /\ KernelStays
      /\ pc[p] = "ex_bury" /\ options[p] \in {"none", "WNOHANG"} /\ Orphan(p) /\ p # KernelPid
      /\ ret[p] \in {"run", "ex_lock", "ex_kids"} /\ child[p] \in Pids \cup {PID_INVALID}
  <2>1. /\ StateByPlace(p) /\ ChildByPlace(p) /\ SleepByPlace(p) /\ TypeOK /\ KernelStays
        /\ pc[p] = "ex_bury" /\ options[p] \in {"none", "WNOHANG"}
        /\ ret[p] \in {"run", "ex_lock", "ex_kids"} /\ child[p] \in Pids \cup {PID_INVALID}
    BY Zenon, GoodParts, Types DEF pt_bury_proc, At
  <2>2. QED
    BY Zenon, <2>1 DEF ChildByPlace, KernelStays, Waiting, Locked, Destroying
<1>2. CASE \E why : Panic(why)
  BY Zenon, <1>2, PanicInv DEF Panic
<1>3. CASE /\ pt_coffin' = p /\ Goto(p, "ex_unlock")
           /\ UNCHANGED <<pt_procs, pt_most_recent_pid, pvars, lkvars, tvars, halt, mistaken>>
  <2>1. /\ pc' = [pc EXCEPT ![p] = "ex_unlock"] /\ child' = [child EXCEPT ![p] = child[p]]
        /\ options' = [options EXCEPT ![p] = options[p]] /\ ret' = [ret EXCEPT ![p] = ret[p]]
        /\ asked' \in [Pids -> Nat] /\ todo' \in [Pids -> Seq(Pids)]
    BY Zenon, <1>1, <1>3 DEF TypeOK, Goto, tvars
  <2>2. pc'[p] = "ex_unlock" /\ child'[p] = child[p] /\ options'[p] = options[p] /\ ret'[p] = ret[p]
    BY <1>1, <2>1 DEF TypeOK
  <2>3. UNCHANGED <<p_state, p_numthreads, p_parent>> /\ "ex_unlock" \in PCs
    BY Zenon, <1>3 DEF pvars, PCs
  <2>4. HoldsOwn(p)' /\ HoldsOwn(p) /\ StateByPlace(p)' /\ SleepByPlace(p)'
    BY Zenon, <1>1, <2>2, <2>3 DEF StateByPlace, SleepByPlace, HoldsOwn, Waiting, Locked, Destroying
  <2>5. ChildByPlace(p)'
    BY Zenon, <1>1, <2>2, <2>3 DEF ChildByPlace, Locked, Destroying
  <2>6. (pt_coffin # PID_INVALID => Orphan(pt_coffin))'
    BY Zenon, <1>1, <1>3, <2>3 DEF Orphan
  <2>7. p_cv[p] = {}
    BY Zenon, <1>1, SleeperAlive DEF Orphan
  <2>8. QED
    BY Zenon, <1>1, <1>3, <2>1, <2>3, <2>4, <2>5, <2>6, <2>7, MoveStep DEF OffList
<1>4. QED
  BY Zenon, <1>2, <1>3 DEF pt_bury_proc

-----------------------------------------------------------------------------
(* Steps that take and release a p_waitlock, and go to sleep *)

LEMMA TakeLock ==
  ASSUME Good, NEW p \in Pids, NEW q \in Pids, p_waitlock[q] = PID_INVALID,
         p_waitlock' = [p_waitlock EXCEPT ![q] = p], \A x \in Pids \ {p} : Locals(x),
         pc[p] # "wp_test",
         \/ pc'[p] = "wp_test" /\ child'[p] = q /\ q # p /\ (HoldsOwn(p)' <=> HoldsOwn(p))
         \/ pc'[p] # "wp_test" /\ q = p /\ HoldsOwn(p)'
  PROVE  \A x \in Pids : LockByPlace(x)' /\ HeldByPlace(x)'
<1> SUFFICES ASSUME NEW x \in Pids PROVE LockByPlace(x)' /\ HeldByPlace(x)'
  BY Zenon
<1>1. /\ p_waitlock'[q] = p /\ \A y \in Pids \ {q} : p_waitlock'[y] = p_waitlock[y]
      /\ \A y \in Pids : p_waitlock[y] \in Pids \cup {PID_INVALID}
  BY Zenon, GoodParts DEF TypeOK
<1>2. \A y \in Pids \ {p} : HoldsOwn(y)' <=> HoldsOwn(y)
  BY Zenon DEF HoldsOwn, Locals
<1>3. LockByPlace(x)'
  <2>1. CASE x = p
    <3>1. HoldsOwn(p)' => p_waitlock'[p] = p
      BY Zenon, <1>1, GoodParts DEF LockByPlace
    <3>2. pc'[p] = "wp_test" => p_waitlock'[child'[p]] = p
      BY Zenon, <1>1
    <3>3. QED
      BY Zenon, <2>1, <3>1, <3>2 DEF LockByPlace
  <2>2. CASE x # p
    <3>1. LockByPlace(x) /\ Locals(x) /\ (HoldsOwn(x)' <=> HoldsOwn(x))
      BY Zenon, <1>2, <2>2, GoodParts
    <3>2. HoldsOwn(x) => x # q
      BY Zenon, <3>1, PidRanges DEF LockByPlace
    <3>3. pc[x] = "wp_test" => child[x] \in Pids \ {q}
      <4>1. ChildByPlace(x) /\ child[x] \in Pids \cup {PID_INVALID} /\ x # PID_INVALID
        BY Zenon, GoodParts, Types, PidRanges
      <4>2. pc[x] = "wp_test" => child[x] \in Pids /\ p_waitlock[child[x]] = x
        BY Zenon, <3>1, <4>1 DEF LockByPlace, ChildByPlace, Locked
      <4>3. QED
        BY Zenon, <1>1, <4>1, <4>2
    <3>4. QED
      BY Zenon, <1>1, <3>1, <3>2, <3>3 DEF LockByPlace, Locals
  <2>3. QED
    BY Zenon, <2>1, <2>2
<1>4. HeldByPlace(x)'
  <2>1. CASE x = q
    <3>1. \/ p = q /\ HoldsOwn(q)'
          \/ pc'[p] = "wp_test" /\ child'[p] = q
      BY Zenon
    <3>2. QED
      BY Zenon, <1>1, <2>1, <3>1 DEF HeldByPlace
  <2>2. CASE x # q
    <3>1. PICK h \in Pids \cup {PID_INVALID} : h = p_waitlock[x] /\ h = p_waitlock'[x]
      BY Zenon, <1>1, <2>2
    <3>2. CASE h = PID_INVALID
      BY Zenon, <3>1, <3>2 DEF HeldByPlace
    <3>3. CASE h = x /\ HoldsOwn(x)
      <4>1. HoldsOwn(x)'
        BY Zenon, <1>2, <2>2, <3>3
      <4>2. QED
        BY Zenon, <3>1, <3>3, <4>1 DEF HeldByPlace
    <3>4. CASE h \in Pids /\ pc[h] = "wp_test" /\ child[h] = x
      <4>1. pc'[h] = "wp_test" /\ child'[h] = x
        BY Zenon, <3>4 DEF Locals
      <4>2. QED
        BY Zenon, <3>1, <4>1 DEF HeldByPlace
    <3>5. HeldByPlace(x)
      BY Zenon, GoodParts
    <3>6. QED
      BY Zenon, <3>1, <3>2, <3>3, <3>4, <3>5 DEF HeldByPlace
  <2>3. QED
    BY Zenon, <2>1, <2>2
<1>5. QED
  BY Zenon, <1>3, <1>4

LEMMA DropLock ==
  ASSUME Good, NEW p \in Pids, NEW q \in Pids,
         p_waitlock' = [p_waitlock EXCEPT ![q] = PID_INVALID], \A x \in Pids \ {p} : Locals(x),
         pc'[p] # "wp_test",
         \/ pc[p] = "wp_test" /\ child[p] = q /\ q # p /\ (HoldsOwn(p)' <=> HoldsOwn(p))
         \/ pc[p] # "wp_test" /\ q = p /\ HoldsOwn(p) /\ ~HoldsOwn(p)'
  PROVE  \A x \in Pids : LockByPlace(x)' /\ HeldByPlace(x)'
<1> SUFFICES ASSUME NEW x \in Pids PROVE LockByPlace(x)' /\ HeldByPlace(x)'
  BY Zenon
<1>1. /\ p_waitlock'[q] = PID_INVALID /\ \A y \in Pids \ {q} : p_waitlock'[y] = p_waitlock[y]
      /\ \A y \in Pids : p_waitlock[y] \in Pids \cup {PID_INVALID}
  BY Zenon, GoodParts DEF TypeOK
<1>2. \A y \in Pids \ {p} : HoldsOwn(y)' <=> HoldsOwn(y)
  BY Zenon DEF HoldsOwn, Locals
<1>3. p_waitlock[q] = p
  BY Zenon, GoodParts DEF LockByPlace
<1>4. LockByPlace(x)'
  <2>1. CASE x = p
    <3>1. HoldsOwn(p)' => p_waitlock'[p] = p
      BY Zenon, <1>1, GoodParts DEF LockByPlace
    <3>2. QED
      BY Zenon, <2>1, <3>1 DEF LockByPlace
  <2>2. CASE x # p
    <3>1. LockByPlace(x) /\ Locals(x) /\ (HoldsOwn(x)' <=> HoldsOwn(x))
      BY Zenon, <1>2, <2>2, GoodParts
    <3>2. HoldsOwn(x) => x # q
      BY Zenon, <1>3, <2>2, <3>1 DEF LockByPlace
    <3>3. pc[x] = "wp_test" => child[x] \in Pids \ {q}
      BY Zenon, <1>3, <2>2, <3>1, PidRanges, GoodParts, Types DEF LockByPlace, ChildByPlace, Locked
    <3>4. QED
      BY Zenon, <1>1, <3>1, <3>2, <3>3 DEF LockByPlace, Locals
  <2>3. QED
    BY Zenon, <2>1, <2>2
<1>5. HeldByPlace(x)'
  <2>1. CASE x = q
    BY Zenon, <1>1, <2>1 DEF HeldByPlace
  <2>2. CASE x # q
    <3>1. PICK h \in Pids \cup {PID_INVALID} : h = p_waitlock[x] /\ h = p_waitlock'[x]
      BY Zenon, <1>1, <2>2
    <3>2. CASE h = PID_INVALID
      BY Zenon, <3>1, <3>2 DEF HeldByPlace
    <3>3. CASE h = x /\ HoldsOwn(x)
      <4>1. HoldsOwn(x)'
        BY Zenon, <1>2, <2>2, <3>3
      <4>2. QED
        BY Zenon, <3>1, <3>3, <4>1 DEF HeldByPlace
    <3>4. CASE h \in Pids /\ pc[h] = "wp_test" /\ child[h] = x
      <4>1. pc'[h] = "wp_test" /\ child'[h] = x
        BY Zenon, <2>2, <3>4 DEF Locals
      <4>2. QED
        BY Zenon, <3>1, <4>1 DEF HeldByPlace
    <3>5. HeldByPlace(x)
      BY Zenon, GoodParts
    <3>6. QED
      BY Zenon, <3>1, <3>2, <3>3, <3>4, <3>5 DEF HeldByPlace
  <2>3. QED
    BY Zenon, <2>1, <2>2
<1>6. QED
  BY Zenon, <1>4, <1>5

\* A thread that moves within waitpid, with a lock or a queue.
LEMMA WaitStep ==
  ASSUME Good, NEW p \in Pids, NEW l \in PCs, NEW c \in Pids \cup {PID_INVALID},
         pc' = [pc EXCEPT ![p] = l], child' = [child EXCEPT ![p] = c],
         p_waitlock' \in [Pids -> Pids \cup {PID_INVALID}], p_cv' \in [Pids -> SUBSET Pids],
         k_waitcv' \subseteq Pids, asked' \in [Pids -> Nat],
         UNCHANGED <<ptvars, pvars, options, todo, ret, mistaken>>,
         pc[p] # "none", l \notin {"none", "fk_fill", "fk_copy"},
         pc[p] \in OffList => l \in OffList /\ c = child[p],
         p = KernelPid => l \in {"run"} \cup Waiting \cup Destroying,
         StateByPlace(p)', ChildByPlace(p)', SleepByPlace(p)',
         Queues', WillSignal', \A q \in Pids : LockByPlace(q)' /\ HeldByPlace(q)'
  PROVE  Good'
<1>1. /\ pc'[p] = l /\ child'[p] = c /\ \A q \in Pids \ {p} : Locals(q)
      /\ pc' \in [Pids -> PCs] /\ child' \in [Pids -> Pids \cup {PID_INVALID}]
  BY GoodParts DEF TypeOK, Locals
<1>2. TypeOK'
  BY Zenon, <1>1, GoodParts DEF TypeOK, ptvars, pvars
<1>3. KernelStays'
  BY Zenon, <1>1, GoodParts, PidRanges DEF KernelStays, Locals
<1>4. Kept'
  BY Zenon, <1>1, KeptKept DEF pvars
<1>5. UNCHANGED <<pt_procs, pt_most_recent_pid, p_state, p_parent, p_numthreads>>
  BY Zenon DEF ptvars, pvars
<1>6. (pt_coffin # PID_INVALID => Orphan(pt_coffin))'
  BY Zenon, GoodParts DEF Orphan, ptvars, pvars
<1>7. QED
  BY Zenon, <1>1, <1>2, <1>3, <1>4, <1>5, <1>6, LocalStep

\* A child whose lock p takes or holds is another process.
LEMMA LockedChild ==
  ASSUME Good, NEW p \in Pids, pc[p] \in Locked
  PROVE  child[p] \in Pids /\ child[p] # p /\ p_parent[child[p]] = p
<1>1. child[p] \in Pids /\ p_parent[child[p]] = p
  BY ZenonT(40), GoodParts, Types DEF ChildByPlace
<1>2. Family(child[p])
  BY Zenon, <1>1, GoodParts
<1>3. QED
  BY <1>1, <1>2, PidRanges DEF Family

LEMMA WaitLockInv == ASSUME Good, NEW p \in Pids, waitpid_lock(p) PROVE Good'
<1>1. /\ StateByPlace(p) /\ ChildByPlace(p) /\ SleepByPlace(p) /\ TypeOK /\ KernelStays
      /\ pc[p] = "wp_lock" /\ child[p] \in Pids /\ Family(child[p])
  <2>1. /\ StateByPlace(p) /\ ChildByPlace(p) /\ SleepByPlace(p) /\ TypeOK /\ KernelStays
        /\ pc[p] = "wp_lock" /\ child[p] \in Pids
    BY Zenon, GoodParts, Types DEF waitpid_lock, At, ChildByPlace
  <2>2. QED
    BY Zenon, <2>1, GoodParts
<1>2. CASE \E why : Panic(why)
  BY Zenon, <1>2, PanicInv DEF Panic
<1>3. CASE /\ p_state[child[p]] # "freed" /\ p_waitlock[child[p]] = PID_INVALID
           /\ p_waitlock' = [p_waitlock EXCEPT ![child[p]] = p] /\ Goto(p, "wp_test")
           /\ UNCHANGED <<ptvars, pvars, p_cv, k_waitcv, tvars, halt, mistaken>>
  <2>1. PICK q \in Pids : q = child[p]
    BY Zenon, <1>1
  <2>2. /\ pc' = [pc EXCEPT ![p] = "wp_test"] /\ child' = [child EXCEPT ![p] = q]
        /\ p_waitlock' \in [Pids -> Pids \cup {PID_INVALID}] /\ p_cv' \in [Pids -> SUBSET Pids]
        /\ k_waitcv' \subseteq Pids /\ asked' \in [Pids -> Nat]
        /\ UNCHANGED <<ptvars, pvars, options, todo, ret, mistaken>>
    BY Zenon, <1>1, <1>3, <2>1 DEF TypeOK, Goto, tvars
  <2>3. /\ pc'[p] = "wp_test" /\ child'[p] = q /\ \A x \in Pids \ {p} : Locals(x)
        /\ options'[p] = options[p] /\ ret'[p] = ret[p] /\ UNCHANGED <<p_cv, k_waitcv>>
    BY <1>1, <1>3, <2>2 DEF TypeOK, Locals
  <2>4. /\ UNCHANGED <<p_state, p_numthreads, p_parent>> /\ "wp_test" \in PCs
        /\ p_parent[q] = p /\ q # p
    BY <1>1, <1>3, <2>1, <2>2, PidRanges DEF pvars, PCs, ChildByPlace, Family
  <2>5. (HoldsOwn(p)' <=> HoldsOwn(p)) /\ StateByPlace(p)' /\ SleepByPlace(p)'
    BY Zenon, <1>1, <2>3, <2>4 DEF StateByPlace, SleepByPlace, HoldsOwn, Waiting, Locked, Destroying
  <2>6. ChildByPlace(p)'
    BY Zenon, <1>1, <1>3, <2>1, <2>3, <2>4, PidRanges DEF ChildByPlace, Locked, Destroying
  <2>7. Queues'
    BY Zenon, <1>1, <2>3, QueuesKept
  <2>8. WillSignal'
    <3>1. \A w \in p_cv[p] : p_state[p] = "zombie" => HoldsOwn(p)
      BY Zenon, GoodParts, Types DEF WillSignal
    <3>2. QED
      BY Zenon, <2>3, <2>4, <2>5, <3>1, SignalKept
  <2>9. \A x \in Pids : LockByPlace(x)' /\ HeldByPlace(x)'
    BY Zenon, <1>1, <1>3, <2>1, <2>3, <2>4, <2>5, TakeLock
  <2>10. QED
    BY Zenon, <1>1, <2>1, <2>2, <2>4, <2>5, <2>6, <2>7, <2>8, <2>9, WaitStep DEF OffList, Waiting, Locked
<1>4. QED
  BY Zenon, <1>2, <1>3 DEF waitpid_lock

LEMMA WaitNohangInv == ASSUME Good, NEW p \in Pids, waitpid_nohang(p) PROVE Good'
<1>1. /\ StateByPlace(p) /\ ChildByPlace(p) /\ SleepByPlace(p) /\ TypeOK /\ KernelStays
      /\ pc[p] = "wp_test" /\ ret[p] \in {"run", "ex_lock", "ex_kids"}
      /\ ret[p] \in PCs
  BY Zenon, GoodParts, Types DEF waitpid_nohang, At, PCs
<1>2. child[p] \in Pids /\ child[p] # p
  BY Zenon, <1>1, LockedChild DEF Locked
<1>3. /\ pc' = [pc EXCEPT ![p] = ret[p]] /\ child' = [child EXCEPT ![p] = PID_INVALID]
      /\ p_waitlock' = [p_waitlock EXCEPT ![child[p]] = PID_INVALID]
      /\ p_waitlock' \in [Pids -> Pids \cup {PID_INVALID}] /\ p_cv' \in [Pids -> SUBSET Pids]
      /\ k_waitcv' \subseteq Pids /\ asked' \in [Pids -> Nat]
      /\ UNCHANGED <<ptvars, pvars, options, todo, ret, p_cv, k_waitcv, mistaken>>
  BY Zenon, <1>1, <1>2, PidRanges DEF TypeOK, waitpid_nohang, Return, Goto
<1>4. /\ pc'[p] = ret[p] /\ child'[p] = PID_INVALID /\ \A x \in Pids \ {p} : Locals(x)
      /\ options'[p] = options[p] /\ ret'[p] = ret[p] /\ UNCHANGED <<p_cv, k_waitcv>>
  BY <1>1, <1>3 DEF TypeOK, Locals
<1>5. UNCHANGED <<p_state, p_numthreads, p_parent>>
  BY Zenon, <1>3 DEF pvars
<1>6. (HoldsOwn(p)' <=> HoldsOwn(p)) /\ StateByPlace(p)' /\ SleepByPlace(p)'
  BY Zenon, <1>1, <1>4, <1>5 DEF StateByPlace, SleepByPlace, HoldsOwn, Waiting, Locked, Destroying
<1>7. ChildByPlace(p)'
  BY Zenon, <1>1, <1>4 DEF ChildByPlace, Locked, Destroying
<1>8. Queues'
  BY Zenon, <1>1, <1>4, QueuesKept
<1>9. WillSignal'
  <2>1. \A w \in p_cv[p] : p_state[p] = "zombie" => HoldsOwn(p)
    BY Zenon, GoodParts, Types DEF WillSignal
  <2>2. QED
    BY Zenon, <1>1, <1>4, <1>5, <1>6, <2>1, SignalKept
<1>10. \A x \in Pids : LockByPlace(x)' /\ HeldByPlace(x)'
  BY Zenon, <1>1, <1>2, <1>3, <1>4, <1>6, DropLock
<1>11. p = KernelPid => ret[p] = "run"
  BY Zenon, <1>1 DEF KernelStays
<1>12. QED
  BY Zenon, <1>1, <1>3, <1>6, <1>7, <1>8, <1>9, <1>10, <1>11, WaitStep DEF OffList

LEMMA WaitCopyInv == ASSUME Good, NEW p \in Pids, waitpid_copy(p) PROVE Good'
<1>1. /\ StateByPlace(p) /\ ChildByPlace(p) /\ SleepByPlace(p) /\ TypeOK /\ KernelStays
      /\ pc[p] = "wp_test" /\ "wp_remove" \in PCs
  BY Zenon, GoodParts DEF waitpid_copy, At, PCs
<1>2. PICK q \in Pids : /\ q = child[p] /\ q # p /\ p_parent[q] = p
                        /\ p_state[q] \in {"zombie", "freed"}
  BY Zenon, <1>1, LockedChild DEF Locked, waitpid_copy, MayBe
<1>3. /\ pc' = [pc EXCEPT ![p] = "wp_remove"] /\ child' = [child EXCEPT ![p] = q]
      /\ p_waitlock' = [p_waitlock EXCEPT ![q] = PID_INVALID]
      /\ p_waitlock' \in [Pids -> Pids \cup {PID_INVALID}] /\ p_cv' \in [Pids -> SUBSET Pids]
      /\ k_waitcv' \subseteq Pids /\ asked' \in [Pids -> Nat]
      /\ UNCHANGED <<ptvars, pvars, options, todo, ret, p_cv, k_waitcv, mistaken>>
  BY Zenon, <1>1, <1>2 DEF TypeOK, waitpid_copy, Goto, tvars
<1>4. /\ pc'[p] = "wp_remove" /\ child'[p] = q /\ \A x \in Pids \ {p} : Locals(x)
      /\ options'[p] = options[p] /\ ret'[p] = ret[p] /\ UNCHANGED <<p_cv, k_waitcv>>
  BY <1>1, <1>3 DEF TypeOK, Locals
<1>5. UNCHANGED <<p_state, p_numthreads, p_parent>>
  BY Zenon, <1>3 DEF pvars
<1>6. (HoldsOwn(p)' <=> HoldsOwn(p)) /\ StateByPlace(p)' /\ SleepByPlace(p)'
  BY Zenon, <1>1, <1>4, <1>5 DEF StateByPlace, SleepByPlace, HoldsOwn, Waiting, Locked, Destroying
<1>7. ChildByPlace(p)'
  BY Zenon, <1>1, <1>2, <1>4, <1>5, PidRanges DEF ChildByPlace, Locked, Destroying
<1>8. Queues'
  BY Zenon, <1>1, <1>4, QueuesKept
<1>9. WillSignal'
  <2>1. \A w \in p_cv[p] : p_state[p] = "zombie" => HoldsOwn(p)
    BY Zenon, GoodParts, Types DEF WillSignal
  <2>2. QED
    BY Zenon, <1>1, <1>4, <1>5, <1>6, <2>1, SignalKept
<1>10. \A x \in Pids : LockByPlace(x)' /\ HeldByPlace(x)'
  BY Zenon, <1>1, <1>2, <1>3, <1>4, <1>6, DropLock
<1>11. QED
  BY Zenon, <1>1, <1>3, <1>6, <1>7, <1>8, <1>9, <1>10, WaitStep DEF OffList, Waiting, Locked

\* cv_wait releases the lock and queues the thread in one step, so that a child
\* that becomes a zombie later finds it in the queue.
LEMMA WaitSleepInv == ASSUME Good, NEW p \in Pids, waitpid_sleep(p) PROVE Good'
<1>1. /\ StateByPlace(p) /\ ChildByPlace(p) /\ SleepByPlace(p) /\ TypeOK /\ KernelStays
      /\ pc[p] = "wp_test" /\ "wp_sleep" \in PCs /\ options[p] = "none"
  BY Zenon, GoodParts DEF waitpid_sleep, At, PCs
<1>2. PICK q \in Pids : q = child[p] /\ q # p /\ p_parent[q] = p /\ p_state[q] # "zombie"
  <2>1. child[p] \in Pids /\ child[p] # p /\ p_parent[child[p]] = p
    BY Zenon, <1>1, LockedChild DEF Locked
  <2>2. QED
    BY Zenon, <2>1 DEF waitpid_sleep, MayBe
<1>3. /\ pc' = [pc EXCEPT ![p] = "wp_sleep"] /\ child' = [child EXCEPT ![p] = q]
      /\ p_waitlock' = [p_waitlock EXCEPT ![q] = PID_INVALID]
      /\ p_waitlock' \in [Pids -> Pids \cup {PID_INVALID}] /\ p_cv' \in [Pids -> SUBSET Pids]
      /\ k_waitcv' \subseteq Pids /\ asked' \in [Pids -> Nat]
      /\ UNCHANGED <<ptvars, pvars, options, todo, ret, k_waitcv, mistaken>>
  BY <1>1, <1>2 DEF TypeOK, waitpid_sleep, Goto, tvars
<1>4. /\ pc'[p] = "wp_sleep" /\ child'[p] = q /\ \A x \in Pids \ {p} : Locals(x)
      /\ options'[p] = options[p] /\ ret'[p] = ret[p]
      /\ p_cv'[q] = p_cv[q] \cup {p} /\ \A x \in Pids \ {q} : p_cv'[x] = p_cv[x]
  BY <1>1, <1>2, <1>3 DEF TypeOK, Locals, waitpid_sleep
<1>5. UNCHANGED <<p_state, p_numthreads, p_parent>>
  BY Zenon, <1>3 DEF pvars
<1>6. (HoldsOwn(p)' <=> HoldsOwn(p)) /\ StateByPlace(p)' /\ SleepByPlace(p)'
  BY Zenon, <1>1, <1>4, <1>5 DEF StateByPlace, SleepByPlace, HoldsOwn, Waiting, Locked, Destroying
<1>7. ChildByPlace(p)'
  BY Zenon, <1>1, <1>2, <1>4, <1>5, PidRanges DEF ChildByPlace, Locked, Destroying
<1>8. Queues'
  BY <1>1, <1>3, <1>4, GoodParts DEF Queues, Locals
<1>9. WillSignal'
  <2> SUFFICES ASSUME NEW c \in Pids, NEW w \in Pids, w \in p_cv'[c], p_state'[c] = "zombie"
               PROVE  /\ HoldsOwn(c)' /\ pc'[c] \notin {"ex_bury", "ex_unlock"}
                      /\ pc'[c] = "ex_state" => child'[c] = w
    BY Zenon DEF WillSignal
  <2>1. c # q /\ w \in p_cv[c] /\ p_state[c] = "zombie"
    BY Zenon, <1>2, <1>4, <1>5
  <2>2. HoldsOwn(c) /\ pc[c] \notin {"ex_bury", "ex_unlock"} /\ (pc[c] = "ex_state" => child[c] = w)
    BY Zenon, <2>1, GoodParts DEF WillSignal
  <2>3. CASE c = p
    BY Zenon, <1>4, <1>6, <2>2, <2>3
  <2>4. CASE c # p
    BY Zenon, <1>4, <2>2, <2>4 DEF Locals, HoldsOwn
  <2>5. QED
    BY Zenon, <2>3, <2>4
<1>10. \A x \in Pids : LockByPlace(x)' /\ HeldByPlace(x)'
  BY Zenon, <1>1, <1>2, <1>3, <1>4, <1>6, DropLock
<1>11. QED
  BY Zenon, <1>1, <1>3, <1>6, <1>7, <1>8, <1>9, <1>10, WaitStep DEF OffList, Waiting, Locked

LEMMA WaitKwaitInv == ASSUME Good, NEW p \in Pids, waitpid_kwait(p) PROVE Good'
<1>1. /\ StateByPlace(p) /\ ChildByPlace(p) /\ SleepByPlace(p) /\ TypeOK /\ KernelStays
      /\ pc[p] = "wp_kwait" /\ "wp_ksleep" \in PCs
  BY Zenon, GoodParts DEF waitpid_kwait, At, PCs
<1>2. PICK q \in Pids : q = child[p]
  BY Zenon, <1>1, LockedChild DEF Locked
<1>3. /\ pc' = [pc EXCEPT ![p] = "wp_ksleep"] /\ child' = [child EXCEPT ![p] = q]
      /\ p_waitlock' \in [Pids -> Pids \cup {PID_INVALID}] /\ p_cv' \in [Pids -> SUBSET Pids]
      /\ k_waitcv' \subseteq Pids /\ asked' \in [Pids -> Nat] /\ k_waitcv' = k_waitcv \cup {p}
      /\ UNCHANGED <<ptvars, pvars, options, todo, ret, p_cv, p_waitlock, mistaken>>
  BY Zenon, <1>1, <1>2 DEF TypeOK, waitpid_kwait, Goto, tvars
<1>4. /\ pc'[p] = "wp_ksleep" /\ child'[p] = q /\ \A x \in Pids \ {p} : Locals(x)
      /\ options'[p] = options[p] /\ ret'[p] = ret[p] /\ UNCHANGED <<p_cv, p_waitlock>>
  BY <1>1, <1>3 DEF TypeOK, Locals
<1>5. UNCHANGED <<p_state, p_numthreads, p_parent>>
  BY Zenon, <1>3 DEF pvars
<1>6. (HoldsOwn(p)' <=> HoldsOwn(p)) /\ StateByPlace(p)' /\ SleepByPlace(p)'
  BY Zenon, <1>1, <1>4, <1>5 DEF StateByPlace, SleepByPlace, HoldsOwn, Waiting, Locked, Destroying
<1>7. ChildByPlace(p)'
  BY Zenon, <1>1, <1>2, <1>4, <1>5 DEF ChildByPlace, Locked, Destroying
<1>8. Queues'
  BY <1>1, <1>3, <1>4, GoodParts DEF Queues, Locals
<1>9. WillSignal'
  <2>1. \A w \in p_cv[p] : p_state[p] = "zombie" => HoldsOwn(p)
    BY Zenon, GoodParts, Types DEF WillSignal
  <2>2. QED
    BY Zenon, <1>1, <1>4, <1>5, <1>6, <2>1, SignalKept
<1>10. \A x \in Pids : LockByPlace(x)' /\ HeldByPlace(x)'
  BY Zenon, <1>1, <1>4, <1>6, PlacesKept
<1>11. QED
  BY Zenon, <1>1, <1>2, <1>3, <1>6, <1>7, <1>8, <1>9, <1>10, WaitStep DEF OffList, Waiting, Locked

LEMMA ExitUnlockInv == ASSUME Good, NEW p \in Pids, exit_unlock(p) PROVE Good'
<1>1. /\ StateByPlace(p) /\ ChildByPlace(p) /\ SleepByPlace(p) /\ TypeOK /\ KernelStays
      /\ pc[p] = "ex_unlock" /\ "tx_rem" \in PCs /\ child[p] \in Pids \cup {PID_INVALID}
  BY Zenon, GoodParts, Types DEF exit_unlock, At, PCs
<1>2. /\ pc' = [pc EXCEPT ![p] = "tx_rem"] /\ child' = [child EXCEPT ![p] = child[p]]
      /\ p_waitlock' = [p_waitlock EXCEPT ![p] = PID_INVALID]
      /\ p_waitlock' \in [Pids -> Pids \cup {PID_INVALID}] /\ p_cv' \in [Pids -> SUBSET Pids]
      /\ k_waitcv' \subseteq Pids /\ asked' \in [Pids -> Nat]
      /\ UNCHANGED <<ptvars, pvars, options, todo, ret, p_cv, k_waitcv, mistaken>>
  BY Zenon, <1>1 DEF TypeOK, exit_unlock, Goto, tvars
<1>3. /\ pc'[p] = "tx_rem" /\ child'[p] = child[p] /\ \A x \in Pids \ {p} : Locals(x)
      /\ options'[p] = options[p] /\ ret'[p] = ret[p] /\ UNCHANGED <<p_cv, k_waitcv>>
  BY <1>1, <1>2 DEF TypeOK, Locals
<1>4. UNCHANGED <<p_state, p_numthreads, p_parent>>
  BY Zenon, <1>2 DEF pvars
<1>5. HoldsOwn(p) /\ ~HoldsOwn(p)' /\ StateByPlace(p)' /\ SleepByPlace(p)' /\ p_state[p] = "zombie"
  BY Zenon, <1>1, <1>3, <1>4 DEF StateByPlace, SleepByPlace, HoldsOwn, Waiting, Locked, Destroying
<1>6. ChildByPlace(p)'
  BY Zenon, <1>1, <1>3, <1>4 DEF ChildByPlace, Locked, Destroying
<1>7. Queues'
  BY Zenon, <1>1, <1>3, QueuesKept
<1>8. WillSignal'
  <2>1. \A w \in p_cv[p] : FALSE
    BY Zenon, <1>1, <1>5, GoodParts, Types DEF WillSignal
  <2>2. QED
    BY Zenon, <1>3, <1>4, <2>1, SignalKept
<1>9. \A x \in Pids : LockByPlace(x)' /\ HeldByPlace(x)'
  BY Zenon, <1>1, <1>2, <1>3, <1>5, DropLock
<1>10. p # KernelPid
  BY Zenon, <1>1 DEF KernelStays, Waiting, Locked, Destroying
<1>11. QED
  BY Zenon, <1>1, <1>2, <1>5, <1>6, <1>7, <1>8, <1>9, <1>10, WaitStep DEF OffList

\* Two lists, one after the other.
LEMMA TwoLists ==
  ASSUME NEW a \in Seq(Pids), NEW b \in Seq(Pids)
  PROVE  /\ a \o b \in Seq(Pids) /\ Len(a \o b) = Len(a) + Len(b)
         /\ \A m \in 1..(Len(a) + Len(b)) :
              (a \o b)[m] = IF m <= Len(a) THEN a[m] ELSE b[m - Len(a)]
<1>1. a \o b \in Seq(Pids) /\ Len(a \o b) = Len(a) + Len(b)
  OBVIOUS
<1>2. \A m \in 1..(Len(a) + Len(b)) :
        (a \o b)[m] = IF m <= Len(a) THEN a[m] ELSE b[m - Len(a)]
  OBVIOUS
<1>3. QED
  BY <1>1, <1>2

\* A list without its i-th node has all the others.
LEMMA WithoutOne ==
  ASSUME NEW s \in Seq(Pids), NEW i \in 1..Len(s)
  PROVE  /\ Without(s, i) \in Seq(Pids)
         /\ \A k \in 1..Len(s) : k # i =>
              \E m \in 1..Len(Without(s, i)) : Without(s, i)[m] = s[k]
<1> DEFINE a == SubSeq(s, 1, i - 1)
           b == SubSeq(s, i + 1, Len(s))
<1>0. Len(s) \in Nat /\ i \in Int
  OBVIOUS
<1>1. /\ a \in Seq(Pids) /\ Len(a) = i - 1 /\ \A k \in 1..(i - 1) : a[k] = s[k]
  <2>1. a \in Seq(Pids) /\ Len(a) = IF 1 <= i - 1 THEN (i - 1) - 1 + 1 ELSE 0
    BY <1>0
  <2>2. \A k \in 1..(i - 1) : a[k] = s[k]
    BY <1>0
  <2>3. QED
    BY <1>0, <2>1, <2>2
<1>2. /\ b \in Seq(Pids) /\ Len(b) = Len(s) - i /\ \A k \in 1..(Len(s) - i) : b[k] = s[i + k]
  BY <1>0
<1> HIDE DEF a, b
<1>3. /\ a \o b \in Seq(Pids) /\ Len(a \o b) = Len(s) - 1
      /\ \A k \in 1..(i - 1) : (a \o b)[k] = s[k]
      /\ \A k \in (i + 1)..Len(s) : (a \o b)[k - 1] = s[k]
  <2>1. /\ a \o b \in Seq(Pids) /\ Len(a \o b) = Len(a) + Len(b)
        /\ \A m \in 1..(Len(a) + Len(b)) :
             (a \o b)[m] = IF m <= Len(a) THEN a[m] ELSE b[m - Len(a)]
    BY Zenon, <1>1, <1>2, TwoLists
  <2>2. Len(a) + Len(b) = Len(s) - 1
    BY <1>0, <1>1, <1>2
  <2>3. ASSUME NEW k \in 1..(i - 1) PROVE (a \o b)[k] = s[k]
    BY <1>0, <1>1, <2>1, <2>2, <2>3
  <2>4. ASSUME NEW k \in (i + 1)..Len(s) PROVE (a \o b)[k - 1] = s[k]
    <3>1. /\ k - 1 \in 1..(Len(a) + Len(b)) /\ ~(k - 1 <= Len(a))
          /\ (k - 1) - Len(a) = k - i /\ k - i \in 1..(Len(s) - i) /\ i + (k - i) = k
      <4>1. PICK la \in Int, n \in Nat : la = Len(a) /\ n = Len(s) /\ la = i - 1
        BY <1>0, <1>1
      <4>2. k \in (i + 1)..n /\ i \in 1..n /\ Len(a) + Len(b) = n - 1
        BY Zenon, <2>2, <2>4, <4>1
      <4>3. /\ k - 1 \in 1..(n - 1) /\ ~(k - 1 <= la) /\ (k - 1) - la = k - i
            /\ k - i \in 1..(n - i) /\ i + (k - i) = k
        BY <4>1, <4>2
      <4>4. QED
        BY Zenon, <4>1, <4>2, <4>3
    <3>2. b[k - i] = s[i + (k - i)]
      BY Zenon, <1>2, <3>1
    <3>3. QED
      BY Zenon, <2>1, <3>1, <3>2
  <2>5. QED
    BY Zenon, <2>1, <2>2, <2>3, <2>4
<1>4. ASSUME NEW k \in 1..Len(s), k # i PROVE \E m \in 1..Len(a \o b) : (a \o b)[m] = s[k]
  <2>1. CASE k < i
    <3>1. k \in 1..Len(a \o b) /\ (a \o b)[k] = s[k]
      BY <1>0, <1>3, <1>4, <2>1
    <3>2. QED
      BY Zenon, <3>1
  <2>2. CASE k > i
    <3>1. k - 1 \in 1..Len(a \o b) /\ (a \o b)[k - 1] = s[k]
      BY <1>0, <1>3, <1>4, <2>2
    <3>2. QED
      BY Zenon, <3>1
  <2>3. QED
    BY <1>0, <1>4, <2>1, <2>2
<1>5. QED
  <2>1. Without(s, i) = a \o b
    BY Zenon DEF a, b, Without
  <2>2. QED
    BY Zenon, <1>3, <1>4, <2>1

LEMMA RemoveChildInv == ASSUME Good, NEW p \in Pids, remove_child(p) PROVE Good'
<1>1. /\ StateByPlace(p) /\ ChildByPlace(p) /\ SleepByPlace(p) /\ TypeOK /\ KernelStays
      /\ pc[p] = "wp_remove" /\ p_children[p] \in Seq(Pids)
  BY Zenon, GoodParts, Types DEF remove_child, At
<1>2. PICK q \in Pids : q = child[p] /\ p_parent[q] = p /\ (p_state[p] = "alive" => p_state[q] # "freed")
  BY Zenon, <1>1, LockedChild DEF Locked, ChildByPlace
<1>3. CASE \E why : Panic(why)
  BY Zenon, <1>3, PanicInv DEF Panic
<1>4. CASE ~ \E why : Panic(why)
  <2>1. PICK i \in 1..Len(p_children[p]), l \in {"wp_kwait", "pd_check"} :
          /\ MayBe(q, p_children[p][i] = q)
          /\ p_children' = [p_children EXCEPT ![p] = Without(p_children[p], i)]
          /\ pc' = [pc EXCEPT ![p] = l]
          /\ UNCHANGED <<ptvars, p_state, p_parent, p_numthreads, lkvars, tvars, halt, mistaken>>
    BY Zenon, <1>2, <1>4 DEF remove_child, Goto, MayBe
  <2>2. PICK t \in Seq(Pids) :
          /\ p_children' = [p_children EXCEPT ![p] = t]
          /\ \A k \in 1..Len(p_children[p]) : k # i => \E m \in 1..Len(t) : t[m] = p_children[p][k]
    BY Zenon, <1>1, <2>1, WithoutOne
  <2>3. /\ pc'[p] = l /\ child'[p] = q /\ \A x \in Pids \ {p} : Locals(x)
        /\ options'[p] = options[p] /\ ret'[p] = ret[p] /\ UNCHANGED <<p_cv, k_waitcv, p_waitlock>>
        /\ pc' \in [Pids -> PCs]
        /\ p_children'[p] = t /\ p_children' \in [Pids -> Seq(Pids)]
        /\ \A x \in Pids \ {p} : p_children'[x] = p_children[x]
    <3>1. /\ p_children'[p] = t /\ p_children' \in [Pids -> Seq(Pids)]
          /\ \A x \in Pids \ {p} : p_children'[x] = p_children[x]
      BY <1>1, <2>2 DEF TypeOK
    <3>2. /\ UNCHANGED <<asked, child, options, todo, ret, p_cv, k_waitcv, p_waitlock>>
          /\ l \in PCs /\ pc \in [Pids -> PCs] /\ pc' = [pc EXCEPT ![p] = l]
      BY Zenon, <1>1, <2>1 DEF TypeOK, lkvars, tvars, PCs
    <3>3. QED
      BY Zenon, <1>2, <3>1, <3>2 DEF Locals
  <2>4. TypeOK'
    BY Zenon, <1>1, <2>1, <2>3 DEF TypeOK, ptvars, lkvars, tvars
  <2>5. (HoldsOwn(p)' <=> HoldsOwn(p)) /\ StateByPlace(p)' /\ SleepByPlace(p)'
    BY Zenon, <1>1, <2>1, <2>3 DEF StateByPlace, SleepByPlace, HoldsOwn, Waiting, Locked, Destroying
  <2>6. ChildByPlace(p)'
    BY Zenon, <1>1, <1>2, <2>1, <2>3 DEF ChildByPlace, Locked, Destroying
  <2>7. Kept'
    <3> SUFFICES ASSUME NEW c \in Pids, NEW x \in Pids, p_parent'[c] = x,
                        p_state'[c] \in {"alive", "zombie"}, p_state'[x] = "alive"
                 PROVE  \/ \E m \in 1..Len(p_children'[x]) : p_children'[x][m] = c
                        \/ child'[x] = c /\ pc'[x] \in OffList
      BY Zenon DEF Kept, OffList
    <3>1. \/ \E k \in 1..Len(p_children[x]) : p_children[x][k] = c
          \/ child[x] = c /\ pc[x] \in OffList
      BY Zenon, <2>1, GoodParts DEF Kept, OffList
    <3>2. CASE x # p
      BY Zenon, <2>3, <3>1, <3>2 DEF Locals
    <3>3. CASE x = p
      <4>1. PICK k \in 1..Len(p_children[p]) : p_children[p][k] = c
        BY Zenon, <1>1, <3>1, <3>3 DEF OffList
      <4>2. p_children[p][i] = q
        BY Zenon, <1>2, <2>1, <3>3 DEF MayBe
      <4>3. CASE k = i
        BY Zenon, <2>3, <3>3, <4>1, <4>2, <4>3 DEF OffList
      <4>4. CASE k # i
        BY <2>2, <2>3, <3>3, <4>1, <4>4
      <4>5. QED
        BY Zenon, <4>3, <4>4
    <3>4. QED
      BY Zenon, <3>2, <3>3
  <2>8. Queues'
    BY Zenon, <1>1, <2>1, <2>3, QueuesKept
  <2>9. WillSignal'
    <3>1. \A w \in p_cv[p] : p_state[p] = "zombie" => HoldsOwn(p)
      BY Zenon, GoodParts, Types DEF WillSignal
    <3>2. QED
      BY Zenon, <1>1, <2>1, <2>3, <2>5, <3>1, SignalKept
  <2>10. \A x \in Pids : LockByPlace(x)' /\ HeldByPlace(x)'
    BY Zenon, <1>1, <2>1, <2>3, <2>5, PlacesKept
  <2>11. KernelStays'
    BY ZenonT(40), <1>1, <2>1, <2>3, PidRanges DEF KernelStays, Locals, Waiting, Locked, Destroying
  <2>12. (pt_coffin # PID_INVALID => Orphan(pt_coffin))'
    BY Zenon, <2>1, GoodParts DEF Orphan, ptvars
  <2>13. UNCHANGED <<pt_procs, pt_most_recent_pid, p_state, p_parent, p_numthreads>>
    BY Zenon, <2>1 DEF ptvars
  <2>14. QED
    BY Zenon, <1>1, <2>1, <2>3, <2>4, <2>5, <2>6, <2>7, <2>8, <2>9, <2>10, <2>11, <2>12, <2>13, LocalStep
<1>5. QED
  BY Zenon, <1>3, <1>4

-----------------------------------------------------------------------------
(* The end of a process *)

LEMMA ExitZombieInv == ASSUME Good, NEW p \in Pids, exit_zombie(p) PROVE Good'
<1>1. /\ StateByPlace(p) /\ ChildByPlace(p) /\ TypeOK /\ KernelStays
      /\ pc[p] = "ex_lock" /\ p_children[p] \in Seq(Pids) /\ p_state[p] = "alive" /\ p # KernelPid
  <2>1. /\ StateByPlace(p) /\ ChildByPlace(p) /\ TypeOK /\ KernelStays
        /\ pc[p] = "ex_lock" /\ p_children[p] \in Seq(Pids)
    BY Zenon, GoodParts, Types DEF exit_zombie, At
  <2>2. QED
    BY Zenon, <2>1 DEF StateByPlace, KernelStays, Waiting, Locked, Destroying
<1>2. /\ pc'[p] = "ex_kids" /\ child' = child /\ ret'[p] = "ex_kids" /\ p_state'[p] = "zombie"
      /\ \A x \in Pids \ {p} : Locals(x) /\ p_state'[x] = p_state[x]
      /\ p_waitlock[p] = PID_INVALID /\ p_waitlock' = [p_waitlock EXCEPT ![p] = p]
      /\ UNCHANGED <<pt_procs, pt_most_recent_pid, pt_coffin, p_parent, p_numthreads>>
      /\ UNCHANGED <<p_children, p_cv, k_waitcv>>
  BY <1>1 DEF TypeOK, exit_zombie, Locals, Goto, ptvars
<1>3. TypeOK'
  <2>1. /\ pc' \in [Pids -> PCs] /\ p_state' \in [Pids -> {"none", "new", "alive", "zombie", "freed"}]
        /\ p_waitlock' \in [Pids -> Pids \cup {PID_INVALID}] /\ todo' \in [Pids -> Seq(Pids)]
        /\ ret' \in [Pids -> {"run", "ex_lock", "ex_kids"}]
        /\ UNCHANGED <<asked, child, options, mistaken>>
    BY Zenon, <1>1 DEF TypeOK, exit_zombie, Goto, PCs
  <2>2. \A x \in Pids : p_state'[x] \notin {"none", "freed"} <=> pt_procs'[slot(x)] = x
    BY Zenon, <1>1, <1>2, Types
  <2>3. QED
    BY Zenon, <1>1, <1>2, <2>1, <2>2 DEF TypeOK
<1>4. HoldsOwn(p)' /\ StateByPlace(p)' /\ SleepByPlace(p)'
  BY Zenon, <1>1, <1>2 DEF StateByPlace, SleepByPlace, HoldsOwn, Waiting, Locked, Destroying
<1>5. \A x \in Pids : p_state'[x] = "none" => p_state[x] = "none"
  BY Zenon, <1>1, <1>2
<1>6. ChildByPlace(p)'
  BY Zenon, <1>1, <1>2, <1>5, Types DEF ChildByPlace, Locked, Destroying
<1>7. PICK M \in SUBSET Pids : M = {p}
  BY Zenon
<1>8. Kept'
  BY Zenon, <1>1, <1>2, <1>7, GroupKept
<1>9. Queues'
  BY Zenon, <1>1, <1>2, QueuesKept
<1>10. WillSignal'
  <2> SUFFICES ASSUME NEW c \in Pids, NEW w \in Pids, w \in p_cv'[c], p_state'[c] = "zombie"
               PROVE  /\ HoldsOwn(c)' /\ pc'[c] \notin {"ex_bury", "ex_unlock"}
                      /\ pc'[c] = "ex_state" => child'[c] = w
    BY Zenon DEF WillSignal
  <2>1. CASE c = p
    BY Zenon, <1>2, <1>4, <2>1
  <2>2. CASE c # p
    <3>1. HoldsOwn(c) /\ pc[c] \notin {"ex_bury", "ex_unlock"} /\ (pc[c] = "ex_state" => child[c] = w)
      BY Zenon, <1>2, <2>2, GoodParts DEF WillSignal
    <3>2. QED
      BY Zenon, <1>2, <2>2, <3>1 DEF Locals, HoldsOwn
  <2>3. QED
    BY Zenon, <2>1, <2>2
<1>11. \A x \in Pids : LockByPlace(x)' /\ HeldByPlace(x)'
  BY Zenon, <1>1, <1>2, <1>4, TakeLock
<1>12. KernelStays'
  BY Zenon, <1>1, <1>2, PidRanges DEF KernelStays, Locals
<1>13. (pt_coffin # PID_INVALID => Orphan(pt_coffin))'
  <2> SUFFICES ASSUME pt_coffin # PID_INVALID PROVE Orphan(pt_coffin)'
    BY Zenon, <1>2
  <2>1. pt_coffin \in Pids /\ Orphan(pt_coffin) /\ p_parent[pt_coffin] \in Pids \cup {PID_INVALID}
    BY Zenon, <1>1, GoodParts, Types DEF TypeOK
  <2>2. QED
    BY Zenon, <1>1, <1>2, <2>1 DEF Orphan
<1>14. \A q \in M : /\ pc[q] # "none" /\ pc'[q] \notin {"none", "fk_fill", "fk_copy"}
                    /\ StateByPlace(q)' /\ ChildByPlace(q)' /\ SleepByPlace(q)'
  <2> SUFFICES ASSUME NEW q \in M
               PROVE  /\ pc[q] # "none" /\ pc'[q] \notin {"none", "fk_fill", "fk_copy"}
                      /\ StateByPlace(q)' /\ ChildByPlace(q)' /\ SleepByPlace(q)'
    BY Zenon
  <2>1. q = p
    BY Zenon, <1>7
  <2>2. QED
    BY Zenon, <1>1, <1>2, <1>4, <1>6, <2>1
<1>15. QED
  BY Zenon, <1>1, <1>2, <1>3, <1>7, <1>8, <1>9, <1>10, <1>11, <1>12, <1>13, <1>14, GroupStep

\* cv_signal: the parent is the only one that can sleep.
LEMMA ExitSignalInv == ASSUME Good, NEW p \in Pids, exit_signal(p) PROVE Good'
<1>1. /\ StateByPlace(p) /\ ChildByPlace(p) /\ SleepByPlace(p) /\ TypeOK /\ KernelStays
      /\ pc[p] = "ex_signal" /\ "ex_unlock" \in PCs /\ child[p] \in Pids \cup {PID_INVALID}
  BY Zenon, GoodParts, Types DEF exit_signal, At, PCs
<1>2. p_state[p] = "zombie" /\ p # KernelPid
  BY Zenon, <1>1 DEF StateByPlace, HoldsOwn, KernelStays, Waiting, Locked, Destroying
<1>3. /\ UNCHANGED <<ptvars, pvars, p_waitlock, k_waitcv, asked, child, options, todo, ret, mistaken>>
      /\ UNCHANGED <<pt_procs, pt_most_recent_pid, pt_coffin, p_state, p_parent, p_numthreads, p_children>>
  BY Zenon DEF exit_signal, ptvars, pvars, tvars
<1>4. CASE p_cv[p] = {} /\ Goto(p, "ex_unlock") /\ UNCHANGED p_cv
  <2>1. /\ pc' = [pc EXCEPT ![p] = "ex_unlock"] /\ child' = [child EXCEPT ![p] = child[p]]
        /\ p_waitlock' \in [Pids -> Pids \cup {PID_INVALID}] /\ p_cv' \in [Pids -> SUBSET Pids]
        /\ k_waitcv' \subseteq Pids /\ asked' \in [Pids -> Nat]
    BY Zenon, <1>1, <1>3, <1>4 DEF TypeOK, Goto
  <2>2. /\ pc'[p] = "ex_unlock" /\ child'[p] = child[p] /\ \A x \in Pids \ {p} : Locals(x)
        /\ options'[p] = options[p] /\ ret'[p] = ret[p]
    BY <1>1, <1>3, <2>1 DEF TypeOK, Locals
  <2>3. HoldsOwn(p) /\ HoldsOwn(p)' /\ StateByPlace(p)' /\ SleepByPlace(p)'
    BY Zenon, <1>1, <1>3, <2>2 DEF StateByPlace, SleepByPlace, HoldsOwn, Waiting, Locked, Destroying
  <2>4. ChildByPlace(p)'
    BY Zenon, <1>1, <1>3, <2>2 DEF ChildByPlace, Locked, Destroying
  <2>5. Queues' /\ WillSignal'
    BY Zenon, <1>1, <1>3, <1>4, <2>2, QueuesKept, SignalKept
  <2>6. \A x \in Pids : LockByPlace(x)' /\ HeldByPlace(x)'
    BY Zenon, <1>1, <1>3, <2>2, <2>3, PlacesKept
  <2>7. QED
    BY Zenon, <1>1, <1>2, <1>3, <2>1, <2>3, <2>4, <2>5, <2>6, WaitStep DEF OffList
<1>5. CASE \E w \in p_cv[p] : /\ p_cv' = [p_cv EXCEPT ![p] = @ \ {w}]
                              /\ pc' = [pc EXCEPT ![p] = "ex_unlock", ![w] = "wp_relock"]
  <2>1. PICK w \in Pids : /\ w \in p_cv[p] /\ p_cv' = [p_cv EXCEPT ![p] = @ \ {w}]
                          /\ pc' = [pc EXCEPT ![p] = "ex_unlock", ![w] = "wp_relock"]
    BY Zenon, <1>1, <1>5, Types
  <2>2. /\ pc[w] = "wp_sleep" /\ child[w] = p /\ w # p /\ p_state[w] = "alive" /\ p_parent[p] = w
        /\ StateByPlace(w) /\ ChildByPlace(w) /\ SleepByPlace(w)
    BY Zenon, <1>1, <2>1, GoodParts, SleeperAlive DEF Queues
  <2>3. p_cv[p] = {w}
    BY <2>1, <2>2, SleeperAlive
  <2>4. PICK M \in SUBSET Pids : M = {p, w}
    BY Zenon
  <2>5. /\ pc'[p] = "ex_unlock" /\ pc'[w] = "wp_relock" /\ \A x \in Pids \ M : Locals(x)
        /\ \A x \in Pids \ {p, w} : pc'[x] = pc[x]
        /\ pc' \in [Pids -> PCs] /\ p_cv' \in [Pids -> SUBSET Pids]
        /\ p_cv'[p] = {} /\ \A x \in Pids \ {p} : p_cv'[x] = p_cv[x]
    BY ZenonT(40), <1>1, <1>3, <2>1, <2>2, <2>3, <2>4 DEF TypeOK, Locals, PCs
  <2>6. TypeOK'
    BY Zenon, <1>1, <1>3, <2>5 DEF TypeOK
  <2>7. HoldsOwn(p)' /\ HoldsOwn(p) /\ StateByPlace(p)' /\ SleepByPlace(p)'
    BY Zenon, <1>1, <1>3, <2>5 DEF StateByPlace, SleepByPlace, HoldsOwn, Waiting, Locked, Destroying
  <2>8. (HoldsOwn(w)' <=> HoldsOwn(w)) /\ StateByPlace(w)' /\ SleepByPlace(w)'
    BY Zenon, <1>3, <2>2, <2>5 DEF StateByPlace, SleepByPlace, HoldsOwn, Waiting, Locked, Destroying
  <2>9. ChildByPlace(p)'
    BY Zenon, <1>1, <1>3, <2>5 DEF ChildByPlace, Locked, Destroying
  <2>10. ChildByPlace(w)'
    BY Zenon, <1>2, <1>3, <2>2, <2>5, PidRanges DEF ChildByPlace, Locked, Destroying
  <2>11. Queues'
    BY <1>1, <1>3, <2>1, <2>2, <2>3, <2>5, GoodParts DEF Queues
  <2>12. WillSignal'
    <3> SUFFICES ASSUME NEW c \in Pids, NEW x \in Pids, x \in p_cv'[c], p_state'[c] = "zombie"
                 PROVE  /\ HoldsOwn(c)' /\ pc'[c] \notin {"ex_bury", "ex_unlock"}
                        /\ pc'[c] = "ex_state" => child'[c] = x
      BY Zenon DEF WillSignal
    <3>1. c # p /\ c # w /\ x \in p_cv[c] /\ p_state[c] = "zombie"
      BY Zenon, <1>3, <2>2, <2>5
    <3>2. HoldsOwn(c) /\ pc[c] \notin {"ex_bury", "ex_unlock"} /\ (pc[c] = "ex_state" => child[c] = x)
      BY Zenon, <3>1, GoodParts DEF WillSignal
    <3>3. QED
      BY Zenon, <1>3, <2>5, <3>1, <3>2 DEF HoldsOwn
  <2>13. \A q \in M : /\ pc[q] # "none" /\ pc'[q] \notin {"none", "fk_fill", "fk_copy"}
                      /\ StateByPlace(q)' /\ ChildByPlace(q)' /\ SleepByPlace(q)'
    <3> SUFFICES ASSUME NEW q \in M
                 PROVE  /\ pc[q] # "none" /\ pc'[q] \notin {"none", "fk_fill", "fk_copy"}
                        /\ StateByPlace(q)' /\ ChildByPlace(q)' /\ SleepByPlace(q)'
      BY Zenon
    <3>1. CASE q = p
      BY Zenon, <1>1, <2>5, <2>7, <2>9, <3>1
    <3>2. CASE q = w
      BY Zenon, <2>2, <2>5, <2>8, <2>10, <3>2
    <3>3. QED
      BY Zenon, <2>4, <3>1, <3>2
  <2>14. \A q \in M : HoldsOwn(q)' <=> HoldsOwn(q)
    <3> SUFFICES ASSUME NEW q \in M PROVE HoldsOwn(q)' <=> HoldsOwn(q)
      BY Zenon
    <3>1. CASE q = p
      BY Zenon, <2>7, <3>1
    <3>2. CASE q = w
      BY Zenon, <2>8, <3>2
    <3>3. QED
      BY Zenon, <2>4, <3>1, <3>2
  <2>15. \A x \in Pids : LockByPlace(x)' /\ HeldByPlace(x)'
    <3>1. \A q \in M : pc[q] # "wp_test" /\ pc'[q] # "wp_test"
      BY Zenon, <1>1, <2>2, <2>4, <2>5
    <3>2. QED
      BY Zenon, <1>3, <2>5, <2>14, <3>1, GroupPlaces
  <2>16. Kept'
    <3>1. \A q \in M : pc[q] \notin OffList
      BY Zenon, <1>1, <2>2, <2>4 DEF OffList
    <3>2. QED
      BY Zenon, <1>3, <2>5, <3>1, GroupKept
  <2>17. KernelStays'
    BY Zenon, <1>1, <1>2, <1>3, <2>5, PidRanges DEF KernelStays, Waiting, Locked, Destroying
  <2>18. (pt_coffin # PID_INVALID => Orphan(pt_coffin))'
    BY Zenon, <1>3, GoodParts DEF Orphan
  <2>19. QED
    BY Zenon, <1>3, <2>5, <2>6, <2>11, <2>12, <2>13, <2>15, <2>16, <2>17, <2>18, GroupStep
<1>6. QED
  BY Zenon, <1>4, <1>5 DEF exit_signal

LEMMA ExitRemInv == ASSUME Good, NEW p \in Pids, thread_exit_rem(p) PROVE Good'
<1>1. /\ StateByPlace(p) /\ ChildByPlace(p) /\ SleepByPlace(p) /\ TypeOK /\ KernelStays
      /\ pc[p] = "tx_rem" /\ "tx_wake" \in PCs /\ p_numthreads[p] = 1
  <2>1. /\ StateByPlace(p) /\ ChildByPlace(p) /\ SleepByPlace(p) /\ TypeOK /\ KernelStays
        /\ pc[p] = "tx_rem" /\ "tx_wake" \in PCs
    BY Zenon, GoodParts DEF thread_exit_rem, At, PCs
  <2>2. QED
    BY Zenon, <2>1 DEF StateByPlace
<1>2. /\ UNCHANGED <<asked, child, options, todo, ret, p_waitlock, p_cv, k_waitcv, mistaken>>
      /\ UNCHANGED <<pt_procs, pt_most_recent_pid, pt_coffin, p_state, p_parent, p_children>>
  BY Zenon DEF thread_exit_rem, ptvars, lkvars, tvars
<1>3. /\ pc'[p] = "tx_wake" /\ \A x \in Pids \ {p} : Locals(x) /\ p_numthreads'[x] = p_numthreads[x]
      /\ pc' \in [Pids -> PCs] /\ p_numthreads'[p] = 0 /\ p_numthreads' \in [Pids -> {0, 1}]
  BY <1>1, <1>2 DEF TypeOK, Locals, thread_exit_rem, Goto
<1>4. TypeOK'
  BY Zenon, <1>1, <1>2, <1>3 DEF TypeOK
<1>5. ~HoldsOwn(p)' /\ ~HoldsOwn(p) /\ StateByPlace(p)' /\ SleepByPlace(p)' /\ p_state[p] = "zombie"
  BY Zenon, <1>1, <1>2, <1>3 DEF StateByPlace, SleepByPlace, HoldsOwn, Waiting, Locked, Destroying
<1>6. ChildByPlace(p)'
  BY Zenon, <1>1, <1>2, <1>3 DEF ChildByPlace, Locked, Destroying
<1>7. \A w \in p_cv[p] : FALSE
  BY Zenon, <1>1, <1>5, GoodParts, Types DEF WillSignal
<1>8. Queues' /\ WillSignal'
  BY Zenon, <1>1, <1>2, <1>3, <1>7, QueuesKept, SignalKept
<1>9. \A x \in Pids : LockByPlace(x)' /\ HeldByPlace(x)'
  BY Zenon, <1>1, <1>2, <1>3, <1>5, PlacesKept
<1>10. Kept'
  BY Zenon, <1>1, <1>2, <1>3, KeptKept DEF OffList
<1>11. KernelStays'
  BY Zenon, <1>1, <1>2, <1>3, PidRanges DEF KernelStays, Locals, Waiting, Locked, Destroying
<1>12. (pt_coffin # PID_INVALID => Orphan(pt_coffin))'
  BY Zenon, <1>2, GoodParts DEF Orphan
<1>13. PICK M \in SUBSET Pids : M = {p}
  BY Zenon
<1>14. \A q \in M : /\ pc[q] # "none" /\ pc'[q] \notin {"none", "fk_fill", "fk_copy"}
                    /\ StateByPlace(q)' /\ ChildByPlace(q)' /\ SleepByPlace(q)'
  <2> SUFFICES ASSUME NEW q \in M
               PROVE  /\ pc[q] # "none" /\ pc'[q] \notin {"none", "fk_fill", "fk_copy"}
                      /\ StateByPlace(q)' /\ ChildByPlace(q)' /\ SleepByPlace(q)'
    BY Zenon
  <2>1. q = p
    BY Zenon, <1>13
  <2>2. QED
    BY Zenon, <1>1, <1>3, <1>5, <1>6, <2>1
<1>15. QED
  BY Zenon, <1>2, <1>3, <1>4, <1>8, <1>9, <1>10, <1>11, <1>12, <1>13, <1>14, GroupStep

\* The broadcast on k_waitcv.
LEMMA ExitWakeInv == ASSUME Good, NEW p \in Pids, thread_exit_wake(p) PROVE Good'
<1>1. /\ StateByPlace(p) /\ ChildByPlace(p) /\ SleepByPlace(p) /\ TypeOK /\ KernelStays
      /\ pc[p] = "tx_wake" /\ k_waitcv \subseteq Pids
  BY Zenon, GoodParts, Types DEF thread_exit_wake, At
<1>2. /\ UNCHANGED <<asked, child, options, todo, ret, p_waitlock, p_cv, mistaken>>
      /\ UNCHANGED <<pt_procs, pt_most_recent_pid, pt_coffin, p_state, p_parent, p_numthreads, p_children>>
  BY Zenon DEF thread_exit_wake, ptvars, pvars, tvars
<1>3. \A w \in Pids : w \in k_waitcv <=> pc[w] = "wp_ksleep"
  BY Zenon, GoodParts DEF Queues
<1>4. PICK M \in SUBSET Pids : M = {p} \cup k_waitcv
  BY <1>1, Zenon
<1>5. /\ pc'[p] = "gone" /\ \A w \in k_waitcv : pc'[w] = "pd_check"
      /\ \A x \in Pids \ M : Locals(x) /\ pc'[x] = pc[x]
      /\ pc' \in [Pids -> PCs] /\ k_waitcv' = {}
  BY <1>1, <1>2, <1>3, <1>4 DEF TypeOK, Locals, thread_exit_wake, PCs
<1>6. TypeOK'
  BY Zenon, <1>1, <1>2, <1>5 DEF TypeOK
<1>7. ~HoldsOwn(p)' /\ ~HoldsOwn(p) /\ StateByPlace(p)' /\ SleepByPlace(p)'
  BY Zenon, <1>1, <1>2, <1>5 DEF StateByPlace, SleepByPlace, HoldsOwn, Waiting, Locked, Destroying
<1>8. ChildByPlace(p)'
  BY Zenon, <1>1, <1>2, <1>5 DEF ChildByPlace, Locked, Destroying
<1>9. ASSUME NEW w \in k_waitcv
      PROVE  /\ (HoldsOwn(w)' <=> HoldsOwn(w)) /\ StateByPlace(w)' /\ SleepByPlace(w)' /\ ChildByPlace(w)'
             /\ pc[w] = "wp_ksleep" /\ pc'[w] = "pd_check"
  <2>1. /\ w \in Pids /\ pc[w] = "wp_ksleep" /\ pc'[w] = "pd_check"
        /\ StateByPlace(w) /\ SleepByPlace(w) /\ ChildByPlace(w)
    BY Zenon, <1>1, <1>3, <1>5, <1>9, GoodParts
  <2>2. (HoldsOwn(w)' <=> HoldsOwn(w)) /\ StateByPlace(w)' /\ SleepByPlace(w)'
    BY Zenon, <1>2, <2>1 DEF StateByPlace, SleepByPlace, HoldsOwn, Waiting, Locked, Destroying
  <2>3. ChildByPlace(w)'
    BY Zenon, <1>2, <2>1 DEF ChildByPlace, Locked, Destroying
  <2>4. QED
    BY Zenon, <2>1, <2>2, <2>3
<1>10. \A w \in p_cv[p] : p_state[p] # "zombie"
  BY Zenon, <1>7, GoodParts, Types DEF WillSignal
<1>11. Queues'
  <2>1. \A x \in Pids : pc'[x] = "wp_sleep" <=> pc[x] = "wp_sleep"
    BY Zenon, <1>1, <1>3, <1>4, <1>5
  <2>2. \A x \in Pids : pc'[x] # "wp_ksleep"
    BY Zenon, <1>1, <1>3, <1>4, <1>5
  <2>3. QED
    BY Zenon, <1>2, <1>5, <2>1, <2>2, GoodParts DEF Queues
<1>12. WillSignal'
  <2> SUFFICES ASSUME NEW c \in Pids, NEW x \in Pids, x \in p_cv'[c], p_state'[c] = "zombie"
               PROVE  /\ HoldsOwn(c)' /\ pc'[c] \notin {"ex_bury", "ex_unlock"}
                      /\ pc'[c] = "ex_state" => child'[c] = x
    BY Zenon DEF WillSignal
  <2>1. c # p /\ x \in p_cv[c] /\ p_state[c] = "zombie"
    BY Zenon, <1>2, <1>10
  <2>2. HoldsOwn(c) /\ pc[c] \notin {"ex_bury", "ex_unlock"} /\ (pc[c] = "ex_state" => child[c] = x)
    BY Zenon, <2>1, GoodParts DEF WillSignal
  <2>3. CASE c \in k_waitcv
    BY Zenon, <1>9, <2>2, <2>3
  <2>4. CASE c \notin k_waitcv
    BY Zenon, <1>2, <1>4, <1>5, <2>1, <2>2, <2>4 DEF HoldsOwn
  <2>5. QED
    BY Zenon, <2>3, <2>4
<1>13. \A q \in M : /\ pc[q] # "none" /\ pc'[q] \notin {"none", "fk_fill", "fk_copy"}
                    /\ StateByPlace(q)' /\ ChildByPlace(q)' /\ SleepByPlace(q)'
  <2> SUFFICES ASSUME NEW q \in M
               PROVE  /\ pc[q] # "none" /\ pc'[q] \notin {"none", "fk_fill", "fk_copy"}
                      /\ StateByPlace(q)' /\ ChildByPlace(q)' /\ SleepByPlace(q)'
    BY Zenon
  <2>1. CASE q = p
    BY Zenon, <1>1, <1>5, <1>7, <1>8, <2>1
  <2>2. CASE q \in k_waitcv
    BY Zenon, <1>9, <2>2
  <2>3. QED
    BY Zenon, <1>4, <2>1, <2>2
<1>14. \A q \in M : (HoldsOwn(q)' <=> HoldsOwn(q)) /\ pc[q] # "wp_test" /\ pc'[q] # "wp_test"
  <2> SUFFICES ASSUME NEW q \in M
               PROVE  (HoldsOwn(q)' <=> HoldsOwn(q)) /\ pc[q] # "wp_test" /\ pc'[q] # "wp_test"
    BY Zenon
  <2>1. CASE q = p
    BY Zenon, <1>1, <1>5, <1>7, <2>1
  <2>2. CASE q \in k_waitcv
    BY Zenon, <1>9, <2>2
  <2>3. QED
    BY Zenon, <1>4, <2>1, <2>2
<1>15. \A x \in Pids : LockByPlace(x)' /\ HeldByPlace(x)'
  BY Zenon, <1>2, <1>5, <1>14, GroupPlaces
<1>16. Kept'
  <2>1. \A q \in M : pc[q] \in OffList => pc'[q] \in OffList /\ child'[q] = child[q]
    BY Zenon, <1>1, <1>2, <1>4, <1>5, <1>9 DEF OffList
  <2>2. QED
    BY Zenon, <1>2, <1>5, <2>1, GroupKept
<1>17. KernelStays'
  <2>1. KernelPid # p /\ KernelPid \in Pids
    BY Zenon, <1>1, PidRanges DEF KernelStays, Waiting, Locked, Destroying
  <2>2. pc'[KernelPid] \in {pc[KernelPid], "pd_check"}
    BY Zenon, <1>4, <1>5, <2>1
  <2>3. QED
    BY Zenon, <1>1, <1>2, <2>2 DEF KernelStays, Destroying
<1>18. (pt_coffin # PID_INVALID => Orphan(pt_coffin))'
  BY Zenon, <1>2, GoodParts DEF Orphan
<1>19. QED
  BY Zenon, <1>2, <1>5, <1>6, <1>11, <1>12, <1>13, <1>15, <1>16, <1>17, <1>18, GroupStep

=============================================================================
