--------------------------- MODULE ProcLifeProofs ---------------------------
(***************************************************************************)
(* Proofs about module ProcLife, for any number of processes and any size  *)
(* of the process table.                                                   *)
(*                                                                         *)
(* The inductive invariant IndInv says what a thread knows of the process  *)
(* it works on at each place of fork, waitpid and _exit.  The rest of the  *)
(* argument: a process is destroyed by its parent or, in the coffin, after *)
(* its parent's death (ChildByPlace), so that a parent that is alive is    *)
(* the only one that works on its child (Locked), and a thread that is     *)
(* about to run keeps its structure (p_numthreads at "pd_free").           *)
(***************************************************************************)
EXTENDS ProcLifeSteps, WellFoundedInduction

-----------------------------------------------------------------------------
(* fork *)

\* A structure that fork is making has no thread, and nobody's children.
LEMMA NoThread ==
  ASSUME Good, NEW n \in Pids, p_state[n] \in {"none", "new"}
  PROVE  /\ pc[n] = "none" /\ p_parent[n] = PID_INVALID
         /\ \A x \in Pids : p_parent[x] # n
<1>1. StateByPlace(n) /\ Family(n) /\ pc[n] \in PCs
  BY Zenon, GoodParts, Types
<1>2. pc[n] = "none"
  BY Zenon, <1>1 DEF StateByPlace, HoldsOwn, PCs, Waiting, Locked, Destroying
<1>3. ASSUME NEW x \in Pids PROVE p_parent[x] # n
  BY <1>3, GoodParts, PidRanges DEF Family
<1>4. QED
  BY Zenon, <1>1, <1>2, <1>3 DEF Family

LEMMA ForkSlotInv == ASSUME Good, NEW p \in Pids, fork_slot(p) PROVE Good'
<1>1. /\ StateByPlace(p) /\ ChildByPlace(p) /\ TypeOK /\ KernelStays /\ Family(p)
      /\ pc[p] = "run" /\ "fk_fill" \in PCs /\ p_state[p] = "alive"
  <2>1. /\ StateByPlace(p) /\ ChildByPlace(p) /\ TypeOK /\ KernelStays /\ Family(p)
        /\ pc[p] = "run" /\ "fk_fill" \in PCs
    BY Zenon, GoodParts DEF fork_slot, At, PCs
  <2>2. QED
    BY Zenon, <2>1 DEF StateByPlace
<1>2. PICK n \in Pids : /\ n = newpid /\ n > pt_most_recent_pid /\ pt_procs[slot(n)] = PID_INVALID
                        /\ n # PID_INVALID
  BY Zenon, <1>1, NewPid, PidRanges DEF fork_slot
<1>3. /\ p_state[n] = "none" /\ n # p /\ pc[n] = "none" /\ p_parent[n] = PID_INVALID
      /\ \A x \in Pids : p_parent[x] # n
  <2>1. Family(n)
    BY Zenon, GoodParts
  <2>2. p_state[n] = "none"
    BY Zenon, <1>2, <2>1 DEF Family
  <2>3. QED
    BY Zenon, <1>1, <2>2, NoThread
<1>4. /\ UNCHANGED <<pt_coffin, p_parent, p_numthreads, p_children, asked, options, todo, ret, mistaken>>
      /\ UNCHANGED <<p_waitlock, p_cv, k_waitcv>>
      /\ pt_most_recent_pid' = n /\ pt_procs' = [pt_procs EXCEPT ![slot(n)] = n]
      /\ p_state' = [p_state EXCEPT ![n] = "new"] /\ child' = [child EXCEPT ![p] = n]
      /\ pc' = [pc EXCEPT ![p] = "fk_fill"]
  BY Zenon, <1>2 DEF fork_slot, Goto, lkvars
<1>5. /\ p_state'[n] = "new" /\ \A x \in Pids \ {n} : p_state'[x] = p_state[x]
      /\ pc'[p] = "fk_fill" /\ child'[p] = n /\ \A x \in Pids \ {p} : Locals(x)
      /\ pt_procs'[slot(n)] = n /\ slot(n) \in Slots
      /\ \A s \in Slots \ {slot(n)} : pt_procs'[s] = pt_procs[s]
  BY <1>1, <1>2, <1>4, PidRanges DEF TypeOK, Locals
<1>6. TypeOK'
  <2>1. /\ pt_procs' \in [Slots -> Pids \cup {PID_INVALID}] /\ pt_most_recent_pid' \in Pids
        /\ p_state' \in [Pids -> {"none", "new", "alive", "zombie", "freed"}]
        /\ child' \in [Pids -> Pids \cup {PID_INVALID}] /\ pc' \in [Pids -> PCs]
    BY Zenon, <1>1, <1>4 DEF TypeOK
  <2>2. ASSUME NEW x \in Pids PROVE p_state'[x] \notin {"none", "freed"} <=> pt_procs'[slot(x)] = x
    <3>1. slot(x) \in Slots /\ x # PID_INVALID
      BY Zenon, <2>2, PidRanges
    <3>2. p_state[x] \notin {"none", "freed"} <=> pt_procs[slot(x)] = x
      BY Zenon, <1>1, <2>2, Types
    <3>3. CASE x = n
      BY Zenon, <1>5, <3>3
    <3>4. CASE x # n
      BY Zenon, <1>2, <1>5, <3>1, <3>2, <3>4
    <3>5. QED
      BY Zenon, <3>3, <3>4
  <2>3. ASSUME NEW s \in Slots PROVE pt_procs'[s] # PID_INVALID => slot(pt_procs'[s]) = s
    <3>1. pt_procs[s] # PID_INVALID => slot(pt_procs[s]) = s
      BY Zenon, <1>1, <2>3 DEF TypeOK
    <3>2. CASE s = slot(n)
      BY Zenon, <1>5, <3>2
    <3>3. CASE s # slot(n)
      BY Zenon, <1>5, <3>1, <3>3
    <3>4. QED
      BY Zenon, <3>2, <3>3
  <2>4. QED
    BY Zenon, <1>1, <1>4, <2>1, <2>2, <2>3 DEF TypeOK
<1>7. ASSUME NEW x \in Pids PROVE Family(x)'
  <2>1. /\ Family(x) /\ p_parent[x] \in Pids \cup {PID_INVALID} /\ p_parent'[x] = p_parent[x]
        /\ x \in Nat /\ n \in Nat /\ pt_most_recent_pid \in Nat /\ p_parent[x] # n
    BY Zenon, <1>1, <1>3, <1>4, <1>7, GoodParts, Types, PidRanges DEF TypeOK
  <2>2. p_parent[x] # PID_INVALID => p_state'[p_parent[x]] = p_state[p_parent[x]]
    BY Zenon, <1>5, <2>1
  <2>3. CASE x = n
    BY <1>3, <1>4, <1>5, <2>1, <2>3 DEF Family
  <2>4. CASE x # n
    <3>1. p_state'[x] = p_state[x] /\ (x > n => x > pt_most_recent_pid)
      BY <1>2, <1>5, <2>1, <2>4
    <3>2. QED
      BY Zenon, <1>4, <2>1, <2>2, <3>1 DEF Family
  <2>5. QED
    BY Zenon, <2>3, <2>4
<1>8. ASSUME NEW x \in Pids PROVE StateByPlace(x)' /\ SleepByPlace(x)'
  <2>1. StateByPlace(x) /\ SleepByPlace(x) /\ p_numthreads'[x] = p_numthreads[x]
    BY Zenon, <1>4, <1>8, GoodParts
  <2>2. CASE x = p
    BY Zenon, <1>1, <1>3, <1>5, <2>1, <2>2 DEF StateByPlace, SleepByPlace, HoldsOwn, Waiting, Locked, Destroying
  <2>3. CASE x = n
    BY Zenon, <1>3, <1>5, <2>1, <2>3 DEF StateByPlace, SleepByPlace, HoldsOwn, Waiting, Locked, Destroying, Locals
  <2>4. CASE x # p /\ x # n
    BY Zenon, <1>5, <2>1, <2>4 DEF StateByPlace, SleepByPlace, HoldsOwn, Locals
  <2>5. QED
    BY Zenon, <2>2, <2>3, <2>4
<1>9. ASSUME NEW x \in Pids, Orphan(x) PROVE Orphan(x)'
  <2>1. p_parent[x] \in Pids /\ p_parent[x] # n /\ p_parent'[x] = p_parent[x]
    BY Zenon, <1>1, <1>3, <1>4, <1>9, Types DEF Orphan
  <2>2. QED
    BY Zenon, <1>5, <1>9, <2>1 DEF Orphan
<1>10. ChildByPlace(p)'
  <2>1. p < n
    BY <1>1, <1>2, PidRanges DEF Family, TypeOK
  <2>2. pc'[n] = "none"
    BY Zenon, <1>3, <1>5 DEF Locals
  <2>3. QED
    BY Zenon, <1>2, <1>5, <2>1, <2>2 DEF ChildByPlace, Locked, Destroying
<1>11. ASSUME NEW x \in Pids \ {p} PROVE ChildByPlace(x)'
  <2>1. /\ ChildByPlace(x) /\ Locals(x) /\ child[x] \in Pids \cup {PID_INVALID} /\ child[x] # n
        /\ x \in Pids
    BY <1>2, <1>3, <1>5, <1>11, GoodParts, Types DEF ChildByPlace
  <2>2. p_state'[x] = "alive" => p_state[x] = "alive"
    BY Zenon, <1>5, <2>1
  <2>3. CASE child[x] = PID_INVALID
    <3>1. /\ pc[x] \notin {"fk_fill", "fk_copy", "wp_parent", "wp_lock"}
          /\ pc[x] \notin Locked \cup Destroying
      BY Zenon, <2>1, <2>3 DEF ChildByPlace
    <3>2. pc[x] \notin {"wp_relock", "wp_remove", "wp_kwait", "wp_ksleep"} /\ pc[x] # "pd_free"
      BY Zenon, <3>1 DEF Locked, Destroying
    <3>3. QED
      BY Zenon, <1>4, <1>9, <2>1, <2>3, <3>1, <3>2 DEF ChildByPlace, Locals
  <2>4. CASE child[x] # PID_INVALID
    <3>1. PICK c \in Pids : c = child[x] /\ c = child'[x] /\ p_state'[c] = p_state[c]
      BY Zenon, <1>5, <2>1, <2>4 DEF Locals
    <3>2. pc[x] \in {"fk_fill", "fk_copy"} => pc'[c] = "none"
      BY <1>1, <1>5, <2>1, <3>1 DEF ChildByPlace, Locals
    <3>3. QED
      BY Zenon, <1>4, <1>9, <2>1, <2>2, <3>1, <3>2 DEF ChildByPlace, Locals
  <2>5. QED
    BY Zenon, <2>3, <2>4
<1>12. OneForker'
  <2>1. \A x \in Pids \ {p} : pc[x] = "fk_fill" => child[x] # n
    BY Zenon, <1>3, GoodParts DEF ChildByPlace
  <2>2. QED
    BY <1>5, <2>1, GoodParts DEF OneForker, Locals
<1>13. ~HoldsOwn(p) /\ ~HoldsOwn(p)'
  BY Zenon, <1>1, <1>5 DEF HoldsOwn, Waiting, Locked, Destroying
<1>14. Queues' /\ \A q \in Pids : LockByPlace(q)' /\ HeldByPlace(q)'
  BY Zenon, <1>1, <1>4, <1>5, <1>13, QueuesKept, PlacesKept
<1>15. WillSignal'
  BY Zenon, <1>1, <1>3, <1>4, <1>5, SignalKept
<1>16. Kept'
  <2>1. \A x \in Pids : p_state'[x] \in {"alive", "zombie"} => p_state'[x] = p_state[x]
    BY Zenon, <1>5
  <2>2. QED
    BY <1>1, <1>4, <1>5, <2>1, GoodParts DEF Kept, Locals
<1>17. KernelStays'
  BY <1>1, <1>4, <1>5, PidRanges DEF KernelStays, Locals
<1>18. (pt_coffin # PID_INVALID => Orphan(pt_coffin))'
  <2>1. pt_coffin # PID_INVALID => pt_coffin \in Pids /\ Orphan(pt_coffin)
    BY Zenon, <1>1, GoodParts DEF TypeOK
  <2>2. PICK k : k = pt_coffin /\ k = pt_coffin'
    BY Zenon, <1>4
  <2>3. k # PID_INVALID => Orphan(k)'
    BY Zenon, <1>9, <2>1, <2>2
  <2>4. QED
    BY Zenon, <2>2, <2>3 DEF Orphan
<1>19. ASSUME NEW x \in Pids PROVE ChildByPlace(x)'
  BY Zenon, <1>10, <1>11
<1>20. QED
  BY Zenon, <1>6, <1>7, <1>8, <1>12, <1>14, <1>15, <1>16, <1>17, <1>18, <1>19 DEF Good

LEMMA ForkSlotFailsInv == ASSUME Good, NEW p \in Pids, fork_slot_nomem(p) PROVE Good'
<1>1. /\ newpid \in Pids /\ newpid > pt_most_recent_pid /\ pt_most_recent_pid' = newpid
      /\ pt_most_recent_pid \in Nat
  BY Zenon, GoodParts, NewPid, PidRanges DEF fork_slot_nomem, TypeOK
<1>2. PICK n \in Pids : n > pt_most_recent_pid /\ pt_most_recent_pid' = n
  BY Zenon, <1>1
<1>3. /\ UNCHANGED <<pt_procs, pt_coffin, p_state, p_parent, p_numthreads, p_children>>
      /\ UNCHANGED <<p_waitlock, p_cv, k_waitcv, asked, child, options, todo, ret, pc, mistaken>>
  BY Zenon DEF fork_slot_nomem, pvars, lkvars, tvars
<1>4. TypeOK' /\ KernelStays' /\ OneForker' /\ Queues'
  BY <1>2, <1>3, GoodParts DEF TypeOK, KernelStays, OneForker, Queues
<1>5. WillSignal' /\ Kept'
  BY <1>3, GoodParts DEF WillSignal, Kept, HoldsOwn
<1>6. ASSUME NEW q \in Pids
      PROVE  StateByPlace(q)' /\ SleepByPlace(q)' /\ LockByPlace(q)' /\ HeldByPlace(q)'
  BY Zenon, <1>3, GoodParts DEF StateByPlace, SleepByPlace, LockByPlace, HeldByPlace, HoldsOwn
<1>7. ASSUME NEW q \in Pids PROVE Family(q)'
  <2>1. Family(q) /\ (q > n => q > pt_most_recent_pid)
    BY <1>1, <1>2, <1>7, GoodParts, PidRanges
  <2>2. QED
    BY Zenon, <1>2, <1>3, <2>1 DEF Family
<1>8. ASSUME NEW q \in Pids PROVE ChildByPlace(q)'
  BY Zenon, <1>3, GoodParts DEF ChildByPlace, Orphan
<1>9. (pt_coffin # PID_INVALID => Orphan(pt_coffin))'
  BY Zenon, <1>3, GoodParts DEF Orphan
<1>10. QED
  BY Zenon, <1>4, <1>5, <1>6, <1>7, <1>8, <1>9 DEF Good

\* A list with one more node in front.
Front(c, s) == <<c>> \o s

LEMMA InFront ==
  ASSUME NEW s \in Seq(Pids), NEW c \in Pids
  PROVE  /\ Front(c, s) \in Seq(Pids)
         /\ \E m \in 1..Len(Front(c, s)) : Front(c, s)[m] = c
         /\ \A k \in 1..Len(s) : \E m \in 1..Len(Front(c, s)) : Front(c, s)[m] = s[k]
<1>1. <<c>> \in Seq(Pids) /\ Len(<<c>>) = 1 /\ <<c>>[1] = c /\ Len(s) \in Nat
  OBVIOUS
<1>2. /\ <<c>> \o s \in Seq(Pids) /\ Len(<<c>> \o s) = 1 + Len(s)
      /\ \A m \in 1..(1 + Len(s)) : (<<c>> \o s)[m] = IF m <= 1 THEN <<c>>[m] ELSE s[m - 1]
  BY <1>1
<1>3. (<<c>> \o s)[1] = c /\ 1 \in 1..(1 + Len(s))
  BY <1>1, <1>2
<1>4. ASSUME NEW k \in 1..Len(s) PROVE \E m \in 1..Len(<<c>> \o s) : (<<c>> \o s)[m] = s[k]
  <2>1. k + 1 \in 1..(1 + Len(s)) /\ ~(k + 1 <= 1) /\ (k + 1) - 1 = k
    BY <1>1, <1>4
  <2>2. (<<c>> \o s)[k + 1] = s[k]
    BY Zenon, <1>2, <2>1
  <2>3. QED
    BY Zenon, <1>2, <2>1, <2>2
<1>5. QED
  BY Zenon, <1>2, <1>3, <1>4 DEF Front

\* The new process is its parent's child: on the list, or being destroyed.
LEMMA ForkFillInv ==
  ASSUME Good, NEW p \in Pids, fork_fill(p) \/ fork_fill_nomem(p) PROVE Good'
<1>1. /\ StateByPlace(p) /\ ChildByPlace(p) /\ TypeOK /\ KernelStays
      /\ pc[p] = "fk_fill" /\ p_state[p] = "alive" /\ p_children[p] \in Seq(Pids)
      /\ child[p] \in Pids /\ p_state[child[p]] = "new" /\ p < child[p]
  <2>1. /\ StateByPlace(p) /\ ChildByPlace(p) /\ TypeOK /\ KernelStays
        /\ pc[p] = "fk_fill" /\ p_children[p] \in Seq(Pids) /\ child[p] \in Pids \cup {PID_INVALID}
    BY Zenon, GoodParts, Types DEF fork_fill, fork_fill_nomem, At
  <2>2. QED
    BY Zenon, <2>1 DEF StateByPlace, ChildByPlace
<1>2. PICK c \in Pids : /\ c = child[p] /\ p_state[c] = "new" /\ p < c /\ p # c
                        /\ pc[c] = "none" /\ p_parent[c] = PID_INVALID
                        /\ \A x \in Pids : p_parent[x] # c
  <2>1. p # child[p]
    BY Zenon, <1>1, PidRanges
  <2>2. QED
    BY Zenon, <1>1, <2>1, NoThread
<1>3. PICK l \in {"fk_copy", "pd_check"}, t \in Seq(Pids), r \in {"run", "ex_lock", "ex_kids"} :
        /\ pc' = [pc EXCEPT ![p] = l] /\ p_children' = [p_children EXCEPT ![p] = t]
        /\ ret' = [ret EXCEPT ![p] = r]
        /\ \A k \in 1..Len(p_children[p]) : \E m \in 1..Len(t) : t[m] = p_children[p][k]
        /\ \/ l = "fk_copy" /\ \E m \in 1..Len(t) : t[m] = c
           \/ l = "pd_check" /\ r = "run"
  <2>1. CASE fork_fill(p)
    <3>1. PICK t : t = Front(c, p_children[p])
      BY Zenon
    <3>2. /\ t \in Seq(Pids)
          /\ \A k \in 1..Len(p_children[p]) : \E m \in 1..Len(t) : t[m] = p_children[p][k]
          /\ \E m \in 1..Len(t) : t[m] = c
      <4>1. PICK s \in Seq(Pids) : s = p_children[p]
        BY Zenon, <1>1
      <4>2. t = Front(c, s)
        BY Zenon, <3>1, <4>1
      <4>3. /\ t \in Seq(Pids)
            /\ \A k \in 1..Len(s) : \E m \in 1..Len(t) : t[m] = s[k]
            /\ \E m \in 1..Len(t) : t[m] = c
        BY Zenon, <4>2, InFront
      <4>4. QED
        BY Zenon, <4>1, <4>3
    <3>3. /\ pc' = [pc EXCEPT ![p] = "fk_copy"] /\ p_children' = [p_children EXCEPT ![p] = t]
          /\ ret' = [ret EXCEPT ![p] = ret[p]] /\ ret[p] \in {"run", "ex_lock", "ex_kids"}
      BY Zenon, <1>1, <1>2, <2>1, <3>1 DEF fork_fill, Goto, TypeOK, tvars, Front
    <3>4. QED
      BY Zenon, <3>2, <3>3
  <2>2. CASE fork_fill_nomem(p)
    <3>1. /\ pc' = [pc EXCEPT ![p] = "pd_check"] /\ p_children' = [p_children EXCEPT ![p] = p_children[p]]
          /\ ret' = [ret EXCEPT ![p] = "run"]
      BY Zenon, <1>1, <2>2 DEF fork_fill_nomem, Goto, TypeOK
    <3>2. QED
      BY Zenon, <1>1, <3>1
  <2>3. QED
    BY Zenon, <2>1, <2>2
<1>4. /\ UNCHANGED <<pt_procs, pt_most_recent_pid, pt_coffin, p_numthreads, asked, child, options>>
      /\ UNCHANGED <<todo, mistaken, p_waitlock, p_cv, k_waitcv>>
      /\ p_state' = [p_state EXCEPT ![c] = "alive"] /\ p_parent' = [p_parent EXCEPT ![c] = p]
  BY Zenon, <1>2 DEF fork_fill, fork_fill_nomem, ptvars, lkvars, tvars
<1>5. /\ p_state'[c] = "alive" /\ \A x \in Pids \ {c} : p_state'[x] = p_state[x]
      /\ p_parent'[c] = p /\ \A x \in Pids \ {c} : p_parent'[x] = p_parent[x]
      /\ pc'[p] = l /\ child'[p] = c /\ ret'[p] = r /\ \A x \in Pids \ {p} : Locals(x)
      /\ p_children'[p] = t /\ \A x \in Pids \ {p} : p_children'[x] = p_children[x]
  BY ZenonT(40), <1>1, <1>2, <1>3, <1>4 DEF TypeOK, Locals
<1>6. TypeOK'
  <2>1. /\ p_parent' \in [Pids -> Pids \cup {PID_INVALID}] /\ p_children' \in [Pids -> Seq(Pids)]
        /\ p_state' \in [Pids -> {"none", "new", "alive", "zombie", "freed"}]
        /\ ret' \in [Pids -> {"run", "ex_lock", "ex_kids"}] /\ l \in PCs /\ pc' \in [Pids -> PCs]
    BY Zenon, <1>1, <1>3, <1>4 DEF TypeOK, PCs
  <2>2. ASSUME NEW x \in Pids PROVE p_state'[x] \notin {"none", "freed"} <=> pt_procs'[slot(x)] = x
    <3>1. p_state[x] \notin {"none", "freed"} <=> pt_procs[slot(x)] = x
      BY Zenon, <1>1, <2>2, Types
    <3>2. QED
      BY Zenon, <1>2, <1>4, <1>5, <3>1
  <2>3. QED
    BY Zenon, <1>1, <1>4, <2>1, <2>2 DEF TypeOK
<1>7. ASSUME NEW x \in Pids PROVE Family(x)'
  <2>1. Family(x) /\ p_parent[x] \in Pids \cup {PID_INVALID} /\ p_parent[x] # c
    BY Zenon, <1>1, <1>2, <1>7, GoodParts, Types
  <2>2. CASE x = c
    <3>1. ~(c > pt_most_recent_pid)
      BY Zenon, <1>2, <2>1, <2>2 DEF Family
    <3>2. p_state'[p] = "alive"
      BY Zenon, <1>1, <1>2, <1>5
    <3>3. ~(x > pt_most_recent_pid')
      BY Zenon, <1>4, <2>2, <3>1
    <3>4. /\ p_state'[x] = "alive" /\ p_parent'[x] = p /\ p < x /\ p # PID_INVALID
          /\ p_state'[p_parent'[x]] = "alive"
      BY Zenon, <1>2, <1>5, <2>2, <3>2, PidRanges
    <3>5. QED
      BY Zenon, <3>3, <3>4 DEF Family
  <2>3. CASE x # c
    <3>1. p_parent[x] # PID_INVALID => p_state'[p_parent[x]] = p_state[p_parent[x]]
      BY Zenon, <1>5, <2>1
    <3>2. QED
      BY Zenon, <1>4, <1>5, <2>1, <2>3, <3>1 DEF Family
  <2>4. QED
    BY Zenon, <2>2, <2>3
<1>8. ASSUME NEW x \in Pids PROVE StateByPlace(x)' /\ SleepByPlace(x)'
  <2>1. StateByPlace(x) /\ SleepByPlace(x) /\ p_numthreads'[x] = p_numthreads[x]
    BY Zenon, <1>4, <1>8, GoodParts
  <2>2. CASE x = p
    BY Zenon, <1>1, <1>2, <1>3, <1>5, <2>1, <2>2 DEF StateByPlace, SleepByPlace, HoldsOwn, Waiting, Locked, Destroying
  <2>3. CASE x = c
    BY Zenon, <1>2, <1>5, <2>1, <2>3 DEF StateByPlace, SleepByPlace, HoldsOwn, Waiting, Locked, Destroying, Locals
  <2>4. CASE x # p /\ x # c
    BY Zenon, <1>5, <2>1, <2>4 DEF StateByPlace, SleepByPlace, HoldsOwn, Locals
  <2>5. QED
    BY Zenon, <2>2, <2>3, <2>4
<1>9. ASSUME NEW x \in Pids, Orphan(x) PROVE Orphan(x)'
  <2>1. p_parent[x] \in Pids /\ p_parent[x] # c /\ x # c
    BY Zenon, <1>1, <1>2, <1>9, Types DEF Orphan
  <2>2. QED
    BY Zenon, <1>5, <1>9, <2>1 DEF Orphan
<1>10. ChildByPlace(p)'
  <2>1. pc'[c] = "none"
    BY Zenon, <1>2, <1>5 DEF Locals
  <2>2. QED
    BY Zenon, <1>3, <1>5, <2>1, PidRanges DEF ChildByPlace, Locked, Destroying
<1>11. ASSUME NEW x \in Pids \ {p} PROVE ChildByPlace(x)'
  <2>1. /\ ChildByPlace(x) /\ Locals(x) /\ child[x] \in Pids \cup {PID_INVALID} /\ x \in Pids
        /\ x # PID_INVALID
    BY Zenon, <1>5, <1>11, GoodParts, Types, PidRanges
  <2>2. CASE child[x] = PID_INVALID
    <3>1. /\ pc[x] \notin {"fk_fill", "fk_copy", "wp_parent", "wp_lock"}
          /\ pc[x] \notin Locked \cup Destroying
      BY Zenon, <2>1, <2>2 DEF ChildByPlace
    <3>2. pc[x] \notin {"wp_relock", "wp_remove", "wp_kwait", "wp_ksleep"} /\ pc[x] # "pd_free"
      BY Zenon, <3>1 DEF Locked, Destroying
    <3>3. pc[x] \in {"ex_state", "ex_bury"} => x # c
      BY Zenon, <1>2
    <3>4. QED
      BY Zenon, <1>5, <1>9, <2>1, <2>2, <3>1, <3>2, <3>3 DEF ChildByPlace, Locals
  <2>3. CASE child[x] = c
    <3>1. pc[x] # "fk_fill"
      BY Zenon, <1>1, <1>2, <1>11, <2>1, <2>3, GoodParts DEF OneForker
    <3>2. pc[x] # "fk_copy" /\ pc[x] # "wp_lock" /\ pc[x] \notin Locked
      BY Zenon, <1>2, <2>1, <2>3 DEF ChildByPlace
    <3>3. pc[x] \notin Destroying
      BY Zenon, <1>2, <2>1, <2>3 DEF ChildByPlace, Orphan
    <3>4. pc[x] \notin {"wp_relock", "wp_remove", "wp_kwait", "wp_ksleep"} /\ pc[x] # "pd_free"
      BY Zenon, <3>2, <3>3 DEF Locked, Destroying
    <3>5. pc[x] \in {"ex_state", "ex_bury"} => x # c
      BY Zenon, <1>2
    <3>6. QED
      BY Zenon, <1>5, <1>9, <2>1, <2>3, <3>1, <3>2, <3>3, <3>4, <3>5, PidRanges DEF ChildByPlace, Locals
  <2>4. CASE child[x] # PID_INVALID /\ child[x] # c
    <3>1. PICK d \in Pids : /\ d = child[x] /\ d = child'[x] /\ d # c
                            /\ p_state'[d] = p_state[d] /\ p_parent'[d] = p_parent[d]
      BY Zenon, <1>5, <2>1, <2>4 DEF Locals
    <3>2. pc[x] \in {"fk_fill", "fk_copy"} => pc'[d] = "none"
      <4>1. pc[x] \in {"fk_fill", "fk_copy"} => pc[d] = "none"
        BY Zenon, <2>1, <3>1 DEF ChildByPlace
      <4>2. pc[d] = "none" => pc'[d] = "none"
        BY Zenon, <1>1, <1>5 DEF Locals
      <4>3. QED
        BY Zenon, <4>1, <4>2
    <3>3. pc[x] # "none" => x # c
      BY Zenon, <1>2
    <3>4. x # c => p_state'[x] = p_state[x] /\ p_parent'[x] = p_parent[x]
      BY Zenon, <1>5, <2>1
    <3>5. pc[x] \in Locked \cup {"ex_state", "ex_bury"} => x # c
      BY Zenon, <3>3 DEF Locked
    <3>6. QED
      BY Zenon, <1>4, <1>9, <2>1, <3>1, <3>2, <3>4, <3>5 DEF ChildByPlace, Locals
  <2>5. QED
    BY Zenon, <2>1, <2>2, <2>3, <2>4
<1>12. OneForker'
  BY <1>3, <1>5, GoodParts DEF OneForker, Locals
<1>13. ~HoldsOwn(p) /\ ~HoldsOwn(p)'
  BY Zenon, <1>1, <1>3, <1>5 DEF HoldsOwn, Waiting, Locked, Destroying
<1>14. Queues' /\ \A q \in Pids : LockByPlace(q)' /\ HeldByPlace(q)'
  BY Zenon, <1>1, <1>3, <1>4, <1>5, <1>13, QueuesKept, PlacesKept
<1>15. WillSignal'
  BY Zenon, <1>1, <1>3, <1>4, <1>5, SignalKept
<1>16. Kept'
  <2> SUFFICES ASSUME NEW y \in Pids, NEW x \in Pids, p_parent'[y] = x,
                      p_state'[y] \in {"alive", "zombie"}, p_state'[x] = "alive"
               PROVE  \/ \E m \in 1..Len(p_children'[x]) : p_children'[x][m] = y
                      \/ child'[x] = y /\ pc'[x] \in OffList
    BY Zenon DEF Kept, OffList
  <2>1. CASE y = c
    BY <1>3, <1>5, <2>1 DEF OffList
  <2>2. CASE y # c
    <3>1. p_parent[y] = x /\ x # c /\ p_state[y] \in {"alive", "zombie"} /\ p_state[x] = "alive"
      BY Zenon, <1>2, <1>5, <2>2
    <3>2. \/ \E k \in 1..Len(p_children[x]) : p_children[x][k] = y
          \/ child[x] = y /\ pc[x] \in OffList
      BY Zenon, <3>1, GoodParts DEF Kept, OffList
    <3>3. CASE x = p
      <4>1. PICK k \in 1..Len(p_children[p]) : p_children[p][k] = y
        BY Zenon, <1>1, <3>2, <3>3 DEF OffList
      <4>2. QED
        BY <1>3, <1>5, <3>3, <4>1
    <3>4. CASE x # p
      BY Zenon, <1>5, <3>2, <3>4 DEF Locals
    <3>5. QED
      BY Zenon, <3>3, <3>4
  <2>3. QED
    BY Zenon, <2>1, <2>2
<1>17. KernelStays'
  <2>1. p = KernelPid => ret[p] = "run"
    BY Zenon, <1>1 DEF KernelStays
  <2>2. p = KernelPid => r = "run"
    BY <1>1, <1>3, <2>1, <1>5 DEF fork_fill, fork_fill_nomem, tvars
  <2>3. QED
    BY <1>1, <1>3, <1>5, <2>2, PidRanges DEF KernelStays, Locals, Destroying
<1>18. (pt_coffin # PID_INVALID => Orphan(pt_coffin))'
  <2>1. pt_coffin # PID_INVALID => pt_coffin \in Pids /\ Orphan(pt_coffin)
    BY Zenon, <1>1, GoodParts DEF TypeOK
  <2>2. PICK k : k = pt_coffin /\ k = pt_coffin'
    BY Zenon, <1>4
  <2>3. k # PID_INVALID => Orphan(k)'
    BY Zenon, <1>9, <2>1, <2>2
  <2>4. QED
    BY Zenon, <2>2, <2>3 DEF Orphan
<1>19. ASSUME NEW x \in Pids PROVE ChildByPlace(x)'
  BY Zenon, <1>10, <1>11
<1>20. QED
  BY SMTT(20), <1>6, <1>7, <1>8, <1>12, <1>14, <1>15, <1>16, <1>17, <1>18, <1>19 DEF Good

\* The thread of the new process: only its parent, which is alive, could be
\* destroying it.
LEMMA ForkThreadInv == ASSUME Good, NEW p \in Pids, fork_thread(p) PROVE Good'
<1>1. /\ StateByPlace(p) /\ ChildByPlace(p) /\ TypeOK /\ KernelStays
      /\ pc[p] = "fk_copy" /\ p_state[p] = "alive" /\ child[p] \in Pids
      /\ pc[child[p]] = "none" /\ p_state[child[p]] = "alive" /\ p_parent[child[p]] = p
  <2>1. /\ StateByPlace(p) /\ ChildByPlace(p) /\ TypeOK /\ KernelStays
        /\ pc[p] = "fk_copy" /\ child[p] \in Pids \cup {PID_INVALID}
    BY Zenon, GoodParts, Types DEF fork_thread, At
  <2>2. QED
    BY Zenon, <2>1 DEF StateByPlace, ChildByPlace
<1>2. PICK c \in Pids : /\ c = child[p] /\ pc[c] = "none" /\ p_state[c] = "alive" /\ p_parent[c] = p
                        /\ c # p /\ p_numthreads[c] = 0
  <2>1. StateByPlace(child[p])
    BY Zenon, <1>1, GoodParts
  <2>2. p_numthreads[child[p]] = 0
    BY Zenon, <1>1, <2>1 DEF StateByPlace
  <2>3. QED
    BY Zenon, <1>1, <2>2
<1>3. PICK l \in {"run", "wp_start"} :
        /\ pc' = [pc EXCEPT ![c] = "run", ![p] = l]
        /\ p_numthreads' = [p_numthreads EXCEPT ![c] = @ + 1]
        /\ child' = [child EXCEPT ![p] = PID_INVALID]
        /\ options' = [options EXCEPT ![p] = "none"] /\ ret' = [ret EXCEPT ![p] = "run"]
        /\ asked' = [asked EXCEPT ![p] = IF p = KernelPid THEN c ELSE PID_INVALID]
  BY Zenon, <1>2 DEF fork_thread
<1>4. /\ UNCHANGED <<pt_procs, pt_most_recent_pid, pt_coffin, p_state, p_parent, p_children, todo>>
      /\ UNCHANGED <<mistaken, p_waitlock, p_cv, k_waitcv>>
  BY Zenon DEF fork_thread, ptvars, lkvars
<1>5. /\ pc'[c] = "run" /\ pc'[p] = l /\ child'[p] = PID_INVALID /\ ret'[p] = "run" /\ options'[p] = "none"
      /\ p_numthreads'[c] = 1 /\ \A x \in Pids \ {c} : p_numthreads'[x] = p_numthreads[x]
      /\ \A x \in Pids \ {p} : child'[x] = child[x] /\ ret'[x] = ret[x] /\ options'[x] = options[x]
      /\ \A x \in Pids \ {p, c} : pc'[x] = pc[x] /\ Locals(x)
  BY <1>1, <1>2, <1>3 DEF TypeOK, Locals
<1>6. TypeOK'
  <2>1. /\ child' \in [Pids -> Pids \cup {PID_INVALID}] /\ options' \in [Pids -> {"none", "WNOHANG"}]
        /\ ret' \in [Pids -> {"run", "ex_lock", "ex_kids"}]
    BY Zenon, <1>1, <1>3 DEF TypeOK
  <2>2. asked' \in [Pids -> Nat] /\ p_numthreads' \in [Pids -> {0, 1}] /\ pc' \in [Pids -> PCs]
    <3>1. asked' \in [Pids -> Nat]
      BY Zenon, <1>1, <1>3, PidRanges DEF TypeOK
    <3>2. p_numthreads' = [p_numthreads EXCEPT ![c] = 1] /\ p_numthreads \in [Pids -> {0, 1}]
      BY <1>1, <1>2, <1>3 DEF TypeOK
    <3>3. l \in PCs /\ "run" \in PCs /\ pc \in [Pids -> PCs]
      BY Zenon, <1>1 DEF TypeOK, PCs
    <3>4. pc' \in [Pids -> PCs]
      BY Zenon, <1>3, <3>3
    <3>5. QED
      BY Zenon, <3>1, <3>2, <3>4
  <2>3. QED
    BY Zenon, <1>1, <1>4, <2>1, <2>2 DEF TypeOK
<1>7. ASSUME NEW x \in Pids PROVE Family(x)'
  BY Zenon, <1>4, <1>7, GoodParts DEF Family
<1>8. ASSUME NEW x \in Pids PROVE StateByPlace(x)' /\ SleepByPlace(x)'
  <2>1. StateByPlace(x) /\ SleepByPlace(x) /\ p_state'[x] = p_state[x]
    BY Zenon, <1>4, <1>8, GoodParts
  <2>2. CASE x = p
    BY <1>1, <1>2, <1>3, <1>5, <2>1, <2>2 DEF StateByPlace, SleepByPlace, HoldsOwn, Waiting, Locked, Destroying
  <2>3. CASE x = c
    BY Zenon, <1>2, <1>5, <2>1, <2>3 DEF StateByPlace, SleepByPlace, HoldsOwn, Waiting, Locked, Destroying
  <2>4. CASE x # p /\ x # c
    BY Zenon, <1>5, <2>1, <2>4 DEF StateByPlace, SleepByPlace, HoldsOwn, Locals
  <2>5. QED
    BY Zenon, <2>2, <2>3, <2>4
<1>9. ChildByPlace(p)'
  BY Zenon, <1>3, <1>5 DEF ChildByPlace, Locked, Destroying
<1>10. ChildByPlace(c)'
  <2>1. ChildByPlace(c) /\ child'[c] = child[c]
    BY Zenon, <1>2, <1>5, GoodParts
  <2>2. QED
    BY Zenon, <1>4, <1>5, <2>1 DEF ChildByPlace, Locked, Destroying
<1>11. ASSUME NEW x \in Pids \ {p, c} PROVE ChildByPlace(x)'
  <2>1. /\ ChildByPlace(x) /\ Locals(x) /\ StateByPlace(x) /\ x \in Pids /\ x # p
        /\ child[x] \in Pids \cup {PID_INVALID}
    BY Zenon, <1>5, <1>11, GoodParts, Types
  <2>2. pc[x] = "pd_free" => child[x] \in Pids \ {c}
    <3>1. pc[x] = "pd_free" => child[x] # PID_INVALID
      BY Zenon, <2>1 DEF ChildByPlace, Destroying
    <3>2. pc[x] = "pd_free" => child[x] # c
      BY Zenon, <1>1, <1>2, <2>1 DEF ChildByPlace, Destroying, Orphan
    <3>3. QED
      BY Zenon, <2>1, <3>1, <3>2
  <2>3. pc[x] \in {"fk_fill", "fk_copy"} => child[x] \in Pids \ {p, c}
    <3>1. pc[x] \in {"fk_fill", "fk_copy"} => child[x] # PID_INVALID /\ pc[child[x]] = "none"
      BY Zenon, <2>1 DEF ChildByPlace
    <3>2. pc[x] \in {"fk_fill", "fk_copy"} => child[x] # c
      BY Zenon, <1>2, <2>1 DEF ChildByPlace
    <3>3. QED
      BY Zenon, <1>1, <2>1, <3>1, <3>2
  <2>4. pc[x] = "pd_free" => p_numthreads'[child[x]] = p_numthreads[child[x]]
    BY Zenon, <1>5, <2>2
  <2>5. pc[x] \in {"fk_fill", "fk_copy"} => pc'[child[x]] = pc[child[x]]
    BY Zenon, <1>5, <2>3
  <2>6. QED
    BY Zenon, <1>4, <2>1, <2>4, <2>5 DEF ChildByPlace, Locals, Orphan
<1>12. OneForker'
  <2>1. \A x \in Pids : pc'[x] = "fk_fill" => pc[x] = "fk_fill" /\ child'[x] = child[x]
    BY Zenon, <1>3, <1>5
  <2>2. QED
    BY Zenon, <2>1, GoodParts DEF OneForker
<1>13. PICK M \in SUBSET Pids : M = {p, c}
  BY Zenon
<1>14. /\ ~HoldsOwn(p) /\ ~HoldsOwn(p)' /\ ~HoldsOwn(c) /\ ~HoldsOwn(c)'
       /\ \A x \in Pids \ M : Locals(x)
  BY Zenon, <1>1, <1>2, <1>3, <1>5, <1>13 DEF HoldsOwn, Waiting, Locked, Destroying
<1>15. \A q \in M : /\ (HoldsOwn(q)' <=> HoldsOwn(q))
                    /\ pc[q] \notin {"wp_test", "wp_sleep", "wp_ksleep"} \cup OffList
                    /\ pc'[q] \notin {"wp_test", "wp_sleep", "wp_ksleep"}
  <2> SUFFICES ASSUME NEW q \in M
               PROVE  /\ (HoldsOwn(q)' <=> HoldsOwn(q))
                      /\ pc[q] \notin {"wp_test", "wp_sleep", "wp_ksleep"} \cup OffList
                      /\ pc'[q] \notin {"wp_test", "wp_sleep", "wp_ksleep"}
    BY Zenon
  <2>1. CASE q = p
    BY Zenon, <1>1, <1>3, <1>5, <1>14, <2>1 DEF OffList
  <2>2. CASE q = c
    BY Zenon, <1>2, <1>5, <1>14, <2>2 DEF OffList
  <2>3. QED
    BY Zenon, <1>13, <2>1, <2>2
<1>16. \A q \in Pids : LockByPlace(q)' /\ HeldByPlace(q)'
  BY Zenon, <1>4, <1>14, <1>15, GroupPlaces
<1>17. Queues'
  <2>1. \A x \in Pids : /\ pc'[x] = "wp_sleep" /\ child'[x] = child[x] <=> pc[x] = "wp_sleep"
                        /\ pc'[x] = "wp_ksleep" <=> pc[x] = "wp_ksleep"
    BY Zenon, <1>14, <1>15 DEF Locals
  <2>2. \A x \in Pids : pc'[x] = "wp_sleep" <=> pc[x] = "wp_sleep"
    BY Zenon, <1>14, <1>15 DEF Locals
  <2>3. QED
    BY <1>4, <2>1, <2>2, GoodParts DEF Queues
<1>18. WillSignal'
  <2> SUFFICES ASSUME NEW y \in Pids, NEW w \in Pids, w \in p_cv'[y], p_state'[y] = "zombie"
               PROVE  /\ HoldsOwn(y)' /\ pc'[y] \notin {"ex_bury", "ex_unlock"}
                      /\ pc'[y] = "ex_state" => child'[y] = w
    BY Zenon DEF WillSignal
  <2>1. y # p /\ y # c /\ w \in p_cv[y] /\ p_state[y] = "zombie"
    BY Zenon, <1>1, <1>2, <1>4
  <2>2. HoldsOwn(y) /\ pc[y] \notin {"ex_bury", "ex_unlock"} /\ (pc[y] = "ex_state" => child[y] = w)
    BY Zenon, <2>1, GoodParts DEF WillSignal
  <2>3. QED
    BY Zenon, <1>5, <2>1, <2>2 DEF HoldsOwn, Locals
<1>19. Kept'
  BY Zenon, <1>4, <1>14, <1>15, GroupKept
<1>20. KernelStays'
  <2>1. KernelPid # c
    BY Zenon, <1>1, <1>2 DEF KernelStays, Waiting, Locked, Destroying
  <2>2. CASE p = KernelPid
    BY Zenon, <1>3, <1>5, <2>2 DEF KernelStays, Waiting
  <2>3. CASE p # KernelPid
    <3>1. pc'[KernelPid] = pc[KernelPid] /\ ret'[KernelPid] = ret[KernelPid]
      BY Zenon, <1>5, <2>1, <2>3, PidRanges
    <3>2. QED
      BY Zenon, <1>1, <3>1 DEF KernelStays
  <2>4. QED
    BY Zenon, <2>2, <2>3
<1>21. (pt_coffin # PID_INVALID => Orphan(pt_coffin))'
  BY Zenon, <1>4, GoodParts DEF Orphan
<1>22. ASSUME NEW x \in Pids PROVE ChildByPlace(x)'
  BY Zenon, <1>9, <1>10, <1>11
<1>23. QED
  BY SMTT(20), <1>6, <1>7, <1>8, <1>12, <1>16, <1>17, <1>18, <1>19, <1>20, <1>21, <1>22 DEF Good

-----------------------------------------------------------------------------
(* proc_destroy *)

\* A process that is destroyed has no thread; its parent does it or is dead.
LEMMA DestroyFreeInv == ASSUME Good, NEW p \in Pids, proc_destroy_free(p) PROVE Good'
<1>1. /\ StateByPlace(p) /\ ChildByPlace(p) /\ SleepByPlace(p) /\ TypeOK /\ KernelStays
      /\ pc[p] = "pd_free" /\ child[p] \in Pids /\ p_state[child[p]] # "none"
      /\ p_numthreads[child[p]] = 0 /\ (p_parent[child[p]] = p \/ Orphan(child[p]))
      /\ ret[p] \in {"run", "ex_lock", "ex_kids"} /\ ret[p] \in PCs
  <2>1. /\ StateByPlace(p) /\ ChildByPlace(p) /\ SleepByPlace(p) /\ TypeOK /\ KernelStays
        /\ pc[p] = "pd_free" /\ child[p] \in Pids \cup {PID_INVALID}
        /\ ret[p] \in {"run", "ex_lock", "ex_kids"} /\ ret[p] \in PCs
    BY Zenon, GoodParts, Types DEF proc_destroy_free, At, PCs
  <2>2. QED
    BY Zenon, <2>1 DEF ChildByPlace, Destroying
<1>2. CASE \E why : Panic(why)
  BY Zenon, <1>2, PanicInv DEF Panic
<1>3. CASE ~ \E why : Panic(why)
  <2>1. PICK q \in Pids : /\ q = child[p] /\ p_state[q] \in {"new", "alive", "zombie"}
                          /\ (p_parent[q] = p \/ Orphan(q)) /\ q # p
                          /\ pc[q] \in {"none", "tx_wake", "gone"} /\ q # KernelPid
                          /\ p_parent[q] # PID_INVALID
    <3>1. p_state[child[p]] \in {"new", "alive", "zombie"}
      BY Zenon, <1>1, <1>3, Types DEF proc_destroy_free
    <3>2. StateByPlace(child[p])
      BY Zenon, <1>1, GoodParts
    <3>3. pc[child[p]] \in {"none", "tx_wake", "gone"}
      BY <1>1, <3>2 DEF StateByPlace
    <3>4. child[p] # KernelPid
      BY Zenon, <1>1, <3>3 DEF KernelStays, Waiting, Locked, Destroying
    <3>5. p_parent[child[p]] # PID_INVALID
      BY Zenon, <1>1, PidRanges DEF Orphan
    <3>6. QED
      BY Zenon, <1>1, <3>1, <3>3, <3>4, <3>5
  <2>2. /\ pt_procs' = [pt_procs EXCEPT ![slot(q)] = PID_INVALID]
        /\ p_state' = [p_state EXCEPT ![q] = "freed"] /\ pc' = [pc EXCEPT ![p] = ret[p]]
        /\ UNCHANGED <<pt_most_recent_pid, pt_coffin, p_parent, p_numthreads, p_children, mistaken>>
        /\ UNCHANGED <<p_waitlock, p_cv, k_waitcv, asked, child, options, todo, ret>>
    BY Zenon, <1>3, <2>1 DEF proc_destroy_free, Goto, lkvars, tvars
  <2>3. /\ p_state'[q] = "freed" /\ \A x \in Pids \ {q} : p_state'[x] = p_state[x]
        /\ pc'[p] = ret[p] /\ \A x \in Pids \ {p} : Locals(x) /\ pc'[x] = pc[x]
        /\ slot(q) \in Slots /\ pt_procs[slot(q)] = q /\ pt_procs'[slot(q)] = PID_INVALID
        /\ \A s \in Slots \ {slot(q)} : pt_procs'[s] = pt_procs[s]
    <3>1. slot(q) \in Slots /\ pt_procs[slot(q)] = q
      BY Zenon, <1>1, <2>1, PidRanges, Types
    <3>2. QED
      BY Zenon, <1>1, <2>1, <2>2, <3>1 DEF TypeOK, Locals
  <2>4. TypeOK'
    <3>1. /\ pt_procs' \in [Slots -> Pids \cup {PID_INVALID}] /\ pc' \in [Pids -> PCs]
          /\ p_state' \in [Pids -> {"none", "new", "alive", "zombie", "freed"}]
      BY Zenon, <1>1, <2>2 DEF TypeOK
    <3>2. ASSUME NEW x \in Pids PROVE p_state'[x] \notin {"none", "freed"} <=> pt_procs'[slot(x)] = x
      <4>1. slot(x) \in Slots /\ x # PID_INVALID
        BY Zenon, <3>2, PidRanges
      <4>2. p_state[x] \notin {"none", "freed"} <=> pt_procs[slot(x)] = x
        BY Zenon, <1>1, <3>2, Types
      <4>3. CASE x = q
        BY Zenon, <2>3, <4>1, <4>3
      <4>4. CASE x # q
        BY Zenon, <2>3, <4>1, <4>2, <4>4
      <4>5. QED
        BY Zenon, <4>3, <4>4
    <3>3. ASSUME NEW s \in Slots PROVE pt_procs'[s] # PID_INVALID => slot(pt_procs'[s]) = s
      <4>1. pt_procs[s] # PID_INVALID => slot(pt_procs[s]) = s
        BY Zenon, <1>1, <3>3 DEF TypeOK
      <4>2. pt_procs'[s] = PID_INVALID \/ pt_procs'[s] = pt_procs[s]
        BY Zenon, <2>3, <3>3
      <4>3. QED
        BY Zenon, <4>1, <4>2
    <3>4. QED
      BY Zenon, <1>1, <2>2, <3>1, <3>2, <3>3 DEF TypeOK
  <2>5. ASSUME NEW x \in Pids, Orphan(x) PROVE Orphan(x)'
    <3>1. p_parent[x] \in Pids /\ p_parent'[x] = p_parent[x] /\ p_state[p_parent[x]] \in {"zombie", "freed"}
      BY Zenon, <1>1, <2>2, <2>5, Types DEF Orphan
    <3>2. p_state'[p_parent[x]] \in {"zombie", "freed"}
      BY Zenon, <2>3, <3>1
    <3>3. QED
      BY Zenon, <2>5, <3>1, <3>2 DEF Orphan
  <2>6. ASSUME NEW x \in Pids PROVE Family(x)'
    <3>1. /\ Family(x) /\ p_parent[x] \in Pids \cup {PID_INVALID}
          /\ p_parent'[x] = p_parent[x] /\ UNCHANGED pt_most_recent_pid
      BY Zenon, <1>1, <2>2, <2>6, GoodParts, Types
    <3>2. p_parent[x] # PID_INVALID => p_state'[p_parent[x]] \in {"alive", "zombie", "freed"}
      BY Zenon, <2>3, <3>1 DEF Family
    <3>3. CASE x = q
      <4>1. ~(q > pt_most_recent_pid)
        BY Zenon, <2>1, <3>1, <3>3 DEF Family
      <4>2. QED
        BY Zenon, <2>1, <2>3, <3>1, <3>2, <3>3, <4>1 DEF Family
    <3>4. CASE x # q
      BY Zenon, <2>3, <3>1, <3>2, <3>4 DEF Family
    <3>5. QED
      BY Zenon, <3>3, <3>4
  <2>7. ASSUME NEW x \in Pids PROVE StateByPlace(x)' /\ SleepByPlace(x)'
    <3>1. /\ StateByPlace(x) /\ SleepByPlace(x) /\ p_numthreads'[x] = p_numthreads[x]
          /\ ret'[x] = ret[x] /\ options'[x] = options[x]
      BY Zenon, <2>2, <2>7, GoodParts
    <3>2. CASE x = p
      BY ZenonT(40), <1>1, <2>1, <2>3, <3>1, <3>2 DEF StateByPlace, SleepByPlace, HoldsOwn, Waiting, Locked, Destroying
    <3>3. CASE x = q
      BY Zenon, <2>1, <2>3, <3>1, <3>3 DEF StateByPlace, SleepByPlace, HoldsOwn, Waiting, Locked, Destroying
    <3>4. CASE x # p /\ x # q
      BY Zenon, <2>3, <3>1, <3>4 DEF StateByPlace, SleepByPlace, HoldsOwn, Locals
    <3>5. QED
      BY Zenon, <3>2, <3>3, <3>4
  <2>8. ChildByPlace(p)'
    <3>1. child'[p] = q
      BY Zenon, <2>1, <2>2
    <3>2. QED
      BY Zenon, <1>1, <2>3, <3>1 DEF ChildByPlace, Locked, Destroying
  <2>9. ASSUME NEW x \in Pids \ {p} PROVE ChildByPlace(x)'
    <3>1. /\ ChildByPlace(x) /\ Locals(x) /\ StateByPlace(x) /\ x \in Pids /\ x # p
          /\ child[x] \in Pids \cup {PID_INVALID}
      BY Zenon, <2>3, <2>9, GoodParts, Types
    <3>2. p_state'[x] = "alive" => p_state[x] = "alive"
      BY Zenon, <2>3, <3>1
    <3>3. CASE child[x] = PID_INVALID
      <4>1. /\ pc[x] \notin {"fk_fill", "fk_copy", "wp_parent", "wp_lock"}
            /\ pc[x] \notin Locked \cup Destroying
        BY Zenon, <3>1, <3>3 DEF ChildByPlace
      <4>2. pc[x] \notin {"wp_relock", "wp_remove", "wp_kwait", "wp_ksleep"} /\ pc[x] # "pd_free"
        BY Zenon, <4>1 DEF Locked, Destroying
      <4>3. QED
        BY Zenon, <2>2, <2>5, <3>1, <3>3, <4>1, <4>2 DEF ChildByPlace, Locals
    <3>4. CASE child[x] = q
      <4>1. p_parent[q] = x => p_state[x] \in {"zombie", "freed"}
        BY Zenon, <2>1, <3>1 DEF Orphan
      <4>2. pc[x] # "fk_copy"
        BY Zenon, <3>1, <3>4, <4>1 DEF ChildByPlace, StateByPlace
      <4>3. pc[x] # "fk_fill"
        <5>1. p_state[q] # "new"
          BY Zenon, <2>1, GoodParts DEF Family
        <5>2. QED
          BY Zenon, <3>1, <3>4, <5>1 DEF ChildByPlace
      <4>4. pc[x] \in Locked => p_state'[x] # "alive"
        BY Zenon, <3>1, <3>2, <3>4, <4>1 DEF ChildByPlace
      <4>5. child'[x] = q /\ p_state'[q] = "freed" /\ UNCHANGED <<p_parent, p_numthreads>>
        BY Zenon, <2>2, <2>3, <3>4
      <4>6. QED
        BY Zenon, <2>1, <2>5, <3>1, <3>4, <4>2, <4>3, <4>4, <4>5 DEF ChildByPlace, Locals
    <3>5. CASE child[x] # PID_INVALID /\ child[x] # q
      <4>1. PICK d \in Pids : /\ d = child[x] /\ d = child'[x] /\ p_state'[d] = p_state[d]
                              /\ UNCHANGED <<p_parent, p_numthreads>>
        BY Zenon, <2>2, <2>3, <3>1, <3>5
      <4>2. pc[x] \in {"fk_fill", "fk_copy"} => pc'[d] = "none"
        <5>1. pc[x] \in {"fk_fill", "fk_copy"} => pc[d] = "none"
          BY Zenon, <3>1, <4>1 DEF ChildByPlace
        <5>2. pc[d] = "none" => pc'[d] = "none"
          BY Zenon, <1>1, <2>3
        <5>3. QED
          BY Zenon, <5>1, <5>2
      <4>3. QED
        BY Zenon, <2>5, <3>1, <3>2, <4>1, <4>2 DEF ChildByPlace, Locals
    <3>6. QED
      BY Zenon, <3>1, <3>3, <3>4, <3>5
  <2>10. OneForker'
    <3>1. \A x \in Pids : pc'[x] = "fk_fill" => pc[x] = "fk_fill" /\ child'[x] = child[x]
      BY Zenon, <1>1, <2>2, <2>3
    <3>2. QED
      BY Zenon, <3>1, GoodParts DEF OneForker
  <2>11. HoldsOwn(p)' <=> HoldsOwn(p)
    BY Zenon, <1>1, <2>2, <2>3 DEF HoldsOwn, Waiting, Locked, Destroying
  <2>12. Queues' /\ \A x \in Pids : LockByPlace(x)' /\ HeldByPlace(x)'
    BY Zenon, <1>1, <2>2, <2>3, <2>11, QueuesKept, PlacesKept
  <2>13. WillSignal'
    <3>1. \A w \in p_cv[p] : p_state[p] = "zombie" => HoldsOwn(p)
      BY Zenon, GoodParts, Types DEF WillSignal
    <3>2. QED
      BY Zenon, <1>1, <2>2, <2>3, <2>11, <3>1, SignalKept
  <2>14. Kept'
    <3> SUFFICES ASSUME NEW y \in Pids, NEW x \in Pids, p_parent'[y] = x,
                        p_state'[y] \in {"alive", "zombie"}, p_state'[x] = "alive"
                 PROVE  \/ \E m \in 1..Len(p_children'[x]) : p_children'[x][m] = y
                        \/ child'[x] = y /\ pc'[x] \in OffList
      BY Zenon DEF Kept, OffList
    <3>1. y # q /\ x # q /\ p_parent[y] = x /\ p_state[y] \in {"alive", "zombie"} /\ p_state[x] = "alive"
      BY Zenon, <2>2, <2>3
    <3>2. \/ \E k \in 1..Len(p_children[x]) : p_children[x][k] = y
          \/ child[x] = y /\ pc[x] \in OffList
      BY Zenon, <3>1, GoodParts DEF Kept, OffList
    <3>3. x = p => child[x] # y
      BY Zenon, <2>1, <3>1
    <3>4. QED
      BY <2>2, <2>3, <3>2, <3>3
  <2>15. KernelStays'
    <3>1. p = KernelPid => ret[p] = "run"
      BY Zenon, <1>1 DEF KernelStays
    <3>2. QED
      BY <1>1, <2>2, <2>3, <3>1, PidRanges DEF KernelStays
  <2>16. (pt_coffin # PID_INVALID => Orphan(pt_coffin))'
    <3>1. pt_coffin # PID_INVALID => pt_coffin \in Pids /\ Orphan(pt_coffin)
      BY Zenon, <1>1, GoodParts DEF TypeOK
    <3>2. PICK k : k = pt_coffin /\ k = pt_coffin'
      BY Zenon, <2>2
    <3>3. k # PID_INVALID => Orphan(k)'
      BY Zenon, <2>5, <3>1, <3>2
    <3>4. QED
      BY Zenon, <3>2, <3>3 DEF Orphan
  <2>17. ASSUME NEW x \in Pids PROVE ChildByPlace(x)'
    BY Zenon, <2>8, <2>9
  <2>18. QED
    BY Zenon, <2>4, <2>6, <2>7, <2>10, <2>12, <2>13, <2>14, <2>15, <2>16, <2>17 DEF Good
<1>4. QED
  BY Zenon, <1>2, <1>3

-----------------------------------------------------------------------------
(* The invariant *)

LEMMA InitInv == ASSUME Init PROVE Good
<1>1. /\ pt_procs = [s \in Slots |-> IF s = slot(KernelPid) THEN KernelPid ELSE PID_INVALID]
      /\ pt_most_recent_pid = KernelPid /\ pt_coffin = PID_INVALID
      /\ p_state = [p \in Pids |-> IF p = KernelPid THEN "alive" ELSE "none"]
      /\ p_parent = [p \in Pids |-> PID_INVALID]
      /\ p_numthreads = [p \in Pids |-> IF p = KernelPid THEN 1 ELSE 0]
      /\ p_children = [p \in Pids |-> <<>>] /\ todo = [p \in Pids |-> <<>>]
      /\ p_waitlock = [p \in Pids |-> PID_INVALID] /\ p_cv = [p \in Pids |-> {}] /\ k_waitcv = {}
      /\ pc = [p \in Pids |-> IF p = KernelPid THEN "run" ELSE "none"]
      /\ asked = [p \in Pids |-> PID_INVALID] /\ child = [p \in Pids |-> PID_INVALID]
      /\ options = [p \in Pids |-> "none"] /\ ret = [p \in Pids |-> "run"] /\ mistaken = "no"
  BY Zenon DEF Init
<1>2. TypeOK
  <2>1. \A x \in Pids : p_state[x] \notin {"none", "freed"} <=> pt_procs[slot(x)] = x
    BY Zenon, <1>1, PidRanges
  <2>2. \A s \in Slots : pt_procs[s] # PID_INVALID => slot(pt_procs[s]) = s
    BY Zenon, <1>1, PidRanges
  <2>3. <<>> \in Seq(Pids)
    OBVIOUS
  <2>4. /\ p_children \in [Pids -> Seq(Pids)] /\ todo \in [Pids -> Seq(Pids)]
        /\ pc \in [Pids -> PCs] /\ asked \in [Pids -> Nat]
    BY Zenon, <1>1, <2>3, PidRanges DEF PCs
  <2>5. QED
    BY Zenon, <1>1, <2>1, <2>2, <2>4, PidRanges DEF TypeOK
<1>3. KernelStays /\ OneForker /\ Queues
  BY Zenon, <1>1, PidRanges DEF KernelStays, OneForker, Queues
<1>4. WillSignal /\ Kept
  BY Zenon, <1>1, PidRanges DEF WillSignal, Kept
<1>5. ASSUME NEW x \in Pids PROVE StateByPlace(x) /\ SleepByPlace(x) /\ LockByPlace(x) /\ HeldByPlace(x)
  BY Zenon, <1>1, <1>5 DEF StateByPlace, SleepByPlace, LockByPlace, HeldByPlace, HoldsOwn, Waiting, Locked, Destroying
<1>6. ASSUME NEW x \in Pids PROVE Family(x) /\ ChildByPlace(x)
  <2>1. x > KernelPid => x # KernelPid
    BY <1>6, PidRanges
  <2>2. QED
    BY Zenon, <1>1, <1>6, <2>1, PidRanges DEF Family, ChildByPlace, Locked, Destroying
<1>7. QED
  BY Zenon, <1>1, <1>2, <1>3, <1>4, <1>5, <1>6 DEF Good

LEMMA NextInv == ASSUME IndInv, [Next]_vars PROVE IndInv'
<1>1. CASE mistaken = "yes"
  <2>1. CASE UNCHANGED vars
    BY Zenon, <1>1, <2>1 DEF IndInv, vars
  <2>2. ASSUME NEW p \in Pids, Fork(p) PROVE mistaken' = "yes"
    BY Zenon, <1>1, <2>2 DEF Fork, fork_slot, fork_slot_nomem, fork_fill, fork_fill_nomem, fork_copy_nomem,
         fork_thread, fork_thread_nomem
  <2>3. ASSUME NEW p \in Pids, Destroy(p) PROVE mistaken' = "yes"
    BY Zenon, <1>1, <2>3 DEF Destroy, proc_destroy_check, proc_destroy_free, Panic
  <2>4. ASSUME NEW p \in Pids, Wait(p) PROVE mistaken' = "yes"
    BY Zenon, <1>1, <2>4 DEF Wait, waitpid_get, waitpid_parent, waitpid_lock, waitpid_nohang, waitpid_sleep,
         waitpid_woken, waitpid_copy, remove_child, waitpid_kwait, Panic
  <2>5. ASSUME NEW p \in Pids, Exit(p) PROVE mistaken' = "yes"
    BY Zenon, <1>1, <2>5 DEF Exit, exit_reap, exit_zombie, clear_children, exit_parent, exit_state,
         pt_bury_proc, exit_signal, exit_unlock, thread_exit_rem, thread_exit_wake, Panic
  <2>6. ASSUME NEW p \in Pids, NEW pid \in WaitArgs, NEW opt \in {"none", "WNOHANG"},
               waitpid(p, pid, opt)
        PROVE  mistaken' = "yes"
    BY Zenon, <1>1, <2>6 DEF waitpid
  <2>7. QED
    BY Zenon, <2>1, <2>2, <2>3, <2>4, <2>5, <2>6 DEF IndInv, Next
<1>2. CASE Good
  <2>1. CASE UNCHANGED vars
    BY Zenon, <1>2, <2>1, PanicInv DEF IndInv, vars
  <2>2. ASSUME NEW p \in Pids, Fork(p) PROVE Good'
    BY Zenon, <1>2, <2>2, ForkSlotInv, ForkSlotFailsInv, ForkFillInv, ForkFailsInv, ForkThreadInv DEF Fork
  <2>3. ASSUME NEW p \in Pids, Destroy(p) PROVE Good'
    BY Zenon, <1>2, <2>3, DestroyCheckInv, DestroyFreeInv DEF Destroy
  <2>4. ASSUME NEW p \in Pids, Wait(p) PROVE Good'
    BY Zenon, <1>2, <2>4, WaitGetInv, WaitParentInv, WaitLockInv, WaitNohangInv, WaitSleepInv, WaitWokenInv,
       WaitCopyInv, RemoveChildInv, WaitKwaitInv DEF Wait
  <2>5. ASSUME NEW p \in Pids, Exit(p) PROVE IndInv'
    BY Zenon, <1>2, <2>5, ReapInv, ExitZombieInv, ClearChildrenInv, ExitParentInv, ExitStateInv, BuryInv,
       ExitSignalInv, ExitUnlockInv, ExitRemInv, ExitWakeInv DEF Exit, IndInv
  <2>6. ASSUME NEW p \in Pids, NEW pid \in WaitArgs, NEW opt \in {"none", "WNOHANG"},
               waitpid(p, pid, opt)
        PROVE  Good'
    BY Zenon, <1>2, <2>6, WaitStartInv
  <2>7. QED
    BY Zenon, <2>1, <2>2, <2>3, <2>4, <2>5, <2>6 DEF IndInv, Next
<1>3. QED
  BY Zenon, <1>1, <1>2 DEF IndInv

\* Until the coffin is mistaken, what a thread of fork, waitpid or _exit knows
\* of the process it works on is true.
THEOREM ProcLifeInvariant == Spec => []IndInv
<1>1. Init => IndInv
  BY Zenon, InitInv DEF IndInv
<1>2. IndInv /\ [Next]_vars => IndInv'
  BY Zenon, NextInv
<1>3. QED
  BY <1>1, <1>2, PTL DEF Spec

\* The exit of a child is never missed by the parent that sleeps in waitpid for
\* it: p_waitlock is held from the change of p_state to cv_signal.
THEOREM ProcLifeNoMissedExit == Spec => []NoMissedExit
<1>1. IndInv => NoMissedExit
  <2> SUFFICES ASSUME Good PROVE NoMissedExit
    BY Zenon DEF IndInv, NoMissedExit
  <2>1. ASSUME NEW c \in Pids, NEW w \in Pids, w \in p_cv[c], p_state[c] = "zombie"
        PROVE  p_waitlock[c] = c /\ pc[c] \notin {"ex_bury", "ex_unlock"}
    BY Zenon, <2>1, GoodParts DEF WillSignal, LockByPlace
  <2>2. QED
    BY Zenon, <2>1 DEF NoMissedExit
<1>2. QED
  BY <1>1, ProcLifeInvariant, PTL

\* waitpid reports only the status of a child that has exited, although cv_wait
\* is not in a loop.
THEOREM ProcLifeStatusFromDeadChild == Spec => []StatusFromDeadChild
<1>1. IndInv => StatusFromDeadChild
  <2> SUFFICES ASSUME Good PROVE StatusFromDeadChild
    BY Zenon DEF IndInv, StatusFromDeadChild
  <2>1. QED
    BY Zenon, GoodParts DEF StatusFromDeadChild, ChildByPlace
<1>2. QED
  BY <1>1, ProcLifeInvariant, PTL

\* A parent that is alive keeps every zombie child where waitpid finds it.
THEOREM ProcLifeZombieKept == Spec => []ZombieKeptForParent
<1>1. IndInv => ZombieKeptForParent
  <2> SUFFICES ASSUME Good PROVE ZombieKeptForParent
    BY Zenon DEF IndInv, ZombieKeptForParent
  <2>1. ASSUME NEW c \in Pids, p_state[c] = "zombie", p_state[p_parent[c]] = "alive"
        PROVE  \/ c \in Kids(p_parent[c])
               \/ child[p_parent[c]] = c /\ pc[p_parent[c]] \in OffList
    <3>1. c # KernelPid
      <4>1. StateByPlace(KernelPid) /\ KernelStays
        BY Zenon, GoodParts, PidRanges
      <4>2. p_state[KernelPid] = "alive"
        BY Zenon, <4>1 DEF StateByPlace, KernelStays
      <4>3. QED
        BY Zenon, <2>1, <4>2
    <3>2. p_parent[c] \in Pids
      BY Zenon, <2>1, <3>1, GoodParts, Types DEF Family
    <3>3. \/ \E i \in 1..Len(p_children[p_parent[c]]) : p_children[p_parent[c]][i] = c
          \/ child[p_parent[c]] = c /\ pc[p_parent[c]] \in OffList
      BY Zenon, <2>1, <3>2, GoodParts DEF Kept, OffList
    <3>4. QED
      BY Zenon, <3>3 DEF Kids
  <2>2. QED
    BY Zenon, <2>1 DEF ZombieKeptForParent, OffList
<1>2. QED
  BY <1>1, ProcLifeInvariant, PTL

\* No structure is freed under the feet of its own thread, or of the fork that
\* fills it in.
THEOREM ProcLifeNotFreedInUse == Spec => []NotFreedInUse
<1>1. IndInv => NotFreedInUse
  <2> SUFFICES ASSUME Good PROVE NotFreedInUse
    BY Zenon DEF IndInv, NotFreedInUse
  <2>1. ASSUME NEW p \in Pids, pc[p] \notin {"none", "tx_wake", "gone"} PROVE p_state[p] # "freed"
    <3>1. StateByPlace(p) /\ pc[p] \in PCs
      BY Zenon, <2>1, GoodParts, Types
    <3>2. QED
      BY Zenon, <2>1, <3>1 DEF StateByPlace, HoldsOwn, PCs, Waiting, Locked, Destroying
  <2>2. ASSUME NEW p \in Pids, pc[p] \in {"fk_fill", "fk_copy"} PROVE p_state[child[p]] # "freed"
    BY Zenon, <2>2, GoodParts DEF ChildByPlace
  <2>3. QED
    BY Zenon, <2>1, <2>2 DEF NotFreedInUse
<1>2. QED
  BY <1>1, ProcLifeInvariant, PTL

\* A process is freed by its parent, or from the coffin after its parent's
\* death.
THEOREM ProcLifeReapedByParentOrOrphan == Spec => ReapedByParentOrOrphan
<1> DEFINE Reaped(c) == p_state[c] # "freed" /\ p_state'[c] = "freed"
           Rightly(c) == \/ pc[p_parent[c]] = "pd_free" /\ child[p_parent[c]] = c
                         \/ p_state[p_parent[c]] \in {"zombie", "freed"}
<1>1. ASSUME Good, Next, NEW c \in Pids, Reaped(c) PROVE Rightly(c)
  <2>1. ASSUME NEW p \in Pids, Fork(p) PROVE FALSE
    <3>1. TypeOK
      BY Zenon, <1>1, GoodParts
    <3>2. QED
      BY Zenon, <1>1, <2>1, <3>1 DEF Fork, fork_slot, fork_slot_nomem, fork_fill, fork_fill_nomem,
         fork_copy_nomem, fork_thread, fork_thread_nomem, pvars, TypeOK
  <2>2. ASSUME NEW p \in Pids, Wait(p) PROVE FALSE
    <3>1. UNCHANGED p_state
      BY Zenon, <2>2 DEF Wait, waitpid_get, waitpid_parent, waitpid_lock, waitpid_nohang, waitpid_sleep,
         waitpid_woken, waitpid_copy, remove_child, waitpid_kwait, Panic, pvars
    <3>2. QED
      BY Zenon, <1>1, <3>1
  <2>3. ASSUME NEW p \in Pids, Exit(p) PROVE FALSE
    <3>1. CASE exit_zombie(p)
      BY Zenon, <1>1, <3>1, GoodParts DEF exit_zombie, TypeOK
    <3>2. CASE ~exit_zombie(p)
      <4>1. UNCHANGED p_state
        BY Zenon, <2>3, <3>2 DEF Exit, exit_reap, clear_children, exit_parent, exit_state,
           pt_bury_proc, exit_signal, exit_unlock, thread_exit_rem, thread_exit_wake, Panic, pvars
      <4>2. QED
        BY Zenon, <1>1, <4>1
    <3>3. QED
      BY Zenon, <3>1, <3>2
  <2>4. ASSUME NEW p \in Pids, NEW pid \in WaitArgs, NEW opt \in {"none", "WNOHANG"},
               waitpid(p, pid, opt)
        PROVE  FALSE
    BY Zenon, <1>1, <2>4 DEF waitpid, pvars
  <2>5. ASSUME NEW p \in Pids, Destroy(p) PROVE Rightly(c)
    <3>1. CASE proc_destroy_check(p)
      BY Zenon, <1>1, <3>1 DEF proc_destroy_check, Panic, pvars
    <3>2. CASE proc_destroy_free(p)
      <4>1. pc[p] = "pd_free" /\ child[p] \in Pids /\ ChildByPlace(p) /\ TypeOK
        BY Zenon, <1>1, <3>2, GoodParts, Types DEF proc_destroy_free, At, ChildByPlace, Destroying
      <4>2. c = child[p]
        BY Zenon, <1>1, <3>2, <4>1 DEF proc_destroy_free, Panic, pvars, TypeOK
      <4>3. p_parent[c] = p \/ Orphan(c)
        BY Zenon, <4>1, <4>2 DEF ChildByPlace, Destroying
      <4>4. QED
        BY Zenon, <4>1, <4>2, <4>3 DEF Orphan
    <3>3. QED
      BY Zenon, <2>5, <3>1, <3>2 DEF Destroy
  <2>6. QED
    BY Zenon, <1>1, <2>1, <2>2, <2>3, <2>4, <2>5 DEF Next
<1>2. IndInv /\ [Next]_vars =>
        [mistaken = "yes" \/ \A c \in Pids : Reaped(c) => Rightly(c)]_vars
  <2> HIDE DEF Reaped, Rightly
  <2>1. QED
    BY Zenon, <1>1 DEF IndInv
<1>3. QED
  BY <1>2, ProcLifeInvariant, PTL DEF Spec, ReapedByParentOrOrphan

\* A set of pids has a largest one.
LEMMA LargestPid ==
  ASSUME NEW S \in SUBSET Pids, S # {}
  PROVE  \E p \in S : \A q \in S : q <= p
<1> DEFINE T == {MaxPid - p : p \in S}
           R == OpToRel(<, Nat)
<1>1. T \subseteq Nat /\ T # {}
  <2>1. \A p \in S : MaxPid - p \in Nat
    BY PidAssumption, LifeAssumption DEF Pids, UserPids, KernelPid
  <2>2. QED
    BY Zenon, <2>1
<1>2. PICK m \in T : \A n \in T : ~(<<n, m>> \in R)
  <2>1. IsWellFoundedOn(R, Nat)
    BY Zenon, NatLessThanWellFounded
  <2> HIDE DEF T, R
  <2>2. QED
    BY Zenon, <1>1, <2>1, WFMin
<1>3. \A n \in T : ~(n < m)
  BY Zenon, <1>1, <1>2 DEF OpToRel
<1>4. PICK p \in S : m = MaxPid - p
  BY Zenon, <1>2
<1>5. ASSUME NEW q \in S PROVE q <= p
  <2>1. MaxPid - q \in T /\ q \in Nat /\ p \in Nat /\ MaxPid \in Nat
    BY PidRanges
  <2>2. ~(MaxPid - q < MaxPid - p)
    BY <1>3, <1>4, <2>1
  <2>3. QED
    BY <2>1, <2>2
<1>6. QED
  BY <1>5

\* The p_waitlocks never deadlock: a thread that waits for one waits for a child
\* that is exiting, or for a thread that waits for nothing.
THEOREM ProcLifeNoWaitlockCycle == Spec => []NoWaitlockCycle
<1>1. ASSUME Good, NEW p \in Pids, NEW q \in Pids, Blocks(q, p)
      PROVE  q > p \/ pc[q] = "wp_test"
  <2>1. /\ pc[p] \in {"wp_lock", "wp_relock"} /\ ChildByPlace(p) /\ child[p] \in Pids
        /\ p_waitlock[child[p]] = q
    BY <1>1, GoodParts, Types DEF Blocks, ChildByPlace, Locked
  <2>2. HeldByPlace(child[p]) /\ StateByPlace(child[p]) /\ Family(child[p])
    BY <1>1, <2>1, GoodParts
  <2>3. pc[q] = "wp_test" \/ (q = child[p] /\ HoldsOwn(q))
    BY <2>1, <2>2, PidRanges DEF HeldByPlace
  <2>4. CASE q = child[p] /\ HoldsOwn(q)
    <3>1. p_state[q] = "zombie"
      BY <2>2, <2>4 DEF StateByPlace
    <3>2. p_parent[q] = p
      BY <2>1, <2>4, <3>1 DEF ChildByPlace, Locked
    <3>3. p < q
      BY <2>2, <2>4, <3>2, PidRanges DEF Family
    <3>4. QED
      BY <3>3, PidRanges
  <2>5. QED
    BY SMTT(20), <2>3, <2>4
<1>2. IndInv => NoWaitlockCycle
  <2> SUFFICES ASSUME Good, NEW S \in (SUBSET Pids) \ {{}}
               PROVE  \E p \in S : \A q \in S : ~Blocks(q, p)
    BY DEF IndInv, NoWaitlockCycle
  <2>0. S \in SUBSET Pids /\ S # {}
    OBVIOUS
  <2>1. PICK p \in S : \A q \in S : q <= p
    BY <2>0, LargestPid
  <2>2. CASE \A q \in S : ~Blocks(q, p)
    BY <2>2
  <2>3. CASE \E q \in S : Blocks(q, p)
    <3>1. PICK q \in S : Blocks(q, p)
      BY <2>3
    <3>2. pc[q] = "wp_test"
      BY <1>1, <2>1, <3>1, PidRanges
    <3>3. \A r \in S : ~Blocks(r, q)
      BY <3>2 DEF Blocks
    <3>4. QED
      BY <3>3
  <2>4. QED
    BY <2>2, <2>3
<1>3. QED
  BY <1>2, ProcLifeInvariant, PTL

=============================================================================
