------------------------------ MODULE ProcLife ------------------------------
(***************************************************************************)
(* The life of processes: fork (kern/syscall/fork.c), _exit (exit.c),      *)
(* waitpid (waitpid.c), the process table and its coffin (kern/proc/proc.c)*)
(* and the end of a thread (thread_exit in kern/thread/thread.c).          *)
(*                                                                         *)
(* Every process has one thread, named by its pid; the kernel process is   *)
(* the menu thread, which starts a program and waits for it.  A pid stands *)
(* for its struct proc as well: the bound MaxPid keeps pids from wrapping  *)
(* around (module PidTable covers that), so a pid is allocated once and a  *)
(* pointer to a freed structure can be told from one to its successor.     *)
(*                                                                         *)
(* What is done under pt_lock or k_waitlock is one step: nothing blocks    *)
(* while they are held.  p_waitlock is held across other calls and is      *)
(* modelled as a lock (what module Synch shows the lock to be).            *)
(*                                                                         *)
(* A KASSERT that fails, or a use of a freed structure that changes it,    *)
(* sets `halt': the kernel panics and nothing happens any more.            *)
(***************************************************************************)
EXTENDS PidOps, Sequences

CONSTANTS MaxPid,    \* bound: no process gets a pid above this
          WaitArgs   \* the pids that programs pass to waitpid

ASSUME LifeAssumption == /\ MaxPid \in UserPids /\ MaxPid + PROC_MAX < PID_MAX
                         /\ WaitArgs \subseteq Nat \ {PID_INVALID}

Pids == KernelPid..MaxPid

VARIABLES
  pt_procs,            \* slot -> pid of the process in it, or PID_INVALID
  pt_most_recent_pid,
  pt_coffin,           \* pid of an orphan that has exited, or PID_INVALID
  p_state,             \* "none", "new" (not filled in), "alive", "zombie", "freed"
  p_parent,            \* pid of the parent
  p_numthreads,
  p_children,          \* pids on the list of children, newest first
  p_waitlock,          \* the pid whose thread holds it, or PID_INVALID
  p_cv,                \* pids whose threads wait on it
  k_waitcv,            \* pids whose threads wait on it
  pc,                  \* where the thread of each process is
  asked,               \* the pid its waitpid is about
  child,               \* its local variable: the proc it works on
  options,             \* of its waitpid: "WNOHANG" or "none"
  todo,                \* clear_children: the children left to look at
  ret,                 \* where it goes on after waitpid or proc_destroy
  halt,                \* "no", or the assertion that failed
  mistaken             \* history, "yes" or "no": pt_reap_coffin has taken out
                       \* another process than the one that was buried

ptvars == <<pt_procs, pt_most_recent_pid, pt_coffin>>
pvars == <<p_state, p_parent, p_numthreads, p_children>>
lkvars == <<p_waitlock, p_cv, k_waitcv>>
tvars == <<asked, child, options, todo, ret>>
vars == <<ptvars, pvars, lkvars, tvars, pc, halt, mistaken>>

\* pt_init and proc_bootstrap: the kernel process and its menu thread.
Init ==
  /\ pt_procs = [s \in Slots |-> IF s = slot(KernelPid) THEN KernelPid ELSE PID_INVALID]
  /\ pt_most_recent_pid = KernelPid
  /\ pt_coffin = PID_INVALID
  /\ p_state = [p \in Pids |-> IF p = KernelPid THEN "alive" ELSE "none"]
  /\ p_parent = [p \in Pids |-> PID_INVALID]
  /\ p_numthreads = [p \in Pids |-> IF p = KernelPid THEN 1 ELSE 0]
  /\ p_children = [p \in Pids |-> <<>>]
  /\ p_waitlock = [p \in Pids |-> PID_INVALID]
  /\ p_cv = [p \in Pids |-> {}]
  /\ k_waitcv = {}
  /\ pc = [p \in Pids |-> IF p = KernelPid THEN "run" ELSE "none"]
  /\ asked = [p \in Pids |-> PID_INVALID]
  /\ child = [p \in Pids |-> PID_INVALID]
  /\ options = [p \in Pids |-> "none"]
  /\ todo = [p \in Pids |-> <<>>]
  /\ ret = [p \in Pids |-> "run"]
  /\ halt = "no"
  /\ mistaken = "no"

\* p's thread is at l and the kernel has not panicked.
At(p, l) == halt = "no" /\ pc[p] = l
Goto(p, l) == pc' = [pc EXCEPT ![p] = l]
\* The end of waitpid or proc_destroy: the locals are dead.
Return(p) ==
  /\ Goto(p, ret[p])
  /\ asked' = [asked EXCEPT ![p] = PID_INVALID]
  /\ child' = [child EXCEPT ![p] = PID_INVALID]
Panic(why) == halt' = why /\ UNCHANGED <<ptvars, pvars, lkvars, tvars, pc, mistaken>>

\* Whether a test v on a field of q's structure may succeed.  A freed block may
\* have been handed out again, so its fields have any value.  A field that fork
\* has not filled in is 0 in a new page of the heap, which alloc_kpages clears,
\* and 0xdeadbeef in a block that kfree gave back: neither is a pid or P_ZOMBIE.
MayBe(q, v) == v \/ p_state[q] = "freed"
-----------------------------------------------------------------------------
(* fork: fork_common, sys_fork, the SYS_fork case of syscall() and, for the *)
(* kernel process, common_prog.                                             *)

newpid == pt_get_open_pid(pt_procs, pt_most_recent_pid)

\* The pt_lock section: the new structure is in the table, its p_pid,
\* p_parent and p_state still unset.  ENPROC leaves everything as it was.
fork_slot(p) ==
  /\ At(p, "run")
  /\ newpid \in Pids \ {PID_INVALID}
  /\ pt_most_recent_pid' = newpid
  /\ pt_procs' = [pt_procs EXCEPT ![slot(newpid)] = newpid]
  /\ p_state' = [p_state EXCEPT ![newpid] = "new"]
  /\ child' = [child EXCEPT ![p] = newpid]
  /\ Goto(p, "fk_fill")
  /\ UNCHANGED <<pt_coffin, p_parent, p_numthreads, p_children, lkvars,
                 asked, options, todo, ret, halt, mistaken>>

\* ... when proc_create fails: ENOMEM, but the counter has moved on.
fork_slot_nomem(p) ==
  /\ At(p, "run")
  /\ newpid \in Pids \ {PID_INVALID}
  /\ pt_most_recent_pid' = newpid
  /\ UNCHANGED <<pt_procs, pt_coffin, pvars, lkvars, tvars, pc, halt, mistaken>>

\* Mutant: the new node does not keep the rest of the list.
fork_fill_LosesList(p) ==
  /\ At(p, "fk_fill")
  /\ p_waitlock[p] = PID_INVALID
  /\ p_parent' = [p_parent EXCEPT ![child[p]] = p]
  /\ p_state' = [p_state EXCEPT ![child[p]] = "alive"]
  /\ p_children' = [p_children EXCEPT ![p] = <<child[p]>>]
  /\ Goto(p, "fk_copy")
  /\ UNCHANGED <<ptvars, p_numthreads, lkvars, tvars, halt, mistaken>>

\* The section under the parent's p_waitlock.
fork_fill(p) ==
  /\ At(p, "fk_fill")
  /\ p_waitlock[p] = PID_INVALID
  /\ p_parent' = [p_parent EXCEPT ![child[p]] = p]
  /\ p_state' = [p_state EXCEPT ![child[p]] = "alive"]
  /\ p_children' = [p_children EXCEPT ![p] = <<child[p]>> \o @]
  /\ Goto(p, "fk_copy")
  /\ UNCHANGED <<ptvars, p_numthreads, lkvars, tvars, halt, mistaken>>

\* ... when there is no memory for the p_node: proc_destroy and ENOMEM.
fork_fill_nomem(p) ==
  /\ At(p, "fk_fill")
  /\ p_waitlock[p] = PID_INVALID
  /\ p_parent' = [p_parent EXCEPT ![child[p]] = p]
  /\ p_state' = [p_state EXCEPT ![child[p]] = "alive"]
  /\ ret' = [ret EXCEPT ![p] = "run"]
  /\ Goto(p, "pd_check")
  /\ UNCHANGED <<ptvars, p_numthreads, p_children, lkvars, asked, child, options, todo, halt, mistaken>>

\* as_copy, the copy of the trapframe or the copy of the name fails: the new
\* process is destroyed but stays on the list of children.
fork_copy_nomem(p) ==
  /\ At(p, "fk_copy")
  /\ ret' = [ret EXCEPT ![p] = "run"]
  /\ Goto(p, "pd_check")
  /\ UNCHANGED <<ptvars, pvars, lkvars, asked, child, options, todo, halt, mistaken>>

\* thread_fork.  A user process is back in user mode; the menu goes on to
\* wait for the program.
fork_thread(p) ==
  /\ At(p, "fk_copy")
  /\ p_numthreads' = [p_numthreads EXCEPT ![child[p]] = @ + 1]
  /\ pc' = [pc EXCEPT ![child[p]] = "run",
                      ![p] = IF p = KernelPid THEN "wp_start" ELSE "run"]
  /\ asked' = [asked EXCEPT ![p] = IF p = KernelPid THEN child[p] ELSE PID_INVALID]
  /\ options' = [options EXCEPT ![p] = "none"]
  /\ ret' = [ret EXCEPT ![p] = "run"]
  /\ child' = [child EXCEPT ![p] = PID_INVALID]
  /\ UNCHANGED <<ptvars, p_state, p_parent, p_children, lkvars, todo, halt, mistaken>>

\* thread_fork fails: the menu destroys the process (as above), syscall()
\* leaves it in the table, alive and without a thread.
fork_thread_nomem(p) ==
  /\ At(p, "fk_copy") /\ p # KernelPid
  /\ child' = [child EXCEPT ![p] = PID_INVALID]
  /\ Goto(p, "run")
  /\ UNCHANGED <<ptvars, pvars, lkvars, asked, options, todo, ret, halt, mistaken>>
-----------------------------------------------------------------------------
(* proc_destroy(child[p]), called by p's thread *)

\* Mutant: without the assertion on p_numthreads and those of lock_destroy and
\* cv_destroy.
proc_destroy_check_Unasserted(p) ==
  /\ At(p, "pd_check")
  /\ Goto(p, "pd_free")
  /\ UNCHANGED <<ptvars, pvars, lkvars, tvars, halt, mistaken>>

\* proc_destroy up to its assertions.  What it does before KASSERT(p_numthreads
\* == 0) touches nothing of this module: VOP_DECREF(p_cwd) is in Vfs,
\* as_destroy in Vm, and the p_nodes it frees are those of a process whose
\* thread has been through clear_children or never ran.  It takes time, and may
\* sleep: the step may come at any time after the call, so that a thread which
\* leaves q in between is counted out.  When the assertion fails they have been
\* done, and the kernel stops.
proc_destroy_check(p) ==
  LET q == child[p] IN
  /\ At(p, "pd_check")
  /\ \/ /\ p_state[q] = "freed"
        /\ Panic("freed twice")
     \/ /\ p_state[q] # "freed" /\ p_numthreads[q] # 0
        /\ Panic(IF ret[p] = "ex_lock" THEN "coffin thread alive" ELSE "child thread alive")
     \/ /\ p_state[q] # "freed" /\ p_numthreads[q] = 0
        /\ p_waitlock[q] # PID_INVALID \/ p_cv[q] # {}
        /\ Panic("p_waitlock or p_cv in use")
     \/ /\ p_state[q] # "freed" /\ p_numthreads[q] = 0
        /\ p_waitlock[q] = PID_INVALID /\ p_cv[q] = {}
        /\ Goto(p, "pd_free")
        /\ UNCHANGED <<ptvars, pvars, lkvars, tvars, halt, mistaken>>

\* Mutant: frees the structure and leaves it in the table.
proc_destroy_free_KeepsSlot(p) ==
  /\ At(p, "pd_free")
  /\ p_state' = [p_state EXCEPT ![child[p]] = "freed"]
  /\ Return(p)
  /\ UNCHANGED <<ptvars, p_parent, p_numthreads, p_children, lkvars, options, todo, ret, halt, mistaken>>

\* The pt_lock section and kfree.
proc_destroy_free(p) ==
  LET q == child[p] IN
  /\ At(p, "pd_free")
  /\ \/ /\ p_state[q] = "freed"
        /\ Panic("freed twice")
     \/ /\ p_state[q] # "freed"
        /\ pt_procs' = [pt_procs EXCEPT ![slot(q)] = PID_INVALID]
        /\ p_state' = [p_state EXCEPT ![q] = "freed"]
        /\ Goto(p, ret[p])
        /\ UNCHANGED <<pt_most_recent_pid, pt_coffin, p_parent, p_numthreads, p_children,
                       lkvars, tvars, halt, mistaken>>
-----------------------------------------------------------------------------
(* waitpid_common *)

\* A program calls waitpid; waiting for oneself is ESRCH.
waitpid(p, pid, opt) ==
  /\ At(p, "run") /\ p # KernelPid
  /\ pid # p
  /\ asked' = [asked EXCEPT ![p] = pid]
  /\ options' = [options EXCEPT ![p] = opt]
  /\ ret' = [ret EXCEPT ![p] = "run"]
  /\ Goto(p, "wp_start")
  /\ UNCHANGED <<ptvars, pvars, lkvars, child, todo, halt, mistaken>>

\* pt_get_proc: the process in the slot, whatever its pid; ESRCH if none.
waitpid_get(p) ==
  /\ At(p, "wp_start")
  /\ LET q == pt_procs[slot(asked[p])]
     IN  IF q = PID_INVALID THEN Return(p)
         ELSE /\ child' = [child EXCEPT ![p] = q]
              /\ Goto(p, "wp_parent")
              /\ UNCHANGED asked
  /\ UNCHANGED <<ptvars, pvars, lkvars, options, todo, ret, halt, mistaken>>

\* p_parent is read without a lock; ECHILD if it is not the caller.
waitpid_parent(p) ==
  LET q == child[p] IN
  /\ At(p, "wp_parent")
  /\ \/ /\ MayBe(q, p_parent[q] # p)
        /\ Return(p)
     \/ /\ MayBe(q, p_parent[q] = p)
        /\ Goto(p, "wp_lock")
        /\ UNCHANGED <<asked, child>>
  /\ UNCHANGED <<ptvars, pvars, lkvars, options, todo, ret, halt, mistaken>>

\* lock_acquire(child->p_waitlock)
waitpid_lock(p) ==
  LET q == child[p] IN
  /\ At(p, "wp_lock")
  /\ \/ /\ p_state[q] = "freed"
        /\ Panic("lock of a freed process")
     \/ /\ p_state[q] # "freed"
        /\ p_waitlock[q] = PID_INVALID
        /\ p_waitlock' = [p_waitlock EXCEPT ![q] = p]
        /\ Goto(p, "wp_test")
        /\ UNCHANGED <<ptvars, pvars, p_cv, k_waitcv, tvars, halt, mistaken>>

\* The child has not exited: WNOHANG returns, otherwise cv_wait.
waitpid_nohang(p) ==
  /\ At(p, "wp_test")
  /\ MayBe(child[p], p_state[child[p]] # "zombie")
  /\ options[p] = "WNOHANG"
  /\ p_waitlock' = [p_waitlock EXCEPT ![child[p]] = PID_INVALID]
  /\ Return(p)
  /\ UNCHANGED <<ptvars, pvars, p_cv, k_waitcv, options, todo, ret, halt, mistaken>>

waitpid_sleep(p) ==
  /\ At(p, "wp_test")
  /\ MayBe(child[p], p_state[child[p]] # "zombie")
  /\ options[p] = "none"
  /\ p_waitlock' = [p_waitlock EXCEPT ![child[p]] = PID_INVALID]
  /\ p_cv' = [p_cv EXCEPT ![child[p]] = @ \cup {p}]
  /\ Goto(p, "wp_sleep")
  /\ UNCHANGED <<ptvars, pvars, k_waitcv, tvars, halt, mistaken>>

\* cv_wait returns, without a test of the state, with the lock held again;
\* the exit code is copied and the lock released.
waitpid_woken(p) ==
  /\ At(p, "wp_relock")
  /\ p_waitlock[child[p]] = PID_INVALID
  /\ Goto(p, "wp_remove")
  /\ UNCHANGED <<ptvars, pvars, lkvars, tvars, halt, mistaken>>

\* Mutant: does not look at the state of the child.
waitpid_copy_Untested(p) ==
  /\ At(p, "wp_test")
  /\ p_waitlock' = [p_waitlock EXCEPT ![child[p]] = PID_INVALID]
  /\ Goto(p, "wp_remove")
  /\ UNCHANGED <<ptvars, pvars, p_cv, k_waitcv, tvars, halt, mistaken>>

\* The child has exited already: the exit code is copied.
waitpid_copy(p) ==
  /\ At(p, "wp_test")
  /\ MayBe(child[p], p_state[child[p]] = "zombie")
  /\ p_waitlock' = [p_waitlock EXCEPT ![child[p]] = PID_INVALID]
  /\ Goto(p, "wp_remove")
  /\ UNCHANGED <<ptvars, pvars, p_cv, k_waitcv, tvars, halt, mistaken>>

\* The list without its i-th node.
Without(s, i) == SubSeq(s, 1, i - 1) \o SubSeq(s, i + 1, Len(s))

\* remove_child, of the first node whose pn_pid is child->p_pid; then
\* p_numthreads is read without a lock.
remove_child(p) ==
  LET q == child[p]
      s == p_children[p]
  IN
  /\ At(p, "wp_remove")
  /\ \/ \E i \in 1..Len(s) :
          /\ MayBe(q, s[i] = q /\ \A j \in 1..(i - 1) : s[j] # q)
          /\ p_children' = [p_children EXCEPT ![p] = Without(s, i)]
          /\ \/ MayBe(q, p_numthreads[q] > 0) /\ Goto(p, "wp_kwait")
             \/ MayBe(q, p_numthreads[q] = 0) /\ Goto(p, "pd_check")
          /\ UNCHANGED <<ptvars, p_state, p_parent, p_numthreads, lkvars, tvars, halt, mistaken>>
     \/ /\ MayBe(q, \A i \in 1..Len(s) : s[i] # q)
        /\ Panic("child not found")

\* cv_wait(k_waitcv), not in a loop; the wake-up moves on to "pd_check".
waitpid_kwait(p) ==
  /\ At(p, "wp_kwait")
  /\ k_waitcv' = k_waitcv \cup {p}
  /\ Goto(p, "wp_ksleep")
  /\ UNCHANGED <<ptvars, pvars, p_waitlock, p_cv, tvars, halt, mistaken>>
-----------------------------------------------------------------------------
(* kern__exit and thread_exit *)

\* pt_reap_coffin, up to its call of proc_destroy.  It indexes the table with
\* the pid itself, which is past the end of the table for a pid >= PROC_MAX.
exit_reap(p) ==
  LET q == pt_procs[pt_coffin] IN
  /\ At(p, "run") /\ p # KernelPid
  /\ \/ /\ pt_coffin = PID_INVALID
        /\ Goto(p, "ex_lock")
        /\ UNCHANGED <<ptvars, pvars, lkvars, tvars, halt, mistaken>>
     \/ /\ pt_coffin >= PROC_MAX
        /\ Panic("coffin outside the table")
     \/ /\ pt_coffin \in Slots \ {PID_INVALID} /\ q = PID_INVALID
        /\ Panic("empty slot in the coffin")
     \/ /\ pt_coffin \in Slots \ {PID_INVALID} /\ q # PID_INVALID
        /\ pt_coffin' = PID_INVALID
        /\ child' = [child EXCEPT ![p] = q]
        /\ ret' = [ret EXCEPT ![p] = "ex_lock"]
        /\ mistaken' = IF q = pt_coffin THEN mistaken ELSE "yes"
        /\ Goto(p, "pd_check")
        /\ UNCHANGED <<pt_procs, pt_most_recent_pid, pvars, lkvars, asked, options, todo, halt>>

\* The process becomes a zombie under its own p_waitlock, which it keeps.
exit_zombie(p) ==
  /\ At(p, "ex_lock")
  /\ p_waitlock[p] = PID_INVALID
  /\ p_waitlock' = [p_waitlock EXCEPT ![p] = p]
  /\ p_state' = [p_state EXCEPT ![p] = "zombie"]
  /\ todo' = [todo EXCEPT ![p] = p_children[p]]
  /\ ret' = [ret EXCEPT ![p] = "ex_kids"]
  /\ Goto(p, "ex_kids")
  /\ UNCHANGED <<ptvars, p_parent, p_numthreads, p_children, p_cv, k_waitcv,
                 asked, child, options, halt, mistaken>>

\* clear_children: kern_waitpid with WNOHANG for each child.
clear_children(p) ==
  /\ At(p, "ex_kids") /\ todo[p] # <<>>
  /\ asked' = [asked EXCEPT ![p] = Head(todo[p])]
  /\ options' = [options EXCEPT ![p] = "WNOHANG"]
  /\ todo' = [todo EXCEPT ![p] = Tail(@)]
  /\ Goto(p, "wp_start")
  /\ UNCHANGED <<ptvars, pvars, lkvars, child, ret, halt, mistaken>>

\* Mutant: takes the parent's p_waitlock before it looks at the parent.
exit_parent_LocksParent(p) ==
  /\ At(p, "ex_kids") /\ todo[p] = <<>>
  /\ pt_procs[slot(p_parent[p])] # PID_INVALID
  /\ child' = [child EXCEPT ![p] = pt_procs[slot(p_parent[p])]]
  /\ Goto(p, "wp_lock")
  /\ UNCHANGED <<ptvars, pvars, lkvars, asked, options, todo, ret, halt, mistaken>>

\* pt_get_proc(curproc->p_parent)
exit_parent(p) ==
  /\ At(p, "ex_kids") /\ todo[p] = <<>>
  /\ child' = [child EXCEPT ![p] = pt_procs[slot(p_parent[p])]]
  /\ Goto(p, "ex_state")
  /\ UNCHANGED <<ptvars, pvars, lkvars, asked, options, todo, ret, halt, mistaken>>

\* Mutant: does not ask whether the parent is alive.
exit_state_AlwaysBury(p) ==
  /\ At(p, "ex_state")
  /\ Goto(p, "ex_bury")
  /\ child' = [child EXCEPT ![p] = PID_INVALID]
  /\ UNCHANGED <<ptvars, pvars, lkvars, asked, options, todo, ret, halt, mistaken>>

\* parent->p_state is read without a lock, and acted on in a later step.
exit_state(p) ==
  LET q == child[p] IN
  /\ At(p, "ex_state")
  /\ \/ /\ q = PID_INVALID \/ (q # PID_INVALID /\ MayBe(q, p_state[q] = "zombie"))
        /\ Goto(p, "ex_bury")
     \/ /\ q # PID_INVALID /\ MayBe(q, p_state[q] # "zombie")
        /\ Goto(p, "ex_signal")
  /\ child' = [child EXCEPT ![p] = PID_INVALID]
  /\ UNCHANGED <<ptvars, pvars, lkvars, asked, options, todo, ret, halt, mistaken>>

pt_bury_proc(p) ==
  /\ At(p, "ex_bury")
  /\ IF pt_coffin # PID_INVALID THEN Panic("coffin not empty")
     ELSE /\ pt_coffin' = p
          /\ Goto(p, "ex_unlock")
          /\ UNCHANGED <<pt_procs, pt_most_recent_pid, pvars, lkvars, tvars, halt, mistaken>>

\* Mutant: exits without waking the parent.
exit_signal_None(p) ==
  /\ At(p, "ex_signal")
  /\ Goto(p, "ex_unlock")
  /\ UNCHANGED <<ptvars, pvars, lkvars, tvars, halt, mistaken>>

\* cv_signal(curproc->p_cv)
exit_signal(p) ==
  /\ At(p, "ex_signal")
  /\ \/ /\ p_cv[p] = {}
        /\ Goto(p, "ex_unlock")
        /\ UNCHANGED p_cv
     \/ \E w \in p_cv[p] :
          /\ p_cv' = [p_cv EXCEPT ![p] = @ \ {w}]
          /\ pc' = [pc EXCEPT ![p] = "ex_unlock", ![w] = "wp_relock"]
  /\ UNCHANGED <<ptvars, pvars, p_waitlock, k_waitcv, tvars, halt, mistaken>>

exit_unlock(p) ==
  /\ At(p, "ex_unlock")
  /\ p_waitlock' = [p_waitlock EXCEPT ![p] = PID_INVALID]
  /\ Goto(p, "tx_rem")
  /\ UNCHANGED <<ptvars, pvars, p_cv, k_waitcv, tvars, halt, mistaken>>

\* thread_exit: proc_remthread ...
thread_exit_rem(p) ==
  /\ At(p, "tx_rem")
  /\ p_numthreads' = [p_numthreads EXCEPT ![p] = @ - 1]
  /\ Goto(p, "tx_wake")
  /\ UNCHANGED <<ptvars, p_state, p_parent, p_children, lkvars, tvars, halt, mistaken>>

\* ... and the broadcast under k_waitlock.
thread_exit_wake(p) ==
  /\ At(p, "tx_wake")
  /\ k_waitcv' = {}
  /\ pc' = [q \in Pids |-> IF q = p THEN "gone"
                           ELSE IF q \in k_waitcv THEN "pd_check" ELSE pc[q]]
  /\ UNCHANGED <<ptvars, pvars, p_waitlock, p_cv, tvars, halt, mistaken>>
-----------------------------------------------------------------------------
Fork(p) ==
  \/ fork_slot(p) \/ fork_slot_nomem(p) \/ fork_fill(p) \/ fork_fill_nomem(p)
  \/ fork_copy_nomem(p) \/ fork_thread(p) \/ fork_thread_nomem(p)

Destroy(p) == proc_destroy_check(p) \/ proc_destroy_free(p)

Wait(p) ==
  \/ waitpid_get(p) \/ waitpid_parent(p) \/ waitpid_lock(p) \/ waitpid_nohang(p)
  \/ waitpid_sleep(p) \/ waitpid_woken(p) \/ waitpid_copy(p) \/ remove_child(p)
  \/ waitpid_kwait(p)

Exit(p) ==
  \/ exit_reap(p) \/ exit_zombie(p) \/ clear_children(p) \/ exit_parent(p)
  \/ exit_state(p) \/ pt_bury_proc(p) \/ exit_signal(p) \/ exit_unlock(p)
  \/ thread_exit_rem(p) \/ thread_exit_wake(p)

Next ==
  \E p \in Pids :
     \/ Fork(p) \/ Destroy(p) \/ Wait(p) \/ Exit(p)
     \/ \E pid \in WaitArgs, opt \in {"none", "WNOHANG"} : waitpid(p, pid, opt)

Spec == Init /\ [][Next]_vars
-----------------------------------------------------------------------------
(* Properties *)

Kids(p) == {p_children[p][i] : i \in 1..Len(p_children[p])}

\* The threads of the processes that exist, and where they can be.
PCs == {"none", "run", "fk_fill", "fk_copy", "pd_check", "pd_free", "wp_start",
        "wp_parent", "wp_lock", "wp_test", "wp_sleep", "wp_relock", "wp_remove",
        "wp_kwait", "wp_ksleep", "ex_lock", "ex_kids", "ex_state", "ex_bury",
        "ex_signal", "ex_unlock", "tx_rem", "tx_wake", "gone"}

\* Type invariant.  A structure is in the slot of its pid exactly from fork to
\* kfree, and a process has at most one thread.
TypeOK ==
  /\ pt_procs \in [Slots -> Pids \cup {PID_INVALID}]
  /\ pt_most_recent_pid \in Pids
  /\ pt_coffin \in Pids \cup {PID_INVALID}
  /\ p_state \in [Pids -> {"none", "new", "alive", "zombie", "freed"}]
  /\ p_parent \in [Pids -> Pids \cup {PID_INVALID}]
  /\ p_numthreads \in [Pids -> {0, 1}]
  /\ p_children \in [Pids -> Seq(Pids)]
  /\ p_waitlock \in [Pids -> Pids \cup {PID_INVALID}]
  /\ p_cv \in [Pids -> SUBSET Pids]
  /\ k_waitcv \subseteq Pids
  /\ pc \in [Pids -> PCs]
  /\ asked \in [Pids -> Nat]
  /\ child \in [Pids -> Pids \cup {PID_INVALID}]
  /\ options \in [Pids -> {"none", "WNOHANG"}]
  /\ todo \in [Pids -> Seq(Pids)]
  /\ ret \in [Pids -> {"run", "ex_lock", "ex_kids"}]
  /\ mistaken \in {"no", "yes"}
  /\ \A p \in Pids : p_state[p] \notin {"none", "freed"} <=> pt_procs[slot(p)] = p
  /\ \A s \in Slots : pt_procs[s] # PID_INVALID => slot(pt_procs[s]) = s

\* p waits for a p_waitlock that q holds.
Blocks(q, p) == pc[p] \in {"wp_lock", "wp_relock"} /\ p_waitlock[child[p]] = q

\* The p_waitlocks never deadlock: exit holds its own while clear_children
\* takes the children's, and waitpid takes a child's, but every set of threads
\* has one that no other of them keeps from going on.
NoWaitlockCycle ==
  mistaken = "yes" \/ \A S \in (SUBSET Pids) \ {{}} : \E p \in S : \A q \in S : ~Blocks(q, p)

\* The properties below hold until pt_reap_coffin destroys a process that it
\* takes for the one that was buried: one may be reaped by its dying parent
\* while it is in the coffin, and then its slot may be given to another.

\* A parent asleep in waitpid is never missed by the exit of its child: once
\* the child is a zombie, the child is still on its way to cv_signal.
NoMissedExit ==
  mistaken = "yes" \/
  \A c \in Pids, w \in Pids :
    w \in p_cv[c] /\ p_state[c] = "zombie" /\ w = p_parent[c] =>
      p_waitlock[c] = c /\ pc[c] \notin {"ex_bury", "ex_unlock"}

\* waitpid reports a status only for a child that has exited, although cv_wait
\* is not in a loop.
StatusFromDeadChild ==
  mistaken = "yes" \/
  \A p \in Pids : pc[p] \in {"wp_remove", "wp_kwait", "wp_ksleep"} =>
                    p_state[child[p]] \in {"zombie", "freed"}

\* A parent that is alive can still collect every child that has exited: it
\* is on the list of children until the parent takes it off to destroy it.
ZombieKeptForParent ==
  mistaken = "yes" \/
  \A c \in Pids :
    p_state[c] = "zombie" /\ p_state[p_parent[c]] = "alive" =>
      \/ c \in Kids(p_parent[c])
      \/ /\ child[p_parent[c]] = c
         /\ pc[p_parent[c]] \in {"wp_kwait", "wp_ksleep", "pd_check", "pd_free"}

\* No structure is freed while its own thread, from its first step to
\* proc_remthread, or the fork that is filling it in still works on it: the
\* races of exit and waitpid end in an assertion of proc_destroy before that.
NotFreedInUse ==
  mistaken = "yes" \/
  \A p \in Pids :
    /\ pc[p] \notin {"none", "tx_wake", "gone"} => p_state[p] # "freed"
    /\ pc[p] \in {"fk_fill", "fk_copy"} => p_state[child[p]] # "freed"

\* A process is freed by its own parent, or from the coffin when its parent is
\* dead: nobody destroys a process whose parent may still wait for it.
ReapedByParentOrOrphan ==
  [][mistaken = "yes" \/
     \A c \in Pids : p_state[c] # "freed" /\ p_state'[c] = "freed" =>
       \/ pc[p_parent[c]] = "pd_free" /\ child[p_parent[c]] = c
       \/ p_state[p_parent[c]] \in {"zombie", "freed"}]_vars

\* The inductive invariant.  waitpid, on a child that its caller has locked:
Locked == {"wp_test", "wp_sleep", "wp_relock", "wp_remove", "wp_kwait", "wp_ksleep"}
Waiting == {"wp_start", "wp_parent", "wp_lock"} \cup Locked
Destroying == {"pd_check", "pd_free"}

\* p is between exit_zombie and exit_unlock.
HoldsOwn(p) ==
  \/ pc[p] \in {"ex_kids", "ex_state", "ex_bury", "ex_signal", "ex_unlock"}
  \/ pc[p] \in Waiting \cup Destroying /\ ret[p] = "ex_kids"

Orphan(c) == p_parent[c] # PID_INVALID /\ p_state[p_parent[c]] \in {"zombie", "freed"}

\* The state of a process follows from where its thread is.
StateByPlace(p) ==
  /\ p_numthreads[p] = IF pc[p] \in {"none", "tx_wake", "gone"} THEN 0 ELSE 1
  /\ pc[p] = "none" => p_state[p] # "zombie"
  /\ pc[p] \in {"run", "fk_fill", "fk_copy", "ex_lock"} => p_state[p] = "alive"
  /\ pc[p] \in Waiting \cup Destroying /\ ret[p] # "ex_kids" => p_state[p] = "alive"
  /\ HoldsOwn(p) \/ pc[p] = "tx_rem" => p_state[p] = "zombie"
  /\ pc[p] \in {"tx_wake", "gone"} => p_state[p] \in {"zombie", "freed"}

\* The menu never exits.
KernelStays ==
  /\ pc[KernelPid] \in {"run", "fk_fill", "fk_copy"} \cup Waiting \cup Destroying
  /\ ret[KernelPid] = "run"

\* Pids are handed out in increasing order and parents come before children.
Family(c) ==
  /\ c > pt_most_recent_pid => p_state[c] = "none"
  /\ p_state[c] \in {"none", "new"} => p_parent[c] = PID_INVALID
  /\ p_parent[c] # PID_INVALID =>
       p_parent[c] < c /\ p_state[p_parent[c]] \in {"alive", "zombie", "freed"}
  /\ p_state[c] \in {"alive", "zombie"} /\ c # KernelPid => p_parent[c] # PID_INVALID

\* What p's thread knows of the process it works on, and of its own parent.
ChildByPlace(p) ==
  /\ child[p] # PID_INVALID => p_state[child[p]] # "none"
  /\ pc[p] \in {"fk_fill", "fk_copy", "wp_parent", "wp_lock"} \cup Locked \cup Destroying =>
       child[p] # PID_INVALID
  /\ pc[p] \in {"fk_fill", "fk_copy"} => pc[child[p]] = "none"
  /\ pc[p] = "fk_fill" => p_state[child[p]] = "new" /\ p < child[p]
  /\ pc[p] = "fk_copy" => p_state[child[p]] = "alive" /\ p_parent[child[p]] = p
  /\ pc[p] = "wp_lock" => p_parent[child[p]] = p \/ p_state[child[p]] = "freed"
  /\ pc[p] \in Locked => /\ p_parent[child[p]] = p
                         /\ p_state[p] = "alive" => p_state[child[p]] # "freed"
  /\ pc[p] \in {"wp_relock", "wp_remove", "wp_kwait", "wp_ksleep"} =>
       p_state[child[p]] \in {"zombie", "freed"}
  /\ pc[p] \in Destroying => p_parent[child[p]] = p \/ Orphan(child[p])
  /\ pc[p] = "pd_free" => p_numthreads[child[p]] = 0
  /\ pc[p] = "ex_state" => child[p] = p_parent[p] \/ Orphan(p)
  /\ pc[p] = "ex_bury" => Orphan(p)

\* clear_children never sleeps.
SleepByPlace(p) ==
  /\ pc[p] \in Waiting /\ ret[p] = "ex_kids" => options[p] = "WNOHANG"
  /\ pc[p] = "wp_sleep" => options[p] = "none"
  /\ pc[p] = "ex_kids" => ret[p] = "ex_kids"

OneForker ==
  \A p, q \in Pids : pc[p] = "fk_fill" /\ pc[q] = "fk_fill" /\ child[p] = child[q] => p = q

\* Who holds which p_waitlock.
LockByPlace(p) ==
  /\ HoldsOwn(p) => p_waitlock[p] = p
  /\ pc[p] = "wp_test" => p_waitlock[child[p]] = p
HeldByPlace(c) ==
  LET h == p_waitlock[c] IN
  h # PID_INVALID => (h = c /\ HoldsOwn(c)) \/ (pc[h] = "wp_test" /\ child[h] = c)

Queues ==
  /\ \A c, w \in Pids : w \in p_cv[c] <=> pc[w] = "wp_sleep" /\ child[w] = c
  /\ \A w \in Pids : w \in k_waitcv <=> pc[w] = "wp_ksleep"

\* A zombie that its parent sleeps for will signal it.
WillSignal ==
  \A c, w \in Pids : w \in p_cv[c] /\ p_state[c] = "zombie" =>
    /\ HoldsOwn(c) /\ pc[c] \notin {"ex_bury", "ex_unlock"}
    /\ pc[c] = "ex_state" => child[c] = w

\* A parent that is alive has every child that is not freed on its list, or
\* is about to destroy it.
Kept ==
  \A c, p \in Pids :
    p_parent[c] = p /\ p_state[c] \in {"alive", "zombie"} /\ p_state[p] = "alive" =>
      \/ \E i \in 1..Len(p_children[p]) : p_children[p][i] = c
      \/ child[p] = c /\ pc[p] \in {"wp_kwait", "wp_ksleep", "pd_check", "pd_free"}

Good ==
  /\ TypeOK /\ KernelStays /\ OneForker /\ Queues /\ WillSignal /\ Kept
  /\ \A p \in Pids : /\ StateByPlace(p) /\ Family(p) /\ ChildByPlace(p) /\ SleepByPlace(p)
                      /\ LockByPlace(p) /\ HeldByPlace(p)
  /\ pt_coffin # PID_INVALID => Orphan(pt_coffin)

IndInv == mistaken = "yes" \/ Good
-----------------------------------------------------------------------------
(* What comments and assertions of the code say, which the code does not    *)
(* keep.                                                                    *)

\* pt_bury_proc asserts "make sure the coffin is empty".
CoffinEmptyAtBurial == halt # "coffin not empty"

\* pt_coffin is the "coffin for orphaned zombie processes": what
\* pt_reap_coffin takes out of it is a process in the table.
CoffinInTable == halt # "coffin outside the table"

\* proc_destroy: a process that is not current must "have finished running
\* and exited"; from the coffin, its last thread has to be gone.
CoffinThreadGone == halt # "coffin thread alive"

\* k_waitcv is "for waiting until thread has removed the process": after the
\* wait the child has no thread.
ChildThreadGone == halt # "child thread alive"

\* The same comment: a parent waits on k_waitcv only for a thread that is yet
\* to leave and to broadcast.
ThreadExitNotMissed ==
  \A p \in Pids : halt = "no" /\ pc[p] = "wp_ksleep" =>
     p_numthreads[child[p]] > 0 \/ pc[child[p]] = "tx_wake"

\* proc_destroy: "we must have the only reference to this structure".
OnlyReference ==
  \A p, q \in Pids : p # q /\ pc[p] \in {"pd_check", "pd_free"} =>
    ~(child[q] = child[p] /\ pc[q] \in {"wp_remove", "wp_kwait", "wp_ksleep",
                                        "pd_check", "pd_free"})

\* remove_child: "We should have found the child".
ChildFound == halt # "child not found"

\* The same: what pt_reap_coffin destroys is the process that was buried.
BuriedIsReaped == mistaken = "no"

\* pt_get_proc "Returns the process associated with the given pid".
PtGetProcByPid ==
  \A p \in Pids : /\ pc[p] = "wp_parent" => child[p] = asked[p]
                  /\ pc[p] = "ex_state" => child[p] \in {p_parent[p], PID_INVALID}
=============================================================================
