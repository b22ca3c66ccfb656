------------------------------ MODULE PidTable ------------------------------
(***************************************************************************)
(* Handing out pids over a long life of the system, with the pid counter   *)
(* wrapping around.  Every action is one pt_lock section of fork_common or *)
(* proc_destroy; pt_procs holds, for each slot, the pid of its process.    *)
(***************************************************************************)
EXTENDS PidOps

VARIABLES pt_procs,           \* slot -> pid of its process, or PID_INVALID
          pt_most_recent_pid

vars == <<pt_procs, pt_most_recent_pid>>

\* pt_init: only the kernel process.
Init ==
  /\ pt_procs = [s \in Slots |-> IF s = slot(KernelPid) THEN KernelPid ELSE PID_INVALID]
  /\ pt_most_recent_pid = KernelPid

newpid == pt_get_open_pid(pt_procs, pt_most_recent_pid)

\* The pt_lock section of fork_common.
fork_slot ==
  /\ newpid # PID_INVALID
  /\ pt_most_recent_pid' = newpid
  /\ pt_procs' = [pt_procs EXCEPT ![slot(newpid)] = newpid]

\* ... when proc_create fails: the counter has moved on already.
fork_nomem ==
  /\ newpid # PID_INVALID
  /\ pt_most_recent_pid' = newpid
  /\ UNCHANGED pt_procs

\* The end of proc_destroy, for any process but the kernel.
proc_destroy(pid) ==
  /\ pid # KernelPid
  /\ pt_procs[slot(pid)] = pid
  /\ pt_procs' = [pt_procs EXCEPT ![slot(pid)] = PID_INVALID]
  /\ UNCHANGED pt_most_recent_pid

Next == fork_slot \/ fork_nomem \/ \E pid \in UserPids : proc_destroy(pid)

Spec == Init /\ [][Next]_vars
-----------------------------------------------------------------------------
(* Properties *)

\* Type invariant: a process sits in the slot of its pid, and the kernel
\* process keeps its slot.
TypeOK ==
  /\ pt_procs \in [Slots -> UserPids \cup {KernelPid, PID_INVALID}]
  /\ \A s \in Slots : pt_procs[s] # PID_INVALID => slot(pt_procs[s]) = s
  /\ pt_procs[slot(KernelPid)] = KernelPid
  /\ pt_most_recent_pid \in UserPids \cup {KernelPid}

\* fork never displaces a process, and never hands out again the pid it
\* handed out last, even when that process is gone: a parent that is slow to
\* call waitpid does not wait for a stranger.
FreshPid ==
  [][\A s \in Slots :
       pt_procs'[s] \notin {pt_procs[s], PID_INVALID} =>
         /\ pt_procs[s] = PID_INVALID
         /\ pt_procs'[s] # pt_most_recent_pid]_vars

\* As long as the scan does not wrap around, pt_get_open_pid fails only when
\* every slot is taken.
FullUnlessWrapping ==
  newpid = PID_INVALID /\ pt_most_recent_pid + PROC_MAX < PID_MAX =>
     \A s \in Slots : pt_procs[s] # PID_INVALID

\* The comment at the end of pt_get_open_pid: "We have checked PROC_MAX pids
\* and have not found a valid pid. That means that there are already PROC_MAX
\* processes running".
InvalidMeansFull ==
  newpid = PID_INVALID => \A s \in Slots : pt_procs[s] # PID_INVALID
=============================================================================
