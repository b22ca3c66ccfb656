------------------------------- MODULE PidOps -------------------------------
(***************************************************************************)
(* Process ids and the slots of the process table (kern/proc/proc.c): the  *)
(* process with a given pid lives in slot pid % PROC_MAX.                  *)
(***************************************************************************)
EXTENDS Integers, FiniteSets

CONSTANTS PROC_MAX,  \* slots in the process table (128)
          PID_MIN,   \* the smallest pid of a user process (2)
          PID_MAX    \* pids are smaller than this (32767)

ASSUME PidAssumption ==
  /\ PROC_MAX \in Nat /\ PID_MIN \in Nat /\ PID_MAX \in Nat
  /\ 2 <= PID_MIN /\ 2 <= PROC_MAX /\ PID_MIN + PROC_MAX <= PID_MAX

PID_INVALID == 0
KernelPid == PID_MIN - 1
Slots == 0..(PROC_MAX - 1)
UserPids == PID_MIN..(PID_MAX - 1)

slot(pid) == pid % PROC_MAX

\* The pid that iteration j of the loop in pt_get_open_pid looks at, when the
\* last pid handed out is `recent'.
Candidate(recent, j) ==
  LET i == recent + 1 + j
  IN  IF i >= PID_MAX THEN i - PID_MAX + PID_MIN ELSE i

\* Mutant: the loop gives up one slot early.
pt_get_open_pid_GivesUpEarly(procs, recent) ==
  LET free == {j \in 0..(PROC_MAX - 2) : procs[slot(Candidate(recent, j))] = PID_INVALID}
  IN  IF free = {} THEN PID_INVALID
      ELSE Candidate(recent, CHOOSE j \in free : \A k \in free : j <= k)

\* Mutant: takes the next pid whatever is in its slot, the kernel's included.
pt_get_open_pid_AnyPid(procs, recent) == Candidate(recent, 0)

\* Mutant: any slot but the kernel's own is taken to be free.
pt_get_open_pid_IgnoresTable(procs, recent) ==
  LET i == Candidate(recent, 0)
  IN  IF slot(i) = slot(KernelPid) THEN Candidate(i, 0) ELSE i

\* The first iteration that leaves the loop decides: back at `recent', or a
\* free slot.  A loop that runs out leaves no pid either.
pt_get_open_pid(procs, recent) ==
  LET Leaves(j) == \/ Candidate(recent, j) = recent
                   \/ procs[slot(Candidate(recent, j))] = PID_INVALID
      first == {j \in Slots : Leaves(j) /\ \A k \in Slots : k < j => ~Leaves(k)}
  IN  IF \E j \in first : Candidate(recent, j) # recent
      THEN Candidate(recent, CHOOSE j \in first : TRUE)
      ELSE PID_INVALID
=============================================================================
