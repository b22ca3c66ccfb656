------------------------------ MODULE CopyBuf ------------------------------
(***************************************************************************)
(* The pool of copy buffers of kern/proc/copybuff.c.  cb_sem is a          *)
(* semaphore as module AbsSemaphore promises; what is done under cb_lock   *)
(* is one step, since nothing under it sleeps and module Monitor promises  *)
(* mutual exclusion.                                                       *)
(***************************************************************************)
EXTENDS Naturals, FiniteSets

CONSTANTS Procs,        \* the processes
          NoProc,       \* a NULL process pointer
          CPY_BUF_MAX   \* the number of buffers (1 in kern/limits.h)

Slots == 0..(CPY_BUF_MAX - 1)

ASSUME CopyBufAssumption == /\ IsFiniteSet(Procs) /\ NoProc \notin Procs
                            /\ CPY_BUF_MAX \in Nat \ {0}

VARIABLES cb_pc,      \* where each process is in its use of a buffer
          cb_sem,     \* count of the semaphore
          cb_alloc    \* cb_alloc[i]: the process that has buffer i

cbvars == <<cb_pc, cb_sem, cb_alloc>>

cb_create ==
  /\ cb_pc = [p \in Procs |-> "out"]
  /\ cb_sem = CPY_BUF_MAX
  /\ cb_alloc = [i \in Slots |-> NoProc]

CbGoto(p, l) == cb_pc' = [cb_pc EXCEPT ![p] = l]

\* The process is in neither call.
Outside(p) == cb_pc[p] \in {"out", "held"}

\* cb_acquire is called.
cb_acquire(p) ==
  /\ Outside(p)
  /\ CbGoto(p, "P")
  /\ UNCHANGED <<cb_sem, cb_alloc>>

\* Mutant: goes on to choose without the semaphore.
cb_acquire_P_NoWait(p) ==
  /\ cb_pc[p] = "P"
  /\ CbGoto(p, "choose")
  /\ UNCHANGED <<cb_sem, cb_alloc>>

cb_acquire_P(p) ==
  /\ cb_pc[p] = "P" /\ cb_sem > 0
  /\ cb_sem' = cb_sem - 1
  /\ CbGoto(p, "choose")
  /\ UNCHANGED cb_alloc

\* Under cb_lock: the first buffer nobody has.
cb_acquire_choose(p) ==
  /\ cb_pc[p] = "choose"
  /\ \E i \in Slots :
       /\ cb_alloc[i] = NoProc
       /\ \A j \in 0..(i - 1) : cb_alloc[j] # NoProc
       /\ cb_alloc' = [cb_alloc EXCEPT ![i] = p]
  /\ CbGoto(p, "held")
  /\ UNCHANGED cb_sem

\* cb_release is called.
cb_release(p) ==
  /\ Outside(p)
  /\ CbGoto(p, "clear")
  /\ UNCHANGED <<cb_sem, cb_alloc>>

\* Under cb_lock: the first buffer that is the caller's.
cb_release_clear(p) ==
  /\ cb_pc[p] = "clear"
  /\ \E i \in Slots :
       /\ cb_alloc[i] = p
       /\ \A j \in 0..(i - 1) : cb_alloc[j] # p
       /\ cb_alloc' = [cb_alloc EXCEPT ![i] = NoProc]
  /\ CbGoto(p, "V")
  /\ UNCHANGED cb_sem

\* Mutant: the V after the buffer is cleared is left out.
cb_release_V_None(p) ==
  /\ cb_pc[p] = "V"
  /\ CbGoto(p, "out")
  /\ UNCHANGED <<cb_sem, cb_alloc>>

cb_release_V(p) ==
  /\ cb_pc[p] = "V"
  /\ cb_sem' = cb_sem + 1
  /\ CbGoto(p, "out")
  /\ UNCHANGED cb_alloc

\* The steps of a call that is under way.
CbStep(p) == \/ cb_acquire_P(p) \/ cb_acquire_choose(p)
             \/ cb_release_clear(p) \/ cb_release_V(p)

\* The protocol the callers owe the pool: one buffer at a time, and no release
\* without one.
CbNext == \E p \in Procs : \/ cb_pc[p] = "out" /\ cb_acquire(p)
                           \/ cb_pc[p] = "held" /\ cb_release(p)
                           \/ CbStep(p)

CbSpec == cb_create /\ [][CbNext]_cbvars
-----------------------------------------------------------------------------
(* Properties *)

\* Type invariant.
CbTypeOK ==
  /\ cb_pc \in [Procs -> {"out", "P", "choose", "held", "clear", "V"}]
  /\ cb_sem \in Nat
  /\ cb_alloc \in [Slots -> Procs \cup {NoProc}]

\* The processes that own a unit of cb_sem and no buffer: between P and the
\* choice, or between giving the buffer back and V.
InTransit == {p \in Procs : cb_pc[p] \in {"choose", "V"}}
Free == {i \in Slots : cb_alloc[i] = NoProc}

\* The semaphore never counts a buffer that is not there: the free buffers are
\* the units of cb_sem and those of the processes in transit.
UnitsAreBuffers == cb_sem + Cardinality(InTransit) = Cardinality(Free)

\* Each process that is between cb_acquire and cb_release has exactly one
\* buffer, no other process has one, and no two share one.
OneBufferEach ==
  \A p \in Procs :
    IF cb_pc[p] \in {"held", "clear"}
    THEN \E i \in Slots : \A j \in Slots : cb_alloc[j] = p <=> j = i
    ELSE \A i \in Slots : cb_alloc[i] # p

\* cb_acquire's KASSERT(chosen != -1) holds, and cb_release does not panic:
\* the loop of each finds what it looks for.
LoopsFind ==
  \A p \in Procs :
    /\ cb_pc[p] = "choose" => \E i \in Slots : cb_alloc[i] = NoProc
    /\ cb_pc[p] = "clear" => \E i \in Slots : cb_alloc[i] = p

\* The inductive invariant.
CbInv == CbTypeOK /\ UnitsAreBuffers /\ OneBufferEach
=============================================================================
