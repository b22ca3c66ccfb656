------------------------------ MODULE Clients ------------------------------
(***************************************************************************)
(* What the programs of kern/synchprobs share: threads that run sections   *)
(* of code under a lock, sleep on condition variables of that lock and are *)
(* woken in the order in which they went to sleep.  A section is one step, *)
(* from lock_acquire to lock_release or to the cv_wait that releases the   *)
(* lock; Synch shows that locks and condition variables built on           *)
(* spinlocks and wait channels behave so (property ImplementsMonitor), and *)
(* Semaphore that P and V are the atomic steps that these modules take     *)
(* them for.                                                               *)
(***************************************************************************)
EXTENDS Integers, Sequences, FiniteSets

VARIABLES
    pc,     \* where each thread is
    sh,     \* the shared data of the program, a record
    cv,     \* for each condition variable, the threads asleep on it, in order
    log     \* what has happened, in order

vars == <<pc, sh, cv, log>>

Asleep(t) == \E c \in DOMAIN cv : \E i \in DOMAIN cv[c] : cv[c][i] = t

At(t, l) == pc[t] = l /\ ~Asleep(t)

Goto(t, l) == pc' = [pc EXCEPT ![t] = l]

\* A thread that waits stays at (or goes to) the section it will try again.
Wait(c, t) == cv' = [cv EXCEPT ![c] = Append(@, t)]

Signalled(q) == IF q = <<>> THEN q ELSE Tail(q)

Signal(c) == cv' = [cv EXCEPT ![c] = Signalled(@)]

Broadcast(c) == cv' = [cv EXCEPT ![c] = <<>>]

InLog(what) == {log[i].who : i \in {j \in DOMAIN log : log[j].what = what}}

Say(t, what) == log' = Append(log, [who |-> t, what |-> what])

Times(t, what) == Cardinality({i \in DOMAIN log : log[i] = [who |-> t, what |-> what]})
=============================================================================
