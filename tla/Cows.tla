-------------------------------- MODULE Cows --------------------------------
(***************************************************************************)
(* The singing cows (kern/synchprobs/cows.c): babies put their arguments   *)
(* into an array when they have sung, and the parent takes them out,       *)
(* congratulates and frees them.  The array is protected by donelock; the  *)
(* parent sleeps on donecv.  Creating the array, the lock or the condition *)
(* variable can fail; running out of memory later is a panic.              *)
(***************************************************************************)
EXTENDS Clients

CONSTANT NBABIES   \* num_babies

Baby == 1..NBABIES
Parent == 0
Main == -1

Init ==
    /\ pc = [t \in Baby \cup {Parent, Main} |-> IF t = Main THEN "fork" ELSE "none"]
    /\ sh = [donearray |-> <<>>, finished |-> 0, freed |-> {}, done_sem |-> 0, made |-> {}]
    /\ cv = [c \in {"donecv"} |-> <<>>] /\ log = <<>>

Sing(t) == At(t, "sing") /\ Say(t, "sung") /\ Goto(t, "add") /\ UNCHANGED <<sh, cv>>

\* Mutant: a baby does not wake the parent.
TellParent_Not == UNCHANGED cv

TellParent == Signal("donecv")

\* baby_cow under donelock
AddDone(t) ==
    /\ At(t, "add")
    /\ sh' = [sh EXCEPT !.donearray = Append(@, t)]
    /\ TellParent
    /\ Goto(t, "exited")
    /\ UNCHANGED log

\* parent_cow: the array, the lock and the condition variable, in this order; a failure undoes the
\* ones before it and goes to the V that wakes the menu thread.
Create ==
    /\ At(Parent, "create")
    /\ \/ sh' = [sh EXCEPT !.made = {"array", "lock", "cv"}] /\ Goto(Parent, "fork")
       \/ sh' = [sh EXCEPT !.made = {}] /\ Goto(Parent, "done")
    /\ UNCHANGED <<cv, log>>

ForkBaby ==
    /\ At(Parent, "fork")
    /\ \E t \in Baby :
          /\ pc[t] = "none" /\ \A u \in 1..(t - 1) : pc[u] # "none"
          /\ pc' = [pc EXCEPT ![t] = "sing", ![Parent] = IF t = NBABIES THEN "look" ELSE "fork"]
    /\ UNCHANGED <<sh, cv, log>>

SleepParent ==
    /\ At(Parent, "look") /\ sh.finished < NBABIES /\ sh.donearray = <<>>
    /\ Wait("donecv", Parent)
    /\ UNCHANGED <<pc, sh, log>>

\* Mutant: one baby for each time the parent wakes up, the others left in the array and forgotten.
Taken_One == <<Head(sh.donearray)>>

Taken == sh.donearray

Congratulate ==
    /\ At(Parent, "look") /\ sh.donearray # <<>>
    /\ log' = log \o [i \in DOMAIN Taken |-> [who |-> Taken[i], what |-> "congratulated"]]
    /\ sh' = [sh EXCEPT !.donearray = <<>>,
                        !.freed = @ \cup {Taken[i] : i \in DOMAIN Taken},
                        !.finished = @ + Len(Taken)]
    /\ Goto(Parent, IF sh'.finished = NBABIES THEN "destroy" ELSE "look")
    /\ UNCHANGED cv

Destroy ==
    /\ At(Parent, "destroy")
    /\ sh' = [sh EXCEPT !.made = {}]
    /\ Goto(Parent, "done")
    /\ UNCHANGED <<cv, log>>

Done ==
    /\ At(Parent, "done")
    /\ sh' = [sh EXCEPT !.done_sem = @ + 1]
    /\ Goto(Parent, "exited")
    /\ UNCHANGED <<cv, log>>

ForkParent ==
    /\ At(Main, "fork")
    /\ \/ pc' = [pc EXCEPT ![Main] = "await", ![Parent] = "create"]
       \/ Goto(Main, "returned")
    /\ UNCHANGED <<sh, cv, log>>

Await ==
    /\ At(Main, "await") /\ sh.done_sem > 0
    /\ sh' = [sh EXCEPT !.done_sem = @ - 1]
    /\ Goto(Main, "returned")
    /\ UNCHANGED <<cv, log>>

ABaby(t) == Sing(t) \/ AddDone(t)
TheParent == Create \/ ForkBaby \/ SleepParent \/ Congratulate \/ Destroy \/ Done
TheMain == ForkParent \/ Await

Next == (\E t \in Baby : ABaby(t)) \/ TheParent \/ TheMain

(***************************************************************************)
(* Properties                                                              *)
(***************************************************************************)

\* A baby is congratulated at most once and only after it has sung, and what the babies share is
\* not destroyed while one of them may still use it.
CowsCongratulatedOnce ==
    /\ \A t \in Baby : Times(t, "congratulated") <= Times(t, "sung") /\ Times(t, "sung") <= 1
    /\ \A t \in Baby : t \in sh.freed <=> Times(t, "congratulated") = 1
    /\ (\E t \in Baby : pc[t] \in {"sing", "add"}) => sh.made = {"array", "lock", "cv"}

\* The end, which every fair behaviour comes to: the menu has its thread back and every baby that
\* was started is congratulated.
AllSung ==
    /\ pc[Main] = "returned"
    /\ \A t \in Baby : pc[t] # "none" => pc[t] = "exited" /\ t \in InLog("congratulated")
=============================================================================
