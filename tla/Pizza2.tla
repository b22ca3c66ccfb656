------------------------------- MODULE Pizza2 -------------------------------
(***************************************************************************)
(* The pizza problem that counts pizzas down (kern/synchprobs/pizza2.c):   *)
(* a maker wakes the students only when it fills the first shelf, a        *)
(* student wakes the makers only when it empties the last one, and a       *)
(* student leaves when it finds no pizza and none is left to be eaten.     *)
(***************************************************************************)
EXTENDS Clients

CONSTANTS NMAKERS, NSTUDENTS, NSHELVES, NPIZZAS

Maker == 1..NMAKERS
Student == (NMAKERS + 1)..(NMAKERS + NSTUDENTS)

Init ==
    /\ pc = [t \in Maker \cup Student |-> "run"]
    /\ sh = [nPizzasAvailable |-> 0, nPizzasLeft |-> NMAKERS * NPIZZAS, made |-> [t \in Maker |-> 0]]
    /\ cv = [c \in {"cv_full", "cv_empty"} |-> <<>>] /\ log = <<>>

WaitForShelf(t) ==
    /\ At(t, "run") /\ sh.made[t] < NPIZZAS /\ sh.nPizzasAvailable = NSHELVES
    /\ Wait("cv_full", t)
    /\ UNCHANGED <<pc, sh, log>>

Deliver(t) ==
    /\ At(t, "run") /\ sh.made[t] < NPIZZAS /\ sh.nPizzasAvailable # NSHELVES
    /\ sh' = [sh EXCEPT !.nPizzasAvailable = @ + 1, !.made[t] = @ + 1]
    /\ IF sh'.nPizzasAvailable = 1 THEN Broadcast("cv_empty") ELSE UNCHANGED cv
    /\ Goto(t, IF sh'.made[t] = NPIZZAS THEN "exited" ELSE "run")
    /\ UNCHANGED log

WaitForPizza(t) ==
    /\ At(t, "run") /\ sh.nPizzasAvailable = 0 /\ sh.nPizzasLeft # 0
    /\ Wait("cv_empty", t)
    /\ UNCHANGED <<pc, sh, log>>

Leave(t) ==
    /\ At(t, "run") /\ sh.nPizzasAvailable = 0 /\ sh.nPizzasLeft = 0
    /\ Goto(t, "exited")
    /\ UNCHANGED <<sh, cv, log>>

\* Mutant: the makers are told when the shelves are empty.
WasFull_Empty(n) == n = 0

\* Mutant: one maker is told.
TellMakers_One == Signal("cv_full")

TellMakers == Broadcast("cv_full")

WasFull(n) == n = NSHELVES - 1

\* Mutant: what is left is counted when the student comes back from eating.
Eaten_Later == 0

Eaten == 1

Take(t) ==
    /\ At(t, "run") /\ sh.nPizzasAvailable # 0
    /\ sh' = [sh EXCEPT !.nPizzasLeft = @ - Eaten, !.nPizzasAvailable = @ - 1]
    /\ IF WasFull(sh'.nPizzasAvailable) THEN TellMakers ELSE UNCHANGED cv
    /\ UNCHANGED <<pc, log>>

\* pizzamaker_thread and student_thread
AMaker(t) == WaitForShelf(t) \/ Deliver(t)
AStudent(t) == WaitForPizza(t) \/ Leave(t) \/ Take(t)

(***************************************************************************)
(* Properties                                                              *)
(***************************************************************************)

\* What is left to be eaten is what is on the shelves and what the makers will still make: a student
\* that leaves can rely on it.
LeftIsExact ==
    sh.nPizzasLeft = sh.nPizzasAvailable
                     + Cardinality({<<t, i>> \in Maker \X (1..NPIZZAS) : i > sh.made[t]})

\* Where every fair behaviour ends: waking makers only when the shelves were full, and students only
\* when they were empty, is enough for every pizza to be made and eaten and for all to go home.  A
\* student that sleeps while there is pizza left is woken by the next delivery, the first on the
\* shelves; one that comes later finds that nothing is left and does not sleep.
AllHome == sh.nPizzasLeft = 0 /\ \A t \in Maker \cup Student : pc[t] = "exited"
=============================================================================
