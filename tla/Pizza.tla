------------------------------- MODULE Pizza -------------------------------
(***************************************************************************)
(* The pizza problem with a driver that waits                              *)
(* (kern/synchprobs/pizza1.c): makers put pizzas on a stack of NSHELVES    *)
(* shelves, students take the freshest one, and everything is under        *)
(* mainlock.  A student goes home when all makers that have arrived are    *)
(* gone and the shelves are empty.  Shelves and pizzas are counted; the    *)
(* type of a pizza is only printed.                                        *)
(***************************************************************************)
EXTENDS Clients

CONSTANTS NPIZZAMAKERS, NSTUDENTS, NSHELVES, NPIZZAS

Maker == 1..NPIZZAMAKERS
Student == (NPIZZAMAKERS + 1)..(NPIZZAMAKERS + NSTUDENTS)
Main == 0

Init ==
    /\ pc = [t \in Maker \cup Student \cup {Main} |-> IF t = Main THEN "wait" ELSE "arrive"]
    /\ sh = [curshelf |-> 0, neating |-> 0, nworking |-> 0, nproduced |-> 0,
             imade |-> [t \in Maker |-> 0], mypizzas |-> [t \in Student |-> 0]]
    /\ cv = [c \in {"emptywait", "fullwait", "donecv"} |-> <<>>] /\ log = <<>>

ArriveMaker(t) ==
    /\ At(t, "arrive")
    /\ sh' = [sh EXCEPT !.nworking = @ + 1]
    /\ Goto(t, "bake")
    /\ UNCHANGED <<cv, log>>

WaitForShelf(t) ==
    /\ At(t, "bake") /\ sh.imade[t] < NPIZZAS /\ sh.curshelf = NSHELVES
    /\ Wait("fullwait", t)
    /\ UNCHANGED <<pc, sh, log>>

\* Mutant: only one of the students is told of the pizza.
TellStudents_One == Signal("emptywait")

\* Mutant: they are told of pizzas but not of the end of the day.
TellStudents_Not == UNCHANGED cv

TellStudents == Broadcast("emptywait")

\* Mutant: the maker does not look again after it was woken, and uses a shelf that is not there.
Room_Assumed == TRUE

Room == sh.curshelf < NSHELVES

PutPizza(t) ==
    /\ At(t, "bake") /\ sh.imade[t] < NPIZZAS /\ Room
    /\ sh' = [sh EXCEPT !.curshelf = @ + 1, !.imade[t] = @ + 1]
    /\ Broadcast("emptywait")
    /\ UNCHANGED <<pc, log>>

LeaveMaker(t) ==
    /\ At(t, "bake") /\ sh.imade[t] = NPIZZAS
    /\ sh' = [sh EXCEPT !.nproduced = @ + sh.imade[t], !.nworking = @ - 1]
    /\ TellStudents
    /\ Goto(t, "exited")
    /\ UNCHANGED log

ArriveStudent(t) ==
    /\ At(t, "arrive")
    /\ sh' = [sh EXCEPT !.neating = @ + 1]
    /\ Goto(t, "look")
    /\ UNCHANGED <<cv, log>>

DoneBaking == sh.nproduced > 0 /\ sh.nworking = 0

WaitForPizza(t) ==
    /\ At(t, "look") /\ ~DoneBaking /\ sh.curshelf = 0
    /\ Wait("emptywait", t)
    /\ UNCHANGED <<pc, sh, log>>

TakePizza(t) ==
    /\ At(t, "look") /\ sh.curshelf > 0
    /\ sh' = [sh EXCEPT !.curshelf = @ - 1, !.mypizzas[t] = @ + 1]
    /\ Goto(t, "eat")
    /\ UNCHANGED <<cv, log>>

\* The makers are told of the empty shelf when the pizza has been eaten.
Eat(t) == At(t, "eat") /\ Broadcast("fullwait") /\ Goto(t, "look") /\ UNCHANGED <<sh, log>>

NoMore(t) == At(t, "look") /\ DoneBaking /\ sh.curshelf = 0 /\ Goto(t, "leave") /\ UNCHANGED <<sh, cv, log>>

LeaveStudent(t) ==
    /\ At(t, "leave")
    /\ sh' = [sh EXCEPT !.neating = @ - 1]
    /\ Broadcast("donecv")
    /\ Goto(t, "exited")
    /\ UNCHANGED log

StillOn == sh.nproduced = 0 \/ sh.nworking > 0 \/ sh.neating > 0

WaitForAll == At(Main, "wait") /\ StillOn /\ Wait("donecv", Main) /\ UNCHANGED <<pc, sh, log>>

Finish == At(Main, "wait") /\ ~StillOn /\ Goto(Main, "cleanup") /\ UNCHANGED <<sh, cv, log>>

AMaker(t) == ArriveMaker(t) \/ WaitForShelf(t) \/ PutPizza(t) \/ LeaveMaker(t)
AStudent(t) == ArriveStudent(t) \/ WaitForPizza(t) \/ TakePizza(t) \/ Eat(t) \/ NoMore(t) \/ LeaveStudent(t)
TheMain == WaitForAll \/ Finish

\* cleanup destroys the lock: what a thread that is still there does then is undefined.
Over == pc[Main] = "cleanup"

Next == ~Over /\ ((\E t \in Maker : AMaker(t)) \/ (\E t \in Student : AStudent(t)) \/ TheMain)

(***************************************************************************)
(* Properties                                                              *)
(***************************************************************************)

Total(f) == LET sum[S \in SUBSET DOMAIN f] ==
                    IF S = {} THEN 0 ELSE LET x == CHOOSE y \in S : TRUE IN f[x] + sum[S \ {x}]
            IN  sum[DOMAIN f]

\* Every pizza made is on a shelf or was taken by one student, and the shelves hold no more than
\* there are (the assertions on curshelf in pizzamaker and student).
PizzasAccounted == sh.curshelf \in 0..NSHELVES /\ Total(sh.imade) = sh.curshelf + Total(sh.mypizzas)

\* The end: the driver returns with all pizzas eaten and no thread left.  Every fair behaviour comes
\* to it in which nobody is late: each kind of waiting is ended by a broadcast.
AllEaten == Over /\ sh.curshelf = 0 /\ \A t \in Maker \cup Student : pc[t] = "exited"

\* A thread has not started when the driver is done, or a maker when all students have gone home.
SomeoneLate ==
    \/ Over /\ \E t \in Maker \cup Student : pc[t] = "arrive"
    \/ (\E t \in Maker : pc[t] = "arrive") /\ \A t \in Student : pc[t] \in {"leave", "exited"}

\* Refuted: the driver destroys the lock only when no thread will use it any more.  A thread that
\* has not arrived yet is not counted, neither as working nor as eating.
NobodyLeftAtCleanup ==
    Over => \A t \in Maker \cup Student : pc[t] = "exited"
=============================================================================
