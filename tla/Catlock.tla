------------------------------ MODULE Catlock ------------------------------
(***************************************************************************)
(* Cats and mice (kern/synchprobs/catlock.c): animals of two kinds share   *)
(* NBOWLS bowls, and only one kind may be in the kitchen.  The kinds take  *)
(* turns; a turn lets a number of animals in, is lengthened while nobody   *)
(* of the other kind is hungry, and is ended by force when the last animal *)
(* of a kind has had all its meals.  A failed assertion stops the kernel.  *)
(***************************************************************************)
EXTENDS Clients

CONSTANTS
    NCATS, NMICE, NBOWLS,
    NLOOPS      \* meals of each animal

Kinds == {"cats", "mice"}
Cat == 1..NCATS
Mouse == (NCATS + 1)..(NCATS + NMICE)
Animal == Cat \cup Mouse
Main == 0

KindOf(t) == IF t \in Cat THEN "cats" ELSE "mice"
Other(k) == IF k = "cats" THEN "mice" ELSE "cats"
Total == [k \in Kinds |-> IF k = "cats" THEN NCATS ELSE NMICE]

\* info[].guys_per_turn as setup computes it: the test for the mice compares the number of cats.
GuysPerTurn ==
    [k \in Kinds |-> IF k = "cats" THEN IF NCATS > NBOWLS THEN NBOWLS ELSE NCATS
                     ELSE IF NCATS > NMICE THEN NBOWLS ELSE NMICE]

Init ==
    /\ pc = [t \in Animal \cup {Main} |-> IF t = Main THEN "wait" ELSE "hungry"]
    /\ sh = [hungry |-> [k \in Kinds |-> 0], done |-> [k \in Kinds |-> 0],
             dishbusy |-> [b \in 1..NBOWLS |-> 0], turntype |-> "none",
             eaters_now |-> 0, eaters_left |-> 0,
             meals |-> [t \in Animal |-> 0], assert |-> TRUE]
    /\ cv = [c \in {"turncv", "donecv"} |-> <<>>] /\ log = <<>>

\* start_turn on the data s, with its assertions.
start_turn(s) ==
    [s EXCEPT !.assert = @ /\ s.eaters_now = 0 /\ s.eaters_left = 0,
              !.eaters_left = GuysPerTurn[s.turntype]]

\* Mutant: the other kind gets its turn only when nobody of this kind is hungry.
change_turn_Selfish(s) ==
    IF s.hungry[s.turntype] > 0 THEN start_turn(s)
    ELSE IF s.hungry[Other(s.turntype)] > 0 THEN start_turn([s EXCEPT !.turntype = Other(@)])
    ELSE [s EXCEPT !.turntype = "none"]

change_turn(s) ==
    IF s.hungry[Other(s.turntype)] > 0 THEN start_turn([s EXCEPT !.turntype = Other(@)])
    ELSE IF s.hungry[s.turntype] > 0 THEN start_turn(s)
    ELSE [s EXCEPT !.turntype = "none"]

\* Mutant: whose turn it is does not matter.
MayEnter_Anyone(s, k) == s.eaters_left # 0

MayEnter(s, k) == s.turntype = k /\ s.eaters_left # 0

\* An animal that the while loop lets in takes a slot and a bowl.
Entered(s, t) ==
    LET free == {b \in 1..NBOWLS : s.dishbusy[b] = 0}
        dish == CHOOSE b \in free : \A c \in free : b <= c
    IN  IF free = {} \/ s.eaters_now >= NBOWLS THEN [s EXCEPT !.assert = FALSE]
        ELSE [s EXCEPT !.eaters_left = @ - 1, !.eaters_now = @ + 1, !.dishbusy[dish] = t]

\* onepass up to the meal: the first time through, the animal becomes hungry and may start a turn.
Enter(t) ==
    LET k == KindOf(t)
        h == IF pc[t] = "hungry" THEN [sh EXCEPT !.hungry[k] = @ + 1] ELSE sh
        s == IF pc[t] = "hungry" /\ h.turntype = "none" THEN start_turn([h EXCEPT !.turntype = k]) ELSE h
    IN  /\ At(t, "hungry") \/ At(t, "waiting")
        /\ IF MayEnter(s, k)
           THEN sh' = Entered(s, t) /\ Goto(t, "eating") /\ UNCHANGED cv
           ELSE sh' = s /\ Goto(t, "waiting") /\ Wait("turncv", t)
        /\ UNCHANGED log

\* Mutant: the turn does not change while slots are left over or animals still eat, nor at the end.
TurnOver_Never(s) == FALSE

TurnOver(s) == s.eaters_now = 0 /\ s.eaters_left = 0

\* onepass after the meal
Leave(t) ==
    LET k == KindOf(t)
        dish == CHOOSE b \in 1..NBOWLS : sh.dishbusy[b] = t
        s == [sh EXCEPT !.dishbusy[dish] = 0, !.eaters_now = @ - 1, !.hungry[k] = @ - 1, !.meals[t] = @ + 1]
        longer == s.hungry[Other(k)] = 0 /\ s.hungry[k] > 0
        s2 == IF longer THEN [s EXCEPT !.eaters_left = @ + 1] ELSE s
    IN  /\ At(t, "eating")
        /\ sh' = IF TurnOver(s2) THEN change_turn(s2) ELSE s2
        /\ cv' = [cv EXCEPT !["turncv"] = IF TurnOver(s2) THEN <<>> ELSE IF longer THEN Signalled(@) ELSE @]
        /\ Goto(t, IF s.meals[t] = NLOOPS THEN "finish" ELSE "hungry")
        /\ UNCHANGED log

\* Mutant: the slots that were not used stay.
Forced_Not(s, k) == FALSE

Forced(s, k) == s.done[k] = Total[k] /\ s.eaters_left > 0

\* commonlock after the last meal
Exit(t) ==
    LET k == KindOf(t)
        s == [sh EXCEPT !.done[k] = @ + 1]
    IN  /\ At(t, "finish")
        /\ sh' = IF Forced(s, k) THEN change_turn([s EXCEPT !.eaters_left = 0]) ELSE s
        /\ cv' = [cv EXCEPT !["turncv"] = IF Forced(s, k) THEN <<>> ELSE @, !["donecv"] = Signalled(@)]
        /\ Goto(t, "exited")
        /\ UNCHANGED log

AllDone == \A k \in Kinds : sh.done[k] = Total[k]

WaitForAll == At(Main, "wait") /\ ~AllDone /\ Wait("donecv", Main) /\ UNCHANGED <<pc, sh, log>>

Finish == At(Main, "wait") /\ AllDone /\ Goto(Main, "cleanup") /\ UNCHANGED <<sh, cv, log>>

AnAnimal(t) == sh.assert /\ (Enter(t) \/ Leave(t) \/ Exit(t))
TheMain == sh.assert /\ (WaitForAll \/ Finish)

Next == (\E t \in Animal : AnAnimal(t)) \/ TheMain

(***************************************************************************)
(* Properties                                                              *)
(***************************************************************************)

Eating == {t \in Animal : pc[t] = "eating"}

\* No cat eats while a mouse does, everyone who eats has a bowl of their own, and the counters say
\* who is in the kitchen, unless an assertion has stopped the kernel.
OneKindEats ==
    sh.assert =>
        /\ Cardinality({KindOf(t) : t \in Eating}) <= 1
        /\ {sh.dishbusy[b] : b \in 1..NBOWLS} \ {0} = Eating /\ sh.eaters_now = Cardinality(Eating)

\* cleanup finds what it asserts: no dish in use, nobody hungry, no turn running.
KitchenClean ==
    pc[Main] = "cleanup" =>
        /\ \A b \in 1..NBOWLS : sh.dishbusy[b] = 0
        /\ \A k \in Kinds : sh.hungry[k] = 0
        /\ sh.turntype = "none" /\ sh.eaters_now = 0 /\ sh.eaters_left = 0

\* The end, which every fair behaviour comes to: the driver returns when everyone has had all their
\* meals, unless an assertion stops the kernel: turns that are not used up do not lock the other
\* kind out for ever.
AllFed == ~sh.assert \/ pc[Main] = "cleanup"

\* Refuted: no assertion of start_turn fails.  The last animal of one kind that leaves ends the turn
\* of the other kind by force while an animal of that kind is eating.
TurnAssertsHold == sh.assert
=============================================================================
