------------------------------- MODULE Elves -------------------------------
(***************************************************************************)
(* The Keebler elves (kern/synchprobs/elves.c): a supervisor that starts   *)
(* NELVES elves and thanks each one when it has finished its work, through *)
(* two semaphores and a variable that holds the number of the elf.         *)
(***************************************************************************)
EXTENDS Clients

CONSTANT NELVES    \* num_elves

Elf == 1..NELVES
Supervisor == 0
Main == -1

Init ==
    /\ pc = [t \in Elf \cup {Supervisor, Main} |-> IF t = Main THEN "fork" ELSE "none"]
    /\ sh = [ready |-> 0, done |-> 0, exit |-> 0, exited_elf |-> 0, destroyed |-> {}]
    /\ cv = <<>> /\ log = <<>>

P(t, s, next) ==
    /\ sh[s] > 0
    /\ sh' = [sh EXCEPT ![s] = @ - 1]
    /\ Goto(t, next)

V(t, s, next) == sh' = [sh EXCEPT ![s] = @ + 1] /\ Goto(t, next)

\* elf: work() goes on for a random number of tasks, then the elf reports.
Work(t) == At(t, "work") /\ Say(t, "works") /\ Goto(t, "report") /\ UNCHANGED <<sh, cv>>

\* Mutant: the elf reports whether or not the supervisor is ready.
Report_Unasked(t) == At(t, "report") /\ Goto(t, "tell") /\ UNCHANGED <<sh, cv, log>>

Report(t) == At(t, "report") /\ P(t, "ready", "tell") /\ UNCHANGED <<cv, log>>

Tell(t) ==
    /\ At(t, "tell")
    /\ sh' = [sh EXCEPT !.exited_elf = t]
    /\ Goto(t, "leave")
    /\ UNCHANGED <<cv, log>>

Leave(t) == At(t, "leave") /\ V(t, "done", "exited") /\ UNCHANGED <<cv, log>>

ForkElf ==
    /\ At(Supervisor, "fork")
    /\ \E t \in Elf :
          /\ pc[t] = "none" /\ \A u \in 1..(t - 1) : pc[u] # "none"
          /\ pc' = [pc EXCEPT ![t] = "work", ![Supervisor] = IF t = NELVES THEN "ask" ELSE "fork"]
    /\ UNCHANGED <<sh, cv, log>>

Ask == At(Supervisor, "ask") /\ V(Supervisor, "ready", "wait") /\ UNCHANGED <<cv, log>>

\* Mutant: the supervisor does not wait for the answer.
Hear_AtOnce == At(Supervisor, "wait") /\ Goto(Supervisor, "thank") /\ UNCHANGED <<sh, cv, log>>

Hear == At(Supervisor, "wait") /\ P(Supervisor, "done", "thank") /\ UNCHANGED <<cv, log>>

Thanked == InLog("thanked")

Thank ==
    /\ At(Supervisor, "thank")
    /\ Say(sh.exited_elf, "thanked")
    /\ Goto(Supervisor, IF Len(SelectSeq(log', LAMBDA e : e.what = "thanked")) = NELVES
                        THEN "close" ELSE "ask")
    /\ UNCHANGED <<sh, cv>>

Close == At(Supervisor, "close") /\ V(Supervisor, "exit", "cleanup") /\ UNCHANGED <<cv, log>>

Cleanup ==
    /\ At(Supervisor, "cleanup")
    /\ sh' = [sh EXCEPT !.destroyed = @ \cup {"ready", "done"}]
    /\ Goto(Supervisor, "exited")
    /\ UNCHANGED <<cv, log>>

ForkSupervisor ==
    /\ At(Main, "fork")
    /\ pc' = [pc EXCEPT ![Main] = "await", ![Supervisor] = "fork"]
    /\ UNCHANGED <<sh, cv, log>>

Await == At(Main, "await") /\ P(Main, "exit", "destroy") /\ UNCHANGED <<cv, log>>

Return ==
    /\ At(Main, "destroy")
    /\ sh' = [sh EXCEPT !.destroyed = @ \cup {"exit"}]
    /\ Goto(Main, "returned")
    /\ UNCHANGED <<cv, log>>

AnElf(t) == Work(t) \/ Report(t) \/ Tell(t) \/ Leave(t)
TheSupervisor == ForkElf \/ Ask \/ Hear \/ Thank \/ Close \/ Cleanup
TheMain == ForkSupervisor \/ Await \/ Return

Next == (\E t \in Elf : AnElf(t)) \/ TheSupervisor \/ TheMain

(***************************************************************************)
(* Properties                                                              *)
(***************************************************************************)

\* The supervisor thanks an elf only after its work, and no elf twice, though all of them write the
\* one variable exited_elf (comment at the head of the file: "The supervisor is not allowed to
\* dismiss an elf until that elf has finished working").
ElvesThankedOnce ==
    \A t \in Elf \cup {0} :
        /\ Times(t, "thanked") <= 1
        /\ Times(t, "thanked") = 1 => t \in Elf /\ pc[t] \in {"leave", "exited"}

\* The semaphores, which live on the stacks of the supervisor and of the menu thread, are destroyed
\* only when no thread can use them any more.
SemaphoresOutliveUse ==
    /\ {"ready", "done"} \cap sh.destroyed # {} => \A t \in Elf : pc[t] = "exited"
    /\ "exit" \in sh.destroyed => pc[Supervisor] \in {"cleanup", "exited"}

\* The end, which every fair behaviour comes to: every elf is thanked and the menu has its thread
\* back.
AllHome == pc[Main] = "returned" /\ pc[Supervisor] = "exited" /\ Thanked = Elf
=============================================================================
