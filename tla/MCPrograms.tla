----------------------------- MODULE MCPrograms -----------------------------
(***************************************************************************)
(* The two heaps and the synchronization problems for TLC in one run.      *)
(* Each behaviour is one of one part; the variables of the others keep a   *)
(* value that no property looks at, or the initial state in the case of    *)
(* the user heap.                                                          *)
(***************************************************************************)
EXTENDS Malloc, Sequences

VARIABLES
    part,                                                             \* the part that runs
    kfreepages, roots, refs, sizebases, allbase, mine, k_pc, arg, todo, faults, lost, halt,
    pc, sh, cv, log

kheap == <<kfreepages, roots, refs, sizebases, allbase, mine, k_pc, arg, todo, faults, lost, halt>>
clients == <<pc, sh, cv, log>>
allvars == <<part, vars, kheap, clients>>

\* Two threads that allocate and free; the last load uses up all pagerefs.
K == INSTANCE Kmalloc WITH
    Threads <- {1, 2}, Sizes <- <<2, 4>>, ROOTS <- 2, REFS <- 3, NPAGES <- 9, FAULTS <- 1, pc <- k_pc,
    Loads <- {<<<<2, 2, 3, 0, 0>>, <<2, 3, 0, 0>>>>,
              <<<<4, 3, 9, 0>>, <<3, 0, 2, 0>>>>,
              <<[i \in 1..13 |-> 3] \o <<25>>, <<2>>>>}

E == INSTANCE Elves WITH NELVES <- 3
C == INSTANCE Cows WITH NBABIES <- 3
P == INSTANCE Pizza WITH NPIZZAMAKERS <- 2, NSTUDENTS <- 2, NSHELVES <- 1, NPIZZAS <- 2
Q == INSTANCE Pizza2 WITH NMAKERS <- 2, NSTUDENTS <- 2, NSHELVES <- 2, NPIZZAS <- 2
A == INSTANCE Catlock WITH NCATS <- 2, NMICE <- 2, NBOWLS <- 2, NLOOPS <- 2

NoKheap ==
    /\ kfreepages = 0 /\ roots = 0 /\ refs = 0 /\ sizebases = 0 /\ allbase = 0 /\ mine = 0
    /\ k_pc = 0 /\ arg = 0 /\ todo = 0 /\ faults = 0 /\ lost = 0 /\ halt = 0
NoClients == pc = 0 /\ sh = 0 /\ cv = 0 /\ log = 0

MCInit ==
    /\ Init
    /\ \/ part = "malloc" /\ NoKheap /\ NoClients
       \/ part = "kmalloc" /\ K!Init /\ NoClients
       \/ /\ NoKheap
          /\ \/ part = "elves" /\ E!Init
             \/ part = "cows" /\ C!Init
             \/ part = "pizza" /\ P!Init
             \/ part = "pizza2" /\ Q!Init
             \/ part = "catlock" /\ A!Init

\* What one thread of the problem that runs does
Step(t) ==
    \/ part = "elves" /\ \/ t \in E!Elf /\ E!AnElf(t)
                         \/ t = E!Supervisor /\ E!TheSupervisor
                         \/ t = E!Main /\ E!TheMain
    \/ part = "cows" /\ \/ t \in C!Baby /\ C!ABaby(t)
                        \/ t = C!Parent /\ C!TheParent
                        \/ t = C!Main /\ C!TheMain
    \/ part = "pizza" /\ ~P!Over
                      /\ \/ t \in P!Maker /\ P!AMaker(t)
                         \/ t \in P!Student /\ P!AStudent(t)
                         \/ t = P!Main /\ P!TheMain
    \/ part = "pizza2" /\ \/ t \in Q!Maker /\ Q!AMaker(t)
                          \/ t \in Q!Student /\ Q!AStudent(t)
    \/ part = "catlock" /\ \/ t \in A!Animal /\ A!AnAnimal(t)
                           \/ t = A!Main /\ A!TheMain

MCNext ==
    /\ UNCHANGED part
    /\ \/ part = "malloc" /\ Next /\ UNCHANGED <<kheap, clients>>
       \/ part = "kmalloc" /\ K!Next /\ UNCHANGED <<vars, clients>>
       \/ (\E t \in -1..4 : Step(t)) /\ UNCHANGED <<vars, kheap>>

\* The scheduler runs every thread that can run (ReadyRuns of Sched).
MCSpec == MCInit /\ [][MCNext]_allvars /\ \A t \in -1..4 : WF_clients(Step(t))


\* The safety properties of the problems: each elf is thanked once and for its own work, each cow
\* congratulated once, no pizza lost or eaten twice, cats and mice apart.
ClientsSafe ==
    /\ part = "elves" => E!ElvesThankedOnce /\ E!SemaphoresOutliveUse
    /\ part = "cows" => C!CowsCongratulatedOnce
    /\ part = "pizza" => P!PizzasAccounted
    /\ part = "pizza2" => Q!LeftIsExact
    /\ part = "catlock" => A!OneKindEats /\ A!KitchenClean

\* How far the problems come in every schedule in which each thread that can run is run.  In elves,
\* cows, catlock and pizza2 every wait is answered: all threads end, and the driver that waits for
\* them goes on (or an assertion of catlock.c stops the kernel).  Pizza ends so unless a thread
\* starts when the driver is done, or a maker when the students have left (SomeoneLate).
ClientsFinish ==
    <>(\/ part \in {"malloc", "kmalloc"}
       \/ part = "elves" /\ E!AllHome
       \/ part = "cows" /\ C!AllSung
       \/ part = "pizza" /\ (P!AllEaten \/ P!SomeoneLate)
       \/ part = "pizza2" /\ Q!AllHome
       \/ part = "catlock" /\ A!AllFed)
=============================================================================
