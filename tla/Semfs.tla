-------------------------------- MODULE Semfs --------------------------------
(***************************************************************************)
(* semfs, the file system "sem:" whose files are semaphores for user       *)
(* programs: reading n bytes is n times P, writing n bytes n times V, and  *)
(* truncating sets the count.  A semaphore exists as long as it has a name *)
(* in the only directory or a vnode.                                       *)
(*                                                                         *)
(* Three locks: dirlock for the directory, tablelock for the tables of     *)
(* vnodes and semaphores, and sems_lock of each semaphore.  A stretch      *)
(* under tablelock that touches nothing outside the tables is one step;    *)
(* reclaim and remove also look at fields that the other one writes under  *)
(* a different lock, and go field by field.  The lock and the condition    *)
(* variable are those of Monitor, with the channel of the condition        *)
(* variable first in, first out.                                           *)
(***************************************************************************)
EXTENDS Integers, Sequences, FiniteSets

CONSTANTS
    Procs, Names,
    SLOTS,        \* the places of the two arrays that are used
    COUNTMAX,     \* the largest value of an unsigned
    FAULTS,       \* how many allocations may fail
    Loads         \* what the processes do: a set of functions from Procs to sequences of calls

VARIABLES
    dents,        \* semfs_dents: a name and a semaphore number, or NoDent
    sems,         \* semfs_sems: count, hasvnode, linked, or NoSem
    vref,         \* the reference count of the vnode of each number; 0: not in semfs_vnodes
    dirlock, tablelock, semslock,
    waiting,      \* the readers on sems_cv
    fd,           \* the file that each process has open, 0 for none
    pc, arg,      \* where a process is in its call, and the call's variables
    todo, faults,
    given,        \* history: what was written (or set) less what was read
    halt

vars == <<dents, sems, vref, dirlock, tablelock, semslock, waiting, fd, pc, arg, todo, faults, given, halt>>

Nobody == 0
Slots == 1..SLOTS
NoDent == [name |-> "", sem |-> 0]
NoSem == [count |-> 0, hasvnode |-> FALSE, linked |-> FALSE, live |-> FALSE]
NewSem == [NoSem EXCEPT !.live = TRUE]
NoArg == [name |-> "", n |-> 0, i |-> 0, s |-> 0]
Min2(a, b) == IF a < b THEN a ELSE b
FirstFree(free) == CHOOSE i \in free : \A j \in free : i <= j

Init ==
    /\ dents = [i \in Slots |-> NoDent] /\ sems = [i \in Slots |-> NoSem] /\ vref = [i \in Slots |-> 0]
    /\ dirlock = Nobody /\ tablelock = Nobody /\ semslock = [i \in Slots |-> Nobody]
    /\ waiting = [i \in Slots |-> <<>>]
    /\ fd = [p \in Procs |-> 0] /\ pc = [p \in Procs |-> "user"] /\ arg = [p \in Procs |-> NoArg]
    /\ todo \in Loads /\ faults = 0
    /\ given = [i \in Slots |-> 0] /\ halt = "no"

Goto(p, l) == pc' = [pc EXCEPT ![p] = l]
Is(p, l) == pc[p] = l
Fault == faults < FAULTS /\ faults' = faults + 1
KeepDir == UNCHANGED <<dents, dirlock>>
KeepTable == UNCHANGED <<sems, vref, tablelock>>
KeepCv == UNCHANGED <<semslock, waiting, given>>

\* A call of the kind k by a user program, with a name or a length
Start(p) ==
    /\ Is(p, "user") /\ todo[p] # <<>>
    /\ LET c == Head(todo[p]) IN
       /\ arg' = [arg EXCEPT ![p] = [NoArg EXCEPT !.name = c.name, !.n = c.n, !.s = fd[p]]]
       /\ Goto(p, IF c.op \in {"creat", "excl", "lookup", "remove"} THEN c.op
                  ELSE IF fd[p] = 0 THEN "user" ELSE c.op)                 \* EBADF
       /\ todo' = [todo EXCEPT ![p] = Tail(@)]
    /\ KeepDir /\ KeepTable /\ KeepCv /\ UNCHANGED <<fd, faults, halt>>

Entry(name) == {i \in Slots : dents[i].name = name}

-----------------------------------------------------------------------------
(* Open: lookup and creat *)

\* The return from a call that holds dirlock
Return(p) == Goto(p, "user") /\ dirlock' = Nobody

\* Mutant: EEXIST forgets the lock.
ReturnExists_Locked(p) == Goto(p, "user") /\ dirlock' = p

ReturnExists(p) == Return(p)

\* semfs_lookup, and the search of semfs_creat
Search(p) ==
    /\ pc[p] \in {"creat", "excl", "lookup"} /\ dirlock = Nobody
    /\ LET found == Entry(arg[p].name)
           empty == {i \in Slots : dents[i] = NoDent} IN
       IF found # {}
         THEN IF Is(p, "excl") THEN ReturnExists(p) /\ UNCHANGED arg
              ELSE /\ dirlock' = p /\ Goto(p, "getvnode")
                   /\ arg' = [arg EXCEPT ![p].s = dents[FirstFree(found)].sem]
         ELSE IF Is(p, "lookup") \/ empty = {} THEN Return(p) /\ UNCHANGED arg        \* ENOENT
              ELSE /\ dirlock' = p /\ Goto(p, "insert")
                   /\ arg' = [arg EXCEPT ![p].i = FirstFree(empty)]
    /\ KeepTable /\ KeepCv /\ UNCHANGED <<dents, fd, todo, faults, halt>>

\* semfs_sem_create and semfs_sem_insert
Insert(p) ==
    /\ Is(p, "insert") /\ tablelock = Nobody
    /\ LET free == {s \in Slots : ~sems[s].live} IN
       \/ /\ free # {}
          /\ LET s == FirstFree(free) IN
             /\ sems' = [sems EXCEPT ![s] = NewSem] /\ given' = [given EXCEPT ![s] = 0]
             /\ arg' = [arg EXCEPT ![p].s = s]
          /\ Goto(p, "dent") /\ UNCHANGED <<faults, dirlock>>
       \/ Fault /\ Return(p) /\ UNCHANGED <<sems, arg, given>>
    /\ UNCHANGED <<dents, vref, tablelock, semslock, waiting, fd, todo, halt>>

\* semfs_direntry_create and the directory.  When the first fails, the result is still that of
\* semfs_sem_insert, 0: vfs_open is told that all is well and finds no vnode.
Dent(p) ==
    /\ Is(p, "dent")
    /\ \/ /\ dents' = [dents EXCEPT ![arg[p].i] = [name |-> arg[p].name, sem |-> arg[p].s]]
          /\ Goto(p, "makevnode") /\ UNCHANGED <<sems, dirlock, faults, halt>>
       \/ /\ Fault /\ tablelock = Nobody
          /\ sems' = [sems EXCEPT ![arg[p].s] = NoSem]
          /\ Return(p)
          /\ halt' \in {"vfs_open: no vnode", "no"}          \* semfs_direntry_create, or the array
          /\ UNCHANGED dents
    /\ UNCHANGED <<vref, tablelock, fd, arg, todo>> /\ KeepCv

\* fail_undir
Undone(p) == [dents EXCEPT ![arg[p].i] = NoDent]

\* semfs_getvnode, after the search and at the end of semfs_creat
GetVnode(p) ==
    /\ pc[p] \in {"getvnode", "makevnode"} /\ tablelock = Nobody
    /\ LET s == arg[p].s IN
       \/ /\ vref' = [vref EXCEPT ![s] = @ + 1]
          /\ sems' = [sems EXCEPT ![s].hasvnode = TRUE]
          /\ halt' = IF vref[s] = 0 /\ (~sems[s].live \/ sems[s].hasvnode) THEN "semfs_getvnode asserts" ELSE "no"
          /\ fd' = [fd EXCEPT ![p] = s]
          /\ IF Is(p, "makevnode") THEN Goto(p, "link") /\ UNCHANGED dirlock ELSE Return(p)
          /\ UNCHANGED <<dents, faults>>
       \/ /\ vref[s] = 0 /\ Fault
          /\ IF Is(p, "makevnode")
               THEN sems' = [sems EXCEPT ![s] = NoSem] /\ dents' = Undone(p)
               ELSE UNCHANGED <<sems, dents>>
          /\ Return(p) /\ UNCHANGED <<vref, fd, halt>>
    /\ UNCHANGED <<tablelock, arg, todo>> /\ KeepCv

\* Mutant: the flag is not set.
Named_Not(s) == sems

Named(s) == [sems EXCEPT ![s].linked = TRUE]

\* sems_linked is set without sems_lock.
Link(p) ==
    /\ Is(p, "link")
    /\ sems' = Named(arg[p].s)
    /\ Return(p)
    /\ KeepCv /\ UNCHANGED <<dents, vref, tablelock, fd, arg, todo, faults, halt>>

-----------------------------------------------------------------------------
(* P, V and truncation *)

\* Mutant: all that was asked for.
Consumed_All(p) == arg[p].n

\* What one round of semfs_read takes
Consumed(p) == Min2(arg[p].n, sems[arg[p].s].count)

\* semfs_read: one round under sems_lock, which ends with the return or in cv_wait
Read(p) ==
    /\ Is(p, "read")
    /\ LET s == arg[p].s
           left == arg[p].n - Consumed(p) IN
       /\ semslock[s] = Nobody
       /\ sems' = [sems EXCEPT ![s].count = @ - Consumed(p)]
       /\ given' = [given EXCEPT ![s] = @ - Consumed(p)]
       /\ arg' = [arg EXCEPT ![p].n = left]
       /\ IF left = 0 THEN Goto(p, "user") /\ UNCHANGED waiting
          ELSE Goto(p, "cv_wait") /\ waiting' = [waiting EXCEPT ![s] = Append(@, p)]
    /\ KeepDir /\ UNCHANGED <<vref, tablelock, semslock, fd, todo, faults, halt>>

\* semfs_wakeup: how many of the readers continue
Woken(s, new) ==
    IF sems[s].count > 0 \/ new = 0 THEN 0
    ELSE IF new = 1 THEN Min2(1, Len(waiting[s])) ELSE Len(waiting[s])

SetCount(p, s, new) ==
    LET w == Woken(s, new) IN
    /\ sems' = [sems EXCEPT ![s].count = new]
    /\ waiting' = [waiting EXCEPT ![s] = SubSeq(@, w + 1, Len(@))]
    /\ pc' = [q \in Procs |-> IF q = p THEN "user"
                              ELSE IF \E i \in 1..w : waiting[s][i] = q THEN "read" ELSE pc[q]]

\* Mutant: the sum is not looked at.
Overflow_Not(old, new) == FALSE

Overflow(old, new) == new < old

\* semfs_write, under sems_lock; EFBIG when the sum wraps
Write(p) ==
    /\ Is(p, "write") /\ semslock[arg[p].s] = Nobody
    /\ LET s == arg[p].s
           new == (sems[s].count + arg[p].n) % (COUNTMAX + 1) IN
       IF arg[p].n = 0 \/ Overflow(sems[s].count, new)
         THEN Goto(p, "user") /\ UNCHANGED <<sems, waiting, given>>
         ELSE SetCount(p, s, new) /\ given' = [given EXCEPT ![s] = @ + arg[p].n]
    /\ KeepDir /\ UNCHANGED <<vref, tablelock, semslock, fd, arg, todo, faults, halt>>

\* semfs_truncate
Truncate(p) ==
    /\ Is(p, "truncate") /\ semslock[arg[p].s] = Nobody
    /\ IF arg[p].n > COUNTMAX THEN Goto(p, "user") /\ UNCHANGED <<sems, waiting, given>>
       ELSE SetCount(p, arg[p].s, arg[p].n) /\ given' = [given EXCEPT ![arg[p].s] = arg[p].n]
    /\ KeepDir /\ UNCHANGED <<vref, tablelock, semslock, fd, arg, todo, faults, halt>>

-----------------------------------------------------------------------------
(* The end of a name *)

\* semfs_remove: the search, the semaphore by its number, and sems_lock
Remove(p) ==
    /\ Is(p, "remove") /\ dirlock = Nobody /\ tablelock = Nobody
    /\ LET found == Entry(arg[p].name) IN
       IF found = {} THEN Return(p) /\ UNCHANGED <<arg, semslock>>
       ELSE LET i == FirstFree(found) IN
            /\ semslock[dents[i].sem] = Nobody
            /\ semslock' = [semslock EXCEPT ![dents[i].sem] = p] /\ dirlock' = p
            /\ arg' = [arg EXCEPT ![p].i = i, ![p].s = dents[i].sem]
            /\ Goto(p, "unlink")
    /\ KeepTable /\ UNCHANGED <<dents, waiting, given, fd, todo, faults, halt>>

Unlink(p) ==
    /\ Is(p, "unlink")
    /\ halt' = IF sems[arg[p].s].linked THEN "no" ELSE "semfs_remove asserts"
    /\ sems' = [sems EXCEPT ![arg[p].s].linked = FALSE]
    /\ Goto(p, "hasvnode")
    /\ KeepDir /\ KeepCv /\ UNCHANGED <<vref, tablelock, fd, arg, todo, faults>>

\* Mutant: the semaphore goes with its name.
LastName_Always(s) == TRUE

LastName(s) == ~sems[s].hasvnode

\* The test of sems_hasvnode
HasVnode(p) ==
    /\ Is(p, "hasvnode")
    /\ Goto(p, IF LastName(arg[p].s) THEN "nameless" ELSE "undent")
    /\ KeepDir /\ KeepTable /\ KeepCv /\ UNCHANGED <<fd, arg, todo, faults, halt>>

\* The semaphore is taken out of the table and destroyed.
Nameless(p) ==
    /\ Is(p, "nameless") /\ tablelock = Nobody
    /\ halt' = IF sems[arg[p].s].live THEN "no" ELSE "destroyed twice"
    /\ sems' = [sems EXCEPT ![arg[p].s] = NoSem]
    /\ Goto(p, "undent")
    /\ KeepDir /\ KeepCv /\ UNCHANGED <<vref, tablelock, fd, arg, todo, faults>>

Undent(p) ==
    /\ Is(p, "undent")
    /\ semslock' = [semslock EXCEPT ![arg[p].s] = Nobody]
    /\ dents' = [dents EXCEPT ![arg[p].i] = NoDent]
    /\ Return(p)
    /\ KeepTable /\ UNCHANGED <<waiting, given, fd, arg, todo, faults, halt>>

-----------------------------------------------------------------------------
(* The end of a vnode *)

\* vnode_decref: the last reference is not dropped but passed to VOP_RECLAIM.
Close(p) ==
    /\ Is(p, "close")
    /\ fd' = [fd EXCEPT ![p] = 0]
    /\ IF vref[arg[p].s] > 1 THEN vref' = [vref EXCEPT ![arg[p].s] = @ - 1] /\ Goto(p, "user")
       ELSE UNCHANGED vref /\ Goto(p, "reclaim")
    /\ KeepDir /\ KeepCv /\ UNCHANGED <<sems, tablelock, arg, todo, faults, halt>>

\* Mutant: the reference that came with the call is not dropped.
Consume_Not(s) == vref

\* EBUSY: somebody has come between vnode_decref and here.
Consume(s) == [vref EXCEPT ![s] = @ - 1]

\* semfs_reclaim up to sems_hasvnode
Reclaim(p) ==
    /\ Is(p, "reclaim") /\ tablelock = Nobody
    /\ LET s == arg[p].s IN
       IF vref[s] > 1
         THEN vref' = Consume(s) /\ Goto(p, "user") /\ UNCHANGED <<sems, tablelock, halt>>
         ELSE /\ vref' = [vref EXCEPT ![s] = 0]
              /\ halt' = IF sems[s].hasvnode THEN "no" ELSE "semfs_reclaim asserts"
              /\ sems' = [sems EXCEPT ![s].hasvnode = FALSE]
              /\ tablelock' = p /\ Goto(p, "linked")
    /\ KeepDir /\ KeepCv /\ UNCHANGED <<fd, arg, todo, faults>>

\* Mutant: the test is the wrong way round.
LastVnode_Never(s) == FALSE

LastVnode(s) == ~sems[s].linked

\* The rest: without a name the semaphore goes as well, with its lock
Linked(p) ==
    /\ Is(p, "linked")
    /\ LET s == arg[p].s IN
       IF LastVnode(s)
         THEN /\ halt' = IF semslock[s] # Nobody THEN "lock destroyed while held"
                         ELSE IF ~sems[s].live THEN "destroyed twice" ELSE "no"
              /\ sems' = [sems EXCEPT ![s] = NoSem]
         ELSE UNCHANGED <<sems, halt>>
    /\ tablelock' = Nobody /\ Goto(p, "user")
    /\ KeepDir /\ KeepCv /\ UNCHANGED <<vref, fd, arg, todo, faults>>

-----------------------------------------------------------------------------

Step(p) ==
    /\ halt = "no"
    /\ \/ Search(p) \/ Insert(p) \/ Dent(p) \/ GetVnode(p) \/ Link(p)
       \/ Read(p) \/ Write(p) \/ Truncate(p)
       \/ Remove(p) \/ Unlink(p) \/ HasVnode(p) \/ Nameless(p) \/ Undent(p)
       \/ Close(p) \/ Reclaim(p) \/ Linked(p)

Next == \E p \in Procs : (halt = "no" /\ Start(p)) \/ Step(p)

Spec == Init /\ [][Next]_vars

\* A thread that can run is scheduled; a lock is handed out to each of those who wait for it.
FairSpec == Spec /\ \A p \in Procs : SF_vars(Step(p))

-----------------------------------------------------------------------------

TypeOK ==
    /\ \A i \in Slots : dents[i] = NoDent \/ (dents[i].name \in Names /\ dents[i].sem \in Slots)
    /\ \A s \in Slots : sems[s].count \in 0..COUNTMAX /\ vref[s] \in 0..Cardinality(Procs)
    /\ dirlock \in Procs \cup {Nobody} /\ tablelock \in Procs \cup {Nobody}
    /\ fd \in [Procs -> Slots \cup {0}] /\ faults \in 0..FAULTS

(* The reference count of a vnode is the number of open files plus the     *)
(* references on their way to semfs_reclaim, whoever opens the file        *)
(* between vnode_decref and the lock there.                                *)
SemRefsExact ==
    \A s \in Slots : vref[s] = Cardinality({p \in Procs : fd[p] = s}) + Cardinality({p \in Procs : Is(p, "reclaim") /\ arg[p].s = s})

(* What a name or an open file refers to exists, and a semaphore without   *)
(* a name and without a vnode does not, except in the hands of the one who *)
(* is just creating or destroying it.  (In states before a panic.)         *)
SemsExist ==
    halt = "no" =>
    /\ \A i \in Slots : dents[i] # NoDent /\ ~sems[dents[i].sem].live => dirlock # Nobody
    /\ \A s \in Slots : vref[s] > 0 => sems[s].live
    /\ \A s \in Slots : sems[s].live /\ vref[s] = 0 =>
          (\E i \in Slots : dents[i].sem = s) \/ tablelock # Nobody \/ (\E p \in Procs : dirlock = p /\ arg[p].s = s)

(* A name in the directory belongs to a semaphore with sems_linked, and    *)
(* the other way round, whenever nobody holds dirlock: semfs_creat undoes  *)
(* all of its steps when a later one fails.                                *)
NamedIffLinked ==
    dirlock = Nobody /\ halt = "no" =>
       \A s \in Slots : sems[s].linked <=> \E i \in Slots : dents[i].sem = s /\ dents[i] # NoDent

(* No unit is lost or made up: the count is what was written or set, less  *)
(* what was read, and a write that would wrap changes nothing.             *)
CountExact == \A s \in Slots : sems[s].live => sems[s].count = given[s]

(* Opening, removing and closing return, whatever the other processes do   *)
(* with the same name: the locks are taken in one order.                   *)
CallsReturn == \A p \in Procs : [](pc[p] # "user" => <>(pc[p] \in {"user", "cv_wait"} \/ halt # "no"))

(* Readers sleep only while the count is 0 ("We only need to wake up if    *)
(* there are sleepers, which should only be the case if the old count is   *)
(* 0"), unless somebody who was woken is still to run.                     *)
SleepersOnlyAtZero ==
    \A s \in Slots : sems[s].count > 0 /\ (\A p \in Procs : pc[p] = "read" => arg[p].s # s) => waiting[s] = <<>>

(* semfs_remove and semfs_reclaim agree on who destroys the semaphore.     *)
DestroyedOnce == halt \notin {"destroyed twice", "lock destroyed while held"}
==============================================================================
