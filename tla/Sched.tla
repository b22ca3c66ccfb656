-------------------------------- MODULE Sched --------------------------------
(***************************************************************************)
(* Threads on several processors: run queues, the context switch and the   *)
(* idle loop, wait channels, the migration of threads, inter-processor     *)
(* interrupts and TLB shootdown requests (thread.c, clock.c, and the       *)
(* interrupt dispatcher of lamebus_machdep.c).                             *)
(*                                                                         *)
(* Everything here runs with interrupts off, so control belongs to the     *)
(* processor.  A step goes from the acquisition of a spinlock to the       *)
(* attempt to take the next one.  Interrupts are taken in a thread, or in  *)
(* cpu_idle.  schedule() is empty in the kernels that are built.           *)
(***************************************************************************)
EXTENDS Integers, Sequences, FiniteSets, SequencesExt

CONSTANTS
    Threads, Cpus, NULL,
    Users,       \* the threads of user processes, which have an address space
    Boot,        \* the thread that each processor starts with
    Loads,       \* ready: the run queue of the first processor at the start; new: threads
                 \* that are not there yet; calls: a sequence for each thread, of the
                 \* operations among which each of its calls is chosen
    SHOOTDOWNS   \* TLBSHOOTDOWN_MAX, 16 in the code

ASSUME SchedAssumption ==
    /\ Cpus \subseteq Nat /\ IsFiniteSet(Cpus)
    /\ Users \subseteq Threads /\ Boot \in [Cpus -> Threads] /\ SHOOTDOWNS \in Nat
    /\ \A l \in Loads : /\ l.ready \in Seq(Threads) /\ l.new \subseteq Threads
                        /\ DOMAIN l.calls = Threads

Rq(c) == <<"runqueue", c>>
Ipi(c) == <<"ipi", c>>
Cm == <<"cm", 0>>                \* cm_lock, which also protects cm_tlb_wchan
Lk == <<"wchan", 0>>             \* the spinlock of an ordinary wait channel
Locks == {Rq(c) : c \in Cpus} \cup {Ipi(c) : c \in Cpus} \cup {Cm, Lk}

VARIABLES
    cur,       \* c_curthread
    isidle,    \* c_isidle
    rq,        \* c_runqueue
    zombies,   \* c_zombies
    pend,      \* c_ipi_pending
    shoot,     \* c_shootdown: whose page to flush
    line,      \* the interrupt line of the processor is asserted
    spin,      \* which processor holds a spinlock
    k,         \* what each processor is doing
    life,      \* new, alive, exiting (t_proc is NULL) or freed
    tcpu,      \* t_cpu
    kont,      \* where a thread that is switched away continues
    wc,        \* threads on the wait channels: "W", and "T" for cm_tlb_wchan
    tlb,       \* cme_tlb and cme_owner_cpu of the page that a thread evicts
    left,      \* calls left
    halt       \* the panic that stopped the machine

tvars == <<life, tcpu, kont, tlb, left>>
cvars == <<cur, isidle, rq, zombies>>
ivars == <<pend, shoot, line>>
vars == <<cvars, ivars, tvars, spin, k, wc, halt>>

\* pc; ret: where the interrupt came; list and then: threads to make runnable, and what
\* follows; todo, total, mine, share, tosend, victims: thread_consider_migration.
Thinking == [pc |-> "run", ret |-> "run", list |-> <<>>, then |-> "run", todo |-> <<>>,
             total |-> 0, mine |-> 0, share |-> 0, tosend |-> 0, victims |-> <<>>]

First(c) == \A d \in Cpus : c <= d

Init ==
    /\ cur = Boot
    /\ isidle = [c \in Cpus |-> FALSE]
    /\ zombies = [c \in Cpus |-> <<>>]
    /\ pend = [c \in Cpus |-> {}]
    /\ shoot = [c \in Cpus |-> <<>>]
    /\ line = [c \in Cpus |-> FALSE]
    /\ spin = [l \in Locks |-> NULL]
    /\ k = [c \in Cpus |-> Thinking]
    /\ \E load \in Loads :
        /\ rq = [c \in Cpus |-> IF First(c) THEN load.ready ELSE <<>>]
        /\ life = [t \in Threads |-> IF t \in load.new THEN "new"
                                     ELSE IF Contains(load.ready, t) \/ \E c \in Cpus : Boot[c] = t
                                     THEN "alive" ELSE "freed"]
        /\ left = load.calls
    /\ tcpu = [t \in Threads |-> IF \E c \in Cpus : Boot[c] = t THEN CHOOSE c \in Cpus : Boot[c] = t
                                 ELSE CHOOSE c \in Cpus : First(c)]
    /\ kont = [t \in Threads |-> "run"]
    /\ wc = [w \in {"W", "T"} |-> <<>>]
    /\ tlb = [t \in Threads |-> NULL]
    /\ halt = "no"

At(c, pc) == halt = "no" /\ k[c].pc = pc
Free(l) == spin[l] = NULL
Take(c, l) == Free(l) /\ spin' = [spin EXCEPT ![l] = c]
Drop(S) == spin' = [l \in Locks |-> IF l \in S THEN NULL ELSE spin[l]]
Goto(c, pc) == k' = [k EXCEPT ![c].pc = pc]
Does(c, op) == /\ At(c, "run") /\ life[cur[c]] = "alive"
               /\ left[cur[c]] # <<>> /\ op \in Head(left[cur[c]])
               /\ left' = [left EXCEPT ![cur[c]] = Tail(@)]

-----------------------------------------------------------------------------
(* thread_switch *)

\* switchframe_switch to n.  A thread of a user process activates its address space first.
Dispatch(c, n, rest) ==
    /\ cur' = [cur EXCEPT ![c] = n]
    /\ rq' = [rq EXCEPT ![c] = rest]
    /\ isidle' = [isidle EXCEPT ![c] = FALSE]
    /\ k' = [k EXCEPT ![c].pc = IF n \in Users /\ life[n] = "alive" THEN "flush" ELSE "exorcise",
                      ![c].then = IF n \in Users /\ life[n] = "alive" THEN "activated" ELSE "run"]

\* The end of thread_switch, in the new thread: exorcise, and back to what it was doing.
Exorcise(c) ==
    /\ halt = "no" /\ k[c].pc \in {"activated", "exorcise"}
    /\ Drop(IF k[c].pc = "activated" THEN {Cm} ELSE {})
    /\ life' = [t \in Threads |-> IF Contains(zombies[c], t) THEN "freed" ELSE life[t]]
    /\ zombies' = [zombies EXCEPT ![c] = <<>>]
    /\ Goto(c, kont[cur[c]])
    /\ UNCHANGED <<cur, isidle, rq, ivars, tcpu, kont, tlb, left, wc, halt>>

\* Mutant: a thread that yields goes to the head.
Requeued_AtHead(c) == <<cur[c]>> \o rq[c]

\* thread_make_runnable(cur, true)
Requeued(c) == Append(rq[c], cur[c])

\* The current thread goes where its new state wants it.  There may be nothing to switch to.
ThreadSwitch(c) ==
    LET t == cur[c]
        pc == k[c].pc
        queue == IF pc = "yield" THEN Requeued(c) ELSE rq[c] IN
    /\ halt = "no" /\ pc \in {"sleep W", "sleep T", "yield", "zombie"} /\ ~isidle[c]
    /\ Free(Rq(c))
    /\ wc' = CASE pc = "sleep W" -> [wc EXCEPT !["W"] = Append(@, t)]
               [] pc = "sleep T" -> [wc EXCEPT !["T"] = Append(@, t)]
               [] OTHER          -> wc
    /\ kont' = [kont EXCEPT ![t] = CASE pc = "sleep W" -> "relock W"
                                     [] pc = "sleep T" -> "relock T"
                                     [] OTHER          -> "run"]
    /\ Drop(CASE pc = "sleep W" -> {Lk} [] pc = "sleep T" -> {Cm} [] OTHER -> {})
    /\ zombies' = [zombies EXCEPT ![c] = IF pc = "zombie" THEN Append(@, t) ELSE @]
    /\ IF pc = "yield" /\ rq[c] = <<>> THEN Goto(c, "run") /\ UNCHANGED <<cur, isidle, rq>>
       ELSE IF queue # <<>> THEN Dispatch(c, Head(queue), Tail(queue))
       ELSE /\ isidle' = [isidle EXCEPT ![c] = TRUE]
            /\ Goto(c, "idle")
            /\ UNCHANGED <<cur, rq>>
    /\ UNCHANGED <<ivars, life, tcpu, tlb, left, halt>>

\* A timer interrupt in cpu_idle calls thread_yield, which returns at once.
YieldIdle(c) ==
    /\ At(c, "yield") /\ isidle[c]
    /\ Goto(c, "look")
    /\ UNCHANGED <<cvars, ivars, tvars, spin, wc, halt>>

\* cpu_idle returns after every interrupt, and the run queue is looked at again.
Look(c) ==
    /\ At(c, "look") /\ Free(Rq(c))
    /\ IF rq[c] = <<>> THEN Goto(c, "idle") /\ UNCHANGED <<cur, rq, isidle>>
       ELSE Dispatch(c, Head(rq[c]), Tail(rq[c]))
    /\ UNCHANGED <<zombies, ivars, tvars, spin, wc, halt>>

-----------------------------------------------------------------------------
(* thread_make_runnable, for the threads of a list *)

\* Mutant: c_isidle is not looked at.
NeedsIpi_Never(c, d) == FALSE

NeedsIpi(c, d) == isidle[d] /\ d # c

MakeRunnable(c) ==
    /\ At(c, "runnable")
    /\ IF k[c].list = <<>>
         THEN k' = [k EXCEPT ![c].pc = k[c].then, ![c].then = "run"] /\ UNCHANGED <<rq, spin>>
         ELSE LET t == Head(k[c].list)
                  d == tcpu[t] IN
              /\ Free(Rq(d))
              /\ rq' = [rq EXCEPT ![d] = Append(@, t)]
              /\ IF NeedsIpi(c, d)
                   THEN Take(c, Rq(d)) /\ Goto(c, "unidle")
                   ELSE UNCHANGED spin /\ k' = [k EXCEPT ![c].list = Tail(@)]
    /\ UNCHANGED <<cur, isidle, zombies, ivars, tvars, wc, halt>>

\* ipi_send(targetcpu, IPI_UNIDLE), with the run queue locked
Unidle(c) ==
    LET d == tcpu[Head(k[c].list)] IN
    /\ At(c, "unidle") /\ Free(Ipi(d))
    /\ pend' = [pend EXCEPT ![d] = @ \cup {"unidle"}]
    /\ line' = [line EXCEPT ![d] = TRUE]
    /\ Drop({Rq(d)})
    /\ k' = [k EXCEPT ![c].pc = "runnable", ![c].list = Tail(@)]
    /\ UNCHANGED <<cvars, shoot, tvars, wc, halt>>

-----------------------------------------------------------------------------
(* Threads *)

\* wchan_sleep; on the way back the spinlock is taken again and the caller releases it.
Sleep(c) ==
    /\ Does(c, "sleep") /\ Take(c, Lk) /\ Goto(c, "sleep W")
    /\ UNCHANGED <<cvars, ivars, life, tcpu, kont, tlb, wc, halt>>

RelockW(c) ==
    /\ At(c, "relock W") /\ Free(Lk) /\ Goto(c, "run")
    /\ UNCHANGED <<cvars, ivars, tvars, spin, wc, halt>>

\* wchan_wakeone and wchan_wakeall
Wake(c) ==
    \E n \in {IF wc["W"] = <<>> THEN 0 ELSE 1, Len(wc["W"])} :
        /\ Does(c, "wake") /\ Take(c, Lk)
        /\ wc' = [wc EXCEPT !["W"] = SubSeq(@, n + 1, Len(@))]
        /\ k' = [k EXCEPT ![c].pc = "runnable", ![c].list = SubSeq(wc["W"], 1, n),
                          ![c].then = "woken"]
        /\ UNCHANGED <<cvars, ivars, life, tcpu, kont, tlb, halt>>

Woken(c) ==
    /\ At(c, "woken") /\ Drop({Lk}) /\ Goto(c, "run")
    /\ UNCHANGED <<cvars, ivars, tvars, wc, halt>>

\* thread_fork, from the point where it cannot fail: the new thread is on this processor.
Fork(c) ==
    \E n \in Threads :
        /\ Does(c, "fork") /\ life[n] = "new"
        /\ life' = [life EXCEPT ![n] = "alive"]
        /\ tcpu' = [tcpu EXCEPT ![n] = tcpu[cur[c]]]
        /\ k' = [k EXCEPT ![c].pc = "runnable", ![c].list = <<n>>, ![c].then = "run"]
        /\ UNCHANGED <<cvars, ivars, kont, tlb, spin, wc, halt>>

\* thread_exit: after proc_remthread interrupts are still on, and k_waitlock is waited for.
Exit(c) ==
    /\ Does(c, "exit")
    /\ life' = [life EXCEPT ![cur[c]] = "exiting"]
    /\ UNCHANGED <<cvars, ivars, tcpu, kont, tlb, spin, k, wc, halt>>

Exiting(c) ==
    /\ At(c, "run") /\ life[cur[c]] = "exiting"
    /\ Goto(c, "zombie")
    /\ UNCHANGED <<cvars, ivars, tvars, spin, wc, halt>>

-----------------------------------------------------------------------------
(* Shootdown: a thread that evicts a page which is in the TLB of another processor *)

Evict(c) ==
    \E d \in Cpus \ {c} :
        /\ Does(c, "evict") /\ Take(c, Cm)
        /\ tlb' = [tlb EXCEPT ![cur[c]] = d]
        /\ Goto(c, "shootdown")
        /\ UNCHANGED <<cvars, ivars, life, tcpu, kont, wc, halt>>

\* ipi_tlbshootdown, with cm_lock held
SendShootdown(c) ==
    LET t == cur[c]
        d == tlb[t] IN
    /\ At(c, "shootdown") /\ Free(Ipi(d))
    /\ IF Len(shoot[d]) = SHOOTDOWNS
         THEN halt' = "too many shootdowns" /\ UNCHANGED <<ivars, k>>
         ELSE /\ shoot' = [shoot EXCEPT ![d] = Append(@, t)]
              /\ pend' = [pend EXCEPT ![d] = @ \cup {"tlbshootdown"}]
              /\ line' = [line EXCEPT ![d] = TRUE]
              /\ Goto(c, "sleep T") /\ UNCHANGED halt
    /\ UNCHANGED <<cvars, tvars, spin, wc>>

\* while (cme->cme_tlb) wchan_sleep(...)
RelockT(c) ==
    /\ At(c, "relock T") /\ Free(Cm)
    /\ IF tlb[cur[c]] # NULL THEN Take(c, Cm) /\ Goto(c, "sleep T")
       ELSE UNCHANGED spin /\ Goto(c, "run")
    /\ UNCHANGED <<cvars, ivars, tvars, wc, halt>>

-----------------------------------------------------------------------------
(* Interrupts *)

Interruptible(c) == k[c].pc \in {"run", "idle"} /\ halt = "no"
Back(c) == IF k[c].pc = "run" THEN "run" ELSE "look"

\* interprocessor_interrupt takes c_ipi_lock.
IpiInterrupt(c) ==
    /\ Interruptible(c) /\ line[c] /\ Free(Ipi(c))
    /\ IF "tlbshootdown" \in pend[c]
         THEN /\ Take(c, Ipi(c)) /\ UNCHANGED pend
              /\ k' = [k EXCEPT ![c].pc = "ipi", ![c].ret = Back(c)]
         ELSE /\ pend' = [pend EXCEPT ![c] = {}] /\ UNCHANGED spin
              /\ k' = [k EXCEPT ![c].pc = "ipi clear", ![c].ret = Back(c)]
    /\ UNCHANGED <<cvars, shoot, line, tvars, wc, halt>>

\* vm_tlbshootdown of one request takes cm_lock inside.  The entry may be gone already.
IpiShootdown(c) ==
    /\ At(c, "ipi") /\ shoot[c] # <<>> /\ Take(c, Cm)
    /\ shoot' = [shoot EXCEPT ![c] = Tail(@)]
    /\ LET t == Head(shoot[c]) IN
       IF tlb[t] = c
         THEN /\ tlb' = [tlb EXCEPT ![t] = NULL]
              /\ wc' = [wc EXCEPT !["T"] = <<>>]
              /\ k' = [k EXCEPT ![c].pc = "runnable", ![c].list = wc["T"], ![c].then = "ipi next"]
         ELSE UNCHANGED <<tlb, wc>> /\ Goto(c, "ipi next")
    /\ UNCHANGED <<cvars, pend, line, life, tcpu, kont, left, halt>>

IpiNext(c) ==
    /\ At(c, "ipi next") /\ Drop({Cm}) /\ Goto(c, "ipi")
    /\ UNCHANGED <<cvars, ivars, tvars, wc, halt>>

IpiDone(c) ==
    /\ At(c, "ipi") /\ shoot[c] = <<>>
    /\ pend' = [pend EXCEPT ![c] = {}]
    /\ Drop({Ipi(c)}) /\ Goto(c, "ipi clear")
    /\ UNCHANGED <<cvars, shoot, line, tvars, wc, halt>>

\* mainbus_interrupt clears the line when the handler has returned.
IpiClear(c) ==
    /\ At(c, "ipi clear")
    /\ line' = [line EXCEPT ![c] = FALSE]
    /\ k' = [k EXCEPT ![c].pc = k[c].ret, ![c].ret = "run"]
    /\ UNCHANGED <<cvars, pend, shoot, tvars, spin, wc, halt>>

\* hardclock: every MIGRATE_HARDCLOCKS ticks threads migrate, and every tick yields.
Hardclock(c) ==
    /\ Interruptible(c)
    /\ \/ Goto(c, "yield")
       \/ k' = [k EXCEPT ![c].pc = "count", ![c].todo = SetToSortSeq(Cpus, <),
                         ![c].total = 0]
    /\ UNCHANGED <<cvars, ivars, tvars, spin, wc, halt>>

-----------------------------------------------------------------------------
(* thread_consider_migration *)

\* Mutant: no early return.
BelowShare_Never(mine, share) == FALSE

BelowShare(mine, share) == mine < share

\* The queues are counted one after the other.
Count(c) ==
    LET d == Head(k[c].todo)
        total == k[c].total + Len(rq[d])
        mine == IF d = c THEN Len(rq[c]) ELSE k[c].mine
        share == (total + Cardinality(Cpus) - 1) \div Cardinality(Cpus) IN
    /\ At(c, "count") /\ Free(Rq(d))
    /\ IF Len(k[c].todo) > 1
         THEN k' = [k EXCEPT ![c].total = total, ![c].mine = mine, ![c].todo = Tail(@)]
         ELSE IF BelowShare(mine, share) THEN k' = [k EXCEPT ![c] = [Thinking EXCEPT !.pc = "yield"]]
         ELSE k' = [k EXCEPT ![c] = [Thinking EXCEPT !.pc = "take", !.share = share,
                                                     !.tosend = mine - share]]
    /\ UNCHANGED <<cvars, ivars, tvars, spin, wc, halt>>

\* The victims leave from the tail of the queue.
TakeVictims(c) ==
    LET kept == Len(rq[c]) - k[c].tosend IN
    /\ At(c, "take") /\ Free(Rq(c))
    /\ rq' = [rq EXCEPT ![c] = SubSeq(@, 1, kept)]
    /\ k' = [k EXCEPT ![c].victims = SubSeq(rq[c], kept + 1, Len(rq[c])),
                      ![c].todo = SetToSortSeq(Cpus \ {c}, <), ![c].pc = "send"]
    /\ UNCHANGED <<cur, isidle, zombies, ivars, tvars, spin, wc, halt>>

\* Mutant: the locks in the other order.
MigrationLocks_Swapped(d) == <<Rq(d), Cm>>

MigrationLocks(d) == <<Cm, Rq(d)>>

Send(c) ==
    /\ At(c, "send")
    /\ IF k[c].todo = <<>> \/ k[c].tosend = 0
         THEN UNCHANGED spin /\ Goto(c, "leftovers")
         ELSE Take(c, MigrationLocks(Head(k[c].todo))[1]) /\ Goto(c, "send lock")
    /\ UNCHANGED <<cvars, ivars, tvars, wc, halt>>

SendLock(c) ==
    /\ At(c, "send lock") /\ Take(c, MigrationLocks(Head(k[c].todo))[2]) /\ Goto(c, "move")
    /\ UNCHANGED <<cvars, ivars, tvars, wc, halt>>

\* Mutant: the current thread migrates like any other.
Stays_Never(c, t) == FALSE

\* A processor that idles still runs on the stack of its current thread.
Stays(c, t) == t = cur[c]

\* One turn of the loop.  The owner of pages is looked up through t_proc, if this
\* processor owns any page.
Move(c) ==
    LET d == Head(k[c].todo)
        t == Head(k[c].victims) IN
    /\ At(c, "move") /\ Len(rq[d]) < k[c].share /\ k[c].tosend > 0
    /\ IF Stays(c, t)
         THEN /\ k' = [k EXCEPT ![c].victims = Append(Tail(@), t), ![c].tosend = @ - 1]
              /\ UNCHANGED <<rq, tcpu, halt>>
         ELSE /\ tcpu' = [tcpu EXCEPT ![t] = d]
              /\ rq' = [rq EXCEPT ![d] = Append(@, t)]
              /\ k' = [k EXCEPT ![c].victims = Tail(@), ![c].tosend = @ - 1,
                                ![c].pc = IF isidle[d] THEN "move ipi" ELSE "move"]
              /\ halt' \in {"no"} \cup (IF life[t] = "exiting" THEN {"no process"} ELSE {})
    /\ UNCHANGED <<cur, isidle, zombies, ivars, life, kont, tlb, left, spin, wc>>

MoveIpi(c) ==
    LET d == Head(k[c].todo) IN
    /\ At(c, "move ipi") /\ Free(Ipi(d))
    /\ pend' = [pend EXCEPT ![d] = @ \cup {"unidle"}]
    /\ line' = [line EXCEPT ![d] = TRUE]
    /\ Goto(c, "move")
    /\ UNCHANGED <<cvars, shoot, tvars, spin, wc, halt>>

Moved(c) ==
    LET d == Head(k[c].todo) IN
    /\ At(c, "move") /\ (Len(rq[d]) >= k[c].share \/ k[c].tosend = 0)
    /\ Drop({Cm, Rq(d)})
    /\ k' = [k EXCEPT ![c].pc = "send", ![c].todo = Tail(@)]
    /\ UNCHANGED <<cvars, ivars, tvars, wc, halt>>

\* Mutant: the threads that nobody took are forgotten.
Leftovers_Lost(c) == <<>>

Leftovers(c) == k[c].victims

PutBack(c) ==
    /\ At(c, "leftovers") /\ Free(Rq(c))
    /\ rq' = [rq EXCEPT ![c] = @ \o Leftovers(c)]
    /\ k' = [k EXCEPT ![c] = [Thinking EXCEPT !.pc = "flush", !.then = "flushed"]]
    /\ UNCHANGED <<cur, isidle, zombies, ivars, tvars, spin, wc, halt>>

\* vm_tlbshootdown of the whole TLB of this processor, also from as_activate
Flush(c) ==
    /\ At(c, "flush") /\ Take(c, Cm)
    /\ tlb' = [t \in Threads |-> IF tlb[t] = c THEN NULL ELSE tlb[t]]
    /\ wc' = [wc EXCEPT !["T"] = <<>>]
    /\ k' = [k EXCEPT ![c].pc = "runnable", ![c].list = wc["T"]]
    /\ UNCHANGED <<cvars, ivars, life, tcpu, kont, left, halt>>

Flushed(c) ==
    /\ At(c, "flushed") /\ Drop({Cm}) /\ Goto(c, "yield")
    /\ UNCHANGED <<cvars, ivars, tvars, wc, halt>>

-----------------------------------------------------------------------------

Migration(c) == \/ Count(c) \/ TakeVictims(c) \/ Send(c) \/ SendLock(c) \/ Move(c) \/ MoveIpi(c)
                \/ Moved(c) \/ PutBack(c) \/ Flush(c) \/ Flushed(c)
Interrupt(c) == IpiInterrupt(c) \/ IpiShootdown(c) \/ IpiNext(c) \/ IpiDone(c) \/ IpiClear(c)
\* What a processor does by itself once it has begun
Kernel(c) == \/ Exorcise(c) \/ ThreadSwitch(c) \/ YieldIdle(c) \/ Look(c) \/ MakeRunnable(c) \/ Unidle(c)
             \/ RelockW(c) \/ Woken(c) \/ Exiting(c) \/ SendShootdown(c) \/ RelockT(c)
             \/ Interrupt(c) \/ Migration(c)
Call(c) == Sleep(c) \/ Wake(c) \/ Fork(c) \/ Exit(c) \/ Evict(c)
Halted == halt # "no" /\ UNCHANGED vars

Next == (\E c \in Cpus : Kernel(c) \/ Call(c) \/ Hardclock(c)) \/ Halted

Spec == Init /\ [][Next]_vars

\* The clock of every processor ticks, and a processor that wants a spinlock gets it: the
\* sections are short and a tick is long.
Fairness == \A c \in Cpus : SF_vars(Kernel(c) \/ Hardclock(c))
FairSpec == Spec /\ Fairness

-----------------------------------------------------------------------------

TypeOK ==
    /\ cur \in [Cpus -> Threads] /\ isidle \in [Cpus -> BOOLEAN]
    /\ \A c \in Cpus : /\ rq[c] \in Seq(Threads) /\ zombies[c] \in Seq(Threads)
                       /\ shoot[c] \in Seq(Threads) /\ Len(shoot[c]) <= SHOOTDOWNS
                       /\ pend[c] \subseteq {"unidle", "tlbshootdown"} /\ line[c] \in BOOLEAN
                       /\ k[c].list \in Seq(Threads) /\ k[c].victims \in Seq(Threads)
                       /\ k[c].tosend \in 0..Cardinality(Threads)
    /\ spin \in [Locks -> Cpus \cup {NULL}]
    /\ life \in [Threads -> {"new", "alive", "exiting", "freed"}]
    /\ tcpu \in [Threads -> Cpus] /\ tlb \in [Threads -> Cpus \cup {NULL}]
    /\ \A w \in {"W", "T"} : wc[w] \in Seq(Threads)

Times(t, s) == Cardinality({i \in DOMAIN s : s[i] = t})

\* How often a thread is queued, counting every queue and private list.
Queued(t) ==
    LET at == [c \in Cpus |-> Times(t, rq[c]) + Times(t, zombies[c]) + Times(t, k[c].victims)
                              + (IF k[c].pc = "unidle" /\ k[c].list # <<>> /\ Head(k[c].list) = t
                                 THEN Times(t, k[c].list) - 1 ELSE Times(t, k[c].list))] IN
    FoldFunction(+, Times(t, wc["W"]) + Times(t, wc["T"]), at)

Runs(t) == \E c \in Cpus : cur[c] = t /\ ~isidle[c]

(* Every thread that exists runs on one processor or is queued exactly     *)
(* once: on a run queue, a wait channel, the private list of a processor   *)
(* that wakes or migrates threads, or among the zombies.  None is lost and *)
(* none is queued twice (thread_switch, wchan_wakeall,                     *)
(* thread_consider_migration).                                             *)
OnePlace ==
    \A t \in Threads :
        /\ life[t] \in {"alive", "exiting"} => Queued(t) + (IF Runs(t) THEN 1 ELSE 0) = 1
        /\ life[t] \in {"new", "freed"} => Queued(t) = 0 /\ ~Runs(t)

(* A stack is in use by one processor: two processors never run the same   *)
(* thread, nor is a thread on the queue of another processor while the one *)
(* that it ran on still idles on its stack, and no processor stands on the *)
(* stack of a thread that was freed (thread_switch, exorcise).             *)
OneStack ==
    \A c \in Cpus :
        /\ life[cur[c]] # "freed"
        /\ \A d \in Cpus \ {c} : cur[d] # cur[c] /\ ~Contains(rq[d], cur[c])

(* A processor that sleeps in cpu_idle while a thread is ready on its      *)
(* queue has an interrupt coming: thread_make_runnable and the migration   *)
(* see c_isidle under the lock of the run queue, and the line that is      *)
(* cleared late belongs to a handler that looks at the queue afterwards.   *)
IdleInterrupted ==
    \A c \in Cpus : k[c].pc = "idle" /\ rq[c] # <<>> =>
        line[c] \/ \E d \in Cpus : spin[Rq(c)] = d /\ k[d].pc \in {"unidle", "move ipi"}

\* The spinlock that a processor is waiting for
Wants(c) ==
    LET pc == k[c].pc IN
    CASE pc \in {"sleep W", "sleep T", "zombie", "look", "take", "leftovers"} -> {Rq(c)}
      [] pc = "yield" -> IF isidle[c] THEN {} ELSE {Rq(c)}
      [] pc = "relock W" -> {Lk}
      [] pc \in {"relock T", "flush"} -> {Cm}
      [] pc = "shootdown" -> {Ipi(tlb[cur[c]])}
      [] pc = "runnable" -> IF k[c].list = <<>> THEN {} ELSE {Rq(tcpu[Head(k[c].list)])}
      [] pc = "unidle" -> {Ipi(tcpu[Head(k[c].list)])}
      [] pc = "ipi" -> IF shoot[c] = <<>> THEN {} ELSE {Cm}
      [] pc = "count" -> {Rq(Head(k[c].todo))}
      [] pc = "send" -> IF k[c].todo = <<>> \/ k[c].tosend = 0 THEN {}
                        ELSE {MigrationLocks(Head(k[c].todo))[1]}
      [] pc = "send lock" -> {MigrationLocks(Head(k[c].todo))[2]}
      [] pc = "move ipi" -> {Ipi(Head(k[c].todo))}
      [] OTHER -> {}

SpinRing(S) == S # {} /\ \A c \in S : \E l \in Wants(c) : spin[l] \in S

(* No processors spin for each other's locks.  Refuted: the handler of a   *)
(* shootdown holds c_ipi_lock and waits for cm_lock, which another sender  *)
(* holds while it waits for c_ipi_lock.                                    *)
NoSpinDeadlock == \A S \in SUBSET Cpus : ~SpinRing(S)

(* The handler of a shootdown, which keeps c_ipi_lock while it waits for   *)
(* cm_lock, is part of every deadlock of spinlocks: all other code takes   *)
(* wait channel, run queue and interrupt locks in this order.              *)
NoOtherSpinDeadlock ==
    \A S \in SUBSET Cpus : SpinRing(S) => \E c \in S : k[c].pc = "ipi"

(* A thread on a run queue gets to run, whatever the migrations do, unless *)
(* the machine has stopped.                                                *)
ReadyRuns ==
    \A t \in Threads : (\E c \in Cpus : Contains(rq[c], t)) ~>
        (Runs(t) \/ halt # "no" \/ ~NoSpinDeadlock)
==============================================================================
