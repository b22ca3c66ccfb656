--------------------------------- MODULE Vm ---------------------------------
(***************************************************************************)
(* The virtual memory system: the coremap, page tables, swap, the TLBs and *)
(* their shootdown, page faults, eviction, the paging daemon, as_copy,     *)
(* as_destroy, sbrk and the allocation of kernel pages.                    *)
(*                                                                         *)
(* One step is one stretch of code under cm_lock; cm names the thread that *)
(* keeps the lock from one step to the next.  A disk transfer and a wait   *)
(* on cm_wchan or cm_tlb_wchan put the thread to sleep, which takes it off *)
(* its cpu; when it is switched in again as_activate flushes the TLB.      *)
(* as_lock is only taken by the one thread of a process, or by the thread  *)
(* that destroys the address space of a dead one, so it is left out.       *)
(*                                                                         *)
(* The contents of a frame or a swap block are abstracted to whose they     *)
(* are: the page of which it holds the latest version, or Stale.           *)
(***************************************************************************)
EXTENDS Integers, FiniteSets, FiniteSetsExt

CONSTANTS
    Procs,            \* processes, each with one thread and one address space
    First,            \* the process that exists at the start
    Kthread,          \* a kernel thread: the paging daemon, or one that allocates
    NULL,             \* no address space, no thread, no cpu
    NCPUS,            \* cpus of the largest machine considered
    NPAGES,           \* cm_num_pages; frame 0 belongs to the kernel
    NSWAP,            \* bound on the blocks of the swap disk; block 0 is reserved
    REGION,           \* pages 1..REGION were set up by as_define_region
    HEAPMAX,          \* bound of the model: pages sbrk may add
    MIN_USER_PAGES,   \* frames alloc_kpages must leave to users
    THRESHOLD,        \* PAGING_DAEMON_THRESHOLD, in percent
    Loads,            \* machines and the work done on them: the number of cpus,
                      \* the last frame of the kernel itself, st_size, the heap of
                      \* First and the operations in use besides reading and writing
    MAXDIRTY          \* bound of the model on cm_num_dirty, which can drift

ASSUME VmAssumption ==
    /\ First \in Procs /\ NPAGES \in Nat \ {0, 1} /\ NSWAP \in Nat \ {0}
    /\ REGION \in Nat \ {0} /\ HEAPMAX \in Nat /\ NCPUS \in Nat \ {0}

ASSUME LoadsAssumption ==
    \A l \in Loads :
        /\ l.ncpus \in 1 .. NCPUS /\ l.kernel \in 0 .. NPAGES - 2
        /\ l.swap \in 1 .. NSWAP /\ l.heap \in 0 .. HEAPMAX
        /\ l.ops \subseteq {"fork", "sbrk", "daemon", "kthread"}

Threads == Procs \cup {Kthread}
AllCpus == 1 .. NCPUS
Frames  == 0 .. NPAGES - 1
Blocks  == 0 .. NSWAP - 1
VPages  == 1 .. REGION + HEAPMAX

VARIABLES
    load,      \* this machine and the work done on it; never changes
    cme,       \* cm_entries
    numDirty,  \* cm_num_dirty
    pte,       \* the page tables, by process and page
    heap,      \* as_heap_size, in pages
    state,     \* of a process: "none", "live", "zombie", "leaked"
    swapmap,   \* st_bitmap: the blocks in use
    fdata,     \* the page of which a frame holds the latest version, or Stale
    sdata,     \* the same for the swap blocks
    filled,    \* pages that have had contents since they were mapped
    tlb,       \* the TLB of each cpu, by page
    ipi,       \* c_shootdown: pages queued for shootdown, by cpu
    migrating, \* cpus between moving a thread away and flushing the TLB
    cur,       \* thread each cpu runs, NULL when it idles
    home,      \* t_cpu
    cm,        \* holder of cm_lock between two steps
    th,        \* what each thread is doing
    halt       \* the assertion or panic that stopped the machine

vars == <<load, cme, numDirty, pte, heap, state, swapmap, fdata, sdata,
          filled, tlb, ipi, migrating, cur, home, cm, th, halt>>
cpuvars  == <<load, ipi, migrating, home>>
procvars == <<heap, state>>

cpus == 1 .. load.ncpus

Stale == <<>>
Running == halt = "no"
User == [pc |-> "user", op |-> "none", as |-> NULL, va |-> 1, f |-> 0,
         blk |-> 0, w |-> FALSE, to |-> NULL, cpu |-> NULL]
NoPte == [valid |-> FALSE, present |-> FALSE, zeroed |-> FALSE, ppn |-> 0]
NoEntry == [f |-> 0, d |-> FALSE]
FreeCme == [as |-> NULL, va |-> 0, swap |-> 0, owner |-> NULL, dirty |-> FALSE,
            tlb |-> FALSE, busy |-> FALSE, kpage |-> FALSE]

-----------------------------------------------------------------------------
(* vm_bootstrap, and one process whose regions as_define_region has set up *)

Init ==
    /\ load \in Loads
    /\ cme = [f \in Frames |-> [FreeCme EXCEPT !.kpage = (f <= load.kernel)]]
    /\ numDirty = 0
    /\ pte = [p \in Procs |-> [v \in VPages |->
                 IF p = First /\ v <= REGION + load.heap
                 THEN [NoPte EXCEPT !.valid = (v <= REGION), !.zeroed = TRUE]
                 ELSE NoPte]]
    /\ heap = [p \in Procs |-> IF p = First THEN load.heap ELSE 0]
    /\ state = [p \in Procs |-> IF p = First THEN "live" ELSE "none"]
    /\ swapmap = {0}
    /\ fdata = [f \in Frames |-> Stale]
    /\ sdata = [b \in Blocks |-> Stale]
    /\ filled = {}
    /\ tlb = [c \in AllCpus |-> [v \in VPages |-> NoEntry]]
    /\ ipi = [c \in AllCpus |-> {}]
    /\ migrating = {}
    /\ cur = [c \in AllCpus |-> NULL]
    /\ home = [t \in Threads |-> 1]
    /\ cm = NULL
    /\ th = [t \in Threads |-> User]
    /\ halt = "no"

-----------------------------------------------------------------------------
(* Scheduling *)

SpaceOf(t) == IF t \in Procs THEN t ELSE NULL

\* t can take a step of kernel code, and one that needs cm_lock.
OnCpu(t, at) ==
    /\ Running /\ th[t].pc = at /\ cur[home[t]] = t
    /\ home[t] \notin migrating
Locked(t, at) == OnCpu(t, at) /\ cm \in {NULL, t}

\* Leaving cm_lock, keeping it, and going to sleep, which releases the cpu.
Unlock(t) == cm' = NULL /\ UNCHANGED cur
Keep(t)   == cm' = t /\ UNCHANGED cur
Sleep(t)  == cm' = NULL /\ cur' = [cur EXCEPT ![home[t]] = NULL]

Asleep(t) ==
    \/ th[t].pc \in {"wbusy", "write", "read"}
    \/ th[t].pc = "wtlb" /\ cme[th[t].f].tlb
Exists(t) == IF t = Kthread THEN load.ops \cap {"daemon", "kthread"} # {} ELSE state[t] = "live"
Ready(t)  == Exists(t) /\ ~Asleep(t) /\ cur[home[t]] # t

\* Coremap after the TLB of cpu c lost all its entries.
InTlb(c) == {tlb[c][v].f : v \in VPages} \ {0}
Flushed(c) == [f \in Frames |-> IF f \in InTlb(c) THEN [cme[f] EXCEPT !.tlb = FALSE] ELSE cme[f]]

\* vm_tlbshootdown with tlbs_flush_all, on the cpu itself.
flush_all(c) ==
    /\ tlb' = [tlb EXCEPT ![c] = [v \in VPages |-> NoEntry]]
    /\ cme' = Flushed(c)

\* as_activate, which does nothing for a thread without an address space.
as_activate_NoFlush(c, t) == UNCHANGED <<tlb, cme>>
as_activate(c, t) == IF SpaceOf(t) = NULL THEN UNCHANGED <<tlb, cme>> ELSE flush_all(c)

\* thread_switch to t, which may be preemption or the end of idling.
thread_switch(c, t) ==
    /\ Running /\ cm = NULL /\ c \in cpus \ migrating
    /\ home[t] = c /\ Ready(t)
    /\ cur' = [cur EXCEPT ![c] = t]
    /\ as_activate(c, t)
    /\ UNCHANGED <<cpuvars, numDirty, pte, procvars, swapmap, fdata,
                   sdata, filled, cm, th, halt>>

\* thread_consider_migration, up to the release of the locks ...
thread_consider_migration(c, t, d) ==
    /\ Running /\ cm = NULL /\ {c, d} \subseteq cpus /\ c # d /\ c \notin migrating
    /\ home[t] = c /\ Ready(t)
    /\ home' = [home EXCEPT ![t] = d]
    /\ cme' = [f \in Frames |->
                 IF cme[f].owner = c /\ cme[f].as = SpaceOf(t)
                 THEN [cme[f] EXCEPT !.owner = d] ELSE cme[f]]
    /\ migrating' = migrating \cup {c}
    /\ UNCHANGED <<load, ipi, numDirty, pte, procvars, swapmap, fdata,
                   sdata, filled, tlb, cur, cm, th, halt>>

\* ... and its end, which flushes the TLB of the cpu.
migration_flush(c) ==
    /\ Running /\ cm = NULL /\ c \in migrating
    /\ migrating' = migrating \ {c}
    /\ flush_all(c)
    /\ UNCHANGED <<load, ipi, home, numDirty, pte, procvars, swapmap,
                   fdata, sdata, filled, cur, cm, th, halt>>

-----------------------------------------------------------------------------
(* User code: a write that hits the TLB, and the accesses that trap *)

InUser(t) ==
    /\ Running /\ t \in Procs /\ state[t] = "live" /\ th[t].pc = "user"
    /\ cur[home[t]] = t /\ home[t] \notin migrating

Entry(t, v) == tlb[home[t]][v]

\* What is left of contents d once page x is written elsewhere.
Outdated(d, x) == IF d = x THEN Stale ELSE d

user_write(t, v) ==
    /\ InUser(t) /\ Entry(t, v).f # 0 /\ Entry(t, v).d
    /\ fdata' = [f \in Frames |-> IF f = Entry(t, v).f THEN <<t, v>>
                                  ELSE Outdated(fdata[f], <<t, v>>)]
    /\ sdata' = [b \in Blocks |-> Outdated(sdata[b], <<t, v>>)]
    /\ UNCHANGED <<cpuvars, cme, numDirty, pte, procvars, swapmap, filled, tlb,
                   cur, cm, th, halt>>

\* A thread enters the kernel: operation op on page v of address space as.
Enter(t, at, op, as, v, w, to) ==
    th' = [th EXCEPT ![t] = [pc |-> at, op |-> op, as |-> as, va |-> v, f |-> 0,
                             blk |-> 0, w |-> w, to |-> to, cpu |-> NULL]]

\* vm_fault up to cm_lock; w tells VM_FAULT_WRITE and VM_FAULT_READONLY from
\* VM_FAULT_READ.  Addresses past the heap are EFAULT.
vm_fault(t, v, w) ==
    /\ InUser(t) /\ v <= REGION + heap[t] /\ (w => numDirty < MAXDIRTY)
    /\ Entry(t, v).f = 0 \/ (w /\ ~Entry(t, v).d)
    /\ Enter(t, "acquire", "fault", t, v, w, NULL)
    /\ UNCHANGED <<cpuvars, cme, numDirty, pte, procvars, swapmap, fdata,
                   sdata, filled, tlb, cur, cm, halt>>

-----------------------------------------------------------------------------
(* Steps common to the operations *)

Page(t) == pte[th[t].as][th[t].va]

\* wchan_wakeall on cm_wchan.
Woken(ths) == [t \in Threads |->
    IF ths[t].pc = "wbusy" THEN [ths[t] EXCEPT !.pc = "reacquire"] ELSE ths[t]]
At(t, pc) == [th EXCEPT ![t].pc = pc]

Panic(why) ==
    /\ halt' = why
    /\ UNCHANGED <<cpuvars, cme, numDirty, pte, procvars, swapmap, fdata,
                   sdata, filled, tlb, cur, cm, th>>

\* Where an operation goes when pte_acquire returned -1, and when it holds
\* the busy bit of the frame.
AfterMiss(t) ==
    CASE th[t].op = "fault" -> th' = At(t, "get") /\ Keep(t)
      [] th[t].op = "copy"  -> th' = [th EXCEPT ![t].pc = "get", ![t].op = "copy_in"] /\ Unlock(t)
      [] OTHER              -> th' = At(t, "absent") /\ Unlock(t)
AfterHit(t, f) ==
    LET go(pc) == [th EXCEPT ![t].pc = pc, ![t].f = f] IN
    CASE th[t].op = "fault" -> th' = go("install") /\ Keep(t)
      [] th[t].op = "copy"  -> th' = go("get") /\ Keep(t)
      [] OTHER              -> th' = go("unmap") /\ Unlock(t)

\* pte_acquire.  vm_fault calls it under cm_lock.  The other callers found
\* pte_present set before they had the lock, and when the page was evicted in
\* between, pte_ppn is the number of a swap block and not of a frame.
pte_acquire(t) ==
    /\ Locked(t, "acquire")
    /\ LET f == Page(t).ppn IN
       \/ /\ ~Page(t).present /\ th[t].op = "fault"
          /\ AfterMiss(t) /\ UNCHANGED <<cme, halt>>
       \/ /\ ~Page(t).present /\ th[t].op # "fault"
          /\ f \in Frames /\ ~cme[f].kpage
          /\ AfterMiss(t) /\ UNCHANGED <<cme, halt>>
       \/ /\ ~Page(t).present /\ th[t].op # "fault"
          /\ IF f \in Frames THEN cme[f].kpage ELSE TRUE
          /\ halt' = "pte_acquire"
          /\ UNCHANGED <<cme, th, cm, cur>>
       \/ /\ Page(t).present /\ cme[f].busy
          /\ th' = [th EXCEPT ![t].pc = "wbusy", ![t].f = f]
          /\ Sleep(t) /\ UNCHANGED <<cme, halt>>
       \/ /\ Page(t).present /\ ~cme[f].busy
          /\ cme' = [cme EXCEPT ![f].busy = TRUE]
          /\ AfterHit(t, f) /\ UNCHANGED halt
    /\ UNCHANGED <<cpuvars, numDirty, pte, procvars, swapmap, fdata,
                   sdata, filled, tlb>>

\* The loop of pte_acquire after a wake-up.
pte_reacquire(t) ==
    /\ Locked(t, "reacquire")
    /\ LET f == th[t].f IN
       \/ /\ ~Page(t).present
          /\ AfterMiss(t) /\ UNCHANGED cme
       \/ /\ Page(t).present /\ cme[f].busy
          /\ th' = At(t, "wbusy") /\ Sleep(t) /\ UNCHANGED cme
       \/ /\ Page(t).present /\ ~cme[f].busy
          /\ cme' = [cme EXCEPT ![f].busy = TRUE]
          /\ AfterHit(t, f)
    /\ UNCHANGED <<cpuvars, numDirty, pte, procvars, swapmap, fdata,
                   sdata, filled, tlb, halt>>

-----------------------------------------------------------------------------
(* page_get, page_write_out and page_swapin *)

IsFree_Busy(f) == cme[f].as = NULL /\ ~cme[f].kpage
IsFree(f) == cme[f].as = NULL /\ ~cme[f].kpage /\ ~cme[f].busy
FreeFrames == {f \in Frames : IsFree(f)}
Evictable == {f \in Frames : ~cme[f].kpage /\ ~cme[f].busy}

\* swap_find_free takes the first free block of the disk.
Disk == 0 .. load.swap - 1
swap_find_free_Marked == Min(Disk \ {0})
swap_find_free == Min(Disk \ swapmap)

\* page_write_out up to the disk transfer: t holds the busy bit of frame f.
\* swap_find_free panics when every block is taken.
page_write_out(t, f) ==
    LET old == cme[f].swap
        blk == IF old # 0 THEN old ELSE swap_find_free IN
    IF old = 0 /\ Disk \subseteq swapmap
    THEN /\ halt' = "swap_find_free"
         /\ UNCHANGED <<cme, pte, swapmap, th, cm, cur>>
    ELSE /\ cme' = [cme EXCEPT ![f].busy = TRUE]
         /\ swapmap' = swapmap \cup {blk}
         /\ pte' = IF old # 0 THEN pte
                   ELSE [pte EXCEPT ![cme[f].as][cme[f].va].zeroed = FALSE]
         /\ th' = [th EXCEPT ![t].pc = "write", ![t].f = f, ![t].blk = blk]
         /\ Sleep(t) /\ UNCHANGED halt

\* page_get: a free frame, or else the one the clock hand stops at, which may
\* be any that is neither busy nor the kernel's.  The search for a clean page in
\* between asks for cme_as == NULL like the search for a free one and finds
\* nothing; with every frame busy the loop does not end.
page_get(t) ==
    /\ Locked(t, "get")
    /\ \/ /\ FreeFrames # {}
          /\ cme' = [cme EXCEPT ![Min(FreeFrames)].busy = TRUE]
          /\ th' = [th EXCEPT ![t].pc = "got", ![t].f = Min(FreeFrames)]
          /\ Keep(t) /\ UNCHANGED <<pte, swapmap, halt>>
       \/ /\ FreeFrames = {}
          /\ \E f \in Evictable : page_write_out(t, f)
       \/ /\ Evictable = {}
          /\ halt' = "page_get"
          /\ UNCHANGED <<cme, pte, swapmap, th, cm, cur>>
    /\ UNCHANGED <<cpuvars, numDirty, procvars, fdata, sdata, filled, tlb>>

\* The disk at work: swap_write and swap_read.
swap_write(t) ==
    /\ Running /\ th[t].pc = "write"
    /\ sdata' = [sdata EXCEPT ![th[t].blk] = fdata[th[t].f]]
    /\ th' = At(t, "clean")
    /\ UNCHANGED <<cpuvars, cme, numDirty, pte, procvars, swapmap, fdata,
                   filled, tlb, cur, cm, halt>>
swap_read(t) ==
    /\ Running /\ th[t].pc = "read"
    /\ fdata' = [fdata EXCEPT ![th[t].f] = sdata[th[t].blk]]
    /\ th' = At(t, "fill")
    /\ UNCHANGED <<cpuvars, cme, numDirty, pte, procvars, swapmap, sdata,
                   filled, tlb, cur, cm, halt>>

\* Coremap m after the entry of page v left the TLB of cpu c.
Dropped(m, c, v) ==
    IF tlb[c][v].f = 0 THEN m ELSE [m EXCEPT ![tlb[c][v].f].tlb = FALSE]

\* cm_num_dirty once frame f is no longer dirty.
Cleaned_Always(f) == numDirty - 1
Cleaned(f) == IF cme[f].dirty THEN numDirty - 1 ELSE numDirty

\* vm_tlbshootdown asserts that the entry it drops is marked in the coremap.
ShootdownOk(c, v) == tlb[c][v].f # 0 => cme[tlb[c][v].f].tlb

\* page_write_out after the transfer: the frame is marked clean and its TLB
\* entry shot down, by hand or by an interrupt to the cpu that owns the page.
page_written(t) ==
    /\ Locked(t, "clean")
    /\ LET f == th[t].f
           c == cme[f].owner
           v == cme[f].va
           marked == [cme EXCEPT ![f].dirty = FALSE, ![f].swap = th[t].blk]
       IN
       IF cme[f].tlb /\ c = home[t] /\ ~ShootdownOk(c, v)
       THEN /\ halt' = "vm_tlbshootdown"
            /\ UNCHANGED <<numDirty, cme, tlb, ipi, th, cm, cur>>
       ELSE
       /\ numDirty' = Cleaned(f)
       /\ cme' = IF cme[f].tlb /\ c = home[t] THEN Dropped(marked, c, v) ELSE marked
       /\ tlb' = IF cme[f].tlb /\ c = home[t] THEN [tlb EXCEPT ![c][v] = NoEntry] ELSE tlb
       /\ ipi' = IF cme[f].tlb /\ c # home[t] THEN [ipi EXCEPT ![c] = @ \cup {v}] ELSE ipi
       /\ th' = At(t, "wtlb")
       /\ IF cme'[f].tlb THEN Sleep(t) ELSE Keep(t)
       /\ UNCHANGED halt
    /\ UNCHANGED <<load, migrating, home, pte, procvars, swapmap, fdata,
                   sdata, filled>>

\* The rest of page_get, once no TLB holds the page.
page_evicted(t) ==
    /\ Locked(t, "wtlb") /\ ~cme[th[t].f].tlb /\ th[t].op # "clean"
    /\ LET f == th[t].f
           p == cme[f].as
           v == cme[f].va
       IN
       /\ pte' = [pte EXCEPT ![p][v].ppn = cme[f].swap, ![p][v].present = FALSE]
       /\ cme' = [cme EXCEPT ![f] = [FreeCme EXCEPT !.busy = TRUE]]
       /\ th' = At(t, "got") /\ Keep(t)
    /\ UNCHANGED <<cpuvars, numDirty, procvars, swapmap, fdata, sdata,
                   filled, tlb, halt>>

\* page_swapin with a frame in hand: a page that is in swap is read, any other
\* page starts as zeroes.
SwapLocation(e) == IF e.valid /\ ~e.zeroed THEN e.ppn ELSE 0

Zeroes(p, v) == IF <<p, v>> \in filled THEN Stale ELSE <<p, v>>

page_swapin(t) ==
    /\ Locked(t, "got") /\ th[t].op \in {"fault", "copy_in"}
    /\ LET blk == SwapLocation(Page(t)) IN
       /\ th' = [th EXCEPT ![t].pc = IF blk # 0 THEN "read" ELSE "fill", ![t].blk = blk]
       /\ IF blk # 0
          THEN Sleep(t) /\ UNCHANGED fdata
          ELSE Keep(t) /\ fdata' = [fdata EXCEPT ![th[t].f] = Zeroes(th[t].as, th[t].va)]
    /\ UNCHANGED <<cpuvars, cme, numDirty, pte, procvars, swapmap, sdata,
                   filled, tlb, halt>>

\* The end of page_swapin, with the busy bit that its caller sets again in the
\* same stretch of cm_lock.
page_filled(t) ==
    /\ Locked(t, "fill")
    /\ LET f == th[t].f IN
       /\ cme' = [cme EXCEPT ![f] = [as |-> th[t].as, va |-> th[t].va,
              swap |-> th[t].blk, owner |-> home[t], dirty |-> FALSE,
              tlb |-> FALSE, busy |-> TRUE, kpage |-> FALSE]]
       /\ pte' = [pte EXCEPT ![th[t].as][th[t].va] =
              [valid |-> TRUE, present |-> TRUE, zeroed |-> FALSE, ppn |-> f]]
       /\ filled' = filled \cup {<<th[t].as, th[t].va>>}
       /\ th' = Woken(IF th[t].op = "fault" THEN At(t, "install")
                      ELSE [th EXCEPT ![t].pc = "get", ![t].op = "copy"])
       /\ Keep(t)
    /\ UNCHANGED <<cpuvars, numDirty, procvars, swapmap, fdata, sdata, tlb, halt>>

\* Pages whose entry the new entry of page v may replace, 0 for none.
Losable(c, v) ==
    {0} \cup {x \in VPages : tlb[c][v].f = 0 /\ tlb[c][x].f # 0}

\* The rest of vm_fault: the entry goes where the probe found one, or to a
\* random place, whose entry (that of page u, or none) is lost.
vm_fault_install(t, u) ==
    /\ Locked(t, "install")
    /\ LET c == home[t]
           v == th[t].va
           f == Page(t).ppn
           was == cme[f].dirty
       IN
       /\ u \in Losable(c, v)
       /\ cme' = [(IF u = 0 THEN cme ELSE Dropped(cme, c, u)) EXCEPT
                    ![f].dirty = was \/ th[t].w, ![f].tlb = TRUE, ![f].busy = FALSE]
       /\ numDirty' = IF th[t].w /\ ~was THEN numDirty + 1 ELSE numDirty
       /\ tlb' = [tlb EXCEPT ![c] = [x \in VPages |->
                    CASE x = v -> [f |-> f, d |-> th[t].w]
                      [] x = u -> NoEntry
                      [] OTHER -> tlb[c][x]]]
       /\ th' = Woken([th EXCEPT ![t] = User]) /\ Unlock(t)
    /\ UNCHANGED <<cpuvars, pte, procvars, swapmap, fdata, sdata, filled, halt>>

\* interprocessor_interrupt with shootdowns queued.
interprocessor_interrupt(c) ==
    /\ Running /\ cm = NULL /\ c \notin migrating /\ ipi[c] # {}
    /\ IF \A v \in ipi[c] : ShootdownOk(c, v)
       THEN /\ cme' = [f \in Frames |-> IF \E v \in ipi[c] : tlb[c][v].f = f /\ f # 0
                                        THEN [cme[f] EXCEPT !.tlb = FALSE] ELSE cme[f]]
            /\ tlb' = [tlb EXCEPT ![c] = [v \in VPages |-> IF v \in ipi[c] THEN NoEntry ELSE @[v]]]
            /\ ipi' = [ipi EXCEPT ![c] = {}]
            /\ UNCHANGED halt
       ELSE halt' = "vm_tlbshootdown" /\ UNCHANGED <<cme, tlb, ipi>>
    /\ UNCHANGED <<load, migrating, home, numDirty, pte, procvars,
                   swapmap, fdata, sdata, filled, cur, cm, th>>

-----------------------------------------------------------------------------
(* The paging daemon *)

Cleanable(from) == {f \in Frames : f >= from /\ ~cme[f].busy /\ cme[f].dirty
                                    /\ ~cme[f].kpage /\ cme[f].as # NULL}

\* The sweep begins when enough frames are dirty.
daemon_start ==
    /\ "daemon" \in load.ops /\ Locked(Kthread, "user")
    /\ (numDirty * 100) \div NPAGES >= THRESHOLD
    /\ th' = [th EXCEPT ![Kthread].pc = "sweep", ![Kthread].op = "clean", ![Kthread].f = 0]
    /\ Keep(Kthread)
    /\ UNCHANGED <<cpuvars, cme, numDirty, pte, procvars, swapmap, fdata,
                   sdata, filled, tlb, halt>>

\* The next frame of the sweep, or the end of it.
daemon_sweep ==
    /\ Locked(Kthread, "sweep")
    /\ LET S == Cleanable(th[Kthread].f) IN
       \/ /\ S # {}
          /\ page_write_out(Kthread, Min(S))
       \/ /\ S = {}
          /\ th' = [th EXCEPT ![Kthread] = User]
          /\ Unlock(Kthread)
          /\ UNCHANGED <<cme, pte, swapmap, halt>>
    /\ UNCHANGED <<cpuvars, numDirty, procvars, fdata, sdata, filled, tlb>>

daemon_cleaned_Busy ==
    /\ Locked(Kthread, "wtlb") /\ ~cme[th[Kthread].f].tlb
    /\ th' = [th EXCEPT ![Kthread].pc = "sweep", ![Kthread].f = @ + 1]
    /\ Keep(Kthread)
    /\ UNCHANGED <<cpuvars, cme, numDirty, pte, procvars, swapmap, fdata,
                   sdata, filled, tlb, halt>>
daemon_cleaned ==
    /\ Locked(Kthread, "wtlb") /\ ~cme[th[Kthread].f].tlb
    /\ cme' = [cme EXCEPT ![th[Kthread].f].busy = FALSE]
    /\ th' = Woken([th EXCEPT ![Kthread].pc = "sweep", ![Kthread].f = @ + 1])
    /\ Keep(Kthread)
    /\ UNCHANGED <<cpuvars, numDirty, pte, procvars, swapmap, fdata,
                   sdata, filled, tlb, halt>>

-----------------------------------------------------------------------------
(* as_copy and as_destroy.  All pages of the model lie in one page table. *)

\* The first valid page of p from v on, 0 when there is none.
NextValid(p, v) ==
    LET S == {x \in VPages : x >= v /\ pte[p][x].valid} IN IF S = {} THEN 0 ELSE Min(S)

sys_fork(t, q) ==
    /\ "fork" \in load.ops /\ InUser(t) /\ state[q] = "none"
    /\ state' = [state EXCEPT ![q] = "forking"]
    /\ Enter(t, "copy", "copy", t, NextValid(t, 1), FALSE, q)
    /\ UNCHANGED <<cpuvars, cme, numDirty, pte, heap, swapmap, fdata,
                   sdata, filled, tlb, cur, cm, halt>>

\* The head of the inner loop of as_copy: pte_acquire, which looks at
\* pte_present before it has the lock, and the test whether to swap in.
as_copy(t) ==
    /\ OnCpu(t, "copy")
    /\ th[t].va # 0
    /\ th' = IF Page(t).present THEN At(t, "acquire")
             ELSE [th EXCEPT ![t].pc = "get", ![t].op = "copy_in"]
    /\ UNCHANGED <<cpuvars, cme, numDirty, pte, procvars, swapmap, fdata,
                   sdata, filled, tlb, cur, cm, halt>>

\* The page is copied into the new frame, whose busy bit stays set.  The page
\* table of the new space is allocated for its first page, which may fail:
\* then as_copy returns ENOMEM and leaves the frames it has taken behind.
as_copy_page(t, fails) ==
    /\ Locked(t, "got") /\ th[t].op = "copy"
    /\ LET f == th[t].f
           src == Page(t).ppn
           v == th[t].va
           q == th[t].to
       IN
       /\ cme' = [cme EXCEPT
              ![f] = [as |-> q, va |-> v, swap |-> 0, owner |-> home[t],
                      dirty |-> FALSE, tlb |-> FALSE, busy |-> TRUE, kpage |-> FALSE],
              ![src].busy = FALSE]
       /\ fdata' = [fdata EXCEPT ![f] = IF fdata[src] = <<t, v>> THEN <<q, v>> ELSE Stale]
       /\ \/ /\ ~fails
             /\ pte' = [pte EXCEPT ![q][v] =
                    [valid |-> TRUE, present |-> TRUE, zeroed |-> FALSE, ppn |-> f]]
             /\ th' = Woken([th EXCEPT ![t].pc = "copy", ![t].f = 0, ![t].blk = 0,
                                         ![t].va = NextValid(t, v + 1)])
             /\ UNCHANGED state
          \/ /\ fails /\ \A x \in VPages : ~pte[q][x].valid
             /\ state' = [state EXCEPT ![q] = "leaked"]
             /\ th' = Woken([th EXCEPT ![t] = User])
             /\ UNCHANGED pte
       /\ Unlock(t)
    /\ UNCHANGED <<cpuvars, numDirty, heap, swapmap, sdata, filled, tlb, halt>>

\* The end of as_copy gives up the busy bits, and the child can run.
as_copied(t) ==
    /\ Locked(t, "copy") /\ th[t].va = 0
    /\ LET q == th[t].to IN
       /\ cme' = [f \in Frames |-> IF cme[f].as = q THEN [cme[f] EXCEPT !.busy = FALSE] ELSE cme[f]]
       /\ heap' = [heap EXCEPT ![q] = heap[t]]
       /\ filled' = filled \cup {<<q, x[2]>> : x \in {y \in filled : y[1] = t}}
       /\ state' = [state EXCEPT ![q] = "live"]
       /\ home' = [home EXCEPT ![q] = home[t]]
       /\ th' = Woken([th EXCEPT ![t] = User, ![q] = User])
    /\ UNCHANGED <<load, ipi, migrating, numDirty, pte, swapmap, fdata,
                   sdata, tlb, cur, cm, halt>>

\* A child exits: its thread is gone, and so is nothing else of its memory
\* until a process that waits for it destroys the address space.
sys_exit(t) ==
    /\ InUser(t) /\ t # First
    /\ state' = [state EXCEPT ![t] = "zombie"]
    /\ cur' = [cur EXCEPT ![home[t]] = NULL]
    /\ UNCHANGED <<cpuvars, cme, numDirty, pte, heap, swapmap, fdata,
                   sdata, filled, tlb, cm, th, halt>>

as_destroy(t, q) ==
    /\ InUser(t) /\ state[q] = "zombie"
    /\ Enter(t, "walk", "destroy", q, NextValid(q, 1), FALSE, NULL)
    /\ UNCHANGED <<cpuvars, cme, numDirty, pte, procvars, swapmap, fdata,
                   sdata, filled, tlb, cur, cm, halt>>

\* The loop of pgt_destroy: pte_present is read without the lock.
pgt_destroy(t) ==
    /\ OnCpu(t, "walk")
    /\ LET q == th[t].as IN
       \/ /\ th[t].va # 0
          /\ th' = At(t, IF Page(t).present THEN "acquire" ELSE "absent")
          /\ UNCHANGED <<pte, procvars, filled>>
       \/ /\ th[t].va = 0
          /\ th' = [th EXCEPT ![t] = User]
          /\ pte' = [pte EXCEPT ![q] = [v \in VPages |-> NoPte]]
          /\ heap' = [heap EXCEPT ![q] = 0]
          /\ filled' = {x \in filled : x[1] # q}
          /\ state' = [state EXCEPT ![q] = "none"]
    /\ UNCHANGED <<cpuvars, cme, numDirty, swapmap, fdata, sdata, tlb,
                   cur, cm, halt>>

-----------------------------------------------------------------------------
(* sbrk, one page at a time, and the end of an unmapping *)

sbrk_grow(t) ==
    /\ "sbrk" \in load.ops /\ InUser(t) /\ heap[t] < HEAPMAX
    /\ heap' = [heap EXCEPT ![t] = @ + 1]
    /\ pte' = [pte EXCEPT ![t][REGION + heap[t] + 1] = [NoPte EXCEPT !.zeroed = TRUE]]
    /\ UNCHANGED <<cpuvars, cme, numDirty, state, swapmap, fdata, sdata, filled,
                   tlb, cur, cm, th, halt>>

sbrk_shrink(t) ==
    /\ "sbrk" \in load.ops /\ InUser(t) /\ heap[t] > 0
    /\ LET v == REGION + heap[t] IN
       Enter(t, IF pte[t][v].present THEN "acquire" ELSE "absent", "shrink", t, v, FALSE, NULL)
    /\ UNCHANGED <<cpuvars, cme, numDirty, pte, procvars, swapmap, fdata,
                   sdata, filled, tlb, cur, cm, halt>>

\* What is in a block that is free again does not matter.
SwapFreed(b) ==
    /\ swapmap' = swapmap \ ({b} \ {0})
    /\ sdata' = IF b = 0 THEN sdata ELSE [sdata EXCEPT ![b] = Stale]

\* pgt_destroy gives the frame back.  It corrects the count of dirty frames,
\* leaves the TLBs alone and leaves cme_swap_location and cme_owner_cpu as they
\* were, for the next user of the frame to overwrite ...
unmap_destroy(t) ==
    /\ Locked(t, "unmap") /\ th[t].op = "destroy"
    /\ LET f == th[t].f IN
       /\ numDirty' = Cleaned(f)
       /\ cme' = [cme EXCEPT ![f].as = NULL, ![f].va = 0, ![f].dirty = FALSE,
                             ![f].tlb = FALSE, ![f].busy = FALSE]
       /\ fdata' = [fdata EXCEPT ![f] = Stale]
       /\ th' = Woken([th EXCEPT ![t].pc = "unblock", ![t].f = 0, ![t].blk = cme[f].swap])
    /\ UNCHANGED <<cpuvars, pte, procvars, swapmap, sdata, filled, tlb, cur, cm, halt>>

\* ... and then, when others may have the frame already, its swap block.
unblock_destroy(t) ==
    /\ OnCpu(t, "unblock")
    /\ SwapFreed(th[t].blk)
    /\ th' = [th EXCEPT ![t].pc = "walk", ![t].blk = 0, ![t].va = NextValid(th[t].as, @ + 1)]
    /\ UNCHANGED <<cpuvars, cme, numDirty, pte, procvars, fdata, filled, tlb,
                   cur, cm, halt>>

\* sbrk works on the coremap entry without cm_lock, with no more than its busy
\* bit: the thread may be preempted and migrate at any point.  It looks whether a
\* TLB holds the page, and asserts that it is the one of its own cpu ...
shrink_probe(t) ==
    /\ OnCpu(t, "unmap") /\ th[t].op = "shrink"
    /\ LET e == cme[th[t].f] IN
       IF e.tlb /\ e.owner # home[t]
       THEN Panic("sys_sbrk")
       ELSE /\ th' = IF e.tlb THEN [th EXCEPT ![t].pc = "shoot", ![t].cpu = e.owner]
                     ELSE At(t, "clear")
            /\ UNCHANGED <<cpuvars, cme, numDirty, pte, procvars, swapmap, fdata,
                           sdata, filled, tlb, cur, cm, halt>>

\* ... calls vm_tlbshootdown, which sends an interrupt when tlbs_cpu is another
\* cpu by now, and waits for no answer ...
shrink_shoot(t) ==
    /\ LET c == th[t].cpu
           v == th[t].va
       IN
       \/ /\ OnCpu(t, "shoot") /\ c # home[t]
          /\ ipi' = [ipi EXCEPT ![c] = @ \cup {v}]
          /\ th' = [th EXCEPT ![t].pc = "clear", ![t].cpu = NULL]
          /\ UNCHANGED <<cme, tlb, halt>>
       \/ /\ Locked(t, "shoot") /\ c = home[t] /\ ShootdownOk(c, v)
          /\ cme' = Dropped(cme, c, v)
          /\ tlb' = [tlb EXCEPT ![c][v] = NoEntry]
          /\ th' = [th EXCEPT ![t].pc = "clear", ![t].cpu = NULL]
          /\ UNCHANGED <<ipi, halt>>
       \/ /\ Locked(t, "shoot") /\ c = home[t] /\ ~ShootdownOk(c, v)
          /\ halt' = "vm_tlbshootdown"
          /\ UNCHANGED <<cme, tlb, ipi, th>>
    /\ UNCHANGED <<load, migrating, home, numDirty, pte, procvars, swapmap, fdata,
                   sdata, filled, cur, cm>>

\* ... and clears the entry, up to the end of pte_release, which takes cm_lock:
\* while the frame is busy nobody else looks at the fields that change.
\* cm_num_dirty is left alone, and so are cme_tlb and cme_owner_cpu.
unmap_shrink(t) ==
    /\ Locked(t, "clear")
    /\ LET f == th[t].f
           v == th[t].va
       IN
       /\ cme' = [cme EXCEPT ![f].as = NULL, ![f].va = 0, ![f].swap = 0,
                             ![f].dirty = FALSE, ![f].busy = FALSE]
       /\ fdata' = [fdata EXCEPT ![f] = Stale]
       /\ filled' = filled \ {<<t, v>>}
       /\ SwapFreed(cme[f].swap)
       /\ pte' = [pte EXCEPT ![t][v] = NoPte]
       /\ heap' = [heap EXCEPT ![t] = @ - 1]
       /\ th' = Woken([th EXCEPT ![t] = User])
    /\ UNCHANGED <<cpuvars, numDirty, state, tlb, cur, cm, halt>>

\* The page has no frame: only its swap block is given back.
\* swap_destroy_block asserts that there is one.
absent_destroy(t) ==
    /\ OnCpu(t, "absent") /\ th[t].op = "destroy"
    /\ SwapFreed(Page(t).ppn)
    /\ th' = [th EXCEPT ![t].pc = "walk", ![t].va = NextValid(th[t].as, @ + 1)]
    /\ UNCHANGED <<cpuvars, cme, numDirty, pte, procvars, fdata, filled, tlb,
                   cur, cm, halt>>

absent_shrink(t) ==
    /\ OnCpu(t, "absent") /\ th[t].op = "shrink"
    /\ IF ~Page(t).zeroed /\ Page(t).ppn = 0
       THEN Panic("swap_destroy_block")
       ELSE /\ SwapFreed(IF Page(t).zeroed THEN 0 ELSE Page(t).ppn)
            /\ filled' = filled \ {<<t, th[t].va>>}
            /\ pte' = [pte EXCEPT ![t][th[t].va].valid = FALSE, ![t][th[t].va].ppn = 0]
            /\ heap' = [heap EXCEPT ![t] = @ - 1]
            /\ th' = [th EXCEPT ![t] = User]
            /\ UNCHANGED <<cpuvars, cme, numDirty, state, fdata, tlb, cur, cm, halt>>

-----------------------------------------------------------------------------
(* Kernel pages, one at a time, allocated and freed in system calls *)

KernelPages == {f \in Frames : cme[f].kpage}

MayAllocate(t) == "kthread" \in load.ops /\ t = Kthread /\ Locked(t, "user")

alloc_kpages(t) ==
    /\ MayAllocate(t) /\ cm = NULL
    /\ NPAGES - (Cardinality(KernelPages) + 1) >= MIN_USER_PAGES
    /\ Enter(t, "get", "kalloc", NULL, 1, FALSE, NULL)
    /\ Keep(t)
    /\ UNCHANGED <<cpuvars, cme, numDirty, pte, procvars, swapmap, fdata,
                   sdata, filled, tlb, halt>>

\* The frame becomes a kernel page.  Nobody is woken.
alloc_kpages_got(t) ==
    /\ Locked(t, "got") /\ th[t].op = "kalloc"
    /\ cme' = [cme EXCEPT ![th[t].f] = [FreeCme EXCEPT !.kpage = TRUE]]
    /\ fdata' = [fdata EXCEPT ![th[t].f] = Stale]
    /\ th' = [th EXCEPT ![t] = User]
    /\ Unlock(t)
    /\ UNCHANGED <<cpuvars, numDirty, pte, procvars, swapmap, sdata, filled,
                   tlb, halt>>

free_kpages(t, f) ==
    /\ MayAllocate(t) /\ cm = NULL /\ f > load.kernel /\ cme[f].kpage
    /\ cme' = [cme EXCEPT ![f].kpage = FALSE]
    /\ UNCHANGED <<cpuvars, numDirty, pte, procvars, swapmap, fdata,
                   sdata, filled, tlb, cur, cm, th, halt>>

-----------------------------------------------------------------------------
Next ==
    \/ \E c \in cpus, t \in Threads : thread_switch(c, t)
    \/ \E c, d \in cpus, t \in Threads : thread_consider_migration(c, t, d)
    \/ \E c \in cpus : migration_flush(c) \/ interprocessor_interrupt(c)
    \/ \E t \in Procs, v \in VPages :
          \/ user_write(t, v)
          \/ \E w \in BOOLEAN : vm_fault(t, v, w)
    \/ \E t \in Threads :
          \/ page_get(t) \/ swap_write(t) \/ page_written(t) \/ page_evicted(t)
          \/ alloc_kpages(t) \/ alloc_kpages_got(t)
          \/ \E f \in Frames : free_kpages(t, f)
    \/ \E t \in Procs :
          \/ pte_acquire(t) \/ pte_reacquire(t)
          \/ swap_read(t) \/ page_swapin(t) \/ page_filled(t)
          \/ \E u \in VPages \cup {0} : vm_fault_install(t, u)
          \/ \E q \in Procs : sys_fork(t, q) \/ as_destroy(t, q)
          \/ as_copy(t) \/ as_copied(t) \/ sys_exit(t) \/ pgt_destroy(t)
          \/ \E fails \in BOOLEAN : as_copy_page(t, fails)
          \/ sbrk_grow(t) \/ sbrk_shrink(t)
          \/ unmap_destroy(t) \/ unblock_destroy(t)
          \/ shrink_probe(t) \/ shrink_shoot(t) \/ unmap_shrink(t)
          \/ absent_destroy(t) \/ absent_shrink(t)
    \/ daemon_start \/ daemon_sweep \/ daemon_cleaned

Spec == Init /\ [][Next]_vars

-----------------------------------------------------------------------------
(* Properties *)

TypeOK ==
    /\ cme \in [Frames -> [as : Procs \cup {NULL}, va : VPages \cup {0}, swap : Blocks,
                 owner : AllCpus \cup {NULL}, dirty : BOOLEAN, tlb : BOOLEAN,
                 busy : BOOLEAN, kpage : BOOLEAN]]
    /\ numDirty \in Nat
    /\ pte \in [Procs -> [VPages -> [valid : BOOLEAN, present : BOOLEAN,
                 zeroed : BOOLEAN, ppn : Nat]]]
    /\ swapmap \subseteq Blocks
    /\ tlb \in [AllCpus -> [VPages -> [f : Frames, d : BOOLEAN]]]
    /\ cm \in Threads \cup {NULL}

Alive == {p \in Procs : state[p] \in {"live", "forking"}}

\* The page tables and the coremap agree, whatever faults, evictions, copies
\* and unmappings are under way: a page that is present has a frame of its own,
\* and a frame that is not busy and has an owner is where the owner's page table
\* says that page is (the KASSERTs of vm_fault and page_get on cme_as, cme_vaddr
\* and pte_ppn).
Ownership ==
    /\ \A p \in Alive, v \in VPages : pte[p][v].present =>
          cme[pte[p][v].ppn].as = p /\ cme[pte[p][v].ppn].va = v
    /\ \A f \in Frames : (cme[f].as # NULL /\ ~cme[f].busy) =>
          pte[cme[f].as][cme[f].va] =
             [valid |-> TRUE, present |-> TRUE, zeroed |-> FALSE, ppn |-> f]

\* The swap block that belongs to a page, 0 for none.
PageBlock(p, v) ==
    LET e == pte[p][v] IN IF e.present THEN cme[e.ppn].swap ELSE SwapLocation(e)

\* No swap block belongs to two pages, and none that belongs to a page is free
\* for swap_find_free to hand out again.
SwapOwnership ==
    LET pages == Alive \X VPages IN
    /\ \A x \in pages : PageBlock(x[1], x[2]) \in swapmap
    /\ \A x, y \in pages : x # y /\ PageBlock(x[1], x[2]) # 0
            => PageBlock(x[1], x[2]) # PageBlock(y[1], y[2])

\* What the next access to a page would find in its frame, in its block or in
\* a zeroed frame.
Contents(p, v) ==
    LET e == pte[p][v] IN
    IF e.present THEN fdata[e.ppn]
    ELSE IF SwapLocation(e) # 0 THEN sdata[SwapLocation(e)] ELSE Zeroes(p, v)

\* The memory of a process holds what the process last wrote to it: the frame,
\* block or fresh page its page table leads to is the latest version, and so is
\* the frame that the TLB of the cpu it runs on leads to.
MemoryIntact ==
    \A p \in Procs : state[p] = "live" => \A v \in 1 .. REGION + heap[p] :
        /\ Contents(p, v) = <<p, v>>
        /\ cur[home[p]] = p /\ Entry(p, v).f # 0 => fdata[Entry(p, v).f] = <<p, v>>

\* A running process reaches no frame but its own through the TLB, whatever
\* page_get, pgt_destroy and sbrk did to the frame in the meantime.
Isolation ==
    \A p \in Procs, v \in VPages :
        InUser(p) /\ Entry(p, v).f # 0 =>
            cme[Entry(p, v).f].as = p /\ cme[Entry(p, v).f].va = v

\* The frame behind a TLB entry that a running process can use is marked as
\* being in a TLB, so that page_write_out and page_get will shoot it down
\* ("whether page is in tlb", coremap.h).
TlbMarked ==
    \A p \in Procs, v \in VPages : InUser(p) /\ Entry(p, v).f # 0 => cme[Entry(p, v).f].tlb

\* On a machine with one cpu paging never loses a write and never leaves a
\* process a way to a frame that was taken from it, although page_write_out
\* writes a frame before it takes it out of the TLB and pgt_destroy leaves the
\* TLB alone: a thread that is switched in starts with an empty TLB.
OneCpuMemory == load.ncpus = 1 => MemoryIntact /\ Isolation /\ TlbMarked

\* cm_num_dirty may drift upwards (sbrk clears cme_dirty without counting) but
\* never below the number of dirty frames, so the paging daemon is never late.
DirtyCounted == numDirty >= Cardinality({f \in Frames : cme[f].dirty})

Holds(t, f) ==
    \/ th[t].f = f
    \/ th[t].op = "copy" /\ th[t].pc \in {"get", "write", "clean", "wtlb", "got"} /\ Page(t).ppn = f

\* A frame is busy only while some thread is going to release it; the frames of
\* an address space that as_copy gave up on are the one exception.
BusyHeld ==
    \A f \in Frames : cme[f].busy =>
        \/ \E t \in Threads : Holds(t, f)
        \/ cme[f].as # NULL /\ state[cme[f].as] \in {"forking", "leaked"}
=============================================================================
