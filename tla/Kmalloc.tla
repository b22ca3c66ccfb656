------------------------------- MODULE Kmalloc -------------------------------
(***************************************************************************)
(* The kernel heap (kern/vm/kmalloc.c): pages cut into blocks of one size, *)
(* each with its own list of free blocks, and the pagerefs that describe   *)
(* them, which live on pages of their own and are handed out by bitmaps.   *)
(*                                                                         *)
(* kmalloc_spinlock covers everything except the calls of the page         *)
(* allocator: it is dropped around alloc_kpages and free_kpages, so that a *)
(* kmalloc in need of a page has up to seven stretches.  Threads call      *)
(* kmalloc and kfree in a sensible way: they free what they were given,    *)
(* once.                                                                   *)
(***************************************************************************)
EXTENDS Integers, Sequences, FiniteSets, FiniteSetsExt

CONSTANTS
    Threads,
    PAGE,            \* PAGE_SIZE
    Sizes,           \* sizes[], ascending, each a divisor of PAGE
    ROOTS,           \* NUM_PAGEREFPAGES
    REFS,            \* NPAGEREFS_PER_PAGE
    NPAGES,          \* pages of the kernel
    FAULTS,          \* calls of alloc_kpages that fail although there is a page
    Loads            \* a set of functions from Threads to sequences of requests: a size, or 0 for a free

VARIABLES
    kfreepages,      \* the pages that the page allocator has
    roots,           \* kheaproots: the page (0 for none) and the bits in use
    refs,            \* the pagerefs that manage a page: page, blktype, nfree, free
    sizebases, allbase,
    mine,            \* what each thread has been given, in order: page, offset, size
    pc, arg, todo, faults,
    lost,            \* history: bits of pagerefs whose page could not be allocated
    halt

vars == <<kfreepages, roots, refs, sizebases, allbase, mine, pc, arg, todo, faults, lost, halt>>

Pages == 1..NPAGES
Types == DOMAIN Sizes
Roots == 1..ROOTS
Ids == Roots \X (1..REFS)
NoRef == [page |-> 0, blktype |-> 0, nfree |-> 0, free |-> <<>>]
NoArg == [blktype |-> 0, page |-> 0, va |-> 0, id |-> <<0, 0>>, size |-> 0]
LARGEST == Sizes[Len(Sizes)]
NBlocks(t) == PAGE \div Sizes[t]

Init ==
    /\ kfreepages = Pages
    /\ roots = [r \in Roots |-> [page |-> 0, inuse |-> {}]]
    /\ refs = [i \in Ids |-> NoRef]
    /\ sizebases = [t \in Types |-> <<>>] /\ allbase = <<>>
    /\ mine = [t \in Threads |-> <<>>]
    /\ pc = [t \in Threads |-> "idle"] /\ arg = [t \in Threads |-> NoArg]
    /\ todo \in Loads /\ faults = 0 /\ lost = {} /\ halt = "no"

Goto(t, l) == pc' = [pc EXCEPT ![t] = l]
KeepLists == UNCHANGED <<refs, sizebases, allbase>>

-----------------------------------------------------------------------------
(* alloc_kpages, seen from kmalloc: one step under cm_lock.  kfreepages are the pages that are   *)
(* free or can be taken from users; which of them it hands out makes no difference.  It may fail *)
(* although there are enough of them: MIN_USER_PAGES stay with the users, and eviction is tried  *)
(* NUM_TRIES times.                                                                              *)

SomePage == {p \in kfreepages : p = Min(kfreepages)}
Runs(n) == {s \in SUBSET kfreepages : \E p \in s : s = p..(p + n - 1)}
AllocFails(n) == IF Runs(n) = {} THEN UNCHANGED faults ELSE faults < FAULTS /\ faults' = faults + 1

-----------------------------------------------------------------------------
(* kmalloc *)

\* Mutant: a block that is too small will do.
Blocktype_Smaller(sz) == CHOOSE t \in Types : Sizes[t] < sz \/ t = 1

\* blocktype: the first size that is large enough
Blocktype(sz) == CHOOSE t \in Types : sz <= Sizes[t] /\ \A u \in Types : sz <= Sizes[u] => t <= u

\* Mutant: the count of free blocks is left alone.
Popped_Uncounted(ref) == [ref EXCEPT !.free = Tail(@)]

\* doalloc: the first free block
Popped(ref) == [ref EXCEPT !.free = Tail(@), !.nfree = @ - 1]

Given(t, ref, sz) ==
    mine' = [mine EXCEPT ![t] = Append(@, [page |-> ref.page, off |-> Head(ref.free), size |-> sz,
                                           len |-> Sizes[ref.blktype]])]

\* The first page of this size with a free block
Avail(list) == SelectSeq(list, LAMBDA i : refs[i].nfree > 0)

\* kmalloc, and subpage_kmalloc up to the first release of the spinlock
Kmalloc(t) ==
    /\ pc[t] = "idle" /\ todo[t] # <<>> /\ Head(todo[t]) > 0
    /\ todo' = [todo EXCEPT ![t] = Tail(@)]
    /\ LET sz == Head(todo[t]) IN
       IF sz >= LARGEST
         THEN LET n == (sz + PAGE - 1) \div PAGE IN
              /\ \/ \E run \in {r \in Runs(n) : \A q \in Runs(n) : Min(r) <= Min(q)} :
                      /\ kfreepages' = kfreepages \ run
                      /\ mine' = [mine EXCEPT ![t] = Append(@, [page |-> Min(run), off |-> 0, size |-> sz, len |-> n * PAGE])]
                      /\ UNCHANGED faults
                 \/ AllocFails(n) /\ UNCHANGED <<kfreepages, mine>>
              /\ UNCHANGED <<pc, arg>> /\ KeepLists
         ELSE LET b == Blocktype(sz)
                  avail == Avail(sizebases[b]) IN
              /\ arg' = [arg EXCEPT ![t] = [NoArg EXCEPT !.blktype = b, !.size = sz]]
              /\ IF avail # <<>>
                   THEN /\ refs' = [refs EXCEPT ![Head(avail)] = Popped(@)]
                        /\ Given(t, refs[Head(avail)], sz)
                        /\ UNCHANGED <<pc, sizebases, allbase>>
                   ELSE Goto(t, "getpage") /\ KeepLists /\ UNCHANGED mine
              /\ UNCHANGED <<kfreepages, faults>>
    /\ UNCHANGED <<roots, lost, halt>>

\* alloc_kpages for the new page of blocks
GetPage(t) ==
    /\ pc[t] = "getpage"
    /\ \/ \E p \in SomePage :
            /\ kfreepages' = kfreepages \ {p}
            /\ arg' = [arg EXCEPT ![t].page = p]
            /\ Goto(t, "pageref") /\ UNCHANGED faults
       \/ AllocFails(1) /\ Goto(t, "idle") /\ UNCHANGED <<kfreepages, arg>>
    /\ KeepLists /\ UNCHANGED <<roots, mine, todo, lost, halt>>

\* A fresh page: the list of free blocks runs from the last one to the first.
Fresh(p, b) ==
    [page |-> p, blktype |-> b, nfree |-> NBlocks(b),
     free |-> [i \in 1..NBlocks(b) |-> (NBlocks(b) - i) * Sizes[b]]]

\* The end of subpage_kmalloc with the pageref id: the page goes to the head of both lists and
\* its first block to the caller.
Install(t, id) ==
    LET ref == Fresh(arg[t].page, arg[t].blktype) IN
    /\ refs' = [refs EXCEPT ![id] = Popped(ref)]
    /\ sizebases' = [sizebases EXCEPT ![ref.blktype] = <<id>> \o @]
    /\ allbase' = <<id>> \o allbase
    /\ Given(t, ref, arg[t].size)
    /\ Goto(t, "idle")

\* The first root with a clear bit, and that bit
Clear == {i \in Ids : i[2] \notin roots[i[1]].inuse}
FirstClear == CHOOSE i \in Clear : \A j \in Clear : i[1] < j[1] \/ (i[1] = j[1] /\ i[2] <= j[2])

\* allocpageref: the bit is set before the root has a page.  Without a clear bit the page of
\* blocks goes back, after the spinlock has been released.
AllocPageref(t) ==
    /\ pc[t] = "pageref"
    /\ IF Clear = {}
         THEN Goto(t, "freepage") /\ KeepLists /\ UNCHANGED <<roots, arg, mine>>
         ELSE LET id == FirstClear IN
              /\ roots' = [roots EXCEPT ![id[1]].inuse = @ \cup {id[2]}]
              /\ arg' = [arg EXCEPT ![t].id = id]
              /\ IF roots[id[1]].page = 0 THEN Goto(t, "refpage") /\ KeepLists /\ UNCHANGED mine
                 ELSE Install(t, id)
    /\ UNCHANGED <<kfreepages, todo, faults, lost, halt>>

\* allocpagerefpage: alloc_kpages, without the spinlock
GetRefPage(t) ==
    /\ pc[t] = "refpage"
    /\ \/ \E p \in SomePage :
            /\ kfreepages' = kfreepages \ {p}
            /\ arg' = [arg EXCEPT ![t].va = p] /\ UNCHANGED faults
       \/ AllocFails(1) /\ UNCHANGED <<kfreepages, arg>>
    /\ Goto(t, "gotrefpage")
    /\ KeepLists /\ UNCHANGED <<roots, mine, todo, lost, halt>>


\* "Oops, somebody else allocated it."
Oops(r) == roots[r].page # 0

\* The rest, with the spinlock again.  A bit without a page stays set.
AllocPagerefPage(t) ==
    /\ pc[t] = "gotrefpage"
    /\ LET id == arg[t].id
           va == arg[t].va IN
       \/ /\ va = 0 /\ roots[id[1]].page = 0
          /\ lost' = lost \cup {id}
          /\ Goto(t, "freepage") /\ KeepLists /\ UNCHANGED <<roots, mine>>
       \/ /\ va = 0 /\ roots[id[1]].page # 0
          /\ Install(t, id) /\ UNCHANGED <<roots, lost>>
       \/ /\ va # 0 /\ Oops(id[1])
          /\ Goto(t, "oops") /\ KeepLists /\ UNCHANGED <<roots, mine, lost>>
       \/ /\ va # 0 /\ ~Oops(id[1])
          /\ roots' = [roots EXCEPT ![id[1]].page = va]
          /\ Install(t, id) /\ UNCHANGED lost
    /\ UNCHANGED <<kfreepages, arg, todo, faults, halt>>

\* The page too many goes back without the spinlock, and then the pageref is used.
FreeRefPage(t) ==
    /\ pc[t] = "oops"
    /\ kfreepages' = kfreepages \cup {arg[t].va} /\ arg' = [arg EXCEPT ![t].va = 0]
    /\ Goto(t, "install")
    /\ KeepLists /\ UNCHANGED <<roots, mine, todo, faults, lost, halt>>

UsePageref(t) ==
    /\ pc[t] = "install"
    /\ Install(t, arg[t].id)
    /\ UNCHANGED <<kfreepages, roots, arg, todo, faults, lost, halt>>

-----------------------------------------------------------------------------
(* kfree *)

\* The pageref of a page, among those on the list of all
Manages(p) == {i \in Ids : (\E k \in DOMAIN allbase : allbase[k] = i) /\ refs[i].page = p}

Without(list, id) == SelectSeq(list, LAMBDA i : i # id)

\* Mutant: one block early.
WholePage_Early(ref) == ref.nfree >= NBlocks(ref.blktype) - 1

WholePage(ref) == ref.nfree = NBlocks(ref.blktype)

\* Mutant: the bit stays.
Freepageref_Not(id) == roots

\* freepageref: the bit of the pageref
Freepageref(id) == [roots EXCEPT ![id[1]].inuse = @ \ {id[2]}]

\* The roots before that of id are searched first: one without a page must have no bit.
Searched(id) == \A r \in Roots : r < id[1] /\ roots[r].page = 0 => roots[r].inuse = {}

\* kfree and subpage_kfree; the last block takes the page off the lists.  The thread frees any
\* of its blocks.
Kfree(t) ==
    /\ pc[t] = "idle" /\ todo[t] # <<>> /\ Head(todo[t]) = 0
    /\ todo' = [todo EXCEPT ![t] = Tail(@)]
    /\ IF mine[t] = <<>> THEN UNCHANGED <<kfreepages, roots, refs, sizebases, allbase, mine, pc, arg, halt>>
       ELSE \E k \in DOMAIN mine[t] :
            LET b == mine[t][k]
                who == Manages(b.page) IN
            /\ mine' = [mine EXCEPT ![t] = SubSeq(@, 1, k - 1) \o SubSeq(@, k + 1, Len(@))]
            /\ IF who = {}
                 THEN /\ kfreepages' = kfreepages \cup (b.page..(b.page + b.len \div PAGE - 1))
                      /\ halt' = IF b.off = 0 THEN "no" ELSE "kfree: not a page"
                      /\ KeepLists /\ UNCHANGED <<roots, pc, arg>>
                 ELSE LET id == CHOOSE i \in who : TRUE
                          ref == [refs[id] EXCEPT !.free = <<b.off>> \o @, !.nfree = @ + 1] IN
                      /\ UNCHANGED kfreepages
                      /\ IF WholePage(ref)
                           THEN /\ refs' = [refs EXCEPT ![id] = NoRef]
                                /\ sizebases' = [sizebases EXCEPT ![ref.blktype] = Without(@, id)]
                                /\ allbase' = Without(allbase, id)
                                /\ roots' = Freepageref(id)
                                /\ arg' = [arg EXCEPT ![t] = [NoArg EXCEPT !.page = b.page]]
                                /\ Goto(t, "freepage")
                           ELSE /\ refs' = [refs EXCEPT ![id] = ref]
                                /\ UNCHANGED <<sizebases, allbase, roots, pc, arg>>
                      /\ halt' = IF b.off % Sizes[ref.blktype] # 0 \/ ref.nfree > NBlocks(ref.blktype)
                                    \/ (refs[id].free # <<>> /\ Head(refs[id].free) = b.off)
                                 THEN "kfree asserts"
                                 ELSE IF WholePage(ref) /\ ~Searched(id) THEN "freepageref asserts" ELSE "no"
    /\ UNCHANGED <<faults, lost>>

\* free_kpages, without the spinlock
FreePage(t) ==
    /\ pc[t] = "freepage"
    /\ kfreepages' = kfreepages \cup {arg[t].page}
    /\ Goto(t, "idle")
    /\ KeepLists /\ UNCHANGED <<roots, mine, arg, todo, faults, lost, halt>>

-----------------------------------------------------------------------------

Next == \E t \in Threads :
    /\ halt = "no"
    /\ \/ Kmalloc(t) \/ GetPage(t) \/ AllocPageref(t) \/ GetRefPage(t) \/ AllocPagerefPage(t) \/ FreeRefPage(t)
       \/ UsePageref(t) \/ Kfree(t) \/ FreePage(t)

Spec == Init /\ [][Next]_vars

-----------------------------------------------------------------------------

Listed == {allbase[k] : k \in DOMAIN allbase}
BlocksOf(t) == {mine[t][k] : k \in DOMAIN mine[t]}
Bytes(b) == ((b.page - 1) * PAGE + b.off)..((b.page - 1) * PAGE + b.off + b.len - 1)

TypeOK ==
    /\ kfreepages \subseteq Pages
    /\ \A i \in Listed : refs[i].page \in Pages /\ refs[i].nfree \in 0..NBlocks(refs[i].blktype)
    /\ \A t \in Threads : \A b \in BlocksOf(t) : b.size <= b.len
    /\ lost \subseteq Ids /\ faults \in 0..FAULTS

(* What callers of kmalloc hold does not overlap, lies on no page that the *)
(* page allocator may hand out again, and on no page of pagerefs: whoever  *)
(* else allocated or freed a page while the spinlock was dropped.          *)
BlocksDisjoint ==
    /\ \A t, u \in Threads : \A k \in DOMAIN mine[t], l \in DOMAIN mine[u] :
          (t # u \/ k # l) => Bytes(mine[t][k]) \cap Bytes(mine[u][l]) = {}
    /\ \A t \in Threads : \A b \in BlocksOf(t) :
          b.page \notin kfreepages /\ \A r \in Roots : roots[r].page # b.page

(* checksubpage for one page: what SLOW would check.  The count agrees     *)
(* with the list, the blocks on it are blocks of the page and different.   *)
Checksubpage(i) ==
    LET ref == refs[i] IN
    /\ ref.nfree = Len(ref.free)
    /\ \A k \in DOMAIN ref.free : ref.free[k] < PAGE /\ ref.free[k] % Sizes[ref.blktype] = 0
    /\ \A j, k \in DOMAIN ref.free : j # k => ref.free[j] # ref.free[k]

(* checksubpages, and what it cannot see: the list of all pages and those  *)
(* by size have the same pages, and a block that is not on its page's free *)
(* list is held by exactly one caller.  No assertion of kfree or           *)
(* freepageref fails, and no block is taken for whole pages.               *)
HeapConsistent ==
    /\ halt = "no"
    /\ \A i \in Listed : Checksubpage(i)
    /\ Len(allbase) = Cardinality(UNION {{<<t, k>> : k \in DOMAIN sizebases[t]} : t \in Types})
    /\ \A t \in Types : \A k \in DOMAIN sizebases[t] : sizebases[t][k] \in Listed /\ refs[sizebases[t][k]].blktype = t
    /\ \A i \in Listed :
          NBlocks(refs[i].blktype) - refs[i].nfree
             = Cardinality({<<t, k>> \in Threads \X (1..NPAGES * PAGE) : k \in DOMAIN mine[t] /\ mine[t][k].page = refs[i].page})

(* No page is lost: each belongs to the page allocator, to one pageref, to *)
(* the pagerefs themselves, to one large block, or to a call that is on    *)
(* its way; and a page without an allocated block does not stay on the     *)
(* lists.                                                                  *)
NoPageLost ==
    /\ \A p \in Pages :
          1 = (IF p \in kfreepages THEN 1 ELSE 0)
              + Cardinality({i \in Listed : refs[i].page = p}) + Cardinality({r \in Roots : roots[r].page = p})
              + Cardinality({t \in Threads : pc[t] # "idle" /\ arg[t].page = p})
              + Cardinality({t \in Threads : pc[t] # "idle" /\ arg[t].va = p})
              + Cardinality({t \in Threads : \E b \in BlocksOf(t) : b.size >= LARGEST /\ p \in b.page..(b.page + b.len \div PAGE - 1)})
    /\ \A i \in Listed : refs[i].nfree < NBlocks(refs[i].blktype)

(* A bit of kheaproots is set for exactly the pagerefs on the lists, those *)
(* whose page is being allocated, and those that allocpageref gave up      *)
(* after setting the bit.                                                  *)
Waiting == {t \in Threads : pc[t] \in {"refpage", "gotrefpage", "oops", "install"}}

PagerefsExact ==
    \A r \in Roots : roots[r].inuse
        = {i[2] : i \in {j \in Listed \cup lost \cup {arg[t].id : t \in Waiting} : j[1] = r}}
==============================================================================
