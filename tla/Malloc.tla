-------------------------------- MODULE Malloc -------------------------------
(***************************************************************************)
(* The allocator of user programs (userland/lib/libc/stdlib/malloc.c):     *)
(* first fit over a heap that sbrk extends by whole pages.  The heap is a  *)
(* chain of headers with the offsets to the next and to the previous one.  *)
(* Sizes and addresses are in bytes.  A program asks for any of Requests   *)
(* and frees, in any order, what it was given.                             *)
(*                                                                         *)
(* Sizes are of type size_t and wrap at WORD; the argument of sbrk is      *)
(* signed.  The module is about programs whose requests keep clear of the  *)
(* wrap (RequestBound): malloc has no test for it.  A request of nearly    *)
(* WORD rounds up to 0 and yields a block without room, and one from HALF  *)
(* upwards reaches sbrk as a negative amount, that is, as a smaller heap.  *)
(***************************************************************************)
EXTENDS Integers, FiniteSets, FiniteSetsExt

CONSTANTS
    MBLOCK,        \* MBLOCKSIZE
    PAGE, HEAPMAX, \* the page size, and where sbrk ends
    HALF,          \* 2^31, half the range of size_t and the first number that is negative as intptr_t
    Requests

WORD == 2 * HALF

\* A user address, and so the size of the heap, is below 2^31.
ASSUME MallocAssumption ==
    /\ MBLOCK \in Nat \ {0} /\ PAGE \in Nat \ {0} /\ HEAPMAX \in Nat
    /\ PAGE % MBLOCK = 0 /\ Requests \subseteq Nat
    /\ HALF \in Nat /\ HEAPMAX < HALF

\* Requests are two pages and two headers below 2^31 bytes.
ASSUME RequestBound == \A n \in Requests : n + 2 * (MBLOCK + PAGE) <= HALF

VARIABLES
    heap,          \* the headers, by address: next, prev, inuse
    heaptop,
    given          \* what the program holds: the address of the header and the size asked for

vars == <<heap, heaptop, given>>

HEAPBASE == 0
Headers == DOMAIN heap
MSize(h, mh) == h[mh].next - MBLOCK
MNext(h, mh) == mh + h[mh].next
RoundUp(n, k) == k * (((n + k - 1) % WORD) \div k)
Signed(n) == IF n < HALF THEN n ELSE n - WORD           \* as intptr_t
With(h, mh, hdr) == [a \in DOMAIN h \cup {mh} |-> IF a = mh THEN hdr ELSE h[a]]

\* __malloc_init
Init == heap = [a \in {} |-> 0] /\ heaptop = HEAPBASE /\ given = {}

\* "Only split if the excess space is at least twice the blocksize"
Excess == 2 * MBLOCK

\* Mutant: the header above is not told.
TellAbove_Not(h, mh, above, top) == h

\* The back offset of the header above mh, unless mh is the last one
TellAbove(h, mh, above, top) == IF above # top THEN [h EXCEPT ![above].prev = h[mh].next] ELSE h

\* M_SIZE(mh) - size, without a sign
Left(h, mh, size) == (MSize(h, mh) - size) % WORD

\* __malloc_split
Split(h, mh, size, top) ==
    IF Left(h, mh, size) < Excess THEN h
    ELSE LET above == MNext(h, mh)
             new == mh + size + MBLOCK
             cut == With([h EXCEPT ![mh].next = size + MBLOCK], new,
                         [next |-> Left(h, mh, size), prev |-> size + MBLOCK, inuse |-> FALSE])
         IN TellAbove(cut, new, above, top)

\* Mutant: the size of the header is not counted.
Fits_Header(h, mh, size) == ~h[mh].inuse /\ h[mh].next >= size

Fits(h, mh, size) == ~h[mh].inuse /\ MSize(h, mh) >= size

\* The top block is free and can be made larger.
Extends(mh) == ~heap[mh].inuse

\* Mutant: just what is missing.
MoreSpace_Exact(n) == n

MoreSpace(n) == RoundUp(n, PAGE)

Got(h, mh, top, want) == heap' = h /\ heaptop' = top /\ given' = given \cup {[at |-> mh, want |-> want]}

\* malloc(0 and more): first fit, and otherwise more space from sbrk, which may refuse.  The
\* space is rounded up to whole pages and the rest split off again.
Malloc(want) ==
    LET size == RoundUp(want, MBLOCK)
        fit == {mh \in Headers : Fits(heap, mh, size)}
    IN
    IF fit # {}
      THEN LET mh == Min(fit) IN
           Got([Split(heap, mh, size, heaptop) EXCEPT ![mh].inuse = TRUE], mh, heaptop, want)
      ELSE LET last == Max(Headers)
               grows == Headers # {} /\ Extends(last)
               more == MoreSpace(IF grows THEN size - MSize(heap, last) ELSE (MBLOCK + size) % WORD)
               top == heaptop + Signed(more)
               mh == IF grows THEN last ELSE heaptop
               hdr == IF grows THEN [next |-> (heap[last].next + more) % WORD, prev |-> heap[last].prev, inuse |-> TRUE]
                      ELSE [next |-> more, prev |-> IF Headers = {} THEN 0 ELSE heap[last].next, inuse |-> TRUE]
           IN \/ /\ HEAPBASE <= top /\ top <= HEAPMAX
                 /\ Got(Split(With(heap, mh, hdr), mh, size, top), mh, top, want)
              \/ UNCHANGED vars                                              \* sbrk fails

Mergeable(h, lo, hi) == ~h[lo].inuse /\ ~h[hi].inuse

\* __malloc_trymerge
TryMerge(h, lo, hi) ==
    IF ~Mergeable(h, lo, hi) THEN h
    ELSE LET above == MNext(h, hi)
             one == [a \in DOMAIN h \ {hi} |-> IF a = lo THEN [h[lo] EXCEPT !.next = @ + h[hi].next] ELSE h[a]]
         IN TellAbove(one, lo, above, heaptop)

\* Mutant: only upwards.
MergeBelow_Not(h, mh) == h

MergeBelow(h, mh) == IF mh # HEAPBASE THEN TryMerge(h, mh - h[mh].prev, mh) ELSE h

\* free, of something that malloc gave and that is therefore in use (HeldExactly)
Free(b) ==
    LET mh == b.at
        freed == [heap EXCEPT ![mh].inuse = FALSE]
        merged == IF MNext(freed, mh) # heaptop THEN TryMerge(freed, mh, MNext(freed, mh)) ELSE freed
    IN
    heap' = MergeBelow(merged, mh) /\ given' = given \ {b} /\ UNCHANGED heaptop

Next == (\E n \in Requests : Malloc(n)) \/ (\E b \in given : Free(b))

Spec == Init /\ [][Next]_vars

-----------------------------------------------------------------------------

TypeOK ==
    /\ heaptop \in HEAPBASE..HEAPMAX /\ heaptop % PAGE = 0
    /\ \A mh \in Headers : mh % MBLOCK = 0 /\ heap[mh].next >= MBLOCK

(* Walking the chain from the bottom visits every header and ends exactly  *)
(* at the top, and each knows where the one below begins: what malloc      *)
(* itself checks on every search ("Heap corrupt; ran off end").  For        *)
(* requests within RequestBound.                                           *)
ChainIntact ==
    /\ Headers # {} => HEAPBASE \in Headers /\ heap[HEAPBASE].prev = 0
    /\ \A mh \in Headers :
          \/ MNext(heap, mh) = heaptop /\ mh = Max(Headers)
          \/ /\ MNext(heap, mh) \in Headers
             /\ heap[MNext(heap, mh)].prev = heap[mh].next
             /\ \A a \in Headers : a <= mh \/ a >= MNext(heap, mh)

(* The blocks in use are exactly those the program holds, and each has     *)
(* room for what was asked for; with an intact chain they do not overlap.  *)
(* For requests within RequestBound.                                       *)
HeldExactly ==
    /\ {mh \in Headers : heap[mh].inuse} = {b.at : b \in given}
    /\ \A b \in given : b.at \in Headers => MSize(heap, b.at) >= b.want
    /\ Cardinality(given) = Cardinality({b.at : b \in given})

(* Free space is never fragmented by a missed merge: no two free blocks    *)
(* are neighbours, in whatever order blocks are freed and the heap grows.  *)
NoFreeNeighbours ==
    \A mh \in Headers : ~heap[mh].inuse /\ MNext(heap, mh) # heaptop => heap[MNext(heap, mh)].inuse

-----------------------------------------------------------------------------
(* The inductive invariant, which speaks of neighbours only. *)

Header == [next : Nat, prev : Nat, inuse : BOOLEAN]
Multiple(n, k) == n % k = 0

(* The header mh of heap h is well formed, and the headers above and below *)
(* it are its neighbours.                                                  *)
Linked(h, top, mh) ==
    /\ mh \in Nat /\ Multiple(mh, MBLOCK) /\ h[mh].next >= MBLOCK
    /\ MNext(h, mh) = top \/ (MNext(h, mh) \in DOMAIN h /\ h[MNext(h, mh)].prev = h[mh].next)
    /\ MNext(h, mh) <= top
    /\ \A a \in DOMAIN h : a <= mh \/ a >= MNext(h, mh)
    /\ mh = HEAPBASE => h[mh].prev = 0
    /\ mh # HEAPBASE => mh - h[mh].prev \in DOMAIN h /\ h[mh - h[mh].prev].next = h[mh].prev

Chain(h, top) ==
    /\ top \in Nat /\ Multiple(top, PAGE)
    /\ h \in [DOMAIN h -> Header]
    /\ \A mh \in DOMAIN h : Linked(h, top, mh)
    /\ top # HEAPBASE => HEAPBASE \in DOMAIN h /\ \E mh \in DOMAIN h : MNext(h, mh) = top

(* Every free header outside of X is below the top, a header in Y or one   *)
(* that is in use.                                                         *)
Apart(h, top, X, Y) ==
    \A mh \in DOMAIN h \ X :
        h[mh].inuse \/ MNext(h, mh) = top \/ MNext(h, mh) \in Y \/ h[MNext(h, mh)].inuse

(* What the program holds, in terms of the blocks in use of h.             *)
Held(h, held) ==
    /\ IsFiniteSet(held) /\ held \subseteq [at : Nat, want : Nat]
    /\ \A b \in held : b.at \in DOMAIN h /\ h[b.at].inuse /\ MSize(h, b.at) >= b.want
    /\ \A mh \in DOMAIN h : h[mh].inuse => \E b \in held : b.at = mh
    /\ \A b, c \in held : b.at = c.at => b = c

IndInv ==
    /\ Chain(heap, heaptop) /\ heaptop <= HEAPMAX
    /\ Apart(heap, heaptop, {}, {}) /\ Held(heap, given)
==============================================================================
