---------------------------- MODULE MallocProofs ----------------------------
(***************************************************************************)
(* Proofs about module Malloc, for any block and page size, any width of   *)
(* size_t, any bound on the heap below half of its range and any set of    *)
(* requests that keep two pages and two headers below that half.           *)
(***************************************************************************)
EXTENDS Malloc, FiniteSetTheorems, WellFoundedInduction, TLAPS

-----------------------------------------------------------------------------
(* Arithmetic *)

\* Multiples are closed under addition and subtraction.
LEMMA MultipleIs ==
  ASSUME NEW k \in Nat \ {0}, NEW a \in Nat
  PROVE  Multiple(a, k) <=> \E q \in Nat : a = q * k
<1>1. ASSUME Multiple(a, k) PROVE \E q \in Nat : a = q * k
  <2>1. a \div k \in Nat /\ a = (a \div k) * k
    BY <1>1 DEF Multiple
  <2>2. QED
    BY Zenon, <2>1
<1>2. ASSUME NEW q \in Nat, a = q * k PROVE Multiple(a, k)
  <2> DEFINE d == a \div k
             r == a % k
  <2>1. d \in Nat /\ r \in 0..(k - 1) /\ a = d * k + r
    OBVIOUS
  <2> HIDE DEF d, r
  <2>2. r = (q - d) * k
    BY <1>2, <2>1
  <2>3. ~(q - d >= 1)
    BY <2>1, <2>2
  <2>4. ~(q - d <= -1)
    BY <2>1, <2>2
  <2>5. r = 0
    BY <2>1, <2>2, <2>3, <2>4
  <2>6. QED
    BY Zenon, <2>5 DEF Multiple, r
<1>3. QED
  BY Zenon, <1>1, <1>2

LEMMA MultipleSum ==
  ASSUME NEW k \in Nat \ {0}, NEW a \in Nat, NEW b \in Nat, Multiple(a, k), Multiple(b, k)
  PROVE  /\ Multiple(a + b, k)
         /\ (b <= a => Multiple(a - b, k))
<1>1. PICK q \in Nat : a = q * k
  BY Zenon, MultipleIs
<1>2. PICK r \in Nat : b = r * k
  BY Zenon, MultipleIs
<1>3. q + r \in Nat /\ a + b \in Nat /\ a + b = (q + r) * k
  BY <1>1, <1>2
<1>4. Multiple(a + b, k)
  BY Zenon, <1>3, MultipleIs
<1>5. ASSUME b <= a PROVE Multiple(a - b, k)
  <2>1. q - r \in Nat /\ a - b \in Nat /\ a - b = (q - r) * k
    BY <1>1, <1>2, <1>5
  <2>2. QED
    BY Zenon, <2>1, MultipleIs
<1>6. QED
  BY Zenon, <1>4, <1>5

LEMMA BlockIsMultiple == Multiple(MBLOCK, MBLOCK)
<1>1. MBLOCK \in Nat \ {0} /\ 1 \in Nat /\ MBLOCK = 1 * MBLOCK
  BY MallocAssumption
<1>2. QED
  BY Zenon, <1>1, MultipleIs

\* A number within the range of size_t does not wrap.
LEMMA NoWrap ==
  ASSUME NEW d \in Nat, d < WORD
  PROVE  d % WORD = d
<1>1. WORD \in Nat \ {0}
  BY MallocAssumption DEF WORD
<1> DEFINE w == WORD
           q == d \div w
           r == d % w
<1>2. w \in Nat \ {0} /\ d < w
  BY <1>1
<1> HIDE DEF w
<1>3. q \in Int /\ r \in 0..(w - 1) /\ d = w * q + r
  BY <1>2
<1> HIDE DEF q, r
<1>4. ~(q >= 1)
  BY <1>2, <1>3
<1>5. ~(q <= -1)
  BY <1>2, <1>3
<1>6. q = 0
  BY <1>3, <1>4, <1>5
<1>7. r = d
  BY <1>3, <1>6, <1>2
<1>8. QED
  BY Zenon, <1>7 DEF r, w

\* RoundUp returns a multiple that is large enough, and not by more than k - 1.
LEMMA Rounded ==
  ASSUME NEW k \in Nat \ {0}, NEW n \in Nat, n + k <= WORD
  PROVE  /\ RoundUp(n, k) \in Nat /\ RoundUp(n, k) >= n /\ Multiple(RoundUp(n, k), k)
         /\ RoundUp(n, k) < n + k
<1> DEFINE q == (n + k - 1) \div k
<1>0. (n + k - 1) % WORD = n + k - 1
  <2>1. WORD \in Nat
    BY MallocAssumption DEF WORD
  <2>2. n + k - 1 \in Nat /\ n + k - 1 < WORD
    BY <2>1
  <2>3. QED
    BY Zenon, <2>2, NoWrap
<1>1. q \in Nat /\ k * q <= n + k - 1 /\ n + k - 1 < k * q + k
  OBVIOUS
<1> HIDE DEF q
<1>2. k * q \in Nat /\ k * q >= n /\ k * q = q * k /\ k * q < n + k
  BY <1>1
<1>3. Multiple(k * q, k)
  BY Zenon, <1>1, <1>2, MultipleIs
<1>4. RoundUp(n, k) = k * q
  BY Zenon, <1>0 DEF RoundUp, q
<1>5. QED
  BY Zenon, <1>2, <1>3, <1>4

\* A request within the bound: its size, and the space that malloc asks of sbrk for it, are
\* below HALF.
Small(want) == want \in Nat /\ want + 2 * (MBLOCK + PAGE) <= HALF

LEMMA RequestsSmall ==
  ASSUME NEW want \in Requests
  PROVE  Small(want)
BY MallocAssumption, RequestBound DEF Small

LEMMA SizeOf ==
  ASSUME NEW want, Small(want), NEW size, size = RoundUp(want, MBLOCK)
  PROVE  /\ size \in Nat /\ size >= want /\ Multiple(size, MBLOCK)
         /\ (MBLOCK + size) % WORD = MBLOCK + size /\ MBLOCK + size + 2 * PAGE <= HALF
<1>1. /\ want \in Nat /\ MBLOCK \in Nat \ {0} /\ PAGE \in Nat \ {0} /\ HALF \in Nat
      /\ want + 2 * (MBLOCK + PAGE) <= HALF
  BY Zenon, MallocAssumption DEF Small
<1>2. want + MBLOCK <= WORD
  BY <1>1 DEF WORD
<1>3. size \in Nat /\ size >= want /\ Multiple(size, MBLOCK) /\ size < want + MBLOCK
  BY Zenon, <1>1, <1>2, Rounded
<1>4. MBLOCK + size \in Nat /\ MBLOCK + size < WORD /\ MBLOCK + size + 2 * PAGE <= HALF
  BY <1>1, <1>3 DEF WORD
<1>5. (MBLOCK + size) % WORD = MBLOCK + size
  BY Zenon, <1>4, NoWrap
<1>6. QED
  BY Zenon, <1>3, <1>4, <1>5

\* sbrk is asked for whole pages, and for a positive number of bytes.
LEMMA MoreOf ==
  ASSUME NEW n \in Nat, n + 2 * PAGE <= HALF, NEW more, more = MoreSpace(n)
  PROVE  more \in Nat /\ more >= n /\ Multiple(more, PAGE) /\ Signed(more) = more /\ more < HALF
<1>1. PAGE \in Nat \ {0} /\ HALF \in Nat
  BY Zenon, MallocAssumption
<1>2. n + PAGE <= WORD
  BY <1>1 DEF WORD
<1>3. more \in Nat /\ more >= n /\ Multiple(more, PAGE) /\ more < n + PAGE
  BY Zenon, <1>1, <1>2, Rounded DEF MoreSpace
<1>4. more < HALF
  BY <1>1, <1>3
<1>5. QED
  BY Zenon, <1>3, <1>4 DEF Signed

\* A multiple of the page size is one of the block size.
LEMMA PagesAreBlocks ==
  ASSUME NEW n \in Nat, Multiple(n, PAGE)
  PROVE  Multiple(n, MBLOCK)
<1>1. PAGE \in Nat \ {0} /\ MBLOCK \in Nat \ {0} /\ Multiple(PAGE, MBLOCK)
  BY Zenon, MallocAssumption DEF Multiple
<1>2. PICK q \in Nat : n = q * PAGE
  BY Zenon, <1>1, MultipleIs
<1>3. PICK r \in Nat : PAGE = r * MBLOCK
  BY Zenon, <1>1, MultipleIs
<1>4. q * r \in Nat /\ n = (q * r) * MBLOCK
  BY <1>1, <1>2, <1>3
<1>5. QED
  BY Zenon, <1>1, <1>4, MultipleIs

\* The least of some numbers, and the largest one when it is known.
LEMMA LeastIn ==
  ASSUME NEW S, S \subseteq Nat, S # {}
  PROVE  Min(S) \in S
<1> DEFINE R == OpToRel(<, Nat)
<1>1. IsWellFoundedOn(R, Nat)
  BY Zenon, NatLessThanWellFounded
<1>2. PICK m \in S : \A n \in S : ~(<<n, m>> \in R)
  <2> HIDE DEF R
  <2>1. QED
    BY Zenon, <1>1, WFMin
<1>3. \A n \in S : ~(n < m)
  BY Zenon, <1>2 DEF OpToRel
<1>4. \A n \in S : m <= n
  BY <1>3
<1>5. QED
  BY Zenon, <1>4 DEF Min

LEMMA LargestIs ==
  ASSUME NEW S, S \subseteq Nat, NEW m \in S, \A n \in S : n <= m
  PROVE  Max(S) = m
<1>1. \A n \in S : m >= n
  BY Zenon
<1> DEFINE x == Max(S)
<1>2. x \in S /\ \A n \in S : x >= n
  BY Zenon, <1>1 DEF Max
<1> HIDE DEF x
<1>3. x = m
  BY <1>2
<1>4. QED
  BY Zenon, <1>3 DEF x

-----------------------------------------------------------------------------
(* Headers *)

\* What a header of a chain says of numbers.
LEMMA LinkedFacts ==
  ASSUME NEW h, NEW top, Chain(h, top), NEW mh \in DOMAIN h
  PROVE  /\ top \in Nat /\ h \in [DOMAIN h -> Header] /\ Linked(h, top, mh)
         /\ mh \in Nat /\ h[mh].next \in Nat /\ h[mh].prev \in Nat /\ h[mh].inuse \in BOOLEAN
         /\ h[mh].next >= MBLOCK /\ MBLOCK \in Nat \ {0}
         /\ MNext(h, mh) \in Nat /\ MNext(h, mh) = mh + h[mh].next /\ mh < MNext(h, mh) /\ MNext(h, mh) <= top
         /\ \A a \in DOMAIN h : a \in Nat /\ a < top /\ (a <= mh \/ a >= MNext(h, mh))
<1>1. h \in [DOMAIN h -> Header] /\ top \in Nat /\ \A a \in DOMAIN h : Linked(h, top, a)
  BY Zenon DEF Chain
<1>2. MBLOCK \in Nat \ {0}
  BY Zenon, MallocAssumption
<1>3. \A a \in DOMAIN h : /\ a \in Nat /\ h[a].next \in Nat /\ h[a].prev \in Nat /\ h[a].inuse \in BOOLEAN
                          /\ h[a].next >= MBLOCK /\ MNext(h, a) <= top
  BY Zenon, <1>1 DEF Linked, Header
<1>4. \A a \in DOMAIN h : a < top
  BY <1>1, <1>2, <1>3 DEF MNext
<1>5. \A a \in DOMAIN h : a <= mh \/ a >= MNext(h, mh)
  BY Zenon, <1>1 DEF Linked
<1>6. QED
  BY <1>1, <1>2, <1>3, <1>4, <1>5 DEF MNext

-----------------------------------------------------------------------------
(* __malloc_split *)

\* The space left in a block below the top is what it is without wrapping.
LEMMA LeftIs ==
  ASSUME NEW h, NEW top, Chain(h, top), top <= HEAPMAX, NEW mh \in DOMAIN h, NEW size \in Nat,
         MSize(h, mh) >= size
  PROVE  Left(h, mh, size) = MSize(h, mh) - size
<1>1. /\ top \in Nat /\ mh \in Nat /\ h[mh].next \in Nat /\ MBLOCK \in Nat /\ mh + h[mh].next <= top
  <2>1. MNext(h, mh) = mh + h[mh].next /\ MNext(h, mh) <= top
    BY Zenon, LinkedFacts
  <2>2. QED
    BY Zenon, <2>1, LinkedFacts
<1>2. HEAPMAX \in Nat /\ HALF \in Nat /\ HEAPMAX < HALF
  BY Zenon, MallocAssumption
<1>3. MSize(h, mh) - size \in Nat /\ MSize(h, mh) - size < WORD
  BY <1>1, <1>2 DEF MSize, WORD
<1>4. QED
  BY Zenon, <1>3, NoWrap DEF Left

\* Two headers where there was one.
IsSplit(g, h, top, mh, size) ==
  LET n == mh + size + MBLOCK IN
  /\ n \notin DOMAIN h /\ mh < n /\ n < MNext(h, mh)
  /\ g \in [DOMAIN h \cup {n} -> Header]
  /\ g[mh].next = size + MBLOCK /\ g[mh].prev = h[mh].prev /\ g[mh].inuse = h[mh].inuse
  /\ g[n].next = h[mh].next - (size + MBLOCK) /\ g[n].prev = size + MBLOCK /\ g[n].inuse = FALSE
  /\ \A a \in DOMAIN h \ {mh} :
       /\ g[a].next = h[a].next /\ g[a].inuse = h[a].inuse
       /\ g[a].prev = IF a = MNext(h, mh) THEN g[n].next ELSE h[a].prev

LEMMA SplitFields ==
  ASSUME NEW h, NEW top, Chain(h, top), NEW mh \in DOMAIN h, NEW size \in Nat,
         Left(h, mh, size) = MSize(h, mh) - size,
         ~(MSize(h, mh) - size < Excess), NEW g, g = Split(h, mh, size, top)
  PROVE  IsSplit(g, h, top, mh, size)
<1> DEFINE D == DOMAIN h
           n == mh + size + MBLOCK
           up == MNext(h, mh)
           left == MSize(h, mh) - size
           hdr == [next |-> left, prev |-> size + MBLOCK, inuse |-> FALSE]
           h1 == [h EXCEPT ![mh].next = size + MBLOCK]
           h2 == With(h1, n, hdr)
<1>1. /\ top \in Nat /\ h \in [D -> Header] /\ mh \in Nat /\ h[mh].next \in Nat /\ MBLOCK \in Nat \ {0}
      /\ up = mh + h[mh].next /\ up <= top
      /\ \A a \in D : a \in Nat /\ a < top /\ (a <= mh \/ a >= up)
  BY Zenon, LinkedFacts
<1>2. left \in Nat /\ left = h[mh].next - (size + MBLOCK) /\ left >= 2 * MBLOCK
  BY <1>1 DEF MSize, Excess
<1>3. n \in Nat /\ n \notin D /\ mh < n /\ n < up
  BY <1>1, <1>2
<1>4. /\ h1 \in [D -> Header] /\ h1[mh].next = size + MBLOCK /\ h1[mh].prev = h[mh].prev
      /\ h1[mh].inuse = h[mh].inuse /\ \A a \in D \ {mh} : h1[a] = h[a]
  <2>1. size + MBLOCK \in Nat
    BY <1>1
  <2>2. QED
    BY Zenon, <1>1, <2>1 DEF Header
<1>5. hdr \in Header /\ hdr.next = left /\ hdr.prev = size + MBLOCK /\ hdr.inuse = FALSE
  BY <1>1, <1>2 DEF Header
<1>6. h2 \in [D \cup {n} -> Header] /\ h2[n] = hdr /\ \A a \in D \ {n} : h2[a] = h1[a]
  <2> HIDE DEF h1, hdr, n
  <2>1. QED
    BY Zenon, <1>4, <1>5 DEF With
<1>7. g = TellAbove(h2, n, up, top)
  BY Zenon DEF Split
<1> HIDE DEF h1, h2, hdr, n, left, up, D
<1>8. \A a \in D : a # n
  BY Zenon, <1>3
<1>9. CASE up = top
  <2>1. g = h2
    BY Zenon, <1>7, <1>9 DEF TellAbove
  <2>2. up \notin D
    BY <1>1, <1>9
  <2>3. QED
    BY Zenon, <1>1, <1>2, <1>3, <1>4, <1>5, <1>6, <1>8, <2>1, <2>2 DEF IsSplit, n, up, D
<1>10. CASE up # top
  <2>1. g = [h2 EXCEPT ![up].prev = h2[n].next]
    BY Zenon, <1>7, <1>10 DEF TellAbove
  <2>2. up \in D
    BY Zenon, LinkedFacts, <1>10 DEF Linked, up, D
  <2>3. up \in D \cup {n} /\ h2[n].next \in Nat /\ up # n /\ up # mh
    BY <1>1, <1>2, <1>3, <1>5, <1>6, <2>2
  <2>4. /\ g \in [D \cup {n} -> Header] /\ g[up].prev = h2[n].next /\ g[up].next = h2[up].next
        /\ g[up].inuse = h2[up].inuse /\ \A a \in (D \cup {n}) \ {up} : g[a] = h2[a]
    BY <1>6, <2>1, <2>3 DEF Header
  <2>5. QED
    BY Zenon, <1>1, <1>2, <1>3, <1>4, <1>5, <1>6, <1>8, <2>3, <2>4 DEF IsSplit, n, up, D
<1>11. QED
  BY Zenon, <1>9, <1>10

\* Only the header below ends where mh ends.
LEMMA OneBelow ==
  ASSUME NEW h, NEW top, Chain(h, top), NEW a \in DOMAIN h, NEW b \in DOMAIN h,
         MNext(h, a) = MNext(h, b)
  PROVE  a = b
<1>1. a \in Nat /\ MNext(h, a) \in Nat /\ a < MNext(h, a) /\ (b <= a \/ b >= MNext(h, a))
  BY Zenon, LinkedFacts
<1>2. b \in Nat /\ b < MNext(h, b) /\ (a <= b \/ a >= MNext(h, b))
  BY Zenon, LinkedFacts
<1>3. QED
  BY <1>1, <1>2

LEMMA SplitChain ==
  ASSUME NEW h, NEW top, Chain(h, top), NEW mh \in DOMAIN h, NEW size \in Nat,
         Multiple(size, MBLOCK), 2 * MBLOCK <= MSize(h, mh) - size,
         NEW g, IsSplit(g, h, top, mh, size)
  PROVE  Chain(g, top)
<1> DEFINE D == DOMAIN h
           n == mh + size + MBLOCK
           up == MNext(h, mh)
<1>1. /\ top \in Nat /\ h \in [D -> Header] /\ mh \in Nat /\ MBLOCK \in Nat \ {0}
      /\ h[mh].next \in Nat /\ up = mh + h[mh].next /\ up <= top /\ mh < up
      /\ Linked(h, top, mh)
      /\ \A a \in D : a \in Nat /\ a < top /\ (a <= mh \/ a >= up)
  BY Zenon, LinkedFacts
<1>2. /\ n \notin D /\ mh < n /\ n < up
      /\ g \in [D \cup {n} -> Header] /\ DOMAIN g = D \cup {n}
      /\ g[mh].next = size + MBLOCK /\ g[mh].prev = h[mh].prev
      /\ g[n].next = h[mh].next - (size + MBLOCK) /\ g[n].prev = size + MBLOCK
      /\ \A a \in D \ {mh} :
           /\ g[a].next = h[a].next
           /\ g[a].prev = IF a = up THEN g[n].next ELSE h[a].prev
  BY Zenon DEF IsSplit
<1>3. n \in Nat /\ MNext(g, mh) = n /\ MNext(g, n) = up /\ g[n].next >= MBLOCK
  BY <1>1, <1>2 DEF MNext, MSize
<1>4. \A a \in D \ {mh} : MNext(g, a) = MNext(h, a)
  BY Zenon, <1>2 DEF MNext
<1>5. Multiple(n, MBLOCK)
  <2>1. Multiple(mh, MBLOCK) /\ Multiple(MBLOCK, MBLOCK)
    BY Zenon, <1>1, BlockIsMultiple DEF Linked
  <2>2. mh + size \in Nat /\ Multiple(mh + size, MBLOCK)
    BY <1>1, <2>1, MultipleSum
  <2>3. QED
    BY Zenon, <1>1, <2>1, <2>2, MultipleSum
<1>6. up = top \/ up \in D
  BY Zenon, <1>1 DEF Linked
<1> HIDE DEF D, n, up
<1>7. Linked(g, top, mh)
  <2>1. \A a \in DOMAIN g : a <= mh \/ a >= n
    BY <1>1, <1>2, <1>3
  <2>2. mh # HEAPBASE => /\ mh - g[mh].prev \in DOMAIN g /\ g[mh - g[mh].prev].next = g[mh].prev
    <3>1. SUFFICES ASSUME mh # HEAPBASE
                   PROVE  mh - g[mh].prev \in DOMAIN g /\ g[mh - g[mh].prev].next = g[mh].prev
      BY Zenon
    <3>2. PICK b \in D : b = mh - h[mh].prev /\ h[b].next = h[mh].prev
      BY Zenon, <1>1, <3>1 DEF Linked, D
    <3>3. b # mh
      BY <1>1, <3>2, LinkedFacts DEF D
    <3>4. QED
      BY Zenon, <1>2, <3>2, <3>3
  <2>3. QED
    BY <1>1, <1>2, <1>3, <2>1, <2>2 DEF Linked
<1>8. Linked(g, top, n)
  <2>1. \A a \in DOMAIN g : a <= n \/ a >= up
    BY <1>1, <1>2, <1>3
  <2>2. up = top \/ (up \in DOMAIN g /\ g[up].prev = g[n].next)
    BY <1>1, <1>2, <1>6
  <2>3. n # HEAPBASE /\ n - g[n].prev = mh
    BY <1>1, <1>2, <1>3 DEF n, HEAPBASE
  <2>4. QED
    BY Zenon, <1>1, <1>2, <1>3, <1>5, <2>1, <2>2, <2>3 DEF Linked, D
<1>9. ASSUME NEW a \in D \ {mh} PROVE Linked(g, top, a)
  <2>1. /\ Linked(h, top, a) /\ a \in Nat /\ h[a].next \in Nat /\ h[a].prev \in Nat
        /\ MNext(h, a) = a + h[a].next /\ MNext(h, a) > a
        /\ (mh <= a \/ mh >= MNext(h, a))
    BY Zenon, LinkedFacts DEF D
  <2>2. MNext(h, a) # up
    BY Zenon, <1>9, OneBelow DEF D, up
  <2>3. MNext(h, a) = top \/ (MNext(h, a) \in DOMAIN g /\ g[MNext(h, a)].prev = g[a].next)
    BY Zenon, <1>2, <2>1, <2>2, <1>9 DEF Linked, D
  <2>4. \A b \in DOMAIN g : b <= a \/ b >= MNext(h, a)
    <3>1. n <= a \/ n >= MNext(h, a)
      BY <1>1, <1>2, <1>3, <1>9, <2>1
    <3>2. QED
      BY Zenon, <1>2, <2>1, <3>1 DEF Linked, D
  <2>5. a # HEAPBASE => a - g[a].prev \in DOMAIN g /\ g[a - g[a].prev].next = g[a].prev
    <3>1. CASE a = up
      BY <1>1, <1>2, <1>3, <3>1, <1>9 DEF n
    <3>2. CASE a # up
      <4>1. SUFFICES ASSUME a # HEAPBASE
                     PROVE  a - g[a].prev \in DOMAIN g /\ g[a - g[a].prev].next = g[a].prev
        BY Zenon
      <4>2. PICK b \in D : b = a - h[a].prev /\ h[b].next = h[a].prev
        BY Zenon, <2>1, <4>1 DEF Linked, D
      <4>3. b # mh
        BY <2>1, <3>2, <4>2, <1>1
      <4>4. QED
        BY Zenon, <1>2, <1>9, <3>2, <4>2, <4>3
    <3>3. QED
      BY Zenon, <3>1, <3>2
  <2>6. a = HEAPBASE => g[a].prev = 0
    BY <1>1, <1>2, <2>1, <1>9 DEF Linked, HEAPBASE
  <2>7. QED
    BY Zenon, <1>2, <1>4, <2>1, <2>3, <2>4, <2>5, <2>6, <1>9 DEF Linked
<1>10. top # HEAPBASE => HEAPBASE \in DOMAIN g /\ \E a \in DOMAIN g : MNext(g, a) = top
  <2>1. SUFFICES ASSUME top # HEAPBASE
                 PROVE  HEAPBASE \in DOMAIN g /\ \E a \in DOMAIN g : MNext(g, a) = top
    BY Zenon
  <2>2. PICK a \in D : HEAPBASE \in D /\ MNext(h, a) = top
    BY Zenon, <2>1 DEF Chain, D
  <2>3. CASE a = mh
    BY Zenon, <1>2, <1>3, <2>2, <2>3 DEF up
  <2>4. CASE a # mh
    BY Zenon, <1>2, <1>4, <2>2, <2>4
  <2>5. QED
    BY Zenon, <2>3, <2>4
<1>11. \A a \in DOMAIN g : Linked(g, top, a)
  BY <1>2, <1>7, <1>8, <1>9, Zenon
<1>12. Multiple(top, PAGE)
  BY Zenon DEF Chain
<1>13. QED
  BY Zenon, <1>1, <1>2, <1>10, <1>11, <1>12 DEF Chain

\* What malloc keeps of the blocks other than mh: they stay, and the new ones
\* are free.
KeepsOthers(g, h, mh) ==
  /\ DOMAIN h \subseteq DOMAIN g
  /\ \A a \in DOMAIN h \ {mh} : g[a].next = h[a].next /\ g[a].inuse = h[a].inuse
  /\ \A a \in DOMAIN g \ DOMAIN h : a # mh => g[a].inuse = FALSE

\* Whether __malloc_split divides the block or not.
LEMMA SplitKeeps ==
  ASSUME NEW h, NEW top, Chain(h, top), top <= HEAPMAX, NEW mh \in DOMAIN h, NEW size \in Nat,
         Multiple(size, MBLOCK), MSize(h, mh) >= size,
         Apart(h, top, {mh}, {}), MNext(h, mh) = top \/ h[MNext(h, mh)].inuse,
         NEW g, g = Split(h, mh, size, top)
  PROVE  /\ Chain(g, top) /\ Apart(g, top, {mh}, {}) /\ KeepsOthers(g, h, mh)
         /\ mh \in DOMAIN g /\ MSize(g, mh) >= size /\ g[mh].inuse = h[mh].inuse
<1>0. Left(h, mh, size) = MSize(h, mh) - size
  BY Zenon, LeftIs
<1>1. CASE MSize(h, mh) - size < Excess
  <2>1. g = h
    BY Zenon, <1>0, <1>1 DEF Split
  <2>2. QED
    BY Zenon, <2>1 DEF KeepsOthers
<1>2. CASE ~(MSize(h, mh) - size < Excess)
  <2> DEFINE n == mh + size + MBLOCK
             up == MNext(h, mh)
  <2>1. IsSplit(g, h, top, mh, size)
    BY Zenon, <1>0, <1>2, SplitFields
  <2>2. /\ mh \in Nat /\ MBLOCK \in Nat \ {0} /\ h[mh].next \in Nat /\ h \in [DOMAIN h -> Header]
        /\ up = mh + h[mh].next
    BY Zenon, LinkedFacts
  <2>3. Chain(g, top)
    <3>1. 2 * MBLOCK <= MSize(h, mh) - size
      BY <1>2, <2>2 DEF MSize, Excess
    <3>2. QED
      BY Zenon, <2>1, <3>1, SplitChain
  <2>4. /\ n \notin DOMAIN h /\ mh < n /\ DOMAIN g = DOMAIN h \cup {n}
        /\ g[mh].next = size + MBLOCK /\ g[mh].inuse = h[mh].inuse
        /\ g[n].next = h[mh].next - (size + MBLOCK) /\ g[n].inuse = FALSE
        /\ \A a \in DOMAIN h \ {mh} : g[a].next = h[a].next /\ g[a].inuse = h[a].inuse
    BY Zenon, <2>1 DEF IsSplit
  <2>5. MNext(g, n) = up /\ up # n /\ up # mh
    BY <2>2, <2>4, <2>1 DEF MNext, IsSplit
  <2> HIDE DEF n, up
  <2>6. ASSUME NEW a \in DOMAIN g \ {mh}
        PROVE  g[a].inuse \/ MNext(g, a) = top \/ g[MNext(g, a)].inuse
    <3>1. CASE a = n
      <4>1. up = top \/ up \in DOMAIN h
        BY Zenon, LinkedFacts DEF Linked, up
      <4>2. up = top \/ g[up].inuse
        BY Zenon, <2>4, <2>5, <4>1 DEF up
      <4>3. QED
        BY Zenon, <2>5, <3>1, <4>2
    <3>2. CASE a # n
      <4>1. a \in DOMAIN h /\ a # mh
        BY Zenon, <2>4, <2>6, <3>2
      <4>2. g[a].inuse = h[a].inuse /\ MNext(g, a) = MNext(h, a)
        BY Zenon, <2>4, <4>1 DEF MNext
      <4>3. h[a].inuse \/ MNext(h, a) = top \/ h[MNext(h, a)].inuse
        BY Zenon, <4>1 DEF Apart
      <4>4. MNext(h, a) = top \/ MNext(h, a) \in DOMAIN h
        BY Zenon, <4>1, LinkedFacts DEF Linked
      <4>5. MNext(h, a) \in DOMAIN h => g[MNext(h, a)].inuse = h[MNext(h, a)].inuse
        BY Zenon, <2>4
      <4>6. QED
        BY Zenon, <4>2, <4>3, <4>4, <4>5
    <3>3. QED
      BY Zenon, <3>1, <3>2
  <2>7. Apart(g, top, {mh}, {})
    BY Zenon, <2>6 DEF Apart
  <2>8. KeepsOthers(g, h, mh)
    BY Zenon, <2>4 DEF KeepsOthers
  <2>9. MSize(g, mh) >= size
    BY <2>2, <2>4 DEF MSize
  <2>10. QED
    BY Zenon, <2>3, <2>4, <2>7, <2>8, <2>9
<1>3. QED
  BY Zenon, <1>1, <1>2

-----------------------------------------------------------------------------
(* The block is marked, and the heap made larger *)

IsMark(g, h, mh, v) ==
  /\ g \in [DOMAIN h -> Header] /\ DOMAIN g = DOMAIN h /\ g[mh].inuse = v
  /\ g[mh].next = h[mh].next /\ g[mh].prev = h[mh].prev
  /\ \A a \in DOMAIN h \ {mh} : g[a] = h[a]

LEMMA MarkChain ==
  ASSUME NEW h, NEW top, Chain(h, top), NEW mh \in DOMAIN h, NEW v \in BOOLEAN,
         NEW g, IsMark(g, h, mh, v)
  PROVE  /\ Chain(g, top) /\ DOMAIN g = DOMAIN h /\ g[mh].inuse = v
         /\ \A a \in DOMAIN h : g[a].next = h[a].next /\ MNext(g, a) = MNext(h, a)
         /\ \A a \in DOMAIN h \ {mh} : g[a].inuse = h[a].inuse
<1>1. h \in [DOMAIN h -> Header]
  BY Zenon DEF Chain
<1>2. /\ g \in [DOMAIN h -> Header] /\ DOMAIN g = DOMAIN h /\ g[mh].inuse = v
      /\ g[mh].next = h[mh].next /\ g[mh].prev = h[mh].prev
      /\ \A a \in DOMAIN h \ {mh} : g[a] = h[a]
  BY Zenon DEF IsMark
<1>3. /\ \A a \in DOMAIN h : g[a].next = h[a].next /\ g[a].prev = h[a].prev
      /\ \A a \in DOMAIN h \ {mh} : g[a].inuse = h[a].inuse
  BY Zenon, <1>2
<1>4. \A a \in DOMAIN h : MNext(g, a) = MNext(h, a)
  BY Zenon, <1>3 DEF MNext
<1>5. ASSUME NEW a \in DOMAIN h PROVE Linked(g, top, a)
  <2>1. Linked(h, top, a)
    BY Zenon DEF Chain
  <2>2. QED
    BY Zenon, <1>2, <1>3, <1>4, <2>1 DEF Linked
<1>6. QED
  BY Zenon, <1>2, <1>3, <1>4, <1>5 DEF Chain

\* The heap is empty as long as sbrk has not given anything.
LEMMA EmptyHeap ==
  ASSUME NEW h, NEW top, Chain(h, top)
  PROVE  DOMAIN h = {} <=> top = HEAPBASE
<1>1. ASSUME NEW a \in DOMAIN h PROVE top # HEAPBASE
  BY LinkedFacts DEF HEAPBASE
<1>2. top # HEAPBASE => DOMAIN h # {}
  BY Zenon DEF Chain
<1>3. QED
  BY Zenon, <1>1, <1>2

\* The header that ends at the top is the largest one.
LEMMA LastHeader ==
  ASSUME NEW h, NEW top, Chain(h, top), DOMAIN h # {}
  PROVE  Max(DOMAIN h) \in DOMAIN h /\ MNext(h, Max(DOMAIN h)) = top
<1>1. PICK m \in DOMAIN h : MNext(h, m) = top
  BY Zenon, EmptyHeap DEF Chain
<1>2. \A a \in DOMAIN h : a \in Nat /\ a < top /\ (a <= m \/ a >= top) /\ top \in Nat
  BY Zenon, <1>1, LinkedFacts
<1>3. DOMAIN h \subseteq Nat /\ \A a \in DOMAIN h : a <= m
  BY <1>2
<1>4. Max(DOMAIN h) = m
  BY Zenon, <1>3, LargestIs
<1>5. QED
  BY Zenon, <1>1, <1>4

\* A new block at the top.
LEMMA AppendedChain ==
  ASSUME NEW h, NEW top, Chain(h, top), NEW more \in Nat, more >= MBLOCK, Multiple(more, PAGE),
         NEW hdr, hdr = [next |-> more, prev |-> IF DOMAIN h = {} THEN 0 ELSE h[Max(DOMAIN h)].next,
                         inuse |-> TRUE],
         NEW g, g = With(h, top, hdr)
  PROVE  /\ Chain(g, top + more) /\ KeepsOthers(g, h, top)
         /\ top \in DOMAIN g /\ g[top] = hdr /\ MNext(g, top) = top + more
<1> DEFINE D == DOMAIN h
           last == Max(D)
<1>1. /\ top \in Nat /\ h \in [D -> Header] /\ MBLOCK \in Nat \ {0} /\ PAGE \in Nat \ {0}
      /\ Multiple(top, PAGE) /\ \A a \in D : Linked(h, top, a)
  BY Zenon, MallocAssumption DEF Chain
<1>2. /\ \A a \in D : /\ a \in Nat /\ a < top /\ MNext(h, a) \in Nat /\ MNext(h, a) <= top
                      /\ MNext(h, a) = a + h[a].next /\ h[a].next \in Nat
      /\ top \notin D
  BY <1>1, LinkedFacts
<1>3. D # {} => last \in D /\ MNext(h, last) = top
  BY Zenon, LastHeader
<1> HIDE DEF last
<1>4. hdr \in Header /\ hdr.next = more /\ (D # {} => hdr.prev = h[last].next) /\ (D = {} => hdr.prev = 0)
  BY Zenon, <1>2, <1>3 DEF Header, last
<1>5. g \in [D \cup {top} -> Header] /\ DOMAIN g = D \cup {top} /\ g[top] = hdr /\ \A a \in D : g[a] = h[a]
  <2> HIDE DEF D
  <2>1. g = [a \in D \cup {top} |-> IF a = top THEN hdr ELSE h[a]]
    BY Zenon DEF With, D
  <2>2. QED
    BY Zenon, <1>1, <1>2, <1>4, <2>1
<1>6. \A a \in D : MNext(g, a) = MNext(h, a)
  BY Zenon, <1>5 DEF MNext
<1>7. MNext(g, top) = top + more /\ top + more \in Nat /\ top < top + more
  BY <1>1, <1>4, <1>5 DEF MNext
<1> HIDE DEF D
<1>8. ASSUME NEW a \in D PROVE Linked(g, top + more, a)
  <2>1. Linked(h, top, a)
    BY Zenon, <1>1
  <2>2. MNext(g, a) \in DOMAIN g /\ g[MNext(g, a)].prev = g[a].next
    <3>1. CASE MNext(h, a) = top
      <4>1. a = last
        BY Zenon, <1>3, <3>1, OneBelow DEF D
      <4>2. QED
        BY Zenon, <1>4, <1>5, <1>6, <3>1, <4>1, <1>8
    <3>2. CASE MNext(h, a) # top
      BY Zenon, <1>5, <1>6, <2>1, <3>2 DEF Linked, D
    <3>3. QED
      BY Zenon, <3>1, <3>2
  <2>3. \A b \in DOMAIN g : b <= a \/ b >= MNext(g, a)
    BY Zenon, <1>1, <1>2, <1>5, <1>6, <2>1 DEF Linked, D
  <2>4. MNext(g, a) <= top + more
    <3>1. MNext(h, a) \in Nat /\ MNext(h, a) <= top
      BY Zenon, <1>2
    <3>2. MNext(h, a) <= top + more
      BY <1>1, <3>1
    <3>3. QED
      BY Zenon, <1>6, <3>2
  <2>5. a # HEAPBASE => a - g[a].prev \in DOMAIN g /\ g[a - g[a].prev].next = g[a].prev
    BY Zenon, <1>5, <2>1 DEF Linked, D
  <2>6. QED
    BY Zenon, <1>5, <2>1, <2>2, <2>3, <2>4, <2>5 DEF Linked
<1>9. Linked(g, top + more, top)
  <2>1. \A b \in DOMAIN g : b <= top \/ b >= MNext(g, top)
    BY <1>1, <1>2, <1>5
  <2>2. top # HEAPBASE => top - g[top].prev \in DOMAIN g /\ g[top - g[top].prev].next = g[top].prev
    <3>1. SUFFICES ASSUME top # HEAPBASE
                   PROVE  top - g[top].prev \in DOMAIN g /\ g[top - g[top].prev].next = g[top].prev
      BY Zenon
    <3>2. D # {}
      BY Zenon, <3>1 DEF D, Chain
    <3>3. last \in D /\ last \in Nat /\ h[last].next \in Nat /\ last + h[last].next = top
      BY Zenon, <1>2, <1>3, <3>2
    <3>5. top - h[last].next = last /\ g[top].prev = h[last].next
      BY <1>4, <1>5, <3>2, <3>3
    <3>6. top - g[top].prev = last
      BY Zenon, <3>5
    <3>4. QED
      BY Zenon, <1>5, <3>3, <3>5, <3>6
  <2>3. top = HEAPBASE => g[top].prev = 0
    BY Zenon, <1>4, <1>5, EmptyHeap DEF D
  <2>4. Multiple(top, MBLOCK)
    BY Zenon, <1>1, PagesAreBlocks
  <2>5. g[top].next >= MBLOCK
    BY Zenon, <1>4, <1>5
  <2>6. MNext(g, top) = top + more /\ MNext(g, top) <= top + more
    BY <1>7
  <2>7. QED
    BY <1>1, <2>1, <2>2, <2>3, <2>4, <2>5, <2>6, Zenon DEF Linked
<1>10. HEAPBASE \in DOMAIN g
  BY Zenon, <1>5, EmptyHeap DEF D, Chain
<1>11. Multiple(top + more, PAGE)
  BY Zenon, <1>1, MultipleSum
<1>12. Chain(g, top + more)
  <2>1. \A a \in DOMAIN g : Linked(g, top + more, a)
    BY <1>5, <1>8, <1>9, Zenon
  <2>2. \E a \in DOMAIN g : MNext(g, a) = top + more
    BY Zenon, <1>5, <1>7
  <2>3. QED
    BY Zenon, <1>5, <1>7, <1>10, <1>11, <2>1, <2>2 DEF Chain
<1>13. KeepsOthers(g, h, top)
  BY Zenon, <1>5 DEF KeepsOthers, D
<1>14. QED
  BY Zenon, <1>5, <1>7, <1>12, <1>13

\* The free block at the top is made larger and taken.
LEMMA GrownChain ==
  ASSUME NEW h, NEW top, Chain(h, top), NEW more \in Nat, Multiple(more, PAGE),
         NEW last \in DOMAIN h, MNext(h, last) = top,
         NEW hdr \in Header, hdr.next = h[last].next + more, hdr.prev = h[last].prev, hdr.inuse,
         NEW g, g = With(h, last, hdr)
  PROVE  /\ Chain(g, top + more) /\ KeepsOthers(g, h, last)
         /\ DOMAIN g = DOMAIN h /\ g[last].inuse /\ MSize(g, last) = MSize(h, last) + more
         /\ MNext(g, last) = top + more
<1> DEFINE D == DOMAIN h
<1>1. /\ top \in Nat /\ h \in [D -> Header] /\ PAGE \in Nat \ {0} /\ MBLOCK \in Nat \ {0}
      /\ Multiple(top, PAGE) /\ (\A a \in D : Linked(h, top, a)) /\ HEAPBASE \in D
  BY Zenon, MallocAssumption, EmptyHeap DEF Chain
<1>2. \A a \in D : /\ a \in Nat /\ a < top /\ MNext(h, a) \in Nat /\ MNext(h, a) <= top
                   /\ MNext(h, a) = a + h[a].next /\ h[a].next \in Nat /\ h[a].next >= MBLOCK
  BY Zenon, LinkedFacts
<1>3. hdr \in Header /\ hdr.next = h[last].next + more /\ hdr.prev = h[last].prev /\ hdr.inuse
  BY Zenon
<1>4. g \in [D -> Header] /\ DOMAIN g = D /\ g[last] = hdr /\ \A a \in D \ {last} : g[a] = h[a]
  <2>1. g = [a \in D |-> IF a = last THEN hdr ELSE h[a]]
    BY Zenon DEF With
  <2> HIDE DEF D
  <2>2. QED
    BY Zenon, <1>1, <1>3, <2>1
<1> HIDE DEF D
<1>5. \A a \in D : g[a].prev = h[a].prev
  BY Zenon, <1>3, <1>4
<1>6. \A a \in D \ {last} : g[a].next = h[a].next /\ MNext(g, a) = MNext(h, a)
  BY Zenon, <1>4 DEF MNext
<1>7. last \in D /\ MNext(g, last) = top + more /\ top + more \in Nat
  BY <1>1, <1>2, <1>3, <1>4 DEF MNext, D
<1>8. ASSUME NEW a \in D \ {last} PROVE Linked(g, top + more, a)
  <2>1. Linked(h, top, a)
    BY Zenon, <1>1
  <2>2. MNext(h, a) # top
    BY Zenon, <1>8, OneBelow DEF D
  <2>3. MNext(g, a) \in DOMAIN g /\ g[MNext(g, a)].prev = g[a].next
    BY <1>4, <1>5, <1>6, <2>1, <2>2 DEF Linked, D
  <2>4. MNext(g, a) <= top + more
    <3>1. MNext(h, a) \in Nat /\ MNext(h, a) <= top
      BY Zenon, <1>2
    <3>2. MNext(h, a) <= top + more
      BY <1>1, <3>1
    <3>3. QED
      BY Zenon, <1>6, <3>2
  <2>5. a # HEAPBASE => a - g[a].prev \in DOMAIN g /\ g[a - g[a].prev].next = g[a].prev
    <3>1. SUFFICES ASSUME a # HEAPBASE
                   PROVE  a - g[a].prev \in DOMAIN g /\ g[a - g[a].prev].next = g[a].prev
      BY Zenon
    <3>2. PICK b \in D : b = a - h[a].prev /\ h[b].next = h[a].prev
      BY Zenon, <2>1, <3>1 DEF Linked, D
    <3>3. h[a].prev \in Nat
      BY Zenon, <1>1 DEF Header
    <3>4. b # last
      <4>1. b + h[b].next = a
        BY <1>2, <3>2, <3>3
      <4>2. QED
        BY <1>2, <1>7, <4>1
    <3>5. g[a].prev = h[a].prev /\ b \in DOMAIN g /\ g[b].next = h[b].next
      BY <1>4, <1>5, <1>6, <1>8, <3>4, Zenon
    <3>6. QED
      BY <3>2, <3>5, Zenon
  <2>6. QED
    BY Zenon, <1>4, <1>5, <1>6, <2>1, <2>3, <2>4, <2>5 DEF Linked, D
<1>9. Linked(g, top + more, last)
  <2>1. Linked(h, top, last)
    BY Zenon, <1>1, <1>7
  <2>2. \A b \in DOMAIN g : b <= last \/ b >= MNext(g, last)
    <3>1. \A b \in D : b <= last
      BY <1>1, <1>2, <2>1 DEF Linked, D
    <3>2. QED
      BY Zenon, <1>4, <3>1
  <2>3. last # HEAPBASE => last - g[last].prev \in DOMAIN g /\ g[last - g[last].prev].next = g[last].prev
    <3>1. SUFFICES ASSUME last # HEAPBASE
                   PROVE  last - g[last].prev \in DOMAIN g /\ g[last - g[last].prev].next = g[last].prev
      BY Zenon
    <3>2. PICK b \in D : b = last - h[last].prev /\ h[b].next = h[last].prev
      BY Zenon, <2>1, <3>1 DEF Linked, D
    <3>3. h[last].prev \in Nat
      BY Zenon, <1>1, <1>7 DEF Header
    <3>4. b # last
      BY <1>1, <1>2, <1>7, <3>2, <3>3
    <3>5. g[last].prev = h[last].prev /\ b \in DOMAIN g /\ g[b].next = h[b].next
      BY <1>4, <1>5, <1>6, <1>7, <3>4, Zenon
    <3>6. QED
      BY <3>2, <3>5, Zenon
  <2>4. g[last].next >= MBLOCK
    BY <1>1, <1>2, <1>3, <1>4, <1>7
  <2>5. MNext(g, last) <= top + more
    BY <1>7
  <2>6. QED
    BY <1>4, <1>5, <1>7, <2>1, <2>2, <2>3, <2>4, <2>5, Zenon DEF Linked
<1>10. Multiple(top + more, PAGE)
  BY Zenon, <1>1, MultipleSum
<1>11. Chain(g, top + more)
  <2>1. \A a \in DOMAIN g : Linked(g, top + more, a)
    BY <1>4, <1>8, <1>9, Zenon
  <2>2. \E a \in DOMAIN g : MNext(g, a) = top + more
    BY Zenon, <1>4, <1>7
  <2>3. QED
    BY Zenon, <1>1, <1>4, <1>7, <1>10, <2>1, <2>2 DEF Chain
<1>12. KeepsOthers(g, h, last)
  BY Zenon, <1>4 DEF KeepsOthers, D
<1>13. MSize(g, last) = MSize(h, last) + more
  BY <1>1, <1>2, <1>3, <1>4, <1>7 DEF MSize
<1>14. QED
  BY Zenon, <1>3, <1>4, <1>7, <1>11, <1>12, <1>13 DEF D

-----------------------------------------------------------------------------
(* malloc *)

LEMMA KeepsTrans ==
  ASSUME NEW f, NEW g, NEW h, NEW mh, KeepsOthers(g, h, mh), KeepsOthers(f, g, mh)
  PROVE  KeepsOthers(f, h, mh)
<1>1. /\ DOMAIN h \subseteq DOMAIN g /\ DOMAIN g \subseteq DOMAIN f
      /\ \A a \in DOMAIN h \ {mh} : g[a].next = h[a].next /\ g[a].inuse = h[a].inuse
      /\ \A a \in DOMAIN g \ DOMAIN h : a # mh => g[a].inuse = FALSE
      /\ \A a \in DOMAIN g \ {mh} : f[a].next = g[a].next /\ f[a].inuse = g[a].inuse
      /\ \A a \in DOMAIN f \ DOMAIN g : a # mh => f[a].inuse = FALSE
  BY Zenon DEF KeepsOthers
<1>2. \A a \in DOMAIN h \ {mh} : f[a].next = h[a].next /\ f[a].inuse = h[a].inuse
  BY Zenon, <1>1
<1>3. \A a \in DOMAIN f \ DOMAIN h : a # mh => f[a].inuse = FALSE
  BY Zenon, <1>1
<1>4. QED
  BY Zenon, <1>1, <1>2, <1>3 DEF KeepsOthers

\* A block that nobody held is handed out.
LEMMA Taken ==
  ASSUME NEW h, NEW held, Held(h, held),
         NEW g, NEW mh, mh \in Nat, KeepsOthers(g, h, mh), mh \in DOMAIN h => ~h[mh].inuse,
         mh \in DOMAIN g, g[mh].inuse, NEW want \in Nat, MSize(g, mh) >= want
  PROVE  Held(g, held \cup {[at |-> mh, want |-> want]})
<1> DEFINE new == [at |-> mh, want |-> want]
           all == held \cup {new}
<1>1. /\ IsFiniteSet(held) /\ held \subseteq [at : Nat, want : Nat]
      /\ \A b \in held : b.at \in DOMAIN h /\ h[b.at].inuse /\ MSize(h, b.at) >= b.want
      /\ \A a \in DOMAIN h : h[a].inuse => \E b \in held : b.at = a
      /\ \A b, c \in held : b.at = c.at => b = c
  BY Zenon DEF Held
<1>2. /\ DOMAIN h \subseteq DOMAIN g
      /\ \A a \in DOMAIN h \ {mh} : g[a].next = h[a].next /\ g[a].inuse = h[a].inuse
      /\ \A a \in DOMAIN g \ DOMAIN h : a # mh => g[a].inuse = FALSE
  BY Zenon DEF KeepsOthers
<1>3. new \in [at : Nat, want : Nat] /\ new.at = mh /\ new.want = want
  BY Zenon
<1> HIDE DEF new
<1>4. IsFiniteSet(all)
  BY Zenon, <1>1, FS_AddElement
<1>5. \A b \in held : b.at # mh
  BY Zenon, <1>1
<1>6. \A b \in held : b.at \in DOMAIN g /\ g[b.at].inuse /\ MSize(g, b.at) >= b.want
  BY Zenon, <1>1, <1>2, <1>5 DEF MSize
<1>7. \A b \in all : b.at \in DOMAIN g /\ g[b.at].inuse /\ MSize(g, b.at) >= b.want
  BY Zenon, <1>3, <1>6
<1>8. ASSUME NEW a \in DOMAIN g, g[a].inuse PROVE \E b \in all : b.at = a
  <2>1. CASE a = mh
    BY Zenon, <1>3, <2>1
  <2>2. CASE a # mh
    BY Zenon, <1>1, <1>2, <1>8, <2>2
  <2>3. QED
    BY Zenon, <2>1, <2>2
<1>9. \A b, c \in all : b.at = c.at => b = c
  BY Zenon, <1>1, <1>3, <1>5
<1>10. all \subseteq [at : Nat, want : Nat]
  BY Zenon, <1>1, <1>3
<1>11. Held(g, all)
  BY Zenon, <1>4, <1>7, <1>8, <1>9, <1>10 DEF Held
<1>12. QED
  BY Zenon, <1>11 DEF new

\* A header that was left out because it changes is in use.
LEMMA ApartTaken ==
  ASSUME NEW g, NEW top, NEW mh, Apart(g, top, {mh}, {}), g[mh].inuse
  PROVE  Apart(g, top, {}, {})
BY DEF Apart

\* First fit.
LEMMA MallocFits ==
  ASSUME IndInv, NEW want \in Nat, Small(want), NEW size, size = RoundUp(want, MBLOCK),
         NEW mh \in Headers, Fits(heap, mh, size),
         Got([Split(heap, mh, size, heaptop) EXCEPT ![mh].inuse = TRUE], mh, heaptop, want)
  PROVE  IndInv'
<1> DEFINE s == Split(heap, mh, size, heaptop)
<1>0. PICK g : g = [s EXCEPT ![mh].inuse = TRUE]
  BY Zenon
<1>1. /\ Chain(heap, heaptop) /\ heaptop <= HEAPMAX /\ Apart(heap, heaptop, {}, {}) /\ Held(heap, given)
      /\ mh \in DOMAIN heap
  BY Zenon DEF IndInv, Headers
<1>2. size \in Nat /\ size >= want /\ Multiple(size, MBLOCK)
  BY Zenon, SizeOf
<1>3. ~heap[mh].inuse /\ MSize(heap, mh) >= size
  BY Zenon DEF Fits
<1>4. Apart(heap, heaptop, {mh}, {}) /\ (MNext(heap, mh) = heaptop \/ heap[MNext(heap, mh)].inuse)
  BY Zenon, <1>1, <1>3 DEF Apart
<1>5. /\ Chain(s, heaptop) /\ Apart(s, heaptop, {mh}, {}) /\ KeepsOthers(s, heap, mh)
      /\ mh \in DOMAIN s /\ MSize(s, mh) >= size
  BY Zenon, <1>1, <1>2, <1>3, <1>4, SplitKeeps
<1> HIDE DEF s
<1>6. /\ Chain(g, heaptop) /\ DOMAIN g = DOMAIN s /\ g[mh].inuse = TRUE
      /\ \A a \in DOMAIN s : g[a].next = s[a].next /\ MNext(g, a) = MNext(s, a)
      /\ \A a \in DOMAIN s \ {mh} : g[a].inuse = s[a].inuse
  <2>1. s \in [DOMAIN s -> Header]
    BY Zenon, <1>5 DEF Chain
  <2>2. IsMark(g, s, mh, TRUE)
    BY Zenon, <1>0, <1>5, <2>1 DEF IsMark, Header
  <2>3. PICK v \in BOOLEAN : v = TRUE
    BY Zenon
  <2>4. IsMark(g, s, mh, v)
    BY <2>2, <2>3, Zenon
  <2>5. /\ Chain(g, heaptop) /\ DOMAIN g = DOMAIN s /\ g[mh].inuse = v
        /\ \A a \in DOMAIN s : g[a].next = s[a].next /\ MNext(g, a) = MNext(s, a)
        /\ \A a \in DOMAIN s \ {mh} : g[a].inuse = s[a].inuse
    BY <1>5, <2>4, MarkChain
  <2>6. QED
    BY <2>3, <2>5, Zenon
<1>7. heap' = g /\ heaptop' = heaptop /\ given' = given \cup {[at |-> mh, want |-> want]}
  BY <1>0, Zenon DEF Got, s
<1>8. Apart(g, heaptop, {}, {})
  <2>1. ASSUME NEW a \in DOMAIN g \ {mh}
        PROVE  g[a].inuse \/ MNext(g, a) = heaptop \/ g[MNext(g, a)].inuse
    <3>1. a \in DOMAIN s /\ g[a].inuse = s[a].inuse /\ MNext(g, a) = MNext(s, a)
      BY Zenon, <1>6, <2>1
    <3>2. s[a].inuse \/ MNext(s, a) = heaptop \/ s[MNext(s, a)].inuse
      BY Zenon, <1>5, <2>1, <3>1 DEF Apart
    <3>3. MNext(s, a) = heaptop \/ MNext(s, a) \in DOMAIN s
      BY Zenon, <1>5, <3>1, LinkedFacts DEF Linked
    <3>4. QED
      BY Zenon, <1>6, <3>1, <3>2, <3>3
  <2>2. QED
    BY Zenon, <1>6, <2>1 DEF Apart
<1>9. KeepsOthers(g, heap, mh)
  <2>1. KeepsOthers(g, s, mh)
    BY Zenon, <1>6 DEF KeepsOthers
  <2>2. QED
    BY Zenon, <1>5, <2>1, KeepsTrans
<1>10. MSize(g, mh) >= want
  <2>1. mh \in DOMAIN s /\ s[mh].next \in Nat /\ MBLOCK \in Nat
    BY Zenon, <1>5, LinkedFacts
  <2>2. QED
    BY <1>2, <1>5, <1>6, <2>1 DEF MSize
<1>11. mh \in Nat
  BY Zenon, <1>1, LinkedFacts
<1>12. Held(g, given \cup {[at |-> mh, want |-> want]})
  BY Zenon, <1>1, <1>3, <1>5, <1>6, <1>9, <1>10, <1>11, Taken
<1>13. QED
  BY Zenon, <1>1, <1>6, <1>7, <1>8, <1>12 DEF IndInv

\* What both ways of making the heap larger come to: w is the heap with more
\* space, and its block mh is in use and ends at the new top.
LEMMA MallocTakes ==
  ASSUME IndInv, NEW want \in Nat, Small(want), NEW size, size = RoundUp(want, MBLOCK),
         NEW w, NEW top, Chain(w, top), top <= HEAPMAX, NEW mh \in DOMAIN w,
         KeepsOthers(w, heap, mh), mh \in DOMAIN heap => ~heap[mh].inuse,
         w[mh].inuse, MNext(w, mh) = top, MSize(w, mh) >= size, Apart(w, top, {mh}, {}),
         Got(Split(w, mh, size, top), mh, top, want)
  PROVE  IndInv'
<1> DEFINE g == Split(w, mh, size, top)
<1>1. size \in Nat /\ size >= want /\ Multiple(size, MBLOCK)
  BY Zenon, SizeOf
<1>2. /\ Chain(g, top) /\ Apart(g, top, {mh}, {}) /\ KeepsOthers(g, w, mh)
      /\ mh \in DOMAIN g /\ MSize(g, mh) >= size /\ g[mh].inuse = w[mh].inuse
  BY Zenon, <1>1, SplitKeeps
<1>3. heap' = g /\ heaptop' = top /\ given' = given \cup {[at |-> mh, want |-> want]}
  BY Zenon DEF Got
<1> HIDE DEF g
<1>4. Apart(g, top, {}, {})
  BY Zenon, <1>2, ApartTaken
<1>5. KeepsOthers(g, heap, mh)
  BY Zenon, <1>2, KeepsTrans
<1>6. mh \in Nat /\ MSize(g, mh) >= want
  <2>1. mh \in Nat /\ g[mh].next \in Nat /\ MBLOCK \in Nat
    BY Zenon, <1>2, LinkedFacts
  <2>2. QED
    BY <1>1, <1>2, <2>1 DEF MSize
<1>7. Held(heap, given)
  BY Zenon DEF IndInv
<1>8. Held(g, given \cup {[at |-> mh, want |-> want]})
  BY Zenon, <1>2, <1>5, <1>6, <1>7, Taken
<1>9. QED
  BY Zenon, <1>2, <1>3, <1>4, <1>8 DEF IndInv

\* sbrk gives more space above a free block.
LEMMA MallocGrows ==
  ASSUME IndInv, NEW want \in Nat, Small(want), NEW size, size = RoundUp(want, MBLOCK),
         NEW last \in Headers, MNext(heap, last) = heaptop, ~heap[last].inuse, ~Fits(heap, last, size),
         NEW more, more = MoreSpace(size - MSize(heap, last)), heaptop + more <= HEAPMAX,
         NEW w, w = With(heap, last, [next |-> heap[last].next + more, prev |-> heap[last].prev,
                                      inuse |-> TRUE]),
         Got(Split(w, last, size, heaptop + more), last, heaptop + more, want)
  PROVE  IndInv'
<1>1. /\ Chain(heap, heaptop) /\ Apart(heap, heaptop, {}, {}) /\ last \in DOMAIN heap
  BY Zenon DEF IndInv, Headers
<1>2. size \in Nat /\ MBLOCK + size + 2 * PAGE <= HALF
  BY Zenon, SizeOf
<1>3. /\ heaptop \in Nat /\ heap[last].next \in Nat /\ heap[last].next >= MBLOCK /\ MBLOCK \in Nat
  BY Zenon, <1>1, LinkedFacts
<1>4. /\ MSize(heap, last) \in Nat /\ size - MSize(heap, last) \in Nat
      /\ size - MSize(heap, last) + 2 * PAGE <= HALF
  <2>1. PAGE \in Nat /\ HALF \in Nat
    BY Zenon, MallocAssumption
  <2>2. QED
    BY <1>2, <1>3, <2>1 DEF MSize, Fits
<1>5. more \in Nat /\ more >= size - MSize(heap, last) /\ Multiple(more, PAGE)
  BY Zenon, <1>4, MoreOf
<1>6. /\ Chain(w, heaptop + more) /\ KeepsOthers(w, heap, last)
      /\ DOMAIN w = DOMAIN heap /\ w[last].inuse /\ MSize(w, last) = MSize(heap, last) + more
      /\ MNext(w, last) = heaptop + more
  <2>1. PICK hdr : hdr = [next |-> heap[last].next + more, prev |-> heap[last].prev, inuse |-> TRUE]
    BY Zenon
  <2>2. heap[last].prev \in Nat
    BY Zenon, <1>1, LinkedFacts
  <2>3. hdr \in Header /\ hdr.next = heap[last].next + more /\ hdr.prev = heap[last].prev /\ hdr.inuse
    BY <1>3, <1>5, <2>1, <2>2 DEF Header
  <2>4. w = With(heap, last, hdr)
    BY <2>1, Zenon
  <2>5. QED
    BY <1>1, <1>5, <2>3, <2>4, GrownChain
<1>7. MSize(w, last) >= size
  BY <1>2, <1>4, <1>5, <1>6
<1>8. ASSUME NEW a \in DOMAIN heap \ {last} PROVE w[a].inuse \/ w[MNext(w, a)].inuse
  <2>1. MNext(heap, a) # heaptop
    BY Zenon, <1>1, <1>8, OneBelow
  <2>2. MNext(heap, a) \in DOMAIN heap /\ MNext(w, a) = MNext(heap, a) /\ w[a].inuse = heap[a].inuse
    <3>1. Linked(heap, heaptop, a)
      BY Zenon, <1>1, LinkedFacts
    <3>2. w[a].next = heap[a].next /\ w[a].inuse = heap[a].inuse
      BY Zenon, <1>6 DEF KeepsOthers
    <3>3. QED
      BY Zenon, <2>1, <3>1, <3>2 DEF Linked, MNext
  <2>3. heap[a].inuse \/ heap[MNext(heap, a)].inuse
    BY Zenon, <1>1, <2>1 DEF Apart
  <2>4. heap[MNext(heap, a)].inuse => w[MNext(heap, a)].inuse
    BY <1>6, <2>2, Zenon DEF KeepsOthers
  <2>5. QED
    BY Zenon, <2>2, <2>3, <2>4
<1>9. Apart(w, heaptop + more, {last}, {})
  BY Zenon, <1>6, <1>8 DEF Apart
<1>10. QED
  BY Zenon, <1>1, <1>6, <1>7, <1>9, MallocTakes

\* sbrk gives space for a block of its own.
LEMMA MallocAppends ==
  ASSUME IndInv, NEW want \in Nat, Small(want), NEW size, size = RoundUp(want, MBLOCK),
         NEW more, more = MoreSpace(MBLOCK + size), heaptop + more <= HEAPMAX,
         NEW w, w = With(heap, heaptop,
                         [next |-> more, prev |-> IF Headers = {} THEN 0 ELSE heap[Max(Headers)].next,
                          inuse |-> TRUE]),
         Got(Split(w, heaptop, size, heaptop + more), heaptop, heaptop + more, want)
  PROVE  IndInv'
<1>1. /\ Chain(heap, heaptop) /\ Apart(heap, heaptop, {}, {}) /\ heaptop \in Nat /\ MBLOCK \in Nat \ {0}
  BY Zenon, MallocAssumption DEF IndInv, Chain
<1>2. size \in Nat /\ MBLOCK + size + 2 * PAGE <= HALF
  BY Zenon, SizeOf
<1>3. MBLOCK + size \in Nat
  BY <1>1, <1>2
<1>4. more \in Nat /\ more >= MBLOCK + size /\ Multiple(more, PAGE)
  BY Zenon, <1>2, <1>3, MoreOf
<1>5. more >= MBLOCK
  BY <1>1, <1>2, <1>4
<1>6. PICK hdr : hdr = [next |-> more, prev |-> IF DOMAIN heap = {} THEN 0 ELSE heap[Max(DOMAIN heap)].next,
                        inuse |-> TRUE]
  BY Zenon
<1>7. w = With(heap, heaptop, hdr) /\ hdr.next = more /\ hdr.inuse = TRUE
  BY Zenon, <1>6 DEF Headers
<1>8. /\ Chain(w, heaptop + more) /\ KeepsOthers(w, heap, heaptop)
      /\ heaptop \in DOMAIN w /\ w[heaptop] = hdr /\ MNext(w, heaptop) = heaptop + more
  BY <1>1, <1>4, <1>5, <1>6, <1>7, AppendedChain
<1>9. heaptop \notin DOMAIN heap
  BY <1>1, LinkedFacts
<1>10. MSize(w, heaptop) >= size
  BY <1>1, <1>2, <1>4, <1>7, <1>8 DEF MSize
<1>11. ASSUME NEW a \in DOMAIN w \ {heaptop}
       PROVE  w[a].inuse \/ MNext(w, a) = heaptop + more \/ w[MNext(w, a)].inuse
  <2>1. CASE a \notin DOMAIN heap
    BY Zenon, <1>7, <1>8, <1>11, <2>1 DEF With
  <2>2. CASE a \in DOMAIN heap
    <3>1. w[a].inuse = heap[a].inuse /\ MNext(w, a) = MNext(heap, a)
      BY Zenon, <1>8, <1>11, <2>2 DEF KeepsOthers, MNext
    <3>2. heap[a].inuse \/ MNext(heap, a) = heaptop \/ heap[MNext(heap, a)].inuse
      BY Zenon, <1>1, <2>2 DEF Apart
    <3>3. MNext(heap, a) = heaptop \/ MNext(heap, a) \in DOMAIN heap
      BY Zenon, <1>1, <2>2, LinkedFacts DEF Linked
    <3>4. QED
      BY Zenon, <1>7, <1>8, <1>9, <3>1, <3>2, <3>3 DEF KeepsOthers
  <2>3. QED
    BY Zenon, <2>1, <2>2
<1>12. Apart(w, heaptop + more, {heaptop}, {})
  BY <1>11 DEF Apart
<1>13. w[heaptop].inuse
  BY Zenon, <1>7, <1>8
<1>14. QED
  BY Zenon, <1>8, <1>9, <1>10, <1>12, <1>13, MallocTakes

LEMMA MallocStep ==
  ASSUME IndInv, NEW want \in Requests, Malloc(want)
  PROVE  IndInv'
<1> DEFINE size == RoundUp(want, MBLOCK)
           fit == {mh \in Headers : Fits(heap, mh, size)}
           last == Max(Headers)
           grows == Headers # {} /\ Extends(last)
           more == MoreSpace(IF grows THEN size - MSize(heap, last) ELSE (MBLOCK + size) % WORD)
           top == heaptop + Signed(more)
           mh == IF grows THEN last ELSE heaptop
           hdr == IF grows THEN [next |-> (heap[last].next + more) % WORD, prev |-> heap[last].prev, inuse |-> TRUE]
                  ELSE [next |-> more, prev |-> IF Headers = {} THEN 0 ELSE heap[last].next, inuse |-> TRUE]
<1>1. want \in Nat /\ Small(want) /\ Chain(heap, heaptop) /\ heaptop <= HEAPMAX
  BY Zenon, MallocAssumption, RequestsSmall DEF IndInv
<1>0. size \in Nat /\ (MBLOCK + size) % WORD = MBLOCK + size /\ MBLOCK + size + 2 * PAGE <= HALF
  BY Zenon, <1>1, SizeOf
<1>2. CASE fit # {}
  <2>1. Got([Split(heap, Min(fit), size, heaptop) EXCEPT ![Min(fit)].inuse = TRUE], Min(fit), heaptop, want)
    BY <1>2, Zenon DEF Malloc
  <2>2. fit \subseteq Nat
    BY Zenon, <1>1, LinkedFacts DEF Headers
  <2>3. Min(fit) \in fit
    <3> HIDE DEF fit
    <3>1. QED
      BY Zenon, <1>2, <2>2, LeastIn
  <2>4. Min(fit) \in Headers /\ Fits(heap, Min(fit), size)
    BY <2>3, Zenon
  <2> HIDE DEF fit, size
  <2>5. QED
    BY <1>1, <2>1, <2>4, MallocFits, Zenon DEF size
<1>3. CASE fit = {}
  <2>1. \/ HEAPBASE <= top /\ top <= HEAPMAX /\ Got(Split(With(heap, mh, hdr), mh, size, top), mh, top, want)
        \/ UNCHANGED vars
    BY <1>3, Zenon DEF Malloc
  <2>2. CASE UNCHANGED vars
    BY Zenon, <2>2 DEF IndInv, vars
  <2>3. CASE top <= HEAPMAX /\ Got(Split(With(heap, mh, hdr), mh, size, top), mh, top, want)
    <3>1. CASE grows
      <4> DEFINE m == MoreSpace(size - MSize(heap, last))
      <4>1. last \in Headers /\ MNext(heap, last) = heaptop /\ ~heap[last].inuse
        BY Zenon, <1>1, <3>1, LastHeader DEF Headers, Extends
      <4>2. ~Fits(heap, last, size)
        BY <1>3, <4>1, Zenon
      <4>3. more = m /\ Signed(m) = m /\ (heap[last].next + m) % WORD = heap[last].next + m
        <5>1. more = m
          BY <3>1, Zenon
        <5>2. /\ heaptop \in Nat /\ heap[last].next \in Nat /\ heap[last].next >= MBLOCK
              /\ MBLOCK \in Nat /\ heap[last].next <= heaptop
          <6>1. last \in DOMAIN heap
            BY Zenon, <4>1 DEF Headers
          <6>2. /\ heaptop \in Nat /\ last \in Nat /\ heap[last].next \in Nat /\ MBLOCK \in Nat
                /\ heap[last].next >= MBLOCK /\ heaptop = last + heap[last].next
            <7> HIDE DEF last
            <7>1. QED
              BY Zenon, <1>1, <4>1, <6>1, LinkedFacts
          <6> HIDE DEF last
          <6>3. QED
            BY <6>2
        <5>3. PAGE \in Nat /\ HALF \in Nat /\ HEAPMAX \in Nat /\ HEAPMAX < HALF
          BY Zenon, MallocAssumption
        <5> HIDE DEF size, last
        <5>4. size - MSize(heap, last) \in Nat /\ size - MSize(heap, last) + 2 * PAGE <= HALF
          BY <1>0, <4>1, <4>2, <5>2, <5>3 DEF MSize, Fits
        <5>5. m \in Nat /\ Signed(m) = m /\ m < HALF
          BY Zenon, <5>4, MoreOf
        <5> HIDE DEF m
        <5>6. heap[last].next + m \in Nat /\ heap[last].next + m < WORD
          BY <1>1, <5>2, <5>3, <5>5 DEF WORD
        <5>7. QED
          BY Zenon, <5>1, <5>5, <5>6, NoWrap
      <4>4. mh = last /\ hdr = [next |-> heap[last].next + m, prev |-> heap[last].prev, inuse |-> TRUE]
        BY <3>1, <4>3, Zenon
      <4>5. PICK w : w = With(heap, last, [next |-> heap[last].next + m, prev |-> heap[last].prev,
                                           inuse |-> TRUE])
        BY Zenon
      <4>6. heaptop + m <= HEAPMAX /\ Got(Split(w, last, size, heaptop + m), last, heaptop + m, want)
        BY <2>3, <4>3, <4>4, <4>5, Zenon
      <4> HIDE DEF size, last, m
      <4>7. QED
        BY <1>1, <4>1, <4>2, <4>5, <4>6, MallocGrows, Zenon DEF size, m
    <3>2. CASE ~grows
      <4> DEFINE m == MoreSpace(MBLOCK + size)
      <4>1. more = m /\ Signed(m) = m
        <5>1. more = m
          BY <1>0, <3>2, Zenon
        <5>2. MBLOCK + size \in Nat
          <6> HIDE DEF size
          <6>1. QED
            BY <1>0, MallocAssumption
        <5>3. Signed(m) = m
          BY Zenon, <1>0, <5>2, MoreOf
        <5>4. QED
          BY Zenon, <5>1, <5>3
      <4>2. mh = heaptop /\ hdr = [next |-> m, prev |-> IF Headers = {} THEN 0 ELSE heap[Max(Headers)].next,
                                   inuse |-> TRUE]
        BY <3>2, <4>1, Zenon
      <4>3. PICK w : w = With(heap, heaptop,
                              [next |-> m, prev |-> IF Headers = {} THEN 0 ELSE heap[Max(Headers)].next,
                               inuse |-> TRUE])
        BY Zenon
      <4>4. heaptop + m <= HEAPMAX /\ Got(Split(w, heaptop, size, heaptop + m), heaptop, heaptop + m, want)
        BY <2>3, <4>1, <4>2, <4>3, Zenon
      <4> HIDE DEF size, m
      <4>5. QED
        BY <1>1, <4>3, <4>4, MallocAppends, Zenon DEF size, m
    <3>3. QED
      BY Zenon, <3>1, <3>2
  <2>4. QED
    BY Zenon, <2>1, <2>2, <2>3
<1>4. QED
  BY Zenon, <1>2, <1>3

-----------------------------------------------------------------------------
(* __malloc_trymerge *)

\* One header where there were two.
IsMerge(g, h, lo, hi) ==
  /\ lo # hi /\ g \in [DOMAIN h \ {hi} -> Header]
  /\ g[lo].next = h[lo].next + h[hi].next /\ g[lo].prev = h[lo].prev /\ g[lo].inuse = h[lo].inuse
  /\ \A a \in DOMAIN h \ {lo, hi} :
       /\ g[a].next = h[a].next /\ g[a].inuse = h[a].inuse
       /\ g[a].prev = IF a = MNext(h, hi) THEN g[lo].next ELSE h[a].prev

LEMMA MergeFields ==
  ASSUME NEW h, Chain(h, heaptop), NEW lo \in DOMAIN h, NEW hi \in DOMAIN h, MNext(h, lo) = hi,
         Mergeable(h, lo, hi), NEW g, g = TryMerge(h, lo, hi)
  PROVE  IsMerge(g, h, lo, hi)
<1> DEFINE D == DOMAIN h
           E == D \ {hi}
           up == MNext(h, hi)
           one == [a \in E |-> IF a = lo THEN [h[lo] EXCEPT !.next = @ + h[hi].next] ELSE h[a]]
<1>1. /\ heaptop \in Nat /\ h \in [D -> Header] /\ hi \in Nat /\ h[hi].next \in Nat
      /\ hi < up /\ Linked(h, heaptop, hi) /\ \A a \in D : a \in Nat /\ a < heaptop
  BY Zenon, LinkedFacts
<1>2. lo \in Nat /\ h[lo] \in Header /\ lo < hi
  BY Zenon, <1>1, LinkedFacts
<1>3. PICK hdr : hdr = [h[lo] EXCEPT !.next = @ + h[hi].next]
  BY Zenon
<1>4. /\ hdr \in Header /\ hdr.next = h[lo].next + h[hi].next /\ hdr.prev = h[lo].prev
      /\ hdr.inuse = h[lo].inuse
  BY <1>1, <1>2, <1>3 DEF Header
<1>5. one = [a \in E |-> IF a = lo THEN hdr ELSE h[a]]
  BY <1>3, Zenon
<1>6. g = TellAbove(one, lo, up, heaptop)
  BY Zenon DEF TryMerge
<1> HIDE DEF one
<1>7. one \in [E -> Header] /\ one[lo] = hdr /\ \A a \in E \ {lo} : one[a] = h[a]
  <2>1. E \subseteq D /\ lo \in E
    BY <1>1, <1>2
  <2> HIDE DEF E, D
  <2>2. QED
    BY Zenon, <1>1, <1>4, <1>5, <2>1
<1> HIDE DEF up
<1>8. CASE up = heaptop
  <2>1. g = one
    BY Zenon, <1>6, <1>8 DEF TellAbove
  <2>2. up \notin D
    BY <1>1, <1>8
  <2>3. QED
    BY Zenon, <1>1, <1>2, <1>4, <1>7, <2>1, <2>2 DEF IsMerge, up
<1>9. CASE up # heaptop
  <2>1. g = [one EXCEPT ![up].prev = one[lo].next]
    BY Zenon, <1>6, <1>9 DEF TellAbove
  <2>2. up \in E /\ up # lo /\ one[lo].next \in Nat
    <3>1. up \in D
      BY Zenon, <1>1, <1>9 DEF Linked, up
    <3>2. QED
      BY <1>1, <1>2, <1>4, <1>7, <3>1 DEF Header
  <2> HIDE DEF E
  <2>3. /\ g \in [E -> Header] /\ g[up].prev = one[lo].next /\ g[up].next = one[up].next
        /\ g[up].inuse = one[up].inuse /\ \A a \in E \ {up} : g[a] = one[a]
    BY <1>7, <2>1, <2>2 DEF Header
  <2>4. QED
    BY <1>1, <1>2, <1>4, <1>7, <2>2, <2>3 DEF IsMerge, up, E
<1>10. QED
  BY Zenon, <1>8, <1>9

LEMMA MergeChain ==
  ASSUME NEW h, NEW top, Chain(h, top), NEW lo \in DOMAIN h, NEW hi \in DOMAIN h, MNext(h, lo) = hi,
         NEW g, IsMerge(g, h, lo, hi)
  PROVE  /\ Chain(g, top) /\ DOMAIN g = DOMAIN h \ {hi} /\ MNext(g, lo) = MNext(h, hi)
         /\ \A a \in DOMAIN h \ {lo, hi} : /\ MNext(g, a) = MNext(h, a) /\ MNext(h, a) # hi
                                           /\ MNext(h, a) # MNext(h, hi)
<1> DEFINE D == DOMAIN h
           up == MNext(h, hi)
<1>1. /\ top \in Nat /\ h \in [D -> Header] /\ hi \in Nat /\ h[hi].next \in Nat /\ h[hi].next >= MBLOCK
      /\ MBLOCK \in Nat \ {0} /\ up = hi + h[hi].next /\ hi < up /\ up <= top /\ Linked(h, top, hi)
      /\ \A a \in D : a \in Nat /\ a < top /\ (a <= hi \/ a >= up)
  BY Zenon, LinkedFacts
<1>2. /\ lo \in Nat /\ h[lo].next \in Nat /\ h[lo].next >= MBLOCK /\ hi = lo + h[lo].next /\ lo < hi
      /\ Linked(h, top, lo) /\ \A a \in D : a <= lo \/ a >= hi
  BY Zenon, <1>1, LinkedFacts
<1>3. /\ DOMAIN g = D \ {hi} /\ g \in [D \ {hi} -> Header]
      /\ g[lo].next = h[lo].next + h[hi].next /\ g[lo].prev = h[lo].prev
      /\ \A a \in D \ {lo, hi} :
           g[a].next = h[a].next /\ g[a].prev = IF a = up THEN g[lo].next ELSE h[a].prev
  BY Zenon DEF IsMerge
<1>4. lo \in DOMAIN g /\ MNext(g, lo) = up /\ up # lo /\ up # hi
  BY <1>1, <1>2, <1>3 DEF MNext
<1>5. ASSUME NEW a \in D \ {lo, hi}
      PROVE  MNext(g, a) = MNext(h, a) /\ MNext(h, a) # hi /\ MNext(h, a) # up
  <2>1. MNext(g, a) = MNext(h, a)
    BY Zenon, <1>3 DEF MNext
  <2>2. MNext(h, a) # MNext(h, lo) /\ MNext(h, a) # MNext(h, hi)
    BY Zenon, <1>5, OneBelow
  <2>3. QED
    BY Zenon, <2>1, <2>2
<1> HIDE DEF D, up
<1>6. Linked(g, top, lo)
  <2>1. up = top \/ (up \in DOMAIN g /\ g[up].prev = g[lo].next)
    BY Zenon, <1>1, <1>3, <1>4 DEF Linked, D, up
  <2>2. \A a \in DOMAIN g : a <= lo \/ a >= up
    BY <1>1, <1>2, <1>3
  <2>3. lo # HEAPBASE => lo - g[lo].prev \in DOMAIN g /\ g[lo - g[lo].prev].next = g[lo].prev
    <3>1. SUFFICES ASSUME lo # HEAPBASE
                   PROVE  lo - g[lo].prev \in DOMAIN g /\ g[lo - g[lo].prev].next = g[lo].prev
      BY Zenon
    <3>2. PICK b \in D : b = lo - h[lo].prev /\ h[b].next = h[lo].prev
      BY Zenon, <1>2, <3>1 DEF Linked, D
    <3>3. b \in Nat /\ h[b].next \in Nat /\ h[b].next >= MBLOCK
      BY Zenon, LinkedFacts DEF D
    <3>4. b # lo /\ b # hi
      BY <1>1, <1>2, <3>2, <3>3
    <3>5. QED
      BY Zenon, <1>3, <3>2, <3>4
  <2>4. g[lo].next >= MBLOCK
    BY <1>1, <1>2, <1>3
  <2>5. QED
    BY Zenon, <1>1, <1>2, <1>3, <1>4, <2>1, <2>2, <2>3, <2>4 DEF Linked
<1>7. ASSUME NEW a \in D \ {lo, hi} PROVE Linked(g, top, a)
  <2>1. /\ Linked(h, top, a) /\ a \in Nat /\ h[a].next \in Nat /\ h[a].prev \in Nat
        /\ MNext(h, a) = a + h[a].next
    BY Zenon, LinkedFacts DEF D
  <2>2. MNext(g, a) = top \/ (MNext(g, a) \in DOMAIN g /\ g[MNext(g, a)].prev = g[a].next)
    <3>1. MNext(h, a) # lo => (MNext(h, a) = top \/
              (MNext(h, a) \in DOMAIN g /\ g[MNext(h, a)].prev = g[a].next))
      BY Zenon, <1>3, <1>5, <1>7, <2>1 DEF Linked, D
    <3>2. MNext(h, a) = lo => lo = top \/ g[lo].prev = g[a].next
      BY Zenon, <1>3, <1>7, <2>1 DEF Linked, D
    <3>3. QED
      BY <1>4, <1>5, <1>7, <3>1, <3>2
  <2>3. \A b \in DOMAIN g : b <= a \/ b >= MNext(g, a)
    BY Zenon, <1>3, <1>5, <1>7, <2>1 DEF Linked, D
  <2>4. a # HEAPBASE => a - g[a].prev \in DOMAIN g /\ g[a - g[a].prev].next = g[a].prev
    <3>1. CASE a = up
      <4>1. g[a].prev = g[lo].next /\ a - g[a].prev = lo
        BY <1>1, <1>2, <1>3, <1>7, <3>1
      <4>2. QED
        BY Zenon, <1>4, <4>1
    <3>2. CASE a # up
      <4>1. SUFFICES ASSUME a # HEAPBASE
                     PROVE  a - g[a].prev \in DOMAIN g /\ g[a - g[a].prev].next = g[a].prev
        BY Zenon
      <4>2. PICK b \in D : b = a - h[a].prev /\ h[b].next = h[a].prev
        BY Zenon, <2>1, <4>1 DEF Linked, D
      <4>3. b \in Nat /\ b + h[b].next = a
        BY <2>1, <4>2, LinkedFacts DEF D
      <4>4. b # lo /\ b # hi
        BY Zenon, <1>1, <1>2, <1>7, <3>2, <4>3
      <4>5. g[a].prev = h[a].prev /\ b \in DOMAIN g /\ g[b].next = h[b].next
        BY Zenon, <1>3, <1>7, <3>2, <4>4
      <4>6. QED
        BY <4>2, <4>5, Zenon
    <3>3. QED
      BY Zenon, <3>1, <3>2
  <2>5. a = HEAPBASE => g[a].prev = 0
    BY <1>1, <1>2, <1>3, <1>7, <2>1 DEF Linked, HEAPBASE
  <2>6. QED
    BY Zenon, <1>3, <1>5, <1>7, <2>1, <2>2, <2>3, <2>4, <2>5 DEF Linked
<1>8. top # HEAPBASE => HEAPBASE \in DOMAIN g /\ \E a \in DOMAIN g : MNext(g, a) = top
  <2>1. SUFFICES ASSUME top # HEAPBASE
                 PROVE  HEAPBASE \in DOMAIN g /\ \E a \in DOMAIN g : MNext(g, a) = top
    BY Zenon
  <2>2. PICK a \in D : HEAPBASE \in D /\ MNext(h, a) = top
    BY Zenon, <2>1 DEF Chain, D
  <2>3. HEAPBASE # hi /\ a # lo
    BY <1>1, <1>2, <2>2 DEF HEAPBASE, MNext, D
  <2>4. CASE a = hi
    BY Zenon, <1>3, <1>4, <2>2, <2>3, <2>4 DEF up
  <2>5. CASE a # hi
    BY Zenon, <1>3, <1>5, <2>2, <2>3, <2>5
  <2>6. QED
    BY Zenon, <2>4, <2>5
<1>9. \A a \in DOMAIN g : Linked(g, top, a)
  BY <1>3, <1>6, <1>7, Zenon
<1>10. Multiple(top, PAGE)
  BY Zenon DEF Chain
<1>11. Chain(g, top)
  BY Zenon, <1>1, <1>3, <1>8, <1>9, <1>10 DEF Chain
<1>12. QED
  BY Zenon, <1>3, <1>4, <1>5, <1>11 DEF D, up

\* After a merge there is no free neighbour that was not there before.
LEMMA MergeApart ==
  ASSUME NEW h, NEW top, Chain(h, top), NEW lo \in DOMAIN h, NEW hi \in DOMAIN h, MNext(h, lo) = hi,
         NEW g, IsMerge(g, h, lo, hi), ~h[hi].inuse,
         NEW X, X \subseteq {lo}, NEW Y, Y \subseteq {lo, hi}, Apart(h, top, X, Y),
         NEW Z, Y \ {hi} \subseteq Z
  PROVE  Apart(g, top, {}, Z)
<1>1. /\ DOMAIN g = DOMAIN h \ {hi} /\ MNext(g, lo) = MNext(h, hi)
      /\ \A a \in DOMAIN h \ {lo, hi} : /\ MNext(g, a) = MNext(h, a) /\ MNext(h, a) # hi
                                        /\ MNext(h, a) # MNext(h, hi)
  BY MergeChain
<1>2. g[lo].inuse = h[lo].inuse /\ (\A a \in DOMAIN h \ {lo, hi} : g[a].inuse = h[a].inuse) /\ lo # hi
  BY Zenon DEF IsMerge
<1>3. \A a \in DOMAIN h : MNext(h, a) = top \/ MNext(h, a) \in DOMAIN h
  BY Zenon, LinkedFacts DEF Linked
<1>4. MNext(h, hi) # lo /\ MNext(h, hi) # hi
  <2>1. lo \in Nat /\ lo < MNext(h, lo)
    BY Zenon, LinkedFacts
  <2>2. hi \in Nat /\ hi < MNext(h, hi) /\ MNext(h, hi) \in Nat
    BY Zenon, LinkedFacts
  <2>3. QED
    BY <2>1, <2>2
<1>5. MNext(g, lo) = top \/ g[MNext(g, lo)].inuse
  <2>1. MNext(h, hi) = top \/ h[MNext(h, hi)].inuse
    BY Zenon, <1>2, <1>4 DEF Apart
  <2>2. QED
    BY Zenon, <1>1, <1>2, <1>3, <1>4, <2>1
<1>6. ASSUME NEW a \in DOMAIN h \ {lo, hi}
      PROVE  g[a].inuse \/ MNext(g, a) = top \/ MNext(g, a) \in Z \/ g[MNext(g, a)].inuse
  <2>1. h[a].inuse \/ MNext(h, a) = top \/ MNext(h, a) \in Y \/ h[MNext(h, a)].inuse
    BY Zenon, <1>6 DEF Apart
  <2>2. MNext(g, a) = MNext(h, a) /\ MNext(h, a) # hi
    BY Zenon, <1>1, <1>6
  <2>3. MNext(h, a) \in DOMAIN h => g[MNext(h, a)].inuse = h[MNext(h, a)].inuse
    BY Zenon, <1>2, <2>2
  <2>4. QED
    BY Zenon, <1>2, <1>3, <1>6, <2>1, <2>2, <2>3
<1>7. QED
  BY Zenon, <1>1, <1>5, <1>6 DEF Apart

\* The blocks in use are the same.
SameUsed(g, h) ==
  /\ \A a \in DOMAIN h : h[a].inuse => a \in DOMAIN g /\ g[a].inuse /\ g[a].next = h[a].next
  /\ \A a \in DOMAIN g : g[a].inuse => a \in DOMAIN h /\ h[a].inuse

LEMMA MergeUsed ==
  ASSUME NEW h, NEW lo \in DOMAIN h, NEW hi \in DOMAIN h, NEW g, IsMerge(g, h, lo, hi),
         ~h[lo].inuse, ~h[hi].inuse
  PROVE  SameUsed(g, h)
<1>1. /\ DOMAIN g = DOMAIN h \ {hi} /\ g[lo].inuse = h[lo].inuse
      /\ \A a \in DOMAIN h \ {lo, hi} : g[a].next = h[a].next /\ g[a].inuse = h[a].inuse
  BY Zenon DEF IsMerge
<1>2. QED
  BY Zenon, <1>1 DEF SameUsed

-----------------------------------------------------------------------------
(* free *)

\* The block mh, which has become free, is merged with the one above.
LEMMA MergesAbove ==
  ASSUME NEW h, Chain(h, heaptop), NEW mh \in DOMAIN h, ~h[mh].inuse, Apart(h, heaptop, {mh}, {mh}),
         NEW g, g = IF MNext(h, mh) # heaptop THEN TryMerge(h, mh, MNext(h, mh)) ELSE h
  PROVE  /\ Chain(g, heaptop) /\ Apart(g, heaptop, {}, {mh}) /\ SameUsed(g, h)
         /\ mh \in DOMAIN g /\ ~g[mh].inuse
<1> DEFINE hi == MNext(h, mh)
<1>1. hi = heaptop \/ hi \in DOMAIN h
  BY Zenon, LinkedFacts DEF Linked
<1> HIDE DEF hi
<1>2. CASE hi = heaptop \/ ~Mergeable(h, mh, hi)
  <2>1. g = h
    BY Zenon, <1>2 DEF TryMerge, hi
  <2>2. hi = heaptop \/ h[hi].inuse
    BY Zenon, <1>2 DEF Mergeable
  <2>3. Apart(h, heaptop, {}, {mh})
    BY Zenon, <2>2 DEF Apart, hi
  <2>4. QED
    BY Zenon, <2>1, <2>3 DEF SameUsed
<1>3. CASE hi # heaptop /\ Mergeable(h, mh, hi)
  <2>1. hi \in DOMAIN h /\ MNext(h, mh) = hi /\ g = TryMerge(h, mh, hi) /\ ~h[hi].inuse
    BY Zenon, <1>1, <1>3 DEF hi, Mergeable
  <2>2. IsMerge(g, h, mh, hi)
    BY Zenon, <1>3, <2>1, MergeFields
  <2>3. Chain(g, heaptop) /\ DOMAIN g = DOMAIN h \ {hi}
    BY <2>1, <2>2, MergeChain DEF IsMerge
  <2>4. Apart(g, heaptop, {}, {mh})
    BY Zenon, <2>1, <2>2, MergeApart
  <2>5. SameUsed(g, h)
    BY Zenon, <2>1, <2>2, MergeUsed
  <2>6. mh \in DOMAIN g /\ ~g[mh].inuse
    BY Zenon, <2>2, <2>3 DEF IsMerge
  <2>7. QED
    BY Zenon, <2>3, <2>4, <2>5, <2>6
<1>4. QED
  BY Zenon, <1>2, <1>3

\* And with the one below.
LEMMA MergesBelow ==
  ASSUME NEW h, Chain(h, heaptop), NEW mh \in DOMAIN h, ~h[mh].inuse, Apart(h, heaptop, {}, {mh}),
         NEW g, g = MergeBelow(h, mh)
  PROVE  Chain(g, heaptop) /\ Apart(g, heaptop, {}, {}) /\ SameUsed(g, h)
<1>1. CASE mh = HEAPBASE
  <2>1. g = h
    BY Zenon, <1>1 DEF MergeBelow
  <2>2. \A a \in DOMAIN h : MNext(h, a) # mh
    BY <1>1, LinkedFacts DEF HEAPBASE
  <2>3. Apart(h, heaptop, {}, {})
    BY Zenon, <2>2 DEF Apart
  <2>4. QED
    BY Zenon, <2>1, <2>3 DEF SameUsed
<1>2. CASE mh # HEAPBASE
  <2> DEFINE lo == mh - h[mh].prev
  <2>1. g = TryMerge(h, lo, mh)
    BY Zenon, <1>2 DEF MergeBelow
  <2>2. lo \in DOMAIN h /\ h[lo].next = h[mh].prev /\ mh \in Nat /\ h[mh].prev \in Nat
    BY Zenon, <1>2, LinkedFacts DEF Linked
  <2>3. MNext(h, lo) = mh
    BY <2>2 DEF MNext
  <2> HIDE DEF lo
  <2>4. CASE ~Mergeable(h, lo, mh)
    <3>1. g = h /\ h[lo].inuse
      BY Zenon, <2>1, <2>4 DEF TryMerge, Mergeable
    <3>2. ASSUME NEW a \in DOMAIN h, MNext(h, a) = mh PROVE h[a].inuse
      <4>1. a = lo
        BY Zenon, <2>2, <2>3, <3>2, OneBelow
      <4>2. QED
        BY Zenon, <3>1, <4>1
    <3>3. Apart(h, heaptop, {}, {})
      BY Zenon, <3>2 DEF Apart
    <3>4. QED
      BY Zenon, <3>1, <3>3 DEF SameUsed
  <2>5. CASE Mergeable(h, lo, mh)
    <3>1. IsMerge(g, h, lo, mh) /\ ~h[lo].inuse
      BY Zenon, <2>1, <2>2, <2>3, <2>5, MergeFields DEF Mergeable
    <3>2. Chain(g, heaptop)
      BY Zenon, <2>2, <2>3, <3>1, MergeChain
    <3>3. Apart(g, heaptop, {}, {})
      BY Zenon, <2>2, <2>3, <3>1, MergeApart
    <3>4. SameUsed(g, h)
      BY Zenon, <2>2, <3>1, MergeUsed
    <3>5. QED
      BY Zenon, <3>2, <3>3, <3>4
  <2>6. QED
    BY Zenon, <2>4, <2>5
<1>3. QED
  BY Zenon, <1>1, <1>2

\* What is freed is held no more.
LEMMA GivenBack ==
  ASSUME NEW h, NEW held, Held(h, held), NEW b \in held,
         NEW g, \A a \in DOMAIN h \ {b.at} : h[a].inuse => a \in DOMAIN g /\ g[a].inuse /\ g[a].next = h[a].next,
         \A a \in DOMAIN g : g[a].inuse => a # b.at /\ a \in DOMAIN h /\ h[a].inuse
  PROVE  Held(g, held \ {b})
<1>1. /\ IsFiniteSet(held) /\ held \subseteq [at : Nat, want : Nat]
      /\ \A c \in held : c.at \in DOMAIN h /\ h[c.at].inuse /\ MSize(h, c.at) >= c.want
      /\ \A a \in DOMAIN h : h[a].inuse => \E c \in held : c.at = a
      /\ \A c, d \in held : c.at = d.at => c = d
  BY Zenon DEF Held
<1>2. IsFiniteSet(held \ {b})
  BY Zenon, <1>1, FS_RemoveElement
<1>3. ASSUME NEW c \in held \ {b} PROVE c.at \in DOMAIN g /\ g[c.at].inuse /\ MSize(g, c.at) >= c.want
  <2>1. c.at # b.at
    BY Zenon, <1>1, <1>3
  <2>2. QED
    BY Zenon, <1>1, <1>3, <2>1 DEF MSize
<1>4. ASSUME NEW a \in DOMAIN g, g[a].inuse PROVE \E c \in held \ {b} : c.at = a
  BY Zenon, <1>1, <1>4
<1>5. (held \ {b}) \subseteq [at : Nat, want : Nat] /\ \A c, d \in held \ {b} : c.at = d.at => c = d
  BY Zenon, <1>1
<1>6. QED
  BY Zenon, <1>2, <1>3, <1>4, <1>5 DEF Held

LEMMA FreeStep ==
  ASSUME IndInv, NEW b \in given, Free(b)
  PROVE  IndInv'
<1> DEFINE mh == b.at
<1>1. /\ Chain(heap, heaptop) /\ heaptop <= HEAPMAX /\ Apart(heap, heaptop, {}, {}) /\ Held(heap, given)
      /\ mh \in DOMAIN heap
  BY Zenon DEF IndInv, Held
<1>2. PICK f : f = [heap EXCEPT ![mh].inuse = FALSE]
  BY Zenon
<1>3. PICK m : m = IF MNext(f, mh) # heaptop THEN TryMerge(f, mh, MNext(f, mh)) ELSE f
  BY Zenon
<1>4. PICK r : r = MergeBelow(m, mh)
  BY Zenon
<1>5. heap' = r /\ given' = given \ {b} /\ heaptop' = heaptop
  BY <1>2, <1>3, <1>4, Zenon DEF Free
<1> HIDE DEF mh
<1>6. /\ Chain(f, heaptop) /\ DOMAIN f = DOMAIN heap /\ ~f[mh].inuse
      /\ \A a \in DOMAIN heap : f[a].next = heap[a].next /\ MNext(f, a) = MNext(heap, a)
      /\ \A a \in DOMAIN heap \ {mh} : f[a].inuse = heap[a].inuse
  <2>1. heap \in [DOMAIN heap -> Header]
    BY Zenon, <1>1 DEF Chain
  <2>2. IsMark(f, heap, mh, FALSE)
    BY Zenon, <1>1, <1>2, <2>1 DEF IsMark, Header
  <2>3. PICK v \in BOOLEAN : v = FALSE
    BY Zenon
  <2>4. IsMark(f, heap, mh, v)
    BY <2>2, <2>3, Zenon
  <2>5. /\ Chain(f, heaptop) /\ DOMAIN f = DOMAIN heap /\ f[mh].inuse = v
        /\ \A a \in DOMAIN heap : f[a].next = heap[a].next /\ MNext(f, a) = MNext(heap, a)
        /\ \A a \in DOMAIN heap \ {mh} : f[a].inuse = heap[a].inuse
    BY <1>1, <2>4, MarkChain
  <2>6. QED
    BY <2>3, <2>5, Zenon
<1>7. Apart(f, heaptop, {mh}, {mh})
  <2>1. ASSUME NEW a \in DOMAIN f \ {mh}
        PROVE  f[a].inuse \/ MNext(f, a) = heaptop \/ MNext(f, a) \in {mh} \/ f[MNext(f, a)].inuse
    <3>1. a \in DOMAIN heap /\ f[a].inuse = heap[a].inuse /\ MNext(f, a) = MNext(heap, a)
      BY Zenon, <1>6, <2>1
    <3>2. heap[a].inuse \/ MNext(heap, a) = heaptop \/ heap[MNext(heap, a)].inuse
      BY Zenon, <1>1, <3>1 DEF Apart
    <3>3. MNext(heap, a) = heaptop \/ MNext(heap, a) \in DOMAIN heap
      BY Zenon, <1>1, <3>1, LinkedFacts DEF Linked
    <3>4. QED
      BY Zenon, <1>6, <3>1, <3>2, <3>3
  <2>2. QED
    BY Zenon, <2>1 DEF Apart
<1>8. /\ Chain(m, heaptop) /\ Apart(m, heaptop, {}, {mh}) /\ SameUsed(m, f)
      /\ mh \in DOMAIN m /\ ~m[mh].inuse
  BY Zenon, <1>1, <1>3, <1>6, <1>7, MergesAbove
<1>9. Chain(r, heaptop) /\ Apart(r, heaptop, {}, {}) /\ SameUsed(r, m)
  BY Zenon, <1>4, <1>8, MergesBelow
<1>10. \A a \in DOMAIN heap \ {mh} : heap[a].inuse => a \in DOMAIN r /\ r[a].inuse /\ r[a].next = heap[a].next
  BY Zenon, <1>6, <1>8, <1>9 DEF SameUsed
<1>11. \A a \in DOMAIN r : r[a].inuse => a # mh /\ a \in DOMAIN heap /\ heap[a].inuse
  BY Zenon, <1>6, <1>8, <1>9 DEF SameUsed
<1>12. Held(r, given \ {b})
  BY Zenon, <1>1, <1>10, <1>11, GivenBack DEF mh
<1>13. QED
  BY Zenon, <1>1, <1>5, <1>9, <1>12 DEF IndInv

-----------------------------------------------------------------------------
(* The theorems *)

LEMMA MallocInit == Init => IndInv
<1>1. SUFFICES ASSUME Init PROVE IndInv
  BY Zenon
<1>2. heap = [a \in {} |-> 0] /\ heaptop = 0 /\ given = {} /\ HEAPBASE = 0
  BY Zenon, <1>1 DEF Init, HEAPBASE
<1>3. DOMAIN heap = {} /\ heap \in [DOMAIN heap -> Header]
  BY Zenon, <1>2
<1>4. PAGE \in Nat \ {0} /\ HEAPMAX \in Nat /\ Multiple(0, PAGE)
  BY MallocAssumption DEF Multiple
<1>5. Chain(heap, heaptop)
  BY Zenon, <1>2, <1>3, <1>4 DEF Chain
<1>6. Held(heap, given)
  BY Zenon, <1>2, <1>3, FS_EmptySet DEF Held
<1>7. QED
  BY <1>2, <1>3, <1>4, <1>5, <1>6 DEF IndInv, Apart

\* The inductive invariant: the headers are a chain of neighbours from the bottom to
\* the top, no two free ones next to each other, and the blocks in use are those the
\* program holds. Every malloc and every free keeps it, whatever the block and page
\* size and the requests, as long as these keep two pages and two headers below half of the
\* range of size_t (RequestBound): then nothing that malloc computes wraps, and sbrk is never
\* asked for a negative amount.
THEOREM MallocInvariant == Spec => []IndInv
<1>1. IndInv /\ [Next]_vars => IndInv'
  <2>1. SUFFICES ASSUME IndInv, [Next]_vars PROVE IndInv'
    BY Zenon
  <2>2. ASSUME NEW n \in Requests, Malloc(n) PROVE IndInv'
    BY Zenon, <2>1, <2>2, MallocStep
  <2>3. ASSUME NEW b \in given, Free(b) PROVE IndInv'
    BY Zenon, <2>1, <2>3, FreeStep
  <2>4. CASE UNCHANGED vars
    BY Zenon, <2>1, <2>4 DEF vars, IndInv
  <2>5. QED
    BY Zenon, <2>1, <2>2, <2>3, <2>4 DEF Next
<1>2. QED
  BY MallocInit, <1>1, PTL DEF Spec

\* The top is a multiple of the page size below the limit, and every header a multiple
\* of the block size with room for itself.
THEOREM MallocTypeCorrect == Spec => []TypeOK
<1>1. IndInv => TypeOK
  <2>1. SUFFICES ASSUME IndInv PROVE TypeOK
    BY Zenon
  <2>2. heaptop \in Nat /\ heaptop <= HEAPMAX /\ heaptop % PAGE = 0 /\ HEAPMAX \in Nat
    BY Zenon, <2>1, MallocAssumption DEF IndInv, Chain, Multiple
  <2>3. \A mh \in Headers : mh % MBLOCK = 0 /\ heap[mh].next >= MBLOCK
    BY Zenon, <2>1 DEF IndInv, Chain, Linked, Multiple, Headers
  <2>4. QED
    BY <2>2, <2>3 DEF TypeOK, HEAPBASE
<1>2. QED
  BY MallocInvariant, <1>1, PTL

\* Walking the chain from the bottom visits every header and ends exactly at the top, and
\* each header knows where the one below begins: the search in malloc never runs off the
\* end ("Heap corrupt"). For requests within RequestBound.
THEOREM MallocChainIntact == Spec => []ChainIntact
<1>1. IndInv => ChainIntact
  <2>1. SUFFICES ASSUME IndInv PROVE ChainIntact
    BY Zenon
  <2>2. Chain(heap, heaptop)
    BY Zenon, <2>1 DEF IndInv
  <2>3. Headers # {} => HEAPBASE \in Headers /\ heap[HEAPBASE].prev = 0
    <3>1. SUFFICES ASSUME Headers # {} PROVE HEAPBASE \in Headers /\ heap[HEAPBASE].prev = 0
      BY Zenon
    <3>2. heaptop # HEAPBASE
      BY Zenon, <2>2, <3>1, EmptyHeap DEF Headers
    <3>3. HEAPBASE \in DOMAIN heap
      BY Zenon, <2>2, <3>2 DEF Chain
    <3>4. QED
      BY Zenon, <2>2, <3>3, LinkedFacts DEF Linked, Headers
  <2>4. ASSUME NEW mh \in Headers
        PROVE  \/ MNext(heap, mh) = heaptop /\ mh = Max(Headers)
               \/ /\ MNext(heap, mh) \in Headers
                  /\ heap[MNext(heap, mh)].prev = heap[mh].next
                  /\ \A a \in Headers : a <= mh \/ a >= MNext(heap, mh)
    <3>1. Linked(heap, heaptop, mh)
      BY Zenon, <2>2, LinkedFacts DEF Headers
    <3>2. CASE MNext(heap, mh) = heaptop
      <4>1. Max(DOMAIN heap) \in DOMAIN heap /\ MNext(heap, Max(DOMAIN heap)) = heaptop
        BY Zenon, <2>2, <2>4, LastHeader DEF Headers
      <4>2. mh = Max(DOMAIN heap)
        BY Zenon, <2>2, <2>4, <3>2, <4>1, OneBelow DEF Headers
      <4>3. QED
        BY Zenon, <3>2, <4>2 DEF Headers
    <3>3. CASE MNext(heap, mh) # heaptop
      BY Zenon, <3>1, <3>3 DEF Linked, Headers
    <3>4. QED
      BY Zenon, <3>2, <3>3
  <2>5. QED
    BY Zenon, <2>3, <2>4 DEF ChainIntact
<1>2. QED
  BY MallocInvariant, <1>1, PTL

\* The blocks in use are exactly those the program holds, none handed out twice, and each
\* has room for what was asked for. For requests within RequestBound.
THEOREM MallocHeldExactly == Spec => []HeldExactly
<1>1. IndInv => HeldExactly
  <2>1. SUFFICES ASSUME IndInv PROVE HeldExactly
    BY Zenon
  <2>2. /\ IsFiniteSet(given)
        /\ \A b \in given : b.at \in Headers /\ heap[b.at].inuse /\ MSize(heap, b.at) >= b.want
        /\ \A mh \in Headers : heap[mh].inuse => \E b \in given : b.at = mh
        /\ \A b, c \in given : b.at = c.at => b = c
    BY Zenon, <2>1 DEF IndInv, Held, Headers
  <2>3. {mh \in Headers : heap[mh].inuse} = {b.at : b \in given}
    BY <2>2
  <2>4. Cardinality(given) = Cardinality({b.at : b \in given})
    <3> DEFINE S == {b.at : b \in given}
               at == [b \in given |-> b.at]
    <3>1. at \in [given -> S] /\ \A b \in given : at[b] = b.at
      BY Zenon
    <3>2. \A s \in S : \E b \in given : at[b] = s
      BY Zenon
    <3> HIDE DEF at
    <3>3. \A b, c \in given : at[b] = at[c] => b = c
      BY <2>2, <3>1
    <3> HIDE DEF S
    <3>4. at \in Injection(given, S) /\ at \in Surjection(given, S)
      BY <3>1, <3>2, <3>3, Zenon DEF Injection, IsInjective, Surjection
    <3>5. ExistsBijection(given, S)
      BY <3>4, Zenon DEF ExistsBijection, Bijection
    <3>6. QED
      BY Zenon, <2>2, <3>5, FS_Bijection DEF S
  <2>5. QED
    BY Zenon, <2>2, <2>3, <2>4 DEF HeldExactly
<1>2. QED
  BY MallocInvariant, <1>1, PTL

\* No two free blocks are neighbours, in whatever order blocks are freed and the heap grows.
THEOREM MallocNoFreeNeighbours == Spec => []NoFreeNeighbours
<1>1. IndInv => NoFreeNeighbours
  BY Zenon DEF IndInv, Apart, NoFreeNeighbours, Headers
<1>2. QED
  BY MallocInvariant, <1>1, PTL
============================================================================
