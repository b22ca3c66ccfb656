------------------------------- MODULE Blocks --------------------------------
(***************************************************************************)
(* The contents of SFS files and directories: the tree of direct and       *)
(* indirect blocks, allocation from the free map, reads and writes in      *)
(* pieces of a block, truncation, and directory slots (sfs_bmap.c,         *)
(* sfs_balloc.c, sfs_io.c, sfs_dir.c).                                     *)
(*                                                                         *)
(* The vnode lock covers a whole call, so another file gets in only where  *)
(* sfs_balloc takes the lock of the free map: between the pieces of a      *)
(* write here.  A truncation keeps that lock to the end and is one step.   *)
(* A block has D units, which are block pointers, bytes or directory       *)
(* entries; the unit of data is what the code writes without crossing a    *)
(* block boundary.                                                         *)
(***************************************************************************)
EXTENDS Integers, Sequences, FiniteSets, SequencesExt, FiniteSetsExt

CONSTANTS
    Files, Dirs,   \* a directory is a file whose units are entries
    Names,         \* names, as numbers: the entry of a name is that number
    NDIRECT,       \* SFS_NDIRECT; there is one pointer of each indirect kind
    D,             \* SFS_DBPERIDB
    LEVELS,        \* the deepest kind of pointer, 3 in the code
    NBLOCKS,       \* blocks that the free map hands out
    Offsets, Lens, \* where writes start and how long they are
    Cuts,          \* lengths to truncate to
    Calls,         \* how many calls each file gets
    FAULTS         \* bound of the reads of a block and the copies from the user that fail

VARIABLES
    ino,      \* the inode of each file: ptr[level][number], and size
    blk,      \* the units of every disk block
    used,     \* sfs_freemap
    op,       \* the write in progress on each file
    want,     \* history: what each unit of a file was last set to
    lost,     \* history: pointers of the file were lost while they were not zero
    stale,    \* history: the units in the last block that a truncation left behind
    left, faults, halt

vars == <<ino, blk, used, op, want, lost, stale, left, faults, halt>>

Disk == 1..NBLOCKS
Zeros == [i \in 0..D-1 |-> 0]
Fan(l) == D ^ l                                   \* file blocks below a pointer of level l
Below(l) ==                                       \* file blocks before those of level l
    IF l = 0 THEN 0 ELSE NDIRECT + (D ^ l - D) \div (D - 1)
MaxBlocks == Below(LEVELS + 1)
Units == 0..MaxBlocks * D - 1
Idle == [on |-> FALSE, off |-> 0, resid |-> 0, moved |-> FALSE]
NoBlocks == [l \in 0..LEVELS |-> [n \in 0..(IF l = 0 THEN NDIRECT ELSE 1) - 1 |-> 0]]

Init ==
    /\ ino = [f \in Files |-> [ptr |-> NoBlocks, size |-> 0]]
    /\ blk = [b \in Disk |-> Zeros]
    /\ used = {}
    /\ op = [f \in Files |-> Idle]
    /\ want = [f \in Files |-> [u \in Units |-> 0]]
    /\ lost = FALSE
    /\ stale = [f \in Files |-> {}]
    /\ left \in Calls
    /\ faults = FAULTS
    /\ halt = "no"

-----------------------------------------------------------------------------
(* sfs_bmap *)

\* The level of a file block, which pointer of the level, and the offset below it.
GetIndirection(fb) ==
    LET l == Max({j \in 0..LEVELS : Below(j) <= fb}) IN
    [level |-> l, num |-> (fb - Below(l)) \div Fan(l), off |-> (fb - Below(l)) % Fan(l)]

\* sfs_blockobj_get and sfs_blockobj_set; block 0 stands for the inode.
Get(s, b, l, n) == IF b = 0 THEN s.ptr[l][n] ELSE s.blk[b][n]
Set(s, b, l, n, v) == IF b = 0 THEN [s EXCEPT !.ptr[l][n] = v] ELSE [s EXCEPT !.blk[b][n] = v]

\* sfs_clearblock
Cleared(b) == Zeros

\* sfs_bmap_get with sfs_balloc, which marks the block free again if it cannot clear it
BmapGet(s, b, l, n, doalloc, bad) ==
    LET p == Get(s, b, l, n)
        new == Min(Disk \ s.used) IN
    IF p # 0 \/ ~doalloc THEN [s EXCEPT !.block = p]
    ELSE IF s.used = Disk \/ new \in bad THEN [s EXCEPT !.err = TRUE]
    ELSE [Set([s EXCEPT !.used = @ \cup {new}, !.blk[new] = Cleared(new)], b, l, n, new)
             EXCEPT !.block = new]

\* sfs_bmap_subtree: one indirect block after the other, of which bad cannot be read.
RECURSIVE Subtree(_, _, _, _, _)
Subtree(s, l, off, doalloc, bad) ==
    IF l = 0 \/ s.err \/ s.block = 0 THEN s
    ELSE IF s.block \in bad THEN [s EXCEPT !.err = TRUE]
    ELSE Subtree(BmapGet(s, s.block, l, off \div Fan(l - 1), doalloc, bad), l - 1, off % Fan(l - 1), doalloc, bad)

\* Mutant: what is beyond the largest file goes into its last block.
Bmap_NoLimit(f, fb, doalloc, bad) ==
    LET g == GetIndirection(Min({fb, MaxBlocks - 1})) IN
    Subtree(BmapGet([ptr |-> ino[f].ptr, blk |-> blk, used |-> used, block |-> 0, err |-> FALSE],
                    0, g.level, g.num, doalloc, bad), g.level, g.off, doalloc, bad)

\* The tree of f and the disk after a lookup of a file block, with the result.
Bmap(f, fb, doalloc, bad) ==
    LET start == [ptr |-> ino[f].ptr, blk |-> blk, used |-> used, block |-> 0, err |-> FALSE] IN
    IF fb >= MaxBlocks THEN [start EXCEPT !.err = TRUE]
    ELSE LET g == GetIndirection(fb) IN
         Subtree(BmapGet(start, 0, g.level, g.num, doalloc, bad), g.level, g.off, doalloc, bad)

\* "Data block marked free"
MarkedFree(s) == ~s.err /\ s.block # 0 /\ s.block \notin s.used

-----------------------------------------------------------------------------
(* sfs_io *)

\* The end of file cuts a read short.
Clipped(size, off, len) == IF off >= size THEN 0 ELSE Min({len, size - off})

\* What a read of LEN units at OFF delivers, piece by piece; a missing block reads as zeros.
RECURSIVE ReadPieces(_, _, _)
ReadPieces(f, off, resid) ==
    LET skip == off % D
        n == Min({D - skip, resid})
        s == Bmap(f, off \div D, FALSE, {}) IN
    IF resid = 0 THEN <<>>
    ELSE [i \in 1..n |-> IF s.block = 0 THEN 0 ELSE blk[s.block][skip + i - 1]]
             \o ReadPieces(f, off + n, resid - n)

Read(f, off, len) == ReadPieces(f, off, Clipped(ino[f].size, off, len))

Ready(f) == halt = "no" /\ left[f] > 0 /\ ~op[f].on
Begin(f) == Ready(f) /\ left' = [left EXCEPT ![f] = @ - 1]

\* The sets of blocks whose buffers fail in a call; a set that is not empty uses up a fault.
Bad == {{}} \cup (IF faults = 0 THEN {} ELSE {{b} : b \in used \cup {Min((Disk \ used) \cup {NBLOCKS})}})
Use(fault) == faults' = IF fault THEN faults - 1 ELSE faults

StartWrite(f) ==
    /\ Ready(f)
    /\ \E off \in Offsets, len \in Lens :
        /\ Begin(f) /\ f \notin Dirs
        /\ op' = [op EXCEPT ![f] = [on |-> TRUE, off |-> off, resid |-> len, moved |-> FALSE]]
        /\ UNCHANGED <<ino, blk, used, want, lost, stale, faults, halt>>

\* Mutant: a piece reaches over the end of the block.
PieceLen_Whole(skip, resid) == Min({D, resid})

PieceLen(skip, resid) == Min({D - skip, resid})

\* The end of sfs_io: the size follows the offset if anything was moved.
Ended(f, ptr, o) ==
    [ptr |-> ptr, size |-> IF o.moved /\ o.off > ino[f].size THEN o.off ELSE ino[f].size]

\* sfs_partialio or sfs_blockio: look up or allocate the block and copy n units into it, or
\* fewer if the copy from the user faults; those stay in the buffer, but do not count.
WritePiece(f) ==
    LET o == op[f]
        skip == o.off % D
        n == PieceLen(skip, o.resid)
        next == [on |-> TRUE, off |-> o.off + n, resid |-> o.resid - n, moved |-> TRUE]
        v == NBLOCKS + left[f] + 1 IN
    /\ halt = "no" /\ o.on /\ o.resid > 0
    /\ \E bad \in Bad, copied \in 0..n :
        LET s == Bmap(f, o.off \div D, TRUE, bad)
            fails == s.err \/ s.block \in bad
            end == IF fails THEN skip ELSE skip + copied IN
        /\ (bad # {} \/ faults = 0) => copied = n
        /\ Use(bad # {} \/ copied < n)
        /\ halt' = IF MarkedFree(s) THEN "marked free" ELSE "no"
        /\ used' = s.used
        /\ blk' = IF s.block = 0 THEN s.blk
                  ELSE [s.blk EXCEPT ![s.block] = [i \in 0..D-1 |-> IF i >= skip /\ i < end THEN v ELSE @[i]]]
        /\ want' = [want EXCEPT ![f] = [u \in Units |-> IF u - o.off \in 0..end-skip-1 THEN v ELSE @[u]]]
        /\ stale' = [stale EXCEPT ![f] = {u \in @ : u - o.off \notin 0..end-skip-1}]
        /\ IF fails \/ copied < n
             THEN /\ ino' = [ino EXCEPT ![f] = Ended(f, s.ptr, o)]
                  /\ op' = [op EXCEPT ![f] = Idle]
             ELSE /\ ino' = [ino EXCEPT ![f] = IF next.resid = 0 THEN Ended(f, s.ptr, next)
                                                 ELSE [@ EXCEPT !.ptr = s.ptr]]
                  /\ op' = [op EXCEPT ![f] = IF next.resid = 0 THEN Idle ELSE next]
    /\ UNCHANGED <<lost, left>>

-----------------------------------------------------------------------------
(* sfs_itrunc *)

Intersect(alo, ahi, blo, bhi) == alo < ahi /\ blo < bhi /\ alo < bhi /\ blo < ahi

\* Mutant: an entry outside the range is not remembered.
Kept_Never(s, l, p) == s

\* sfs_skip_iblock_entry remembers an entry outside the range.  hnz is never reset.
Kept(s, l, p) == [s EXCEPT !.hnz[l] = @ \/ p # 0]

\* Mutant: the data block stays allocated.
Discarded_Kept(s, b, pos) == [s EXCEPT !.blk[b][pos] = 0, !.mod[1] = TRUE]

\* Mutant: the pointer stays.
Discarded_Dangling(s, b, pos) == [s EXCEPT !.mod[1] = TRUE, !.used = @ \ {s.blk[b][pos]}]

Discarded(s, b, pos) == [s EXCEPT !.blk[b][pos] = 0, !.mod[1] = TRUE, !.used = @ \ {s.blk[b][pos]}]

\* The three nested loops of sfs_discard_subtree as one that descends.  b is the indirect
\* block of level l whose first file block is base, [lo, hi) the range to discard, bad the
\* blocks that cannot be read.  The loop over a triple indirect block ends with the first
\* double one that it goes through: from there on it counts with the index of the inner loop,
\* which is at its end ("back to layer 3" sets layer to 2).
RECURSIVE Layer(_, _, _, _, _, _, _)
RECURSIVE Entry(_, _, _, _, _, _, _, _)
Entry(s, l, b, base, lo, hi, bad, pos) ==
    LET p == s.blk[b][pos]
        first == base + pos * Fan(l - 1) IN
    IF pos = D \/ (l = 3 /\ s.back) THEN s
    ELSE Entry(IF ~Intersect(first, first + Fan(l - 1), lo, hi) THEN Kept(s, l, p)
               ELSE IF p = 0 THEN s
               ELSE IF l = 1 THEN Discarded(s, b, pos)
               ELSE IF p \in bad THEN [s EXCEPT !.err = TRUE]
               ELSE LET t == Layer([s EXCEPT !.mod[l - 1] = FALSE], l - 1, p, first, lo, hi, bad)
                        u == [t EXCEPT !.back = l = 3] IN
                    IF ~t.hnz[l - 1]
                      THEN [u EXCEPT !.blk[b][pos] = 0, !.mod[l] = TRUE]
                      ELSE [u EXCEPT !.hnz[l] = @ \/ t.mod[l - 1]],
               l, b, base, lo, hi, bad, pos + 1)

Layer(s, l, b, base, lo, hi, bad) ==
    LET t == Entry(s, l, b, base, lo, hi, bad, 0) IN
    IF t.hnz[l] THEN t
    ELSE [t EXCEPT !.used = @ \ {b}, !.lost = @ \/ t.blk[b] # Zeros]

DiscardSubtree(s, l, lo, hi, bad) ==
    LET root == s.ptr[l][0]
        clear == [i \in 1..LEVELS |-> FALSE] IN
    IF root = 0 THEN s
    ELSE IF root \in bad THEN [s EXCEPT !.err = TRUE]
    ELSE LET t == Layer([s EXCEPT !.hnz = clear, !.mod = clear], l, root, 0, lo, hi, bad) IN
         IF t.hnz[l] THEN t ELSE [t EXCEPT !.ptr[l][0] = 0]

\* sfs_discard: direct blocks, and then the subtrees that meet the range, up to an error.
RECURSIVE DiscardFrom(_, _, _, _, _)
DiscardFrom(s, l, lo, hi, bad) ==
    LET base == Below(l)
        top == Below(l + 1) IN
    IF l > LEVELS \/ s.err THEN s
    ELSE DiscardFrom(IF Intersect(base, top, lo, hi)
                       THEN DiscardSubtree(s, l, Max({lo, base}) - base, Min({hi, top}) - base, bad)
                       ELSE s, l + 1, lo, hi, bad)

Discard(f, lo, hi, bad) ==
    LET ptr == ino[f].ptr
        gone == {n \in DOMAIN ptr[0] : n >= lo /\ n < hi} IN
    DiscardFrom([ptr |-> [ptr EXCEPT ![0] = [n \in DOMAIN @ |-> IF n \in gone THEN 0 ELSE @[n]]],
                 blk |-> blk, used |-> used \ {ptr[0][n] : n \in gone}, hnz |-> <<>>, mod |-> <<>>,
                 back |-> FALSE, err |-> FALSE, lost |-> FALSE], 1, lo, hi, bad)

\* DIVROUNDUP(len, SFS_BLOCKSIZE)
BlockLen(len) == (len + D - 1) \div D

\* sfs_itrunc.  Units of blocks that are gone read as zeros; the rest of the last block stays.
\* With erase the inode goes too, if the truncation succeeds; if not, sfs_reclaim returns with
\* sfs_freemaplock held, and whoever looks up a block after that waits for it (sfs_bused).
Itrunc(f, len, bad, erase) ==
    LET from == BlockLen(len)
        to == BlockLen(ino[f].size)
        s == IF from < to THEN Discard(f, from, to, bad)
             ELSE [ptr |-> ino[f].ptr, blk |-> blk, used |-> used, err |-> FALSE, lost |-> FALSE]
        erased == erase /\ ~s.err
        kept == ((len + D - 1) \div D) * D          \* the end of the block of the new end
        cut(u) == u >= kept /\ u < to * D IN
    /\ Begin(f) /\ f \notin Dirs
    /\ ino' = [ino EXCEPT ![f] = IF erased THEN [ptr |-> NoBlocks, size |-> 0]
                                  ELSE [ptr |-> s.ptr, size |-> IF s.err THEN @.size ELSE len]]
    /\ blk' = s.blk
    /\ used' = s.used
    /\ lost' = (lost \/ s.err \/ s.lost \/ (erased /\ s.ptr # NoBlocks))
    /\ want' = [want EXCEPT ![f] = [u \in Units |-> IF erased \/ cut(u) THEN 0 ELSE @[u]]]
    /\ stale' = [stale EXCEPT ![f] = {u \in @ \cup len..kept-1 : ~erased /\ ~cut(u) /\ want[f][u] # 0}]
    /\ Use(bad # {})
    /\ halt' = IF erase /\ s.err THEN "freemap locked" ELSE "no"
    /\ UNCHANGED op

Truncate(f) == Ready(f) /\ \E len \in Cuts, bad \in Bad : Itrunc(f, len, bad, FALSE)

\* The end of sfs_reclaim: the blocks go, and then the inode; a new file gets the place.
Reclaim(f) == Ready(f) /\ \E bad \in Bad : Itrunc(f, 0, bad, TRUE)

-----------------------------------------------------------------------------
(* Directories *)

\* sfs_readdir of every slot
Entries(d) == [u \in 0..ino[d].size - 1 |-> Read(d, u, 1)[1]]

\* Mutant: empty slots are not used again.
EmptySlot_None(d) == ino[d].size

\* sfs_dir_findname reports the last empty slot; sfs_dir_link appends if there is none.
EmptySlot(d) ==
    LET e == Entries(d)
        empty == {u \in DOMAIN e : e[u] = 0} IN
    IF empty = {} THEN ino[d].size ELSE Max(empty)

\* sfs_writedir through sfs_metaio
WriteSlot(d, slot, v) ==
    \E bad \in Bad :
        LET s == Bmap(d, slot \div D, TRUE, bad)
            fails == s.err \/ s.block \in bad IN
        /\ Begin(d) /\ Use(bad # {})
        /\ used' = s.used
        /\ blk' = IF fails THEN s.blk ELSE [s.blk EXCEPT ![s.block][slot % D] = v]
        /\ ino' = [ino EXCEPT ![d] = Ended(d, s.ptr, [off |-> slot + 1, resid |-> 0, moved |-> ~fails])]
        /\ want' = IF fails THEN want ELSE [want EXCEPT ![d][slot] = v]
        /\ halt' = IF MarkedFree(s) THEN "marked free" ELSE "no"
        /\ UNCHANGED <<op, lost, stale>>

\* sfs_dir_link after sfs_dir_findname found no such name
DirLink(d) ==
    /\ d \in Dirs /\ Ready(d)
    /\ LET there == Range(Entries(d)) IN \E n \in Names \ there : WriteSlot(d, EmptySlot(d), n)

DirUnlink(d) ==
    /\ d \in Dirs /\ Ready(d)
    /\ LET e == Entries(d) IN \E u \in DOMAIN e : e[u] # 0 /\ WriteSlot(d, u, 0)

Next == \E f \in Files : StartWrite(f) \/ WritePiece(f) \/ Truncate(f) \/ Reclaim(f) \/ DirLink(f) \/ DirUnlink(f)

Spec == Init /\ [][Next]_vars

-----------------------------------------------------------------------------

\* The blocks of the tree below a pointer, in order and with repetitions.
RECURSIVE Blocks(_, _)
Blocks(b, l) ==
    IF b = 0 THEN <<>>
    ELSE <<b>> \o (IF l = 0 THEN <<>> ELSE FlattenSeq([n \in 1..D |-> Blocks(blk[b][n - 1], l - 1)]))
Tree(f) ==
    FlattenSeq([n \in 1..NDIRECT |-> Blocks(ino[f].ptr[0][n - 1], 0)])
    \o FlattenSeq([l \in 1..LEVELS |-> Blocks(ino[f].ptr[l][0], l)])
AllBlocks == UNION {ToSet(Tree(f)) : f \in Files}

TypeOK ==
    /\ \A f \in Files : /\ ino[f].size \in 0..MaxBlocks * D
                        /\ \A l \in 0..LEVELS : ino[f].ptr[l] \in [DOMAIN NoBlocks[l] -> 0..NBLOCKS]
                        /\ op[f].off \in 0..MaxBlocks * D /\ op[f].resid \in 0..Max(Lens)
    /\ \A b \in Disk : blk[b] \in [0..D-1 -> Nat]
    /\ used \subseteq Disk /\ faults \in 0..FAULTS /\ halt \in {"no", "marked free", "freemap locked"}

(* Every block is in one place of one tree, and is marked in the free map: *)
(* sfs_balloc never hands out a block that is in use and a truncation      *)
(* frees nothing that is still mapped, so "Data block marked free" of      *)
(* sfs_bmap is never printed.                                              *)
BlocksOwnedOnce ==
    LET trees == FlattenSeq([f \in 1..Cardinality(Files) |-> Tree(SetToSeq(Files)[f])]) IN
    halt # "marked free" /\ ToSet(trees) \subseteq used /\ Cardinality(ToSet(trees)) = Len(trees)

(* A block that is marked in the free map belongs to a file, unless a      *)
(* truncation has lost pointers: no error path of a write or of a          *)
(* directory change leaks a block.                                         *)
NoLeak == ~lost => used = AllBlocks

(* Any part of a file reads as what was last written there, zeros where    *)
(* nothing was, and nothing beyond the end (sfs_io and sfs_bmap), unless a *)
(* truncation has lost pointers.                                           *)
ReadsWhatWasWritten ==
    ~lost => \A f \in Files : ~op[f].on =>
        \A off \in Offsets \cup {0}, len \in {3, ino[f].size + 1} :
            Read(f, off, len) = [i \in 1..Max({0, Min({len, ino[f].size - off})}) |-> want[f][off + i - 1]]

\* Every block up to the end is there, and no other.
Mapped(f, fb) == Bmap(f, fb, FALSE, {}).block # 0
Needed(n) ==
    LET part(l) == Max({0, Min({n, Below(l + 1)}) - Below(l)})
        indirect(l) == MapThenSumSet(LAMBDA i : (part(l) + Fan(i) - 1) \div Fan(i), 1..l) IN
    n + MapThenSumSet(indirect, 1..LEVELS)
Dense(f) ==
    LET n == (ino[f].size + D - 1) \div D IN
    (\A fb \in 0..n-1 : Mapped(f, fb)) /\ Len(Tree(f)) = Needed(n)

(* A file without holes, whose tree has just the blocks it needs and does  *)
(* not reach the second double indirect block below the triple one, loses  *)
(* no block to sfs_itrunc or to sfs_reclaim unless a block cannot be read; *)
(* with a second one the loop of sfs_discard_subtree ends too early.       *)
Truncated ==
    \A f \in Files :
        /\ Dense(f) /\ left'[f] # left[f] /\ faults' = faults
        /\ ino[f].size <= (Below(3) + Fan(2)) * D
        => lost' = lost /\ halt' = "no"

TruncationExact == [][Truncated]_vars

(* A directory does not grow while it has an empty slot, and no name is in *)
(* it twice (sfs_dir_link).                                                *)
DirCompact ==
    [][\A d \in Dirs :
        LET slots == 0..ino[d].size - 1 IN
        /\ ino'[d].size > ino[d].size => \A u \in slots : want[d][u] # 0
        /\ \A u, v \in slots : u # v => want[d][u] # want[d][v] \/ want[d][u] = 0]_vars

(* An indirect block that a truncation frees is empty ("The whole double   *)
(* indirect block is empty now; free it").  Refuted: a child in which      *)
(* nothing had to be discarded is no reason to keep its parent.            *)
OnlyEmptyFreed == [][faults' = faults => lost' = lost]_vars

(* What a truncation cut off reads as zeros when the file grows again.     *)
(* Refuted: the rest of the last block is not cleared.                     *)
GrowsWithZeros == \A f \in Files : \A u \in stale[f] : u >= ino[f].size
==============================================================================
