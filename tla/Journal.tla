------------------------------ MODULE Journal ------------------------------
(***************************************************************************)
(* The journal of SFS: write_record (sfs_logging.c), the physical journal  *)
(* container (sfs_jphys.c), the write-ahead flush of sfs_writeblock        *)
(* (sfs_io.c), sfs_sync_freemap and the recovery of sfs_domount            *)
(* (sfs_fsops.c, sfs_recovery.c) and the checkpoint thread                 *)
(* (sfs_checkpoint.c), across crashes.                                     *)
(*                                                                         *)
(* An object is one recoverable item: a field of an inode (its buffer      *)
(* carries sfs_metadata), an entry of an indirect block, or one bit of the *)
(* freemap.  Its contents are a version number; every change record        *)
(* carries the version it replaces and the version it installs.  A LSN is  *)
(* an index into `log', which holds every record since mksfs; what is on   *)
(* disk is the prefix that the journal blocks before `oldest' contain.     *)
(* Journal blocks are counted without wrapping; block j lives at position  *)
(* Pos(j) of the ring of load.ring blocks.                                 *)
(*                                                                         *)
(* jp_lock is held from the test of jp_nextbuf to the end of a write       *)
(* except inside sfs_getnextbuf, so a write is one step plus, when the     *)
(* head turned over, the steps of sfs_getnextbuf.  Writing one journal     *)
(* buffer (buffer_flush) is one step: the buffer is busy meanwhile.        *)
(***************************************************************************)
EXTENDS Integers, FiniteSets, Sequences, FiniteSetsExt, SequencesExt

CONSTANTS Writers,    \* threads that run file-system operations
          Syncer,     \* the thread in sync_fs_buffers / FS_SYNC
          Ckpt,       \* the mounting thread, later the checkpoint thread
          Inodes,     \* inode fields, each guarded by its vnode lock
          Indirect,   \* entries of indirect blocks
          Owner,      \* the inode whose vnode lock guards an indirect block
          Map,        \* a bit of the freemap
          NULL,
          CAP,        \* units of space in a journal block
          BOUND,      \* sfs_checkpoint_bound
          Loads       \* the workloads explored

Threads == Writers \cup {Syncer, Ckpt}
Objects == Inodes \cup Indirect \cup {Map}

ASSUME JournalAssumption ==
    /\ CAP \in Nat /\ CAP >= 3
    /\ Owner \in [Indirect -> Inodes]
    /\ Syncer # Ckpt /\ Syncer \notin Writers /\ Ckpt \notin Writers

VARIABLES
    load,     \* the workload: [ring, objs, par, tnx, changes, crashes, writes, ops]
    log,      \* all records, by LSN
    first,    \* first LSN of every journal block used so far (the last: the head)
    used,     \* jp_headbyte, in units
    oldest,   \* jp_oldestjblock: the blocks before it are on disk
    firstlsns,\* jp_firstlsns, by ring position
    tail,     \* [pos, lsn]: jp_memtailjblock and jp_memtaillsn
    getting,  \* jp_gettingnext; jp_nextbuf is NULL while it is a thread
    odometer, \* jp_odometer
    recordlk, \* the holder of sfs_recordlock
    active,   \* sfs_active_tnx
    vlock,    \* the holder of each vnode lock (and of the freemap lock)
    obj,      \* per object: cached and disk version, buffer state, sfs_metadata
    th,       \* per thread: where it is and its local variables
    left,     \* what the workload still allows: transactions, crashes, block writes
    halt,     \* the assertion or panic that stopped the kernel
    nver,     \* history: versions handed out
    loose,    \* history: objects changed behind the checkpoint's back
    base,     \* history: [lsn, ver]: where the last mount started, and its contents
    acked     \* history: the last END record whose operation flushed and returned

jvars == <<log, first, used, firstlsns, getting, halt>>
vars == <<load, jvars, oldest, tail, odometer, recordlk, active, vlock, obj,
          th, left, nver, loose, base, acked>>

-----------------------------------------------------------------------------
(* Records and their places.                                               *)

START(x) == [kind |-> "START", tnx |-> x]
END(x) == [kind |-> "END", tnx |-> x]
ABORT(x) == [kind |-> "ABORT", tnx |-> x]
TRIM(lsn) == [kind |-> "TRIM", to |-> lsn]
PAD == [kind |-> "PAD"]
CHANGE(x, o, old, new) ==
    [kind |-> "CHANGE", tnx |-> x, obj |-> o, old |-> old, new |-> new]
Size(r) == IF r.kind = "CHANGE" THEN 2 ELSE 1

NextLsn == Len(log) + 1
HeadBlock == Len(first)
HeadFirst == first[HeadBlock]
Pos(j) == (j - 1) % load.ring
DiskLsn == first[oldest] - 1
Recs(lo, hi) == SubSeq(log, lo, hi)
Has(op) == op \in load.ops

-----------------------------------------------------------------------------
(* Container-level recovery: what sfs_jphys_loadup finds on the disk.      *)

(* The LSNs that each ring position holds on disk (0: still zeroed): those *)
(* of the last block written there.                                        *)
DiskRing ==
    [p \in 0..(load.ring - 1) |->
        LET j == oldest - 1 - ((oldest - 2 - p) % load.ring)
        IN IF j < 1 THEN [lo |-> 0, hi |-> 0] ELSE [lo |-> first[j], hi |-> first[j + 1] - 1]]

(* sfs_scan_for_head: the first place, going forward, where LSNs drop; the *)
(* next LSN is the one after the last record before it.                    *)
ScanHead(d) ==
    LET drops == {p \in 1..(load.ring - 1) : d[p].lo < d[p - 1].hi}
    IN IF drops = {} THEN 0 ELSE Min(drops)
ScanHeadLsn(d) == d[(ScanHead(d) - 1) % load.ring].hi + 1

(* The last trim record before the head, or else (sfs_scan_for_trim) the   *)
(* last one before the physical end of the journal.                        *)
TrimsIn(d, ps) == UNION {{l \in d[p].lo..d[p].hi : l > 0 /\ log[l].kind = "TRIM"} : p \in ps}
ScanTrim_FrontOnly(d) ==
    LET h == IF ScanHead(d) = 0 THEN load.ring ELSE ScanHead(d)
        front == TrimsIn(d, 0..(h - 1))
    IN IF front = {} THEN 0 ELSE log[Max(front)].to
ScanTrim(d) ==
    LET h == IF ScanHead(d) = 0 THEN load.ring ELSE ScanHead(d)
        front == TrimsIn(d, 0..(h - 1))
        rear == TrimsIn(d, h..(load.ring - 1))
    IN IF front \cup rear = {} THEN 0
       ELSE log[Max(IF front = {} THEN rear ELSE front)].to

(* sfs_scan_for_tail: the positions whose block holds the tail LSN.        *)
ScanTail(d) == LET l == ScanTrim(d) IN {p \in DOMAIN d : d[p].lo <= l /\ l <= d[p].hi}

(* sfs_save_firstlsn runs for the blocks the scans read: those up to the   *)
(* head, and those from the tail to the physical end.                      *)
ScanFirsts(d, tp) ==
    [p \in DOMAIN d |->
        IF p <= ScanHead(d) \/ (tp > ScanHead(d) /\ p >= tp) THEN d[p].lo ELSE 0]

-----------------------------------------------------------------------------
(* Recovery of the objects: the check, undo and redo passes of domount.    *)

Tnxs(recs, kind) == {recs[i].tnx : i \in {k \in DOMAIN recs : recs[k].kind = kind}}

(* The check pass: a START without an END, and an END without its START.   *)
Aborted(recs) ==
    (Tnxs(recs, "START") \ Tnxs(recs, "END")) \cup (Tnxs(recs, "END") \ Tnxs(recs, "START"))

(* The parse_* functions skip the records of aborted transactions in both  *)
(* directions; parse_alloc_block and parse_free_block only skip the redo.  *)
Redone(o, recs) ==
    LET skip == Aborted(recs)
    IN {i \in DOMAIN recs :
          recs[i].kind = "CHANGE" /\ recs[i].obj = o /\ recs[i].tnx \notin skip}
Undone(o, recs) ==
    IF o = Map THEN {i \in DOMAIN recs : recs[i].kind = "CHANGE" /\ recs[i].obj = o}
    ELSE Redone(o, recs)

(* The undo pass runs backwards and the redo pass forwards, so an object   *)
(* ends with the version its last redone record installs; failing one,     *)
(* with the version its first undone record replaced.                      *)
Recover(o, recs) ==
    IF Redone(o, recs) # {} THEN recs[Max(Redone(o, recs))].new
    ELSE IF Undone(o, recs) # {} THEN recs[Min(Undone(o, recs))].old
    ELSE obj[o].disk

(* The records a mount after a crash now would work on.                    *)
Surviving == Recs(Max({1, ScanTrim(DiskRing)}), DiskLsn)

-----------------------------------------------------------------------------
Local == [pc |-> "off", tnx |-> 0, ret |-> "off", obj |-> NULL, lsn |-> 0, goal |-> 0,
          after |-> "off", upto |-> 0, ev |-> NULL, more |-> 0, file |-> NULL,
          late |-> FALSE, end |-> 0, keep |-> 0, mounted |-> FALSE]
Clean == [cache |-> 0, disk |-> 0, dirty |-> FALSE, old |-> 0, new |-> 0, busy |-> NULL]

(* mksfs writes one trim record and a pad; the rest of the ring is zero.   *)
Init ==
    /\ load \in Loads
    /\ log = <<TRIM(1), PAD>> /\ first = <<1, 3>> /\ used = 0 /\ oldest = 2
    /\ firstlsns = [p \in 0..(load.ring - 1) |-> CASE p = 0 -> 1 [] p = 1 -> 3 [] OTHER -> 0]
    /\ tail = [pos |-> 0, lsn |-> 1]
    /\ getting = NULL /\ odometer = 0 /\ recordlk = NULL /\ active = {}
    /\ vlock = [o \in Inodes \cup {Map} |-> NULL]
    /\ obj = [o \in Objects |-> Clean]
    /\ th = [t \in Threads |-> IF t = Ckpt THEN [Local EXCEPT !.pc = "mount"] ELSE Local]
    /\ left = [tnx |-> load.tnx, crashes |-> load.crashes,
               writes |-> load.writes]
    /\ halt = "" /\ nver = 0 /\ loose = {}
    /\ base = [lsn |-> 2, ver |-> [o \in Objects |-> 0]]
    /\ acked = 0

-----------------------------------------------------------------------------
(* Writing into the journal.                                               *)

Running == halt = ""
At(t, pc) == Running /\ th[t].pc = pc
Stop(why) == halt' = why /\ UNCHANGED <<log, first, used, firstlsns, getting, th>>

(* sfs_advance_journal, for the log l: the head moves to the next block.   *)
(* The code looks at the tail only.  A workload has to flush before the    *)
(* head comes round to a block that was never written, because DiskRing    *)
(* and EndBlock do not hold after that; those of MCJournal all do.         *)
Overruns == Pos(HeadBlock + 1) = tail.pos
Advance(t, l, lsn, n, ret) ==
    IF Overruns THEN Stop("overrun")
    ELSE /\ log' = l /\ used' = n
         /\ first' = Append(first, lsn)
         /\ firstlsns' = [firstlsns EXCEPT ![Pos(HeadBlock + 1)] = lsn]
         /\ getting' = t
         /\ th' = [th EXCEPT ![t].pc = "getnext", ![t].ret = ret, ![t].lsn = Len(l)]
         /\ UNCHANGED halt

(* sfs_jphys_write_internal: waits while jp_nextbuf is missing, pads the   *)
(* head block when the record does not fit, and turns over a full one.     *)
Put(t, r, ret) ==
    /\ getting = NULL
    /\ LET end == used + Size(r) IN
       IF end > CAP
       THEN Advance(t, log \o <<PAD, r>>, NextLsn + 1, Size(r), ret)
       ELSE IF end = CAP THEN Advance(t, Append(log, r), NextLsn + 1, 0, ret)
       ELSE /\ log' = Append(log, r) /\ used' = end
            /\ th' = [th EXCEPT ![t].pc = ret, ![t].lsn = NextLsn]
            /\ UNCHANGED <<first, firstlsns, getting, halt>>

(* The end of sfs_getnextbuf.                                              *)
GotNext(t) ==
    /\ At(t, "getnext") /\ th[t].ev = NULL
    /\ getting' = NULL /\ odometer' = odometer + 1
    /\ th' = [th EXCEPT ![t].pc = th[t].ret, ![t].ret = "off", ![t].upto = 0]
    /\ UNCHANGED <<load, log, first, used, firstlsns, halt, oldest, tail, recordlk,
                   active, vlock, obj, left, nver, loose, base, acked>>

-----------------------------------------------------------------------------
(* Flushing the journal up to th[t].goal, then going on at th[t].after.    *)

(* sfs_jphys_flush: if the LSN is in the head block, pad and turn it over. *)
(* Unlike a write it does not wait for jp_nextbuf.  Then find the first    *)
(* block from jp_oldestjblock on that is past the LSN; going beyond the    *)
(* head fails an assertion.                                                *)
InHead_Strict(lsn) == lsn > HeadFirst /\ used > 0
InHead(lsn) == lsn >= HeadFirst /\ used > 0
EndBlock_OnePast(lsn) ==
    LET past == {j \in oldest..HeadBlock : lsn < first[j]}
    IN IF past = {} THEN 0 ELSE Min(past) + 1
EndBlock(lsn) ==
    LET past == {j \in oldest..HeadBlock : lsn < first[j]}
    IN IF past = {} THEN 0 ELSE Min(past)
sfs_jphys_flush(t) ==
    /\ At(t, "flush")
    /\ IF InHead(th[t].goal)
       THEN IF getting # NULL THEN Stop("nextbuf")
            ELSE Advance(t, Append(log, PAD), NextLsn + 1, 0, "flush")
       ELSE IF EndBlock(th[t].goal) = 0 THEN Stop("flush")
       ELSE /\ th' = [th EXCEPT ![t].pc = "blocks", ![t].upto = EndBlock(th[t].goal)]
            /\ UNCHANGED jvars
    /\ UNCHANGED <<load, oldest, tail, odometer, recordlk, active, vlock, obj, left,
                   nver, loose, base, acked>>

(* sfs_jphys_flush_upto_jblock: one journal buffer at a time, in order.    *)
FlushBlock(t) ==
    /\ At(t, "blocks")
    /\ IF oldest < th[t].upto
       THEN oldest' = oldest + 1 /\ UNCHANGED th
       ELSE /\ th' = [th EXCEPT ![t].pc = th[t].after, ![t].after = "off", ![t].goal = 0,
                               ![t].upto = 0]
            /\ UNCHANGED oldest
    /\ UNCHANGED <<load, jvars, tail, odometer, recordlk, active, vlock, obj, left,
                   nver, loose, base, acked>>

(* flush(lsn): nothing to do for LSN 0.                                    *)
FlushPc_Never(lsn, after) == after
FlushPc(lsn, after) == IF lsn = 0 THEN after ELSE "flush"

-----------------------------------------------------------------------------
(* Writing an object's buffer to disk: sfs_writeblock, sfs_sync_freemap.   *)

Free(o) == IF o = Map THEN vlock[Map] = NULL ELSE obj[o].busy = NULL
Written(o) == [obj EXCEPT ![o].disk = obj[o].cache, ![o].dirty = FALSE,
                          ![o].old = 0, ![o].new = 0, ![o].busy = NULL]
Take(t, o) ==
    IF o = Map THEN vlock' = [vlock EXCEPT ![Map] = t] /\ UNCHANGED obj
    ELSE obj' = [obj EXCEPT ![o].busy = t] /\ UNCHANGED vlock

(* sync_fs_buffers and sfs_sync_freemap on behalf of the syncer.           *)
SyncObject(o) ==
    /\ At(Syncer, "off") /\ left.writes > 0
    /\ Free(o) /\ obj[o].dirty /\ Take(Syncer, o)
    /\ th' = [th EXCEPT ![Syncer].pc = FlushPc(obj[o].new, "write"), ![Syncer].obj = o,
                        ![Syncer].goal = obj[o].new, ![Syncer].after = "write"]
    /\ left' = [left EXCEPT !.writes = @ - 1]
    /\ UNCHANGED <<load, jvars, oldest, tail, odometer, recordlk, active, nver, loose,
                   base, acked>>

(* The operation returns to its caller.                                    *)
Back(t) ==
    /\ acked' = Max({acked, th[t].end})
    /\ th' = [th EXCEPT ![t] = Local]

(* The rest of sfs_writeblock, once the journal is flushed.                *)
WriteObject(t) ==
    /\ At(t, "write")
    /\ obj' = Written(th[t].obj) /\ loose' = loose \ {th[t].obj}
    /\ vlock' = IF th[t].obj = Map THEN [vlock EXCEPT ![Map] = NULL] ELSE vlock
    /\ Back(t)
    /\ UNCHANGED <<load, jvars, oldest, tail, odometer, recordlk, active, left, nver, base>>

(* The buffer cache writes a journal buffer of its own accord: the earlier *)
(* ones come first (sfs_jphys_flushforjournalblock).                       *)
SyncJournal ==
    /\ At(Syncer, "off") /\ left.writes > 0 /\ oldest < HeadBlock
    /\ oldest' = oldest + 1 /\ left' = [left EXCEPT !.writes = @ - 1]
    /\ UNCHANGED <<load, jvars, tail, odometer, recordlk, active, vlock, obj, th, nver,
                   loose, base, acked>>

(* buffer_get_fsmanaged inside sfs_getnextbuf evicts a buffer; the flush   *)
(* this needs runs with jp_nextbuf still missing.                          *)
Evict(t, o) ==
    /\ At(t, "getnext") /\ th[t].ev = NULL /\ left.writes > 0
    /\ o # Map /\ obj[o].dirty /\ obj[o].busy = NULL
    /\ left' = [left EXCEPT !.writes = @ - 1]
    /\ IF obj[o].new > 0 /\ InHead(obj[o].new)
       THEN Stop("nextbuf") /\ UNCHANGED obj
       ELSE /\ obj' = [obj EXCEPT ![o].busy = t]
            /\ th' = [th EXCEPT ![t].ev = o,
                        ![t].upto = IF obj[o].new = 0 THEN oldest ELSE EndBlock(obj[o].new)]
            /\ UNCHANGED jvars
    /\ UNCHANGED <<load, oldest, tail, odometer, recordlk, active, vlock, nver, loose,
                   base, acked>>
EvictBlock(t) ==
    /\ At(t, "getnext") /\ th[t].ev # NULL
    /\ IF oldest < th[t].upto
       THEN oldest' = oldest + 1 /\ UNCHANGED <<obj, th, loose>>
       ELSE /\ obj' = Written(th[t].ev) /\ loose' = loose \ {th[t].ev}
            /\ th' = [th EXCEPT ![t].ev = NULL] /\ UNCHANGED oldest
    /\ UNCHANGED <<load, jvars, tail, odometer, recordlk, active, vlock, left, nver,
                   base, acked>>

-----------------------------------------------------------------------------
(* Transactions: write_record and the operations that call it.             *)

Mounted == th[Ckpt].mounted

(* The end of write_record wakes the checkpoint thread if it is waiting.   *)
Wake(f) == IF odometer >= BOUND /\ f[Ckpt].pc = "wait"
           THEN [f EXCEPT ![Ckpt].pc = "peek"] ELSE f

(* START_TRANSACTION takes sfs_recordlock and names the transaction after  *)
(* the LSN it expects; other records are written without that lock.  Then  *)
(* the transaction joins the active ones.                                  *)
RecordLockFree_Ignored == TRUE
RecordLockFree == recordlk = NULL
Begin(t, f) ==
    /\ RecordLockFree /\ recordlk' = t
    /\ th' = [th EXCEPT ![t].pc = "join", ![t].tnx = NextLsn, ![t].file = f,
                        ![t].more = load.changes]
    /\ UNCHANGED <<load, jvars, oldest, tail, odometer, active, vlock, obj, nver, loose, base, acked>>
Join(t) ==
    /\ At(t, "join")
    /\ active' = active \cup {th[t].tnx}
    /\ th' = [th EXCEPT ![t].pc = "put_start"]
    /\ UNCHANGED <<load, jvars, oldest, tail, odometer, recordlk, vlock, obj, left, nver, loose, base,
                   acked>>
BeginOp(w, f) ==
    /\ At(w, "off") /\ Mounted /\ left.tnx > 0 /\ f \in load.objs
    /\ Cardinality({v \in Writers : th[v].pc # "off"}) < load.par
    /\ left' = [left EXCEPT !.tnx = @ - 1]
    /\ Begin(w, f)
BeginMount == At(Ckpt, "mount") /\ Begin(Ckpt, NULL) /\ UNCHANGED left

PutRecord(t, pc, r, ret) ==
    /\ At(t, pc) /\ Put(t, r, ret)
    /\ UNCHANGED <<load, oldest, tail, odometer, recordlk, active, vlock, obj, left,
                   loose, base, acked>>
PutStart(t) == PutRecord(t, "put_start", START(th[t].tnx), "started") /\ UNCHANGED nver
PutEnd(t) == PutRecord(t, "put_end", END(th[t].tnx), "ended") /\ UNCHANGED nver
PutAbort(t) == PutRecord(t, "put_abort", ABORT(th[t].tnx), "ended") /\ UNCHANGED nver
PutTrim == PutRecord(Ckpt, "put_trim", TRIM(th[Ckpt].keep), "trimmed") /\ UNCHANGED nver
PutChange(w) ==
    /\ PutRecord(w, "put_change", CHANGE(th[w].tnx, th[w].obj, obj[th[w].obj].cache, nver + 1),
                 "changed")
    /\ nver' = IF halt' = "" THEN nver + 1 ELSE nver

Started(t) ==
    /\ At(t, "started") /\ recordlk' = NULL
    /\ th' = Wake([th EXCEPT ![t].pc = IF t = Ckpt THEN "put_end" ELSE "work",
                               ![t].lsn = 0])
    /\ UNCHANGED <<load, jvars, oldest, tail, odometer, active, vlock, obj, left, nver,
                   loose, base, acked>>

(* The operation takes its vnode lock, once, and then the buffer of an     *)
(* object (for the freemap: its lock).                                     *)
Pick(w, o) ==
    /\ At(w, "work") /\ th[w].more > 0 /\ o \in load.objs
    /\ vlock[th[w].file] \in {w, NULL}
    /\ o = th[w].file \/ o = Map \/ (o \in Indirect /\ Owner[o] = th[w].file)
    /\ IF o = Map THEN vlock[Map] = NULL ELSE obj[o].busy = NULL
    /\ vlock' = [vlock EXCEPT ![th[w].file] = w, ![Map] = IF o = Map THEN w ELSE @]
    /\ obj' = IF o = Map THEN obj ELSE [obj EXCEPT ![o].busy = w]
    /\ th' = [th EXCEPT ![w].pc = "put_change", ![w].obj = o, ![w].more = @ - 1]
    /\ UNCHANGED <<load, jvars, oldest, tail, odometer, recordlk, active, left, nver, loose,
                   base, acked>>

(* update_buffer_metadata and its two variants: the freemap's newest       *)
(* transaction is overwritten; an indirect block has no update at all.     *)
Metadata(o, md, x) ==
    CASE o \in Indirect -> md
      [] o = Map -> [md EXCEPT !.old = IF @ = 0 THEN x ELSE @, !.new = x]
      [] OTHER -> [md EXCEPT !.old = IF @ = 0 THEN x ELSE @, !.new = Max({@, x})]
Changed(w) ==
    /\ At(w, "changed")
    /\ LET o == th[w].obj
           md == Metadata(o, obj[o], th[w].tnx) IN
       /\ obj' = [obj EXCEPT ![o] = [md EXCEPT !.cache = log[th[w].lsn].new, !.dirty = TRUE,
                                               !.busy = NULL]]
       /\ vlock' = IF o = Map THEN [vlock EXCEPT ![Map] = NULL] ELSE vlock
       /\ loose' = IF md.old = 0 \/ md.old > th[w].tnx THEN loose \cup {o} ELSE loose
    /\ th' = Wake([th EXCEPT ![w].pc = "work", ![w].obj = NULL, ![w].lsn = 0])
    /\ UNCHANGED <<load, jvars, oldest, tail, odometer, recordlk, active, left, nver, base,
                   acked>>

(* The operation is over.  sfs_write and its like log the end while they   *)
(* hold the vnode lock and then flush; sfs_link unlocks first.             *)
Finish(w, late, pc) ==
    /\ At(w, "work") /\ vlock[th[w].file] = w
    /\ late \/ Has("link")
    /\ pc = "put_end" \/ Has("fail")
    /\ vlock' = IF late THEN vlock ELSE [vlock EXCEPT ![th[w].file] = NULL]
    /\ th' = [th EXCEPT ![w].pc = pc, ![w].late = late]
    /\ UNCHANGED <<load, jvars, oldest, tail, odometer, recordlk, active, obj, left, nver,
                   loose, base, acked>>

Ended(t) ==
    /\ At(t, "ended")
    /\ active' = active \ {th[t].tnx}
    /\ vlock' = IF th[t].late THEN [vlock EXCEPT ![th[t].file] = NULL] ELSE vlock
    /\ th' = Wake([th EXCEPT
                    ![t].pc = IF t = Ckpt THEN "peek" ELSE IF th[t].late THEN "flushall" ELSE "off",
                    ![t].tnx = 0, ![t].late = FALSE, ![t].file = NULL, ![t].more = 0, ![t].lsn = 0,
                    ![t].end = IF th[t].late /\ log[th[t].lsn].kind = "END" THEN th[t].lsn ELSE 0])
    /\ UNCHANGED <<load, jvars, oldest, tail, odometer, recordlk, obj, left, nver, loose,
                   base, acked>>

(* sfs_jphys_flushall, then sfs_sync_freemap.                              *)
LastLsn_OneShort == NextLsn - 2
LastLsn == NextLsn - 1
sfs_jphys_flushall(w) ==
    /\ At(w, "flushall")
    /\ th' = [th EXCEPT ![w].pc = "flush", ![w].goal = LastLsn, ![w].after = "freemap"]
    /\ UNCHANGED <<load, jvars, oldest, tail, odometer, recordlk, active, vlock, obj, left,
                   nver, loose, base, acked>>
sfs_sync_freemap(w) ==
    /\ At(w, "freemap") /\ vlock[Map] = NULL
    /\ IF obj[Map].dirty
       THEN /\ Take(w, Map)
            /\ th' = [th EXCEPT ![w].pc = FlushPc(obj[Map].new, "write"), ![w].obj = Map,
                                ![w].goal = obj[Map].new, ![w].after = "write"]
            /\ UNCHANGED acked
       ELSE Back(w) /\ UNCHANGED <<vlock, obj>>
    /\ UNCHANGED <<load, jvars, oldest, tail, odometer, recordlk, active, left, nver, loose,
                   base>>

-----------------------------------------------------------------------------
(* The checkpoint thread.                                                  *)

Step(pc, f) ==
    /\ th' = f
    /\ At(Ckpt, pc)
    /\ UNCHANGED <<load, jvars, oldest, recordlk, active, vlock, obj, left, nver, base, acked>>
Go(pc) == [th EXCEPT ![Ckpt].pc = pc]

(* checkpoint_thread_f tests the odometer before it takes the lock it      *)
(* waits with.                                                             *)
TestOdometer ==
    Step("test", Go(IF odometer < BOUND THEN "sleep" ELSE "peek")) /\ UNCHANGED <<tail, odometer, loose>>
Sleep == Step("sleep", Go("wait")) /\ UNCHANGED <<tail, odometer, loose>>

(* checkpoint: the oldest LSN to keep, gathered in three looks.            *)
PeekNextLsn ==
    /\ Step("peek", [th EXCEPT ![Ckpt].pc = "actives", ![Ckpt].keep = NextLsn])
    /\ UNCHANGED <<tail, odometer, loose>>
ScanActive ==
    /\ Step("actives", [th EXCEPT ![Ckpt].pc = "dirties", ![Ckpt].keep = Min({@} \cup active)])
    /\ UNCHANGED <<tail, odometer, loose>>

(* bufarray_find_oldest_dirty_lsn walks dirty_buffers without buffer_lock: *)
(* entries that a compaction moves meanwhile are missed.                   *)
OldestLsns_Ignored(os) == {}
OldestLsns(os) == {obj[o].old : o \in {x \in os : obj[x].dirty /\ obj[x].old > 0}}
ScanDirty(missed) ==
    /\ missed = {} \/ Has("compact")
    /\ missed \subseteq {o \in Inodes : obj[o].dirty}
    /\ Step("dirties", [th EXCEPT ![Ckpt].pc = "put_trim",
                                  ![Ckpt].keep = Min({@} \cup OldestLsns(Objects \ missed))])
    /\ loose' = loose \cup missed
    /\ UNCHANGED <<tail, odometer>>

(* sfs_jphys_trim, after the trim record: the block of the new tail.       *)
TailAt_NoWrap(lsn) ==
    {i \in DOMAIN firstlsns : lsn >= firstlsns[i] /\ (i + 1 = load.ring \/ lsn < firstlsns[i + 1])}
TailAt(lsn) ==
    {i \in DOMAIN firstlsns :
        /\ lsn >= firstlsns[i]
        /\ \/ i + 1 = load.ring
           \/ lsn < firstlsns[i + 1]
           \/ firstlsns[i] > firstlsns[i + 1]}
Trimmed ==
    /\ At(Ckpt, "trimmed")
    /\ IF TailAt(th[Ckpt].keep) = {} THEN Stop("trim") /\ UNCHANGED tail
       ELSE /\ tail' = [pos |-> Min(TailAt(th[Ckpt].keep)), lsn |-> th[Ckpt].keep]
            /\ th' = Go("clear") /\ UNCHANGED jvars
    /\ UNCHANGED <<load, oldest, odometer, recordlk, active, vlock, obj, left, nver, loose,
                   base, acked>>
ClearOdometer ==
    /\ Step("clear", [th EXCEPT ![Ckpt] = [Local EXCEPT !.pc = "test", !.mounted = TRUE]])
    /\ odometer' = 0
    /\ UNCHANGED <<tail, loose>>

-----------------------------------------------------------------------------
(* A crash, and the part of the mount that runs alone: sfs_jphys_loadup,   *)
(* the three recovery passes, sfs_jphys_startwriting.  The recovered       *)
(* buffers are dirty, without metadata.                                    *)
Mount(d, tp) ==
    LET recs == Surviving
        done == {o \in Objects : Undone(o, recs) # {}}
        ver == [o \in Objects |-> Recover(o, recs)] IN
    /\ log' = Recs(1, DiskLsn) /\ first' = SubSeq(first, 1, oldest) /\ used' = 0
    /\ firstlsns' = [ScanFirsts(d, tp) EXCEPT ![ScanHead(d)] = ScanHeadLsn(d)]
    /\ tail' = [pos |-> tp, lsn |-> ScanTrim(d)]
    /\ obj' = [o \in Objects |-> [Clean EXCEPT !.cache = ver[o], !.disk = obj[o].disk,
                                               !.dirty = o \in done]]
    /\ loose' = done
    /\ base' = [lsn |-> DiskLsn, ver |-> ver]
Crash ==
    /\ left.crashes > 0
    /\ left' = [left EXCEPT !.crashes = @ - 1]
    /\ LET d == DiskRing IN \E tp \in ScanTail(d) : Mount(d, tp)
    /\ getting' = NULL /\ odometer' = 0 /\ recordlk' = NULL /\ active' = {} /\ acked' = 0
    /\ vlock' = [o \in DOMAIN vlock |-> NULL]
    /\ th' = [t \in Threads |-> IF t = Ckpt THEN [Local EXCEPT !.pc = "mount"] ELSE Local]
    /\ halt' = ""
    /\ UNCHANGED <<load, oldest, nver>>

Idle == /\ halt # "" \/ (left.tnx = 0 /\ \A w \in Writers : th[w].pc = "off")
        /\ UNCHANGED vars

Writer(w) ==
    \/ \E f \in Inodes : BeginOp(w, f)
    \/ \E o \in Objects : Pick(w, o)
    \/ PutChange(w) \/ Changed(w)
    \/ \E late \in BOOLEAN, pc \in {"put_end", "put_abort"} : Finish(w, late, pc)
    \/ PutAbort(w) \/ sfs_jphys_flushall(w) \/ sfs_sync_freemap(w)
Recorder(t) == Join(t) \/ PutStart(t) \/ Started(t) \/ PutEnd(t) \/ Ended(t)
Flusher(t) == \/ sfs_jphys_flush(t) \/ FlushBlock(t) \/ WriteObject(t)
Getter(t) == GotNext(t) \/ EvictBlock(t) \/ \E o \in Objects : Evict(t, o)
Checkpointer ==
    \/ BeginMount \/ TestOdometer \/ Sleep \/ PeekNextLsn \/ ScanActive
    \/ \E missed \in SUBSET Inodes : ScanDirty(missed)
    \/ PutTrim \/ Trimmed \/ ClearOdometer
Next ==
    \/ \E w \in Writers : Writer(w)
    \/ \E t \in Writers \cup {Ckpt} : Recorder(t)
    \/ \E t \in Writers \cup {Syncer} : Flusher(t)
    \/ \E t \in Threads : Getter(t)
    \/ Checkpointer
    \/ SyncJournal \/ \E o \in Objects : SyncObject(o)
    \/ Crash
    \/ Idle
Spec == Init /\ [][Next]_vars

-----------------------------------------------------------------------------
(* Types, and every lock and busy mark belongs to a thread.                *)
TypeOK ==
    /\ load \in Loads
    /\ oldest \in 1..HeadBlock /\ used \in 0..(CAP - 1) /\ odometer \in Nat
    /\ first[1] = 1 /\ HeadFirst <= NextLsn
    /\ getting \in Threads \cup {NULL} /\ recordlk \in Threads \cup {NULL}
    /\ \A o \in DOMAIN vlock : vlock[o] \in Threads \cup {NULL}
    /\ \A o \in Objects : obj[o].busy \in Threads \cup {NULL} /\ obj[o].cache \in 0..nver
    /\ halt \in {"", "nextbuf", "overrun", "flush", "trim"}

(* The committed changes of an object that are on disk in the journal      *)
(* since the last mount, and what that mount found.                        *)
Committed(o) ==
    LET recs == Recs(base.lsn + 1, DiskLsn)
    IN {base.ver[o]} \cup
       {recs[i].new : i \in {k \in DOMAIN recs : /\ recs[k].kind = "CHANGE" /\ recs[k].obj = o
                                                /\ recs[k].tnx \in Tnxs(recs, "END")}}

(* Transactions whose END survives a trim that discarded their START, and  *)
(* the objects they changed.                                               *)
Leftover(recs) == Tnxs(recs, "END") \ Tnxs(recs, "START")
Cut(recs) == {recs[i].obj : i \in {k \in DOMAIN recs : /\ recs[k].kind = "CHANGE"
                                                      /\ recs[k].tnx \in Leftover(recs)}}

(* At whatever moment the machine crashes, recovery leaves no object older *)
(* than its last change whose END is on disk: the checkpoint trims nothing *)
(* that a dirty buffer or an open transaction still needs, and undo and    *)
(* redo end at the right record.  Excepted are the objects the checkpoint  *)
(* cannot know of (`loose': changed without sfs_metadata, by sfs_bmap.c or *)
(* by the recovery itself; changed by a transaction older than md_oldtnx;  *)
(* missed by the unlocked walk over dirty_buffers) and those of a          *)
(* transaction whose START was trimmed while its END was kept.             *)
Recoverable ==
    LET recs == Surviving
    IN \A o \in Objects \ (loose \cup Cut(recs)) : Recover(o, recs) >= Max(Committed(o))

(* The comment in sfs_domount: leftover ends go to the aborted             *)
(* transactions "to ignore them", that is, their records have no effect on *)
(* any object.  The code undoes their ALLOC_BLOCK and FREE_BLOCK records.  *)
LeftoverIgnored ==
    LET recs == Surviving
        rest == SelectSeq(recs, LAMBDA r : r.kind = "CHANGE" => r.tnx \notin Leftover(recs))
    IN \A o \in Objects : Recover(o, recs) = Recover(o, rest)

(* When an operation that flushes (sfs_write, sfs_truncate, sfs_mkdir ...) *)
(* has returned, its END record is on disk, whatever other threads padded, *)
(* flushed or turned over meanwhile.                                       *)
AckedOnDisk == acked <= DiskLsn

(* What the flush in sfs_writeblock guarantees: an inode on disk only      *)
(* contains changes of transactions whose id (the LSN that md_newtnx       *)
(* holds) is on disk in the journal.                                       *)
StartFlushed ==
    \A l \in (DiskLsn + 1)..Len(log) :
        (log[l].kind = "CHANGE" /\ log[l].obj \in Inodes /\ log[l].new <= obj[log[l].obj].disk)
            => log[l].tnx <= DiskLsn

(* The write-ahead invariant (sfs_jphys.c, flush_upto_jblock; jphys.txt):  *)
(* no block is on disk before the records of the changes in it.  Refuted:  *)
(* md_newtnx names the start of the transaction, not its last record.      *)
WriteAhead ==
    \A l \in (DiskLsn + 1)..Len(log) :
        log[l].kind = "CHANGE" => obj[log[l].obj].disk < log[l].new

(* bufarray_find_oldest_dirty_lsn "finds oldest transaction that modified  *)
(* a dirty buffer".  Refuted: md_oldtnx is the first transaction to touch  *)
(* the buffer, and a transaction that began earlier may touch it later.    *)
OldestTransaction ==
    \A l \in 1..Len(log) :
        (/\ log[l].kind = "CHANGE" /\ log[l].obj \in Inodes
         /\ obj[log[l].obj].dirty /\ obj[log[l].obj].old > 0
         /\ log[l].new > obj[log[l].obj].disk /\ log[l].new <= obj[log[l].obj].cache)
            => obj[log[l].obj].old <= log[l].tnx

(* A journal found after a crash at any moment is read back exactly: the   *)
(* scan finds the head where the first unwritten block is, and the tail of *)
(* the last trim record on disk is still in the ring, once (unless the     *)
(* unlocked walk over dirty_buffers missed one and the tail moved back).   *)
LoadupExact ==
    LET d == DiskRing IN
    /\ ScanHead(d) = Pos(oldest) /\ ScanHeadLsn(d) = DiskLsn + 1
    /\ Cardinality(ScanTail(d)) = 1 \/ Has("compact")

(* jp_memtailjblock is the block that contains jp_memtaillsn, also when    *)
(* the ring has wrapped and after the partial map a mount builds.          *)
TailLocated ==
    \A j \in 1..HeadBlock :
        (Pos(j) = tail.pos /\ j > HeadBlock - load.ring) =>
            /\ first[j] <= tail.lsn
            /\ j < HeadBlock => tail.lsn < first[j + 1]

(* Two transactions never share an id, although the id is only the LSN the *)
(* START record was expected to get and other records may take that LSN.   *)
TransactionsDistinct ==
    \A k, l \in 1..Len(log) :
        (log[k].kind = "START" /\ log[l].kind = "START" /\ log[k].tnx = log[l].tnx) => k = l

(* The assertions of sfs_jphys_flush (the search stays below the head) and *)
(* sfs_jphys_trim (the tail's block is found) hold; the second, as long as *)
(* no walk over dirty_buffers misses a buffer that a later walk sees.      *)
FlushAndTrimSucceed == halt # "flush" /\ (halt = "trim" => Has("compact"))
=============================================================================
