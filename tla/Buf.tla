--------------------------------- MODULE Buf ---------------------------------
(***************************************************************************)
(* The buffer cache (vfs/buf.c): file system operations that reserve, get, *)
(* change, release and drop buffers, explicit syncs, and the syncer.       *)
(*                                                                         *)
(* buffer_lock is released where a thread waits for a busy buffer and in   *)
(* the calls into the file system (FSOP_READBLOCK, FSOP_WRITEBLOCK,        *)
(* FSOP_ATTACHBUF, FSOP_DETACHBUF).  A step is the code between two such   *)
(* places; lock names the thread that keeps the lock from step to step.    *)
(* The LRU order and the ages of the buffers only choose between buffers,  *)
(* and any choice is allowed here.  fsmanaged buffers are left out.        *)
(***************************************************************************)
EXTENDS Integers, Sequences, FiniteSets, SequencesExt

CONSTANTS
    Clients,   \* threads that run file system operations
    Syncer,    \* the syncer thread
    Blocks,    \* physical blocks
    NULL,      \* no block, no thread
    MAX,       \* bound of max_total_buffers
    Loads      \* the workloads

ASSUME BufAssumption ==
    /\ MAX \in Nat
    /\ \A l \in Loads : /\ l.max \in 1 .. MAX /\ l.reserve \in 1 .. l.max
                        /\ l.ops \subseteq {"sync", "umount", "flush", "drop", "invalidate",
                                           "syncer", "help", "nomem", "eio"}

Threads == Clients \cup {Syncer}
Bufs == 1 .. MAX

VARIABLES
    load,      \* the member of Loads, which never changes: max_total_buffers (max),
               \* RESERVE_BUFFERS (reserve), the operations and the faults (ops)
    buf,       \* the buffers
    total,     \* num_total_buffers; the buffers up to it exist
    dirty,     \* dirty_buffers, 0 for an empty place
    reserved,  \* threads with t_did_reserve_buffers
    onDisk,    \* blocks whose latest version is on the disk
    lock,      \* holder of buffer_lock between two steps
    th,        \* what each thread is doing
    halt       \* the assertion that stopped the machine

vars == <<load, buf, total, dirty, reserved, onDisk, lock, th, halt>>

\* latest: the buffer holds the latest version of its block.
NoBuf == [blk |-> NULL, busy |-> FALSE, holder |-> NULL, valid |-> FALSE,
          dirty |-> FALSE, latest |-> FALSE]

\* i, moved, newer and owed belong to sync_fs_buffers: the position in
\* dirty_buffers, whether it was compacted (the generation changed), the buffers
\* that got dirty since the sync began (their epoch is larger) and the blocks
\* that were dirty then and have not been written or dropped.
Idle == [pc |-> "idle", op |-> "none", x |-> NULL, b |-> 0, read |-> FALSE,
         i |-> 0, moved |-> FALSE, newer |-> {}, owed |-> {}]

-----------------------------------------------------------------------------
(* buffer_bootstrap *)

Init ==
    /\ load \in Loads
    /\ buf = [b \in Bufs |-> NoBuf]
    /\ total = 0
    /\ dirty = <<>>
    /\ reserved = {}
    /\ onDisk = Blocks
    /\ lock = NULL
    /\ th = [t \in Threads |-> Idle]
    /\ halt = "no"

Has(op) == op \in load.ops
Runs(t, at) == halt = "no" /\ lock \in {NULL, t} /\ th[t].pc = at

Panic(why) == halt' = why /\ UNCHANGED <<buf, total, dirty, onDisk, lock, th>>

-----------------------------------------------------------------------------
(* dirty_buffers *)

DIRTY_THRESH == (total * 5) \div 4

\* buffer_remove_dirty leaves an empty place behind.
buffer_remove_dirty_Kept(s, b) == s
buffer_remove_dirty(s, b) == [i \in DOMAIN s |-> IF s[i] = b THEN 0 ELSE s[i]]

\* buffer_insert_dirty, which compacts the array when it is full.
Full == Len(dirty) >= DIRTY_THRESH
bufarray_compact(s) == SelectSeq(s, LAMBDA b : b # 0)
buffer_insert_dirty(b) == Append(IF Full THEN bufarray_compact(dirty) ELSE dirty, b)

DirtyBlocks == {buf[b].blk : b \in {c \in Bufs : buf[c].dirty}}

\* The threads after block x reached the disk or was dropped.
Paid(ths, x) == [t \in Threads |-> [ths[t] EXCEPT !.owed = @ \ {x}]]

\* The threads after buffer b became dirty.
Syncing(r) == r.op \in {"sync", "umount"}
Dirtied_Unmoved(ths, b) == [t \in Threads |->
    IF Syncing(ths[t]) THEN [ths[t] EXCEPT !.newer = @ \cup {b}] ELSE ths[t]]
Dirtied(ths, b) == [t \in Threads |->
    IF Syncing(ths[t])
    THEN [ths[t] EXCEPT !.newer = @ \cup {b}, !.moved = @ \/ Full]
    ELSE ths[t]]

-----------------------------------------------------------------------------
(* Reservations *)

Held(t) == {b \in Bufs : buf[b].holder = t}

Available_OneMore == Cardinality(reserved) * load.reserve <= load.max
Available == (Cardinality(reserved) + 1) * load.reserve <= load.max

reserve_buffers(t) ==
    /\ Runs(t, "idle") /\ t \notin reserved
    /\ \A u \in Clients : th[u].op # "dropfs"    \* the file system is mounted
    /\ Available
    /\ reserved' = reserved \cup {t}
    /\ UNCHANGED <<load, buf, total, dirty, onDisk, lock, th, halt>>

unreserve_buffers(t) ==
    /\ Runs(t, "idle") /\ t \in reserved /\ Held(t) = {}
    /\ reserved' = reserved \ {t}
    /\ UNCHANGED <<load, buf, total, dirty, onDisk, lock, th, halt>>

\* With a lock on the file a client has its blocks to itself; the blocks it
\* writes or evicts on the way are not its own.
Uses(t, x) == \/ th[t].x = x /\ ~Syncing(th[t])
              \/ \E b \in Held(t) \ {th[t].b} : buf[b].blk = x
MayUse(t, x) ==
    /\ ~Uses(t, x)
    /\ \A u \in Clients \ {t} : ~Uses(u, x)

-----------------------------------------------------------------------------
(* Getting a buffer *)

buffer_find_Idle(x) == {b \in Bufs : buf[b].blk = x /\ ~buf[b].busy}
buffer_find(x) == {b \in Bufs : buf[b].blk = x}
CanCreate_OneMore == total <= load.max
CanCreate == total < load.max
Detached == {b \in 1 .. total : buf[b].blk = NULL}

Take(B, b, t) == [B EXCEPT ![b].busy = TRUE, ![b].holder = t]
Free(B, b) == [B EXCEPT ![b].busy = FALSE, ![b].holder = NULL]

\* The caller has buffer b; buffer_read reads it in if need be.
Got(t, b, valid) ==
    th' = [th EXCEPT ![t] = IF th[t].read /\ ~valid
                            THEN [@ EXCEPT !.pc = "readin", !.b = b] ELSE Idle]

\* A failure of buffer_get_internal.  buffer_read_internal releases buffer_lock
\* then, and buffer_read releases it once more.
Failed(t, why) ==
    /\ lock' = NULL
    /\ IF th[t].read THEN halt' = "buffer_read" /\ UNCHANGED th
       ELSE th' = [th EXCEPT ![t].pc = why] /\ UNCHANGED halt

\* buffer_attach, and the way to FSOP_ATTACHBUF; without memory for the hash
\* table the buffer goes back to the detached ones.
buffer_attach(t, b, x) ==
    \/ /\ buf' = Take([buf EXCEPT ![b] = [NoBuf EXCEPT !.blk = x]], b, t)
       /\ th' = [th EXCEPT ![t].pc = "attach", ![t].b = b]
       /\ lock' = NULL /\ UNCHANGED halt
    \/ /\ Has("nomem")
       /\ buf' = [buf EXCEPT ![b] = NoBuf]
       /\ Failed(t, "enomem")

\* buffer_get and buffer_read up to the label again.  The syncer may have asked
\* for help.
buffer_get(t, x, read) ==
    /\ Runs(t, "idle") /\ t \in reserved /\ MayUse(t, x)
    /\ Cardinality(Held(t)) < load.reserve
    /\ \E pc \in {"get"} \cup IF Has("help") THEN {"help"} ELSE {} :
          th' = [th EXCEPT ![t] = [Idle EXCEPT !.pc = pc, !.op = "get", !.x = x, !.read = read]]
    /\ lock' = t
    /\ UNCHANGED <<load, buf, total, dirty, reserved, onDisk, halt>>

\* The first dirty buffer that is not busy is written.
Idlers == SelectSeq(dirty, LAMBDA b : b # 0 /\ ~buf[b].busy)
sync_one_old_buffer(t) ==
    /\ Runs(t, "help")
    /\ \/ /\ Idlers # <<>>
          /\ buf' = Take(buf, Head(Idlers), t)
          /\ th' = [th EXCEPT ![t].pc = "write", ![t].b = Head(Idlers)]
          /\ lock' = NULL
       \/ /\ Idlers = <<>>
          /\ th' = [th EXCEPT ![t].pc = "get"] /\ UNCHANGED <<buf, lock>>
    /\ UNCHANGED <<load, total, dirty, reserved, onDisk, halt>>

\* From the label again on: a buffer of the block, a detached or a new buffer,
\* or one that has to be evicted.
buffer_get_internal(t) ==
    /\ Runs(t, "get")
    /\ LET x == th[t].x IN
       \/ \E b \in buffer_find(x) :
             /\ ~buf[b].busy
             /\ buf' = Take(buf, b, t) /\ Got(t, b, buf[b].valid)
             /\ lock' = NULL /\ UNCHANGED <<total, halt>>
       \/ \E b \in buffer_find(x) :
             /\ buf[b].busy
             /\ th' = [th EXCEPT ![t].pc = "wait", ![t].b = b]
             /\ lock' = NULL /\ UNCHANGED <<buf, total, halt>>
       \/ /\ buffer_find(x) = {} /\ Detached # {}
          /\ \E b \in Detached : buffer_attach(t, b, x)
          /\ UNCHANGED total
       \/ /\ buffer_find(x) = {} /\ Detached = {} /\ CanCreate
          /\ total' = total + 1
          /\ buffer_attach(t, total + 1, x)
       \/ /\ buffer_find(x) = {} /\ Detached = {} /\ (~CanCreate \/ Has("nomem"))
          /\ th' = [th EXCEPT ![t].pc = "evict"]
          /\ lock' = t /\ UNCHANGED <<buf, total, halt>>
    /\ UNCHANGED <<load, dirty, reserved, onDisk>>

\* FSOP_ATTACHBUF came back.  After a failure the buffer is put among the
\* detached ones, which asserts that it is not attached.
attached(t) ==
    /\ Runs(t, "attach")
    /\ \/ /\ Got(t, th[t].b, FALSE)
          /\ UNCHANGED <<buf, total, dirty, onDisk, lock, halt>>
       \/ Has("nomem") /\ Panic("buffer_insert_detached")
    /\ UNCHANGED <<load, reserved>>

\* buffer_readin.  A buffer that could not be read is released again.
buffer_readin(t, ok) ==
    /\ Runs(t, "readin") /\ (ok \/ Has("eio"))
    /\ LET b == th[t].b IN
       \/ /\ ok
          /\ buf' = [buf EXCEPT ![b].valid = TRUE, ![b].latest = (buf[b].blk \in onDisk)]
          /\ th' = [th EXCEPT ![t] = Idle]
       \/ /\ ~ok
          /\ th' = [th EXCEPT ![t].pc = "detach", ![t].op = "release"]
          /\ UNCHANGED buf
    /\ UNCHANGED <<load, total, dirty, reserved, onDisk, lock, halt>>

-----------------------------------------------------------------------------
(* Evicting, waiting, writing *)

\* buffer_evict, which gives up when every buffer is busy.
Targets == {b \in Bufs : buf[b].blk # NULL /\ ~buf[b].busy}
EvictStep_Unwritten(b) == "detach"
EvictStep(b) == IF buf[b].dirty THEN "write" ELSE "detach"
buffer_evict(t) ==
    /\ Runs(t, "evict")
    /\ \/ /\ \E b \in Targets :
                /\ buf' = Take(buf, b, t)
                /\ th' = [th EXCEPT ![t].pc = EvictStep(b), ![t].op = "evict", ![t].b = b]
          /\ lock' = NULL /\ UNCHANGED halt
       \/ /\ Targets = {}
          /\ Failed(t, "eagain") /\ UNCHANGED buf
    /\ UNCHANGED <<load, total, dirty, reserved, onDisk>>

get_failed(t) ==
    /\ Runs(t, "eagain") \/ Runs(t, "enomem")
    /\ th' = [th EXCEPT ![t] = Idle]
    /\ UNCHANGED <<load, buf, total, dirty, reserved, onDisk, lock, halt>>

\* The next place of sync_fs_buffers after place i.
NextPlace(r) == [r EXCEPT !.pc = "scan", !.b = 0, !.x = NULL,
                          !.i = IF r.moved THEN 1 ELSE r.i + 1, !.moved = FALSE]

\* Where a thread goes on when buffer_sync is done or has nothing to do.
Synced(t) == IF Syncing(th[t]) THEN NextPlace(th[t]) ELSE Idle

\* buffer_mark_busy after a wake-up: the buffer may have gone (EDEADBUF), and
\* what a sync or a flush wanted to write may be clean by now.
Gone(t) == buf[th[t].b].blk # th[t].x
Writes(t) == th[t].op = "flush" \/ Syncing(th[t])
buffer_mark_busy(t) ==
    /\ Runs(t, "wait")
    /\ LET b == th[t].b IN
       \/ /\ Gone(t)
          /\ th' = [th EXCEPT ![t] = IF th[t].op = "get" THEN [@ EXCEPT !.pc = "get"] ELSE Synced(t)]
          /\ lock' = (IF th[t].op = "get" \/ Syncing(th[t]) THEN t ELSE NULL)
          /\ UNCHANGED buf
       \/ /\ ~Gone(t) /\ ~buf[b].busy /\ th[t].op = "get"
          /\ buf' = Take(buf, b, t) /\ Got(t, b, buf[b].valid) /\ lock' = NULL
       \/ /\ ~Gone(t) /\ ~buf[b].busy /\ th[t].op = "drop"
          /\ buf' = Take(buf, b, t) /\ th' = [th EXCEPT ![t].pc = "detach"] /\ lock' = NULL
       \/ /\ ~Gone(t) /\ ~buf[b].busy /\ Writes(t) /\ buf[b].dirty
          /\ buf' = Take(buf, b, t) /\ th' = [th EXCEPT ![t].pc = "write"] /\ lock' = NULL
       \/ /\ ~Gone(t) /\ ~buf[b].busy /\ Writes(t) /\ ~buf[b].dirty
          /\ th' = [th EXCEPT ![t] = Synced(t)]
          /\ lock' = (IF Syncing(th[t]) THEN t ELSE NULL)
          /\ UNCHANGED buf
    /\ UNCHANGED <<load, total, dirty, reserved, onDisk, halt>>

\* buffer_writeout_internal when FSOP_WRITEBLOCK is back, and its callers
\* buffer_sync and buffer_flush.
buffer_writeout(t, ok) ==
    /\ Runs(t, "write") /\ (ok \/ Has("eio"))
    /\ LET b == th[t].b
           x == buf[b].blk
           op == th[t].op
           after == CASE op = "evict" -> [th[t] EXCEPT !.pc = IF ok THEN "detach" ELSE "evict"]
                      [] op = "get" -> [th[t] EXCEPT !.pc = "get", !.b = 0]
                      [] Syncing(th[t]) /\ ok -> Synced(t)
                      [] OTHER -> Idle
           ths == [th EXCEPT ![t] = after]
           B == IF op = "evict" /\ ok THEN buf ELSE Free(buf, b)
       IN
       /\ lock' = IF after.pc \in {"detach", "idle"} THEN NULL ELSE t
       /\ \/ /\ ok
             /\ buf' = [B EXCEPT ![b].dirty = FALSE]
             /\ dirty' = buffer_remove_dirty(dirty, b)
             /\ onDisk' = IF buf[b].latest THEN onDisk \cup {x} ELSE onDisk \ {x}
             /\ th' = Paid(ths, x)
          \/ /\ ~ok
             /\ buf' = B /\ th' = ths /\ UNCHANGED <<dirty, onDisk>>
    /\ UNCHANGED <<load, total, reserved, halt>>

-----------------------------------------------------------------------------
(* Using, releasing and dropping a buffer *)

\* The client changes the contents: buffer_mark_valid and buffer_mark_dirty.
buffer_mark_dirty(t, b) ==
    /\ Runs(t, "idle") /\ b \in Held(t)
    /\ LET x == buf[b].blk IN
       /\ buf' = [c \in Bufs |->
             CASE c = b -> [buf[b] EXCEPT !.valid = TRUE, !.dirty = TRUE, !.latest = TRUE]
               [] buf[c].blk = x /\ c # b -> [buf[c] EXCEPT !.latest = FALSE]
               [] OTHER -> buf[c]]
       /\ onDisk' = onDisk \ {x}
    /\ IF buf[b].dirty THEN UNCHANGED <<dirty, th>>
       ELSE dirty' = buffer_insert_dirty(b) /\ th' = Dirtied(th, b)
    /\ UNCHANGED <<load, total, reserved, lock, halt>>

\* buffer_release and buffer_release_and_invalidate: an invalid buffer is
\* detached, any other one keeps its block.
buffer_release(t, b, invalidate) ==
    /\ Runs(t, "idle") /\ b \in Held(t) /\ (invalidate => Has("invalidate"))
    /\ \/ /\ buf[b].valid /\ ~invalidate
          /\ buf' = Free(buf, b) /\ UNCHANGED th
       \/ /\ ~buf[b].valid \/ invalidate
          /\ buf' = [buf EXCEPT ![b].valid = FALSE]
          /\ th' = [th EXCEPT ![t] = [Idle EXCEPT !.pc = "detach", !.x = buf[b].blk, !.b = b,
                                                  !.op = IF invalidate THEN "drop" ELSE "release"]]
    /\ UNCHANGED <<load, total, dirty, reserved, onDisk, lock, halt>>

\* buffer_drop of a block that the client is not using.
buffer_drop(t, x) ==
    /\ Has("drop") /\ Runs(t, "idle") /\ t \in reserved /\ MayUse(t, x)
    /\ \E b \in buffer_find(x) :
          /\ th' = [th EXCEPT ![t] = [Idle EXCEPT !.pc = IF buf[b].busy THEN "wait" ELSE "detach",
                                                  !.op = "drop", !.x = x, !.b = b]]
          /\ buf' = IF buf[b].busy THEN buf ELSE Take(buf, b, t)
    /\ UNCHANGED <<load, total, dirty, reserved, onDisk, lock, halt>>

\* buffer_sync and buffer_flush up to the wait or the write.
Write(t, b, r) ==
    IF buf[b].valid
    THEN /\ th' = [th EXCEPT ![t] = [r EXCEPT !.pc = IF buf[b].busy THEN "wait" ELSE "write",
                                              !.x = buf[b].blk, !.b = b]]
         /\ buf' = IF buf[b].busy THEN buf ELSE Take(buf, b, t)
         /\ lock' = NULL /\ UNCHANGED halt
    ELSE halt' = "b_valid" /\ UNCHANGED <<th, buf, lock>>

buffer_flush(t, x) ==
    /\ Has("flush") /\ Runs(t, "idle") /\ MayUse(t, x)
    /\ \E b \in buffer_find(x) : buf[b].dirty /\ Write(t, b, [Idle EXCEPT !.op = "flush"])
    /\ UNCHANGED <<load, total, dirty, reserved, onDisk>>

\* buffer_clean when FSOP_DETACHBUF is back, and what its callers do next.
\* buffer_evict goes on to attach the buffer to the block it is wanted for; that
\* nobody else did so in the meantime is not looked at again.  Nobody needs the
\* contents of a dropped block: what the disk has counts as their latest version.
buffer_clean(t) ==
    /\ Runs(t, "detach")
    /\ LET b == th[t].b
           x == buf[b].blk
           after == IF th[t].op = "dropfs" THEN [Idle EXCEPT !.pc = "dropfs", !.op = "dropfs"] ELSE Idle
       IN
       /\ dirty' = buffer_remove_dirty(dirty, b)
       /\ \/ /\ th[t].op = "evict"
             /\ buffer_attach(t, b, th[t].x) /\ UNCHANGED onDisk
          \/ /\ th[t].op # "evict"
             /\ buf' = [buf EXCEPT ![b] = NoBuf]
             /\ onDisk' = IF th[t].op = "drop" THEN onDisk \cup {x} ELSE onDisk
             /\ th' = Paid([th EXCEPT ![t] = after], x)
             /\ lock' = (IF after.pc = "dropfs" THEN t ELSE NULL)
             /\ UNCHANGED halt
    /\ UNCHANGED <<load, total, reserved>>

-----------------------------------------------------------------------------
(* sync_fs_buffers, drop_fs_buffers and the syncer *)

\* vfs_unmount calls it too.
sync_fs_buffers(t, op) ==
    /\ Has(op) /\ Runs(t, "idle") /\ Held(t) = {} /\ t \notin reserved
    /\ th' = [th EXCEPT ![t] = [Idle EXCEPT !.pc = "scan", !.op = op, !.i = 1, !.owed = DirtyBlocks]]
    /\ lock' = t
    /\ UNCHANGED <<load, buf, total, dirty, reserved, onDisk, halt>>

\* One round of the loop.
sync_scan(t) ==
    /\ Runs(t, "scan")
    /\ LET i == th[t].i IN
       \/ /\ i > Len(dirty) \/ (i <= Len(dirty) /\ dirty[i] \in th[t].newer)
          /\ th' = [th EXCEPT ![t].pc = "synced"]
          /\ lock' = NULL /\ UNCHANGED <<buf, halt>>
       \/ /\ i <= Len(dirty) /\ dirty[i] = 0
          /\ th' = [th EXCEPT ![t].i = i + 1]
          /\ UNCHANGED <<lock, buf, halt>>
       \/ /\ i <= Len(dirty) /\ dirty[i] \notin th[t].newer \cup {0}
          /\ Write(t, dirty[i], th[t])
    /\ UNCHANGED <<load, total, dirty, reserved, onDisk>>

\* The return, and for vfs_unmount the check that no file is in use.
sync_done(t) ==
    /\ Runs(t, "synced")
    /\ \/ /\ th[t].op = "umount" /\ reserved = {}
          /\ th' = [th EXCEPT ![t] = [Idle EXCEPT !.pc = "dropfs", !.op = "dropfs"]]
       \/ /\ th[t].op = "sync" \/ reserved # {}
          /\ th' = [th EXCEPT ![t] = Idle]
    /\ UNCHANGED <<load, buf, total, dirty, reserved, onDisk, lock, halt>>

\* One round of the loop over the attached buffers.
drop_fs_buffers(t) ==
    /\ Runs(t, "dropfs")
    /\ \/ /\ \E b \in Bufs :
                /\ buf[b].blk # NULL
                /\ IF buf[b].dirty \/ buf[b].busy \/ ~buf[b].valid
                   THEN halt' = "drop_fs_buffers" /\ UNCHANGED <<buf, th>>
                   ELSE /\ buf' = Take(buf, b, t)
                        /\ th' = [th EXCEPT ![t].pc = "detach", ![t].b = b]
                        /\ UNCHANGED halt
          /\ lock' = NULL
       \/ /\ \A b \in Bufs : buf[b].blk = NULL
          /\ th' = [th EXCEPT ![t] = Idle]
          /\ lock' = NULL /\ UNCHANGED <<buf, halt>>
    /\ UNCHANGED <<load, total, dirty, reserved, onDisk>>

\* sync_lru_buffers and sync_old_buffers: a dirty buffer that is old enough, or
\* far enough down the LRU list, is written.
syncer ==
    /\ Has("syncer") /\ Runs(Syncer, "idle")
    /\ \E b \in Bufs : buf[b].dirty /\ Write(Syncer, b, [Idle EXCEPT !.op = "flush"])
    /\ UNCHANGED <<load, total, dirty, reserved, onDisk>>

Halted == halt # "no" /\ UNCHANGED vars

-----------------------------------------------------------------------------
Next ==
    \/ \E t \in Clients :
          \/ reserve_buffers(t) \/ unreserve_buffers(t)
          \/ \E x \in Blocks :
                \/ \E read \in BOOLEAN : buffer_get(t, x, read)
                \/ buffer_drop(t, x) \/ buffer_flush(t, x)
          \/ sync_one_old_buffer(t) \/ buffer_get_internal(t) \/ attached(t)
          \/ \E ok \in BOOLEAN : buffer_readin(t, ok)
          \/ buffer_evict(t) \/ get_failed(t)
          \/ \E b \in Bufs : buffer_mark_dirty(t, b)
          \/ \E b \in Bufs, inv \in BOOLEAN : buffer_release(t, b, inv)
          \/ buffer_clean(t)
          \/ \E op \in {"sync", "umount"} : sync_fs_buffers(t, op)
          \/ sync_scan(t) \/ sync_done(t) \/ drop_fs_buffers(t)
    \/ \E t \in Threads :
          \/ buffer_mark_busy(t)
          \/ \E ok \in BOOLEAN : buffer_writeout(t, ok)
    \/ syncer
    \/ Halted

Spec == Init /\ [][Next]_vars

-----------------------------------------------------------------------------
(* Properties *)

\* The variables keep their types, and no more buffers are created than
\* max_total_buffers allows (buffer_get_internal).
TypeOK ==
    /\ buf \in [Bufs -> [blk : Blocks \cup {NULL}, busy : BOOLEAN, valid : BOOLEAN,
                         holder : Threads \cup {NULL}, dirty : BOOLEAN, latest : BOOLEAN]]
    /\ total \in 0 .. load.max
    /\ dirty \in Seq(Bufs \cup {0})
    /\ reserved \subseteq Clients
    /\ onDisk \subseteq Blocks
    /\ lock \in Threads \cup {NULL}

\* No two buffers are attached to the same block, although buffer_get_internal
\* gives up buffer_lock while it evicts and does not look for the block again:
\* it relies on the file system's locks for that.
OneBufferPerBlock ==
    \A b, c \in Bufs : buf[b].blk = buf[c].blk /\ buf[b].blk # NULL => b = c

\* Nothing that was written is lost: a valid buffer holds the latest version of
\* its block, and a block whose latest version is not on the disk has a dirty
\* buffer, through every race of evictions, syncs, drops and failed I/O.
LatestVersion ==
    /\ \A b \in Bufs : buf[b].valid => buf[b].latest
    /\ \A x \in Blocks \ onDisk : \E b \in Bufs : buf[b].blk = x /\ buf[b].dirty

\* A buffer is in dirty_buffers exactly once when it is dirty and not at all
\* otherwise, whatever is removed and compacted while others go through the array
\* (the assertions in buffer_remove_dirty, compact_dirty_buffers and the syncer).
DirtyListed ==
    \A b \in Bufs :
        Cardinality({i \in DOMAIN dirty : dirty[i] = b}) = IF buf[b].dirty THEN 1 ELSE 0

\* When sync_fs_buffers returns 0, every block that was dirty when it began has
\* been written (or dropped) since, although the array moves under the loop and
\* the loop stops at the first buffer with a larger epoch.
SyncComplete == \A t \in Clients : th[t].pc = "synced" => th[t].owed = {}

\* buffer_evict finds every buffer busy only when a thread holds one without a
\* reservation (the syncer or a sync), or a client holds one more than it
\* reserved while it drops or flushes a block (reserve_buffers).
ReservationCovers ==
    \A t \in Clients :
        th[t].pc = "evict" /\ Targets = {} /\ total = load.max =>
            \/ \E b \in Bufs : buf[b].busy /\ buf[b].holder \notin reserved
            \/ \E u \in reserved : Cardinality(Held(u)) > load.reserve

\* The assertion KASSERT(b->b_valid) of sync_fs_buffers and buffer_sync.  It
\* fails while buffer_release_and_invalidate is in FSOP_DETACHBUF with a dirty
\* buffer that is no longer valid and still in dirty_buffers.
DirtyIsValid == halt # "b_valid"

\* An operation with a reservation gets its buffers (the comment on
\* reserve_buffers).  The buffer that the syncer writes is not reserved, and the
\* last client then gets EAGAIN.
ReservationEnough == \A t \in Clients : th[t].pc # "eagain"

\* No buffer is dirty when drop_fs_buffers runs (its comment).  vfs_unmount syncs
\* before sfs_unmount looks for open files, so an operation may fit in between.
UnmountClean == halt # "drop_fs_buffers"
=============================================================================
