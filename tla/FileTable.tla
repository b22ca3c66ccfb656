----------------------------- MODULE FileTable -----------------------------
(***************************************************************************)
(* The kernel file table and its reference-counted handles                 *)
(* (kern/vfs/filetable.c) with the system calls that use them: open,       *)
(* close, dup2, lseek, read and write (kern/syscall), and the parts of     *)
(* fork (proc_create, fork_common) and exit that touch descriptors.        *)
(*                                                                         *)
(* What is done under ft_lock is one step, with two exceptions: sys_close  *)
(* looks at the table before it takes the lock, and fh_close decides under  *)
(* fh_ref_lock that a handle has no other user and frees it afterwards,    *)
(* while fh_incref needs no ft_lock.  A process has one thread, so its     *)
(* descriptors change only in its own calls; fork fills those of a child   *)
(* that does not run yet.  Calls that only return an error, and reads and  *)
(* writes of devices that cannot seek, change nothing here.                *)
(***************************************************************************)
EXTENDS Integers, FiniteSets

CONSTANTS Procs,     \* process structures, the kernel's among them
          kproc,     \* the kernel's process: it forks and never exits
          NoProc,    \* nobody
          NULL,      \* an empty slot of the table
          OPEN_MAX,  \* descriptors of a process
          FT_MAX,    \* slots of the table, also the value FD_FREE
          STD,       \* the number of console descriptors (3 in the code)
          RefMod,    \* fh_refcount counts modulo this (2^32 in the code)
          MaxForks,  \* bound on the number of forks
          MaxOff     \* bound on file offsets

\* struct filehandle: fh_refcount, fh_offset, the holder of fh_use_lock, and
\* whether the file can seek
Handle == [ref : 0..(RefMod - 1), off : 0..MaxOff,
           use_lock : Procs \cup {NoProc}, seekable : BOOLEAN]

ASSUME FileTableAssumption ==
  /\ IsFiniteSet(Procs) /\ kproc \in Procs /\ NoProc \notin Procs
  /\ STD \in Nat /\ OPEN_MAX \in Nat /\ FT_MAX \in Nat
  /\ 0 < OPEN_MAX /\ STD <= OPEN_MAX /\ STD <= FT_MAX
  /\ RefMod \in Nat /\ RefMod > 1 /\ MaxForks \in Nat /\ MaxOff \in Nat
  /\ NULL \notin Handle

FDs == 0..(OPEN_MAX - 1)
Slots == 0..(FT_MAX - 1)
StdFDs == 0..(STD - 1)
FD_FREE == FT_MAX

VARIABLES pc,      \* where each process is; "none": no such process
          arg,     \* arg[p]: the descriptors of its call, or fork's index and child;
                   \* in fh_close, the descriptor and where to go on
          p_fds,   \* p_fds[p][fd]: a slot, or FD_FREE
          ft_fhs,  \* ft_fhs[i]: a file handle or NULL
          off,     \* off[p]: the offset a read or write of p started at
          forks,   \* number of forks so far
          failed,  \* how a fork has failed so far: "strdup", "late"
          halt     \* the assertion that failed

vars == <<pc, arg, p_fds, ft_fhs, off, forks, failed, halt>>

\* fh_init
fh_init(seekable) == [ref |-> 1, off |-> 0, use_lock |-> NoProc, seekable |-> seekable]

NoArg == [fd |-> 0, new |-> 0, child |-> NoProc, gone |-> 0, to |-> "run"]

\* ft_init, and the kernel's process with the console descriptors.
Init ==
  /\ pc = [p \in Procs |-> IF p = kproc THEN "run" ELSE "none"]
  /\ arg = [p \in Procs |-> NoArg]
  /\ p_fds = [p \in Procs |-> [fd \in FDs |-> IF p = kproc /\ fd \in StdFDs THEN fd ELSE FD_FREE]]
  /\ ft_fhs = [i \in Slots |-> IF i \in StdFDs THEN fh_init(FALSE) ELSE NULL]
  /\ off = [p \in Procs |-> 0]
  /\ forks = 0
  /\ failed = {}
  /\ halt = "no"

Goto(p, l) == pc' = [pc EXCEPT ![p] = l]
Call(p, l, a) == Goto(p, l) /\ arg' = [arg EXCEPT ![p] = a]
Fail(what) == halt' = what /\ UNCHANGED <<pc, arg, p_fds, ft_fhs, off, forks, failed>>

\* A process in user mode.
User(p) == pc[p] = "run" /\ p # kproc

AddRef(fh, n) == [fh EXCEPT !.ref = (@ + n) % RefMod]

\* ft_lock is held over two steps only by a process that frees a handle.
ft_unlocked == \A p \in Procs : pc[p] # "free"

sys_open(p) ==
  /\ User(p) /\ ft_unlocked
  /\ \E fd \in FDs, i \in Slots :
       /\ p_fds[p][fd] = FD_FREE /\ \A j \in 0..(fd - 1) : p_fds[p][j] # FD_FREE
       /\ ft_fhs[i] = NULL /\ \A j \in 0..(i - 1) : ft_fhs[j] # NULL
       /\ ft_fhs' = [ft_fhs EXCEPT ![i] = fh_init(TRUE)]
       /\ p_fds' = [p_fds EXCEPT ![p][fd] = i]
  /\ UNCHANGED <<pc, arg, off, forks, failed, halt>>

\* The tests of sys_close, made without ft_lock.
sys_close(p) ==
  /\ User(p)
  /\ \E fd \in FDs :
       /\ p_fds[p][fd] # FD_FREE /\ ft_fhs[p_fds[p][fd]] # NULL
       /\ Call(p, "close", [NoArg EXCEPT !.fd = fd])
  /\ UNCHANGED <<p_fds, ft_fhs, off, forks, failed, halt>>

\* fh_close under fh_ref_lock: whether it frees the handle.
Last(fh) == fh.ref <= 1

\* Under ft_lock, the end of sys_close and the body of ft_close: fd's handle
\* loses a reference, fd becomes free and p goes on to l; the last reference
\* goes with the handle.
CloseFD(p, fd, l) ==
  LET i == p_fds[p][fd] IN
  /\ ft_unlocked
  /\ \/ /\ ft_fhs[i] = NULL
        /\ Fail("close")
     \/ /\ ft_fhs[i] # NULL /\ ~Last(ft_fhs[i])
        /\ ft_fhs' = [ft_fhs EXCEPT ![i] = AddRef(@, -1)]
        /\ p_fds' = [p_fds EXCEPT ![p][fd] = FD_FREE]
        /\ Goto(p, l)
        /\ UNCHANGED <<arg, off, forks, failed, halt>>
     \/ /\ ft_fhs[i] # NULL /\ Last(ft_fhs[i])
        /\ Call(p, "free", [arg[p] EXCEPT !.gone = fd, !.to = l])
        /\ UNCHANGED <<p_fds, ft_fhs, off, forks, failed, halt>>

\* The rest of fh_close, with fh_ref_lock released, and of its caller.
fh_close(p) ==
  LET a == arg[p] IN
  /\ pc[p] = "free"
  /\ ft_fhs' = [ft_fhs EXCEPT ![p_fds[p][a.gone]] = NULL]
  /\ p_fds' = [p_fds EXCEPT ![p][a.gone] = FD_FREE]
  /\ Call(p, a.to, [a EXCEPT !.gone = 0, !.to = "run"])
  /\ UNCHANGED <<off, forks, failed, halt>>

close_locked(p) == pc[p] = "close" /\ CloseFD(p, arg[p].fd, "run")

\* ft_get's assertion fails: a descriptor in use, and no handle.
ft_get_fails(p) ==
  /\ User(p) /\ ft_unlocked
  /\ \E fd \in FDs : p_fds[p][fd] # FD_FREE /\ ft_fhs[p_fds[p][fd]] = NULL
  /\ Fail("ft_get")

\* sys_dup2: with newfd open it is closed first, and then oldfd's handle gets
\* a reference.
sys_dup2(p) ==
  /\ User(p) /\ ft_unlocked
  /\ \E old, new \in FDs :
       /\ old # new /\ p_fds[p][old] # FD_FREE /\ ft_fhs[p_fds[p][old]] # NULL
       /\ p_fds[p][new] # FD_FREE => ft_fhs[p_fds[p][new]] # NULL
       /\ Call(p, IF p_fds[p][new] = FD_FREE THEN "dup" ELSE "dup_close",
               [NoArg EXCEPT !.fd = old, !.new = new])
  /\ UNCHANGED <<p_fds, ft_fhs, off, forks, failed, halt>>

dup2_close(p) == pc[p] = "dup_close" /\ CloseFD(p, arg[p].new, "dup")

\* Mutant: no reference for the new descriptor.
dup2_incref_None(p) ==
  /\ pc[p] = "dup"
  /\ p_fds' = [p_fds EXCEPT ![p][arg[p].new] = p_fds[p][arg[p].fd]]
  /\ Goto(p, "run")
  /\ UNCHANGED <<arg, ft_fhs, off, forks, failed, halt>>

\* fh_incref, then the descriptor.
dup2_incref(p) ==
  LET i == p_fds[p][arg[p].fd] IN
  /\ pc[p] = "dup" /\ ft_fhs[i] # NULL
  /\ ft_fhs' = [ft_fhs EXCEPT ![i] = AddRef(@, 1)]
  /\ p_fds' = [p_fds EXCEPT ![p][arg[p].new] = i]
  /\ Goto(p, "run")
  /\ UNCHANGED <<arg, off, forks, failed, halt>>

\* read, write and lseek of a file that can seek: ft_get, then fh_use_lock.
use_get(p) ==
  /\ User(p) /\ ft_unlocked
  /\ \E fd \in FDs :
       /\ p_fds[p][fd] # FD_FREE
       /\ ft_fhs[p_fds[p][fd]] # NULL /\ ft_fhs[p_fds[p][fd]].seekable
       /\ Call(p, "use", [NoArg EXCEPT !.fd = fd])
  /\ UNCHANGED <<p_fds, ft_fhs, off, forks, failed, halt>>

\* The slot of the handle p is using.
Using(p) == p_fds[p][arg[p].fd]

sys_lseek(p) ==
  /\ pc[p] = "use" /\ ft_fhs[Using(p)] # NULL /\ ft_fhs[Using(p)].use_lock = NoProc
  /\ \E o \in 0..MaxOff : ft_fhs' = [ft_fhs EXCEPT ![Using(p)].off = o]
  /\ Goto(p, "run")
  /\ UNCHANGED <<arg, p_fds, off, forks, failed, halt>>

\* Mutant: the use lock is not taken.
readwrite_start_NoLock(p) ==
  /\ pc[p] = "use" /\ ft_fhs[Using(p)] # NULL /\ ft_fhs[Using(p)].use_lock = NoProc
  /\ off' = [off EXCEPT ![p] = ft_fhs[Using(p)].off]
  /\ Goto(p, "io")
  /\ UNCHANGED <<arg, p_fds, ft_fhs, forks, failed, halt>>

\* readwrite starts VOP_READ or VOP_WRITE, which may sleep, at the offset.
readwrite_start(p) ==
  /\ pc[p] = "use" /\ ft_fhs[Using(p)] # NULL /\ ft_fhs[Using(p)].use_lock = NoProc
  /\ ft_fhs' = [ft_fhs EXCEPT ![Using(p)].use_lock = p]
  /\ off' = [off EXCEPT ![p] = ft_fhs[Using(p)].off]
  /\ Goto(p, "io")
  /\ UNCHANGED <<arg, p_fds, forks, failed, halt>>

\* Mutant: adds the new offset to the old one.
readwrite_end_AddsOffset(p) ==
  /\ pc[p] = "io" /\ ft_fhs[Using(p)] # NULL
  /\ \E n \in 0..(MaxOff - off[p]) :
       ft_fhs' = [ft_fhs EXCEPT ![Using(p)].off = @ + off[p] + n,
                                ![Using(p)].use_lock = NoProc]
  /\ off' = [off EXCEPT ![p] = 0]
  /\ Goto(p, "run")
  /\ UNCHANGED <<arg, p_fds, forks, failed, halt>>

\* It is done: nothing on an error, or the offset moves by what was done.
readwrite_end(p) ==
  /\ pc[p] = "io" /\ ft_fhs[Using(p)] # NULL
  /\ \E n \in 0..(MaxOff - off[p]) :
       ft_fhs' = [ft_fhs EXCEPT ![Using(p)].off = off[p] + n,
                                ![Using(p)].use_lock = NoProc]
  /\ off' = [off EXCEPT ![p] = 0]
  /\ Goto(p, "run")
  /\ UNCHANGED <<arg, p_fds, forks, failed, halt>>

\* A handle that was looked up is used after it was freed.
freed_use(p) ==
  /\ pc[p] \in {"dup", "use", "io"} /\ ft_fhs[Using(p)] = NULL
  /\ Fail("freed")

StdRefs(n) == [i \in Slots |-> IF i \in StdFDs THEN AddRef(ft_fhs[i], n) ELSE ft_fhs[i]]
StdGone == \E i \in StdFDs : ft_fhs[i] = NULL

\* proc_create: the child has the console descriptors, with references.
proc_create(p) ==
  /\ pc[p] = "run" /\ forks < MaxForks
  /\ \/ StdGone /\ Fail("fh_incref")
     \/ /\ ~StdGone
        /\ ft_fhs' = StdRefs(1)
        /\ \E c \in Procs :
             /\ pc[c] = "none"
             /\ pc' = [pc EXCEPT ![p] = "fork", ![c] = "new"]
             /\ arg' = [arg EXCEPT ![p] = [NoArg EXCEPT !.child = c]]
             /\ p_fds' = [p_fds EXCEPT ![c] = [fd \in FDs |-> IF fd \in StdFDs THEN fd ELSE FD_FREE]]
        /\ forks' = forks + 1
        /\ UNCHANGED <<off, failed, halt>>

\* proc_create when kstrdup fails: cleanup2 drops references not taken yet.
proc_create_strdup(p) ==
  /\ pc[p] = "run" /\ forks < MaxForks
  /\ \/ StdGone /\ Fail("fh_decref")
     \/ /\ ~StdGone
        /\ ft_fhs' = StdRefs(-1)
        /\ forks' = forks + 1
        /\ failed' = failed \cup {"strdup"}
        /\ UNCHANGED <<pc, arg, p_fds, off, halt>>

\* A round of fork_common's loop: the descriptor, and a reference if it is in
\* use.
fork_copy_fd(p) ==
  LET fd == arg[p].fd  i == p_fds[p][fd] IN
  /\ pc[p] = "fork" /\ fd < OPEN_MAX /\ (i # FD_FREE => ft_unlocked)
  /\ \/ i # FD_FREE /\ ft_fhs[i] = NULL /\ Fail("ft_get")
     \/ /\ i # FD_FREE => ft_fhs[i] # NULL
        /\ p_fds' = [p_fds EXCEPT ![arg[p].child][fd] = i]
        /\ ft_fhs' = IF i = FD_FREE THEN ft_fhs ELSE [ft_fhs EXCEPT ![i] = AddRef(@, 1)]
        /\ arg' = [arg EXCEPT ![p].fd = @ + 1]
        /\ UNCHANGED <<pc, off, forks, failed, halt>>

fork_done(p) ==
  /\ pc[p] = "fork" /\ arg[p].fd = OPEN_MAX
  /\ pc' = [pc EXCEPT ![p] = "run", ![arg[p].child] = "run"]
  /\ arg' = [arg EXCEPT ![p] = NoArg]
  /\ UNCHANGED <<p_fds, ft_fhs, off, forks, failed, halt>>

NoFDs == [fd \in FDs |-> FD_FREE]

\* No memory for the child's list node, address space or trap frame:
\* proc_destroy, which closes no descriptor.
fork_late_failure(p) ==
  /\ pc[p] = "fork" /\ arg[p].fd = OPEN_MAX
  /\ pc' = [pc EXCEPT ![p] = "run", ![arg[p].child] = "none"]
  /\ p_fds' = [p_fds EXCEPT ![arg[p].child] = NoFDs]
  /\ arg' = [arg EXCEPT ![p] = NoArg]
  /\ failed' = failed \cup {"late"}
  /\ UNCHANGED <<ft_fhs, off, forks, halt>>

\* kern__exit closes the descriptors, the first in use at each step ...
kern__exit(p) ==
  /\ User(p)
  /\ Call(p, "exit", NoArg)
  /\ UNCHANGED <<p_fds, ft_fhs, off, forks, failed, halt>>

exit_close(p) ==
  /\ pc[p] = "exit"
  /\ \E fd \in FDs : /\ p_fds[p][fd] # FD_FREE
                     /\ \A j \in 0..(fd - 1) : p_fds[p][j] = FD_FREE
                     /\ CloseFD(p, fd, "exit")

\* ... and at last the process is gone (module ProcLife has the way there).
exit_done(p) ==
  /\ pc[p] = "exit" /\ p_fds[p] = NoFDs
  /\ Call(p, "none", NoArg)
  /\ UNCHANGED <<p_fds, ft_fhs, off, forks, failed, halt>>

Next ==
  /\ halt = "no"
  /\ \E p \in Procs :
       \/ sys_open(p) \/ sys_close(p) \/ close_locked(p) \/ fh_close(p) \/ ft_get_fails(p)
       \/ sys_dup2(p) \/ dup2_close(p) \/ dup2_incref(p)
       \/ use_get(p) \/ sys_lseek(p) \/ readwrite_start(p) \/ readwrite_end(p) \/ freed_use(p)
       \/ proc_create(p) \/ proc_create_strdup(p) \/ fork_copy_fd(p)
       \/ fork_done(p) \/ fork_late_failure(p)
       \/ kern__exit(p) \/ exit_close(p) \/ exit_done(p)

Spec == Init /\ [][Next]_vars
-----------------------------------------------------------------------------
(* Properties *)

Args == [fd : 0..OPEN_MAX, new : FDs, child : Procs \cup {NoProc}, gone : FDs,
         to : {"run", "dup", "exit"}]

\* Type invariant.
TypeOK ==
  /\ pc \in [Procs -> {"none", "new", "run", "close", "dup_close", "dup", "use", "io",
                       "fork", "exit", "free"}]
  /\ arg \in [Procs -> Args]
  /\ p_fds \in [Procs -> [FDs -> Slots \cup {FD_FREE}]]
  /\ ft_fhs \in [Slots -> Handle \cup {NULL}]
  /\ off \in [Procs -> 0..MaxOff]
  /\ forks \in 0..MaxForks
  /\ failed \subseteq {"strdup", "late"}

\* The descriptors, of all processes, that refer to slot i.
RefsTo(fds, i) == {r \in Procs \X FDs : fds[r[1]][r[2]] = i}
Referring(i) == RefsTo(p_fds, i)

\* The slots whose counts can be relied on: after a failed fork has dropped
\* references it never took, not the console's.
Sound == IF "strdup" \in failed THEN Slots \ StdFDs ELSE Slots

\* Every descriptor in use has a handle behind it, with a count of at least
\* the descriptors that refer to it: no close frees a handle another process
\* still uses.  For the console's handles this holds until fork drops
\* references it never took.
RefsCoverFds ==
  \A i \in Sound : Referring(i) # {} =>
    ft_fhs[i] # NULL /\ ft_fhs[i].ref >= Cardinality(Referring(i))

\* While a process reads or writes, no other process that shares the handle
\* moves the offset (in a slot that keeps its handle).
OffsetStable ==
  \A p \in Procs :
    pc[p] = "io" /\ Using(p) \in Sound =>
      /\ ft_fhs[Using(p)] # NULL
      /\ ft_fhs[Using(p)].off = off[p]
      /\ ft_fhs[Using(p)].use_lock = p

\* Unless a fork failed half way, files that were opened are closed when nobody
\* refers to them any more: a slot other than the console's is empty as soon
\* as its last descriptor goes.
NoHandleLeft ==
  "late" \in failed \/ \A i \in Slots \ StdFDs : Referring(i) = {} => ft_fhs[i] = NULL

\* What the descriptors of p are at each place of its calls: those of a call
\* are in use until it closes them, and a child has the console's where
\* fork_common has not copied yet.
InUse(p, fd) == fd \in FDs /\ p_fds[p][fd] # FD_FREE
Fresh(fd) == IF fd \in StdFDs THEN fd ELSE FD_FREE
FdsByPlace(p) ==
  /\ pc[p] = "none" => \A fd \in FDs : p_fds[p][fd] = FD_FREE
  /\ pc[p] \in {"close", "dup_close", "dup", "use", "io"} => InUse(p, arg[p].fd)
  /\ pc[p] \in {"dup_close", "dup"} => arg[p].fd # arg[p].new
  /\ pc[p] = "dup_close" => InUse(p, arg[p].new)
  /\ pc[p] = "dup" => p_fds[p][arg[p].new] = FD_FREE
  /\ pc[p] = "free" =>
       /\ InUse(p, arg[p].gone)
       /\ arg[p].to = "dup" => /\ arg[p].gone = arg[p].new /\ arg[p].fd # arg[p].new
                               /\ InUse(p, arg[p].fd)
  /\ pc[p] = "fork" =>
       /\ arg[p].child \in Procs /\ pc[arg[p].child] = "new"
       /\ \A fd \in FDs : fd >= arg[p].fd => p_fds[arg[p].child][fd] = Fresh(fd)

\* A child that does not run yet is being made by one process.
OneParent ==
  \A p, q \in Procs : pc[p] = "fork" /\ pc[q] = "fork" /\ arg[p].child = arg[q].child => p = q

\* The count of a handle that sys_open made is the number of descriptors that
\* refer to it; a fork that fails late leaves it too high.
OpenedExact ==
  \A i \in Slots \ StdFDs : ft_fhs[i] # NULL =>
    /\ ft_fhs[i].ref >= 1
    /\ "late" \notin failed => ft_fhs[i].ref = Cardinality(Referring(i))

TableInv ==
  /\ TypeOK
  /\ \A p \in Procs : FdsByPlace(p)
  /\ OneParent /\ RefsCoverFds /\ OpenedExact /\ OffsetStable

\* The kernel's process keeps its console descriptors, from which proc_create
\* gives every new process its own.
ConsoleKept ==
  pc[kproc] \in {"run", "fork"} /\ \A fd \in StdFDs : p_fds[kproc][fd] = fd

\* While a handle is being freed no other descriptor refers to it, so nobody can
\* get a reference in between.
FreedAlone ==
  \A p \in Procs : pc[p] = "free" /\ p_fds[p][arg[p].gone] \in Sound =>
    \A q \in Procs, fd \in FDs :
      p_fds[q][fd] = p_fds[p][arg[p].gone] => q = p /\ fd = arg[p].gone

\* The inductive invariant.
IndInv == TableInv /\ ConsoleKept /\ FreedAlone

\* No count has reached the largest value of an unsigned.
CountsBelowMax == \A i \in Sound : ft_fhs[i] # NULL => ft_fhs[i].ref < RefMod - 1

\* filetable.h: fh_refcount is "how many FD's reference this entry", at least
\* whenever no process is inside a call.
RefsCountFds ==
  (\A p \in Procs : pc[p] \in {"run", "none"}) =>
    \A i \in Slots : ft_fhs[i] # NULL => ft_fhs[i].ref = Cardinality(Referring(i))

\* The assertions of ft_get, ft_close, fh_incref and fh_decref ("Make sure
\* pointer is valid") hold.
HandlesValid == halt = "no"
=============================================================================
