--------------------------------- MODULE Vfs ---------------------------------
(***************************************************************************)
(* The VFS layer between system calls and file systems: the list of known  *)
(* devices with what is mounted on them (vfslist.c), current directories   *)
(* and the boot file system (vfscwd.c, vfslookup.c), operations on paths   *)
(* (vfspath.c), device vnodes (device.c) and the reference counts that     *)
(* keep a file system from going away under its users (vnode.c).           *)
(*                                                                         *)
(* Every process has one thread.  A call is a list of instructions; an     *)
(* instruction is one stretch between two points where another process can *)
(* get in.  knowndevs_lock is held over several of them.  An instruction   *)
(* that can fail carries err, the local variables that the error return    *)
(* taken there gives to VOP_DECREF: they differ from exit to exit, and the *)
(* model drops nothing that the code does not drop.  A file system has a   *)
(* root and one other directory.                                           *)
(***************************************************************************)
EXTENDS Integers, Sequences, FiniteSets, SequencesExt, FiniteSetsExt, TLC

CONSTANTS
    Procs,
    Known,        \* the devices that drivers add at boot, in order: name, mountable, fs
    Paths,        \* the paths that processes use: via, dev, rest
    Loads,        \* the calls that each process makes: a set of functions to sequences
    NoNode

VARIABLES
    devs,         \* knowndevs: the name, whether it is mountable, and kd_fs
    refs,         \* vn_refcount
    cwd, boot,    \* p_cwd and bootfs_vnode
    open,         \* the vnodes that a process has open
    swap,         \* the vnodes that vfs_swapon handed out
    code,         \* the instructions that a process has still to execute
    hold,         \* the vnode pointers among its local variables, and which of them are references
    lock,         \* the holder of knowndevs_lock
    todo, halt

vars == <<devs, refs, cwd, boot, open, swap, code, hold, lock, todo, halt>>

Names == 1..Len(Known)
Kinds == {"dev", "root", "dir"}
Node(kind, d) == [kind |-> kind, d |-> d]
Nodes == [kind : Kinds, d : Names]
HasFs(v) == v.kind # "dev"

\* vfs_bootstrap and the drivers: a device has a vnode with one reference that is never given up.
Init ==
    /\ devs = <<>>
    /\ refs = [v \in Nodes |-> 0]
    /\ cwd = [p \in Procs |-> NoNode]
    /\ boot = NoNode
    /\ open = [p \in Procs |-> <<>>]
    /\ swap = <<>>
    /\ code = [p \in Procs |-> <<>>]
    /\ hold = [p \in Procs |-> <<>>]
    /\ lock = NoNode
    /\ todo \in Loads
    /\ halt = "no"

-----------------------------------------------------------------------------
(* Reference counts *)

\* vnode_incref
Incref(v) == refs' = [refs EXCEPT ![v] = @ + 1]

\* vnode_decref.  At the last one VOP_RECLAIM removes the vnode from memory; the list of devices
\* keeps a reference to each of its vnodes, so dev_reclaim is never reached.
Decref(v) == refs' = [refs EXCEPT ![v] = @ - 1]

-----------------------------------------------------------------------------
(* The list of devices *)

\* vfs_doadd at boot.  badnames refuses a name that is taken; the raw name is made from it.
AddDev ==
    /\ Len(devs) < Len(Known)
    /\ LET d == Len(devs) + 1 IN
       /\ devs' = Append(devs, Known[d])
       /\ refs' = [refs EXCEPT ![Node("dev", d)] = 1]
    /\ UNCHANGED <<cwd, boot, open, code, hold, lock, todo, swap, halt>>

Mounted(d) == devs[d].fs = "fs"

\* What vfs_getroot finds for a device name.  via "raw" asks for the raw device.
Found(via, d) ==
    IF via = "raw" THEN IF devs[d].mountable THEN "dev" ELSE "none"
    ELSE IF Mounted(d) THEN "root"
    ELSE IF devs[d].mountable THEN "none"         \* ENXIO
    ELSE "dev"

\* Mutant: any device will do.
Mountable_Any(d) == TRUE

\* findmount
Mountable(d) == devs[d].mountable

\* FSOP_UNMOUNT of a file system with vnodes in memory is EBUSY.
\* Mutant: the vnodes are not looked at.
Busy_Not(d) == FALSE

Busy(d) == \E k \in {"root", "dir"} : refs[Node(k, d)] > 0

-----------------------------------------------------------------------------
(* The instructions.  Each takes the first one off the code; Go prepends others. *)

Instr(p) == Head(code[p])
Go(p, more) == code' = [code EXCEPT ![p] = more \o Tail(@)]

\* VOP_DECREF of the local variables xs, one after the other
Decrefs(xs) == [k \in DOMAIN xs |-> [i |-> "decref", x |-> xs[k]]]

\* An error return: the callee drops its own variables xs, the caller those of its err.
Fail(p, xs) == code' = [code EXCEPT ![p] = Decrefs(xs \o Instr(p).err)]

\* The local variables of p become h.  They are gone when the call returns, what they refer to
\* notwithstanding.
Locals(p, h) == hold' = [hold EXCEPT ![p] = IF code'[p] = <<>> THEN <<>> ELSE h]
Same(p) == Locals(p, hold[p])

Var(p, x) == hold[p][x].v
Live(v) == [v |-> v, live |-> TRUE]
HandedOn(p, x) == [hold[p] EXCEPT ![x].live = FALSE]     \* the pointer stays, the reference is another's

KeepList == UNCHANGED <<devs, lock, swap>>

\* x = v with a new reference
Taken(p, x, v) == Locals(p, x :> Live(v) @@ hold[p]) /\ Incref(v)

\* vfs_getcurdir
GetCurDir(p) ==
    /\ Instr(p).i = "curdir"
    /\ IF cwd[p] = NoNode THEN Fail(p, <<>>) /\ Same(p) /\ UNCHANGED refs
       ELSE Go(p, <<>>) /\ Taken(p, Instr(p).x, cwd[p])
    /\ KeepList /\ UNCHANGED <<cwd, boot, open, todo, halt>>

\* getdevice, for /path
GetBoot(p) ==
    /\ Instr(p).i = "boot"
    /\ IF boot = NoNode THEN Fail(p, <<>>) /\ Same(p) /\ UNCHANGED refs
       ELSE Go(p, <<>>) /\ Taken(p, "startvn", boot)
    /\ KeepList /\ UNCHANGED <<cwd, boot, open, todo, halt>>

\* getdevice, for :path: the root of the file system of the current directory vn, whose
\* reference is dropped only afterwards, and on failure as well.
GetCurRoot(p) ==
    /\ Instr(p).i = "curroot"
    /\ halt' = IF HasFs(Var(p, "vn")) THEN "no" ELSE "current directory without a file system"
    /\ \/ Go(p, Decrefs(<<"vn">>)) /\ Taken(p, "startvn", Node("root", Var(p, "vn").d))
       \/ Fail(p, <<"vn">>) /\ Same(p) /\ UNCHANGED refs
    /\ KeepList /\ UNCHANGED <<cwd, boot, open, todo>>

\* Mutant: the lock is released before FSOP_GETROOT.
UnlockGetroot_Early(p) == lock' = NoNode

UnlockGetroot(p) == lock' = p

\* Mutant: ENXIO and ENODEV leave the list locked.
UnlockNotFound_Not(p) == lock' = p

UnlockNotFound(p) == UNCHANGED lock

\* vfs_getroot: the lock and the search
GetRoot(p) ==
    /\ Instr(p).i = "getroot" /\ lock = NoNode
    /\ LET q == Instr(p).path
           f == IF q.dev > Len(devs) THEN "none" ELSE Found(q.via, q.dev) IN
       IF f = "none"
         THEN Fail(p, <<>>) /\ UnlockNotFound(p)
         ELSE Go(p, <<[i |-> "gotroot", v |-> Node(f, q.dev), err |-> Instr(p).err]>>) /\ UnlockGetroot(p)
    /\ Same(p) /\ UNCHANGED <<devs, refs, cwd, boot, open, todo, swap, halt>>

\* FSOP_GETROOT, or VOP_INCREF of the device, and the release
GotRoot(p) ==
    /\ Instr(p).i = "gotroot"
    /\ \/ Go(p, <<>>) /\ Taken(p, "startvn", Instr(p).v)
       \/ HasFs(Instr(p).v) /\ Fail(p, <<>>) /\ Same(p) /\ UNCHANGED refs
    /\ lock' = NoNode
    /\ UNCHANGED <<devs, cwd, boot, open, todo, swap, halt>>

\* The rest of vfs_lookup and of vfs_lookparent, into the variable x of the caller: VOP_LOOKUP
\* delivers a vnode of the same file system, VOP_LOOKPARENT a directory.  An empty rest is
\* startvn itself for the one and EINVAL for the other; dev_lookup knows no other names.
Walk(p) ==
    /\ Instr(p).i = "walk"
    /\ LET start == Var(p, "startvn")
           q == Instr(p) IN
       \/ /\ q.rest = "empty" /\ ~q.parent
          /\ Go(p, <<>>) /\ Locals(p, q.x :> Live(start) @@ HandedOn(p, "startvn")) /\ UNCHANGED refs
       \/ /\ q.rest # "empty" /\ HasFs(start)
          /\ Go(p, Decrefs(<<"startvn">>))
          /\ \E k \in {"root", "dir"} : Taken(p, q.x, Node(k, start.d))
       \/ /\ q.rest = "empty" => q.parent
          /\ Fail(p, <<"startvn">>) /\ Same(p) /\ UNCHANGED refs
    /\ KeepList /\ UNCHANGED <<cwd, boot, open, todo, halt>>

\* VOP_DECREF of a local variable, be it a reference or not
DropLocal(p) ==
    /\ Instr(p).i = "decref"
    /\ Decref(Var(p, Instr(p).x))
    /\ Go(p, <<>>) /\ Locals(p, HandedOn(p, Instr(p).x))
    /\ KeepList /\ UNCHANGED <<cwd, boot, open, todo, halt>>

\* A VOP with the vnodes xs that were looked up.  It may fail, which changes nothing in what
\* the caller does next.
Vop(p) ==
    /\ Instr(p).i = "vop"
    /\ LET vs == {Var(p, x) : x \in ToSet(Instr(p).xs)} IN
       halt' = IF \A v, w \in vs : HasFs(v) /\ v.d = w.d THEN "no" ELSE "foreign vnode"
    /\ Go(p, <<>>) /\ Same(p)
    /\ KeepList /\ UNCHANGED <<refs, cwd, boot, open, todo>>

\* Mutant: devices pass the test as well.
SameFs_Devices(v, w) == v.d = w.d

\* The test for EXDEV in vfs_rename and vfs_link
SameFs(v, w) == HasFs(v) /\ HasFs(w) /\ v.d = w.d

Exdev(p) ==
    /\ Instr(p).i = "exdev"
    /\ LET xs == Instr(p).xs IN
       IF SameFs(Var(p, xs[1]), Var(p, xs[2])) THEN Go(p, <<>>) ELSE Fail(p, <<>>)
    /\ Same(p)
    /\ KeepList /\ UNCHANGED <<refs, cwd, boot, open, todo, halt>>

\* vfs_open after the lookup: VOP_EACHOPEN and VOP_TRUNCATE may refuse.
Opened(p) ==
    /\ Instr(p).i = "opened"
    /\ \/ /\ open' = [open EXCEPT ![p] = <<Var(p, "vn")>> \o @]
          /\ Go(p, <<>>) /\ Locals(p, HandedOn(p, "vn"))
       \/ Fail(p, <<>>) /\ Same(p) /\ UNCHANGED open
    /\ KeepList /\ UNCHANGED <<refs, cwd, boot, todo, halt>>

\* vfs_open with O_CREAT: VOP_CREAT gives a new vnode or fails; dir is dropped either way.
Created(p) ==
    /\ Instr(p).i = "creat"
    /\ LET dir == Var(p, "dir") IN
       \/ /\ HasFs(dir)
          /\ Go(p, Decrefs(<<"dir">>))
          /\ \E k \in {"root", "dir"} : Taken(p, "vn", Node(k, dir.d))
       \/ Fail(p, <<"dir">>) /\ Same(p) /\ UNCHANGED refs
    /\ KeepList /\ UNCHANGED <<cwd, boot, open, todo, halt>>

\* vfs_close
Close(p) ==
    /\ Instr(p).i = "close"
    /\ IF open[p] = <<>> THEN UNCHANGED <<refs, open>>
       ELSE Decref(Head(open[p])) /\ open' = [open EXCEPT ![p] = Tail(@)]
    /\ Go(p, <<>>) /\ Same(p)
    /\ KeepList /\ UNCHANGED <<cwd, boot, todo, halt>>

\* The old value of p_cwd or bootfs_vnode goes to the local variable old, and is then dropped.
DropOld(old) == IF old = NoNode THEN <<>> ELSE Decrefs(<<"old">>)
Old(old) == "old" :> [v |-> old, live |-> old # NoNode]

\* vfs_setcurdir: a new reference, and then the old directory goes.  VOP_GETTYPE may fail, and
\* a device is ENOTDIR.
SetCurDir(p) ==
    /\ Instr(p).i = "setcurdir"
    /\ LET dir == Var(p, "vn") IN
       \/ /\ HasFs(dir)
          /\ cwd' = [cwd EXCEPT ![p] = dir] /\ Incref(dir)
          /\ Go(p, DropOld(cwd[p])) /\ Locals(p, Old(cwd[p]) @@ hold[p])
       \/ Fail(p, <<>>) /\ Same(p) /\ UNCHANGED <<refs, cwd>>
    /\ KeepList /\ UNCHANGED <<boot, open, todo, halt>>

\* vfs_clearcurdir
ClearCurDir(p) ==
    /\ Instr(p).i = "clearcurdir"
    /\ cwd' = [cwd EXCEPT ![p] = NoNode]
    /\ Go(p, DropOld(cwd[p])) /\ Locals(p, Old(cwd[p]) @@ hold[p])
    /\ KeepList /\ UNCHANGED <<refs, boot, open, todo, halt>>

\* change_bootfs: newguy, or NULL, and in a second step the reference of the old one
ChangeBootfs(p) ==
    /\ Instr(p).i = "changeboot"
    /\ boot' = IF Instr(p).clear THEN NoNode ELSE Var(p, "newguy")
    /\ Go(p, DropOld(boot))
    /\ Locals(p, Old(boot) @@ IF Instr(p).clear THEN hold[p] ELSE HandedOn(p, "newguy"))
    /\ KeepList /\ UNCHANGED <<refs, cwd, open, todo, halt>>

\* vfs_getcwd: the name of the volume, or of the device that the file system is found on
GetCwd(p) ==
    /\ Instr(p).i = "getcwd" /\ lock = NoNode
    /\ halt' = IF ~HasFs(Var(p, "cwd")) \/ ~Mounted(Var(p, "cwd").d) THEN "no name" ELSE "no"
    /\ Go(p, <<>>) /\ Same(p)
    /\ KeepList /\ UNCHANGED <<refs, cwd, boot, open, todo>>

-----------------------------------------------------------------------------
(* Mounting, under knowndevs_lock *)

Lock(p) ==
    /\ Instr(p).i = "lock" /\ lock = NoNode
    /\ lock' = p /\ Go(p, <<>>)
    /\ UNCHANGED <<devs, refs, cwd, boot, open, hold, todo, swap, halt>>

\* vfs_mount and vfs_swapon, which hands out the vnode of the device; mountfunc may fail.
Mount(p) ==
    /\ Instr(p).i = "mount"
    /\ LET d == Instr(p).d
           fs == Instr(p).fs IN
       \/ /\ d <= Len(devs) /\ Mountable(d) /\ devs[d].fs = "none"
          /\ devs' = [devs EXCEPT ![d].fs = fs]
          /\ IF fs = "swap" THEN Incref(Node("dev", d)) /\ swap' = <<Node("dev", d)>> \o swap
             ELSE UNCHANGED <<refs, swap>>
       \/ UNCHANGED <<devs, refs, swap>>
    /\ Go(p, <<>>) /\ lock' = NoNode
    /\ UNCHANGED <<cwd, boot, open, hold, todo, halt>>

\* vfs_unmount: FSOP_SYNC, which may fail, and then FSOP_UNMOUNT.  vfs_unmountall does this for
\* every device, and detaches the ones that are swapped to.
Unmount(p) ==
    /\ Instr(p).i = "unmount"
    /\ LET d == Instr(p).d
           detach == Instr(p).all /\ d <= Len(devs) /\ Mountable(d) /\ devs[d].fs = "swap" IN
       \/ /\ detach \/ (d <= Len(devs) /\ Mountable(d) /\ Mounted(d) /\ ~Busy(d))
          /\ devs' = [devs EXCEPT ![d].fs = "none"]
       \/ ~detach /\ UNCHANGED devs
    /\ Go(p, <<>>) /\ lock' = IF Len(code[p]) = 1 \/ code[p][2].i # "unmount" THEN NoNode ELSE p
    /\ Same(p) /\ UNCHANGED <<refs, cwd, boot, open, todo, swap, halt>>

\* vfs_swapoff does not give back the reference of vfs_swapon.
Swapoff(p) ==
    /\ Instr(p).i = "swapoff"
    /\ LET d == Instr(p).d IN
       IF d <= Len(devs) /\ Mountable(d) /\ devs[d].fs = "swap"
         THEN devs' = [devs EXCEPT ![d].fs = "none"] ELSE UNCHANGED devs
    /\ Go(p, <<>>) /\ lock' = NoNode
    /\ UNCHANGED <<refs, cwd, boot, open, hold, todo, swap, halt>>

\* vfs_sync: FSOP_SYNC of everything that is mounted
Sync(p) ==
    /\ Instr(p).i = "sync"
    /\ Go(p, <<>>) /\ lock' = NoNode
    /\ UNCHANGED <<devs, refs, cwd, boot, open, hold, todo, swap, halt>>

-----------------------------------------------------------------------------
(* The calls *)

\* getdevice and the walk, into the variable x of a caller that drops err when they fail;
\* parent tells vfs_lookparent from vfs_lookup.
Device(q, err) ==
    CASE q.via = "rel" -> <<[i |-> "curdir", x |-> "startvn", err |-> err]>>
      [] q.via = "boot" -> <<[i |-> "boot", err |-> err]>>
      [] q.via = "cur" -> <<[i |-> "curdir", x |-> "vn", err |-> err], [i |-> "curroot", err |-> err]>>
      [] OTHER -> <<[i |-> "getroot", path |-> q, err |-> err]>>
Look(q, parent, x, err) ==
    Device(q, err) \o <<[i |-> "walk", rest |-> q.rest, parent |-> parent, x |-> x, err |-> err]>>
LockThen(s) == <<[i |-> "lock"]>> \o s

Chdir(q) ==
    Look(q, FALSE, "vn", <<>>) \o <<[i |-> "setcurdir", err |-> <<"vn">>]>> \o Decrefs(<<"vn">>)
EachOpen == <<[i |-> "opened", err |-> <<"vn">>]>>
Open(q) == Look(q, FALSE, "vn", <<>>) \o EachOpen
Creat(q) == Look(q, TRUE, "dir", <<>>) \o <<[i |-> "creat", err |-> <<>>]>> \o EachOpen

\* mkdir, rmdir, remove, symlink
OnParent(q) == Look(q, TRUE, "dir", <<>>) \o <<[i |-> "vop", xs |-> <<"dir">>]>> \o Decrefs(<<"dir">>)

\* Mutant: olddir is forgotten when the second lookup fails.
Rename_Forgets(q, r) ==
    Look(q, TRUE, "olddir", <<>>) \o Look(r, TRUE, "newdir", <<>>)
    \o <<[i |-> "exdev", xs |-> <<"olddir", "newdir">>, err |-> <<"newdir", "olddir">>],
         [i |-> "vop", xs |-> <<"olddir", "newdir">>]>>
    \o Decrefs(<<"newdir", "olddir">>)

Rename(q, r) ==
    Look(q, TRUE, "olddir", <<>>) \o Look(r, TRUE, "newdir", <<"olddir">>)
    \o <<[i |-> "exdev", xs |-> <<"olddir", "newdir">>, err |-> <<"newdir", "olddir">>],
         [i |-> "vop", xs |-> <<"olddir", "newdir">>]>>
    \o Decrefs(<<"newdir", "olddir">>)

Link(q, r) ==
    Look(q, FALSE, "oldfile", <<>>) \o Look(r, TRUE, "newdir", <<"oldfile">>)
    \o <<[i |-> "exdev", xs |-> <<"oldfile", "newdir">>, err |-> <<"newdir", "oldfile">>],
         [i |-> "vop", xs |-> <<"newdir", "oldfile">>]>>
    \o Decrefs(<<"newdir", "oldfile">>)

Cwd == <<[i |-> "curdir", x |-> "cwd", err |-> <<>>], [i |-> "getcwd"]>> \o Decrefs(<<"cwd">>)
SetBootfs(q) ==
    Chdir([q EXCEPT !.rest = "empty"])
    \o <<[i |-> "curdir", x |-> "newguy", err |-> <<>>], [i |-> "changeboot", clear |-> FALSE]>>
UnmountAll == LockThen([d \in Names |-> [i |-> "unmount", d |-> d, all |-> TRUE]])
Shutdown == <<[i |-> "changeboot", clear |-> TRUE], [i |-> "clearcurdir"]>> \o UnmountAll
Exit == <<[i |-> "clearcurdir"], [i |-> "close"], [i |-> "close"]>>

\* The instructions of a call o on the path q, and on r for two paths.
Body(o, q, r) ==
    CASE o = "chdir" -> Chdir(q)
      [] o = "open" -> Open(q)
      [] o = "creat" -> Creat(q)
      [] o = "close" -> <<[i |-> "close"]>>
      [] o = "mkdir" -> OnParent(q)
      [] o = "rename" -> Rename(q, r)
      [] o = "link" -> Link(q, r)
      [] o = "getcwd" -> Cwd
      [] o = "setbootfs" -> SetBootfs(q)
      [] o = "mount" -> LockThen(<<[i |-> "mount", d |-> q.dev, fs |-> "fs"]>>)
      [] o = "swapon" -> LockThen(<<[i |-> "mount", d |-> q.dev, fs |-> "swap"]>>)
      [] o = "swapoff" -> LockThen(<<[i |-> "swapoff", d |-> q.dev]>>)
      [] o = "unmount" -> LockThen(<<[i |-> "unmount", d |-> q.dev, all |-> FALSE]>>)
      [] o = "sync" -> LockThen(<<[i |-> "sync"]>>)
      [] o = "exit" -> Exit
      [] o = "shutdown" -> Shutdown

TwoPaths == {"rename", "link"}
NoPath == {"close", "getcwd", "sync", "exit", "shutdown"}
OnDevice == {"mount", "swapon", "swapoff", "unmount", "setbootfs"}

Call(p) ==
    /\ code[p] = <<>> /\ todo[p] # <<>> /\ Len(devs) = Len(Known)
    /\ LET o == Head(todo[p])
           which == IF o \in NoPath THEN {CHOOSE q \in Paths : TRUE}
                    ELSE IF o \in OnDevice THEN {q \in Paths : q.via = "name"} ELSE Paths IN
       \E q \in which : \E r \in IF o \in TwoPaths THEN Paths ELSE {q} :
           code' = [code EXCEPT ![p] = Body(o, q, r)]
    /\ todo' = [todo EXCEPT ![p] = Tail(@)]
    /\ UNCHANGED <<devs, refs, cwd, boot, open, hold, lock, swap, halt>>

Step(p) ==
    /\ code[p] # <<>> /\ halt = "no"
    /\ \/ GetCurDir(p) \/ GetBoot(p) \/ GetCurRoot(p) \/ GetRoot(p) \/ GotRoot(p) \/ Walk(p) \/ DropLocal(p)
       \/ Vop(p) \/ Exdev(p) \/ Opened(p) \/ Created(p) \/ Close(p) \/ SetCurDir(p) \/ ClearCurDir(p)
       \/ ChangeBootfs(p) \/ GetCwd(p) \/ Lock(p) \/ Mount(p) \/ Unmount(p) \/ Swapoff(p) \/ Sync(p)

Next == AddDev \/ \E p \in Procs : halt = "no" /\ (Call(p) \/ Step(p))

Spec == Init /\ [][Next]_vars

-----------------------------------------------------------------------------

\* The places that refer to v: current directories, the boot directory, open files, swap, the
\* entry of a device in the list, and the local variables of calls under way.
Holders(v) ==
    Cardinality({p \in Procs : cwd[p] = v}) + (IF boot = v THEN 1 ELSE 0)
    + (IF v.kind = "dev" /\ v.d <= Len(devs) THEN 1 ELSE 0)
    + MapThenSumSet(LAMBDA p : Cardinality({x \in DOMAIN hold[p] : hold[p][x] = Live(v)})
                               + Cardinality({i \in DOMAIN open[p] : open[p][i] = v}), Procs)
    + Cardinality({i \in DOMAIN swap : swap[i] = v})

TypeOK ==
    /\ \A d \in DOMAIN devs : devs[d].fs \in IF devs[d].mountable THEN {"none", "fs", "swap"} ELSE {Known[d].fs}
    /\ refs \in [Nodes -> Nat]
    /\ \A p \in Procs : cwd[p] \in Nodes \cup {NoNode} /\ ToSet(open[p]) \subseteq Nodes
    /\ boot \in Nodes \cup {NoNode} /\ lock \in Procs \cup {NoNode}

(* The reference count of every vnode is the number of places that refer   *)
(* to it.  Local variables are gone when their call returns, so an exit of *)
(* vfs_open, vfs_rename, vfs_link, vfs_chdir, vfs_lookparent or getdevice  *)
(* that leaves out a VOP_DECREF leaves a count that nothing accounts for,  *)
(* and one VOP_DECREF too many a count below its holders.  Each of these   *)
(* exits has its own list of decrefs, and none is too long or too short.   *)
RefsExact == \A v \in Nodes : refs[v] = Holders(v)

(* The file system of every vnode in use is mounted, and so is one whose   *)
(* root vfs_getroot is about to fetch: it cannot be unmounted between the  *)
(* look at kd_fs and FSOP_GETROOT, nor while getdevice is on its way from  *)
(* the current directory to the root.                                      *)
FsAlive ==
    /\ \A v \in Nodes : HasFs(v) /\ refs[v] > 0 => v.d <= Len(devs) /\ Mounted(v.d)
    /\ \A p \in Procs : code[p] # <<>> /\ Instr(p).i = "gotroot" /\ HasFs(Instr(p).v) => Mounted(Instr(p).v.d)

(* No assertion of getdevice or vfs_getcwd fails (a current directory has  *)
(* a file system, and that has a name), and a file system is never handed  *)
(* a vnode that is not its own by rename, link or an operation on a        *)
(* directory.                                                              *)
NoAssertFails == halt = "no"
==============================================================================
