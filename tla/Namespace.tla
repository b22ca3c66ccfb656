------------------------------ MODULE Namespace ------------------------------
(***************************************************************************)
(* Names, vnodes and inodes of SFS: the directory operations of            *)
(* sfs_vnops.c and sfs_dir.c, the vnode table of sfs_inode.c with the      *)
(* reference counts of vnode.c, the VFS calls of vfspath.c around them,    *)
(* and the morgue, which remembers unlinked inodes for the next mount.     *)
(*                                                                         *)
(* A step runs from the acquisition of a vnode lock or of sfs_renamelock   *)
(* to the point where the thread wants the next one, or drops a            *)
(* reference.  sfs_vnlock, the lock of the morgue and sfs_freemaplock are  *)
(* taken in this order, inside all others, and nothing else is waited for  *)
(* under them: a stretch under them is part of one step.  Disk and memory  *)
(* errors are left out, but for a disk that is full.                       *)
(***************************************************************************)
EXTENDS Integers, Sequences, FiniteSets, SequencesExt, FiniteSetsExt

CONSTANTS
    Threads,   \* threads in file system calls
    Names,     \* file names other than . and ..
    NULL,      \* no thread
    INODES,    \* bound of the number of inodes, the free blocks of the disk included
    Loads      \* the workloads

\* SFS_ROOTDIR_INO is 1; 0 is SFS_NOINO, and the key of sfs_renamelock among the locks.
NOINO == 0
RENAMELOCK == 0
ROOT == 1
Inodes == ROOT .. INODES

ASSUME NamespaceAssumption ==
    /\ INODES \in Nat \ {0}
    /\ \A k \in DOMAIN Loads :
        /\ \A e \in Loads[k].tree :
              e.in \in Inodes /\ e.ino \in Inodes \ {ROOT} /\ e.name \in Names
        /\ Loads[k].calls \in Nat
        /\ Loads[k].crash \in BOOLEAN

VARIABLES
    load,      \* which of the Loads, never changes: the tree at mount time, the calls of
               \* each thread (ops), how many it makes (calls), whether the machine may crash
    alloc,     \* inodes whose block is marked in the freemap
    type,      \* sfi_type
    lc,        \* sfi_linkcount
    ent,       \* the entries of a directory by name
    dotdot,    \* its entry .., NOINO in a directory that was truncated
    morgue,    \* how many entries of the morgue name an inode
    morgueSv,  \* sfs_morgue_sv points to a vnode
    ref,       \* vn_refcount, 0 for an inode without a vnode in sfs_vnodes
    lock,      \* holders of the vnode locks and of sfs_renamelock
    th,        \* what each thread is doing
    halt,      \* the assertion or panic that stopped the machine
    stray,     \* links of an inode that sfs_link made in a removed directory (history)
    relinked,  \* inodes linked again when their count was zero (history)
    replaced   \* inodes whose last name rename took over (history)

disk == <<alloc, type, lc, ent, dotdot, morgue, stray, relinked, replaced>>
vars == <<load, disk, morgueSv, ref, lock, th, halt>>

\* walk: the vnode and the names left of a path; phase: which path of the call;
\* child: where check_parent and sfs_namefile are; fd: an open file or the current
\* directory; drop: references to give up before going on at after.
Idle == [pc |-> "idle", call |-> [k |-> "none"], walk |-> NOINO, rest |-> <<>>, phase |-> 1,
         dir1 |-> NOINO, dir2 |-> NOINO, obj1 |-> NOINO, obj2 |-> NOINO, found |-> FALSE,
         child |-> NOINO, fd |-> NOINO, drop |-> <<>>, after |-> "idle", left |-> 0]

-----------------------------------------------------------------------------
(* The file system as mksfs and the first calls leave it *)

EntryOf(d, n) == {e \in Loads[load].tree : e.in = d /\ e.name = n}
Subdirs(d) == {e \in Loads[load].tree : e.in = d /\ e.type = "dir"}

Init ==
    /\ load \in DOMAIN Loads
    /\ alloc = {ROOT} \cup {e.ino : e \in Loads[load].tree}
    /\ type = [i \in Inodes |-> IF i = ROOT THEN "dir" ELSE
                 IF i \in alloc THEN (CHOOSE e \in Loads[load].tree : e.ino = i).type ELSE "none"]
    /\ ent = [i \in Inodes |-> [n \in Names |->
                 IF EntryOf(i, n) = {} THEN NOINO ELSE (CHOOSE e \in EntryOf(i, n) : TRUE).ino]]
    /\ dotdot = [i \in Inodes |-> IF i = ROOT THEN ROOT ELSE
                   IF type[i] = "dir" THEN (CHOOSE e \in Loads[load].tree : e.ino = i).in ELSE NOINO]
    /\ lc = [i \in Inodes |-> IF type[i] = "dir" THEN 2 + Cardinality(Subdirs(i))
                              ELSE Cardinality({e \in Loads[load].tree : e.ino = i})]
    /\ morgue = [i \in Inodes |-> 0]
    /\ morgueSv = TRUE
    /\ ref = [i \in Inodes |-> IF i = ROOT THEN 1 ELSE 0]   \* bootfs_vnode
    /\ lock = [i \in Inodes \cup {RENAMELOCK} |-> NULL]
    /\ th = [t \in Threads |-> [Idle EXCEPT !.left = Loads[load].calls]]
    /\ halt = "no"
    /\ stray = [i \in Inodes |-> 0]
    /\ relinked = {}
    /\ replaced = {}

At(t, pc) == halt = "no" /\ th[t].pc = pc
Free(i) == lock[i] = NULL
Take(t, i) == Free(i) /\ lock' = [lock EXCEPT ![i] = t]
Release(S) == lock' = [i \in DOMAIN lock |-> IF i \in S THEN NULL ELSE lock[i]]
Go(t, new) == th' = [th EXCEPT ![t] = new]
To(t, pc) == Go(t, [th[t] EXCEPT !.pc = pc])
Dropping(l, refs, next) == [l EXCEPT !.pc = "drop", !.drop = refs, !.after = next]
Panic(why) == halt' = why /\ UNCHANGED <<disk, morgueSv, ref, lock, th>>

\* The references of a finished call: vfs_* give up the directories, newest first.
End(l) == Dropping([l EXCEPT !.phase = 1, !.walk = NOINO, !.rest = <<>>, !.dir1 = NOINO,
                             !.dir2 = NOINO, !.obj1 = NOINO, !.obj2 = NOINO,
                             !.found = FALSE],
                   SelectSeq(<<l.dir2, l.dir1>> \o (IF l.call.k = "link" THEN <<l.obj1>> ELSE <<>>),
                             LAMBDA i : i # NOINO), "end")

-----------------------------------------------------------------------------
(* vnode.c, sfs_loadvnode and sfs_reclaim *)

\* sfs_loadvnode: the vnode of an allocated inode gets one more reference.
Loaded(i) == [ref EXCEPT ![i] = @ + 1]

\* Mutants: the result of sfs_dir_findino is ignored; the entry is kept.
OutOfMorgue_Always(i) == [morgue EXCEPT ![i] = @ - 1]
OutOfMorgue_Kept(i) == morgue

\* An entry of the morgue for the inode, if there is one, is removed.
OutOfMorgue(i) == [morgue EXCEPT ![i] = IF @ = 0 THEN 0 ELSE @ - 1]

\* sfs_itrunc of a directory: its entries are lost.
Emptied(i) == [ent EXCEPT ![i] = [n \in Names |-> NOINO]]

\* vnode_decref: the last reference is passed to VOP_RECLAIM.
VnodeDecref(t) ==
    LET l == th[t]
        i == Head(l.drop) IN
    /\ At(t, "drop") /\ l.drop # <<>>
    /\ IF ref[i] > 1
         THEN /\ ref' = [ref EXCEPT ![i] = @ - 1]
              /\ Go(t, [l EXCEPT !.drop = Tail(@)])
         ELSE UNCHANGED ref /\ To(t, "reclaim")
    /\ UNCHANGED <<load, disk, morgueSv, lock, halt>>

DropsDone(t) ==
    /\ At(t, "drop") /\ th[t].drop = <<>>
    /\ To(t, th[t].after)
    /\ UNCHANGED <<load, disk, morgueSv, ref, lock, halt>>

\* Mutant: the count is not looked at again.
StillReferenced_Never(i) == FALSE

StillReferenced(i) == ref[i] # 1

\* sfs_reclaim
Reclaim(t) ==
    LET l == th[t]
        i == Head(l.drop)
        on == Go(t, [l EXCEPT !.pc = "drop", !.drop = Tail(@)]) IN
    /\ At(t, "reclaim") /\ Free(i)
    /\ \/ /\ StillReferenced(i)
          /\ ref' = [ref EXCEPT ![i] = @ - 1]
          /\ on
          /\ UNCHANGED <<disk, morgueSv, lock, halt>>
       \/ /\ ~StillReferenced(i) /\ morgueSv
          /\ ref' = [ref EXCEPT ![i] = 0]
          /\ morgue' = OutOfMorgue(i)
          /\ IF lc[i] = 0
               THEN /\ alloc' = alloc \ {i}
                    /\ type' = [type EXCEPT ![i] = "none"]
                    /\ ent' = Emptied(i)
                    /\ dotdot' = [dotdot EXCEPT ![i] = NOINO]
                    /\ replaced' = replaced \ {i}
               ELSE UNCHANGED <<alloc, type, ent, dotdot, replaced>>
          /\ relinked' = IF morgue'[i] = 0 THEN relinked \ {i} ELSE relinked
          /\ on
          /\ UNCHANGED <<lc, stray, morgueSv, lock, halt>>
       \/ /\ ~StillReferenced(i) /\ ~morgueSv
          /\ Panic("morgue vnode")
    /\ UNCHANGED load

-----------------------------------------------------------------------------
(* vfs_lookup and vfs_lookparent, one component at a time *)

\* The path that the thread is resolving, and whether only its parent is wanted.
Path(l) == IF l.phase = 1 THEN l.call.p1 ELSE l.call.p2
ParentWanted(l) == ~(l.call.k = "open" \/ l.call.k = "chdir" \/ (l.call.k = "link" /\ l.phase = 1))

StartWalk(l) == [l EXCEPT !.pc = "walk", !.walk = ROOT, !.rest = Path(l)]

Begin(t) ==
    \E c \in Loads[load].ops[t] :
        /\ At(t, "idle") /\ th[t].left > 0
        /\ c.k \in {"open", "creat", "chdir"} => th[t].fd = NOINO
        /\ c.k = "close" => th[t].fd # NOINO
        /\ c.k = "getcwd" => th[t].fd # NOINO /\ type[th[t].fd] = "dir"
        /\ LET l == [th[t] EXCEPT !.call = c, !.left = @ - 1] IN
           CASE c.k = "close"  -> /\ Go(t, Dropping([l EXCEPT !.fd = NOINO], <<l.fd>>, "end"))
                                  /\ UNCHANGED ref
             [] c.k = "unmount" -> Go(t, [l EXCEPT !.pc = "unmount"]) /\ UNCHANGED ref
             [] c.k = "getcwd" -> /\ Go(t, [l EXCEPT !.pc = "namefile", !.child = l.fd])
                                  /\ ref' = Loaded(l.fd)
             [] OTHER          -> Go(t, StartWalk(l)) /\ ref' = Loaded(ROOT)
        /\ UNCHANGED <<load, disk, morgueSv, lock, halt>>

Finish(t) ==
    /\ At(t, "end")
    /\ Go(t, [Idle EXCEPT !.fd = th[t].fd, !.left = th[t].left])
    /\ UNCHANGED <<load, disk, morgueSv, ref, lock, halt>>

\* The path led to inode i; the reference is the caller's.
Arrived(l, i) ==
    LET k == l.call.k
        m == [l EXCEPT !.walk = NOINO, !.rest = <<>>] IN
    CASE k \in {"open", "chdir"}     -> End([m EXCEPT !.fd = i])
      [] k = "link" /\ l.phase = 1   -> [m EXCEPT !.pc = "path2", !.obj1 = i, !.phase = 2]
      [] k = "rename" /\ l.phase = 1 -> [m EXCEPT !.pc = "path2", !.dir1 = i, !.phase = 2]
      [] k = "rename" /\ l.phase = 2 -> [m EXCEPT !.pc = "rename", !.dir2 = i]
      [] OTHER                       -> [m EXCEPT !.pc = k, !.dir1 = i]

Path2(t) ==
    /\ At(t, "path2")
    /\ Go(t, StartWalk(th[t])) /\ ref' = Loaded(ROOT)
    /\ UNCHANGED <<load, disk, morgueSv, lock, halt>>

\* A thread gives up a reference and continues as l does.
DropThen(l, i) == [l EXCEPT !.drop = <<i>> \o (IF l.pc = "drop" THEN @ ELSE <<>>),
                            !.after = IF l.pc = "drop" THEN @ ELSE l.pc, !.pc = "drop"]

\* sfs_lookparent_internal and the end of sfs_lookup
Walk(t) ==
    LET l == th[t]
        sv == l.walk
        next == IF type[sv] = "dir" THEN ent[sv][Head(l.rest)] ELSE NOINO
        last == Len(l.rest) = 1 IN
    /\ At(t, "walk")
    /\ \/ /\ type[sv] # "dir"                                     \* ENOTDIR
          /\ Go(t, DropThen(End(l), sv)) /\ UNCHANGED ref
       \/ /\ type[sv] = "dir" /\ last /\ ParentWanted(l)
          /\ Go(t, Arrived(l, sv)) /\ UNCHANGED ref
       \/ /\ type[sv] = "dir" /\ ~(last /\ ParentWanted(l)) /\ Free(sv)
          /\ \/ /\ next = NOINO                                   \* ENOENT
                /\ Go(t, DropThen(End(l), sv)) /\ UNCHANGED ref
             \/ /\ next # NOINO
                /\ ref' = Loaded(next)
                /\ Go(t, DropThen(IF last THEN Arrived(l, next)
                                  ELSE [l EXCEPT !.walk = next, !.rest = Tail(@)], sv))
    /\ UNCHANGED <<load, disk, morgueSv, lock, halt>>

-----------------------------------------------------------------------------
(* sfs_creat, sfs_mkdir and sfs_link *)

Name1(l) == Last(l.call.p1)
Name2(l) == Last(l.call.p2)

Unused == Inodes \ alloc

\* sfs_makeobj: bitmap_alloc takes the first free block.
NewInode == Min(Unused)

\* sfs_dir_link, also of the inode of a directory
WithEntry(d, n, i) == [ent EXCEPT ![d][n] = i]

\* The call fails and changes nothing.
Refused(t) == Go(t, End(th[t])) /\ UNCHANGED <<disk, ref>>

\* The new object could not be entered in the directory: its only reference goes to
\* sfs_reclaim, which frees the inode again.
Uncreated(t) ==
    /\ Go(t, End(th[t]))
    /\ morgue' = OutOfMorgue(NewInode)
    /\ UNCHANGED <<alloc, type, lc, ent, dotdot, stray, relinked, replaced, ref>>

\* Mutant: the link count of the directory is not checked.
Removed_Unchecked(d) == FALSE

Removed(d) == lc[d] = 0

Creat(t) ==
    LET l == th[t]
        d == l.dir1
        n == Name1(l)
        i == NewInode IN
    /\ At(t, "creat") /\ Free(d)
    /\ \/ /\ Removed(d) \/ (ent[d][n] = NOINO /\ Unused = {})
          /\ Refused(t)
       \/ /\ ~Removed(d) /\ ent[d][n] # NOINO
          /\ Refused(t)                                                \* with O_EXCL
       \/ /\ ~Removed(d) /\ ent[d][n] # NOINO
          /\ ref' = Loaded(ent[d][n])
          /\ Go(t, End([l EXCEPT !.fd = ent[d][n]]))
          /\ UNCHANGED disk
       \/ /\ ~Removed(d) /\ ent[d][n] = NOINO /\ Unused # {}
          /\ Uncreated(t)
       \/ /\ ~Removed(d) /\ ent[d][n] = NOINO /\ Unused # {}
          /\ alloc' = alloc \cup {i}
          /\ type' = [type EXCEPT ![i] = "file"]
          /\ ent' = WithEntry(d, n, i)
          /\ lc' = [lc EXCEPT ![i] = 1]
          /\ ref' = Loaded(i)
          /\ Go(t, End([l EXCEPT !.fd = i]))
          /\ UNCHANGED <<dotdot, morgue, stray, relinked, replaced>>
    /\ UNCHANGED <<load, morgueSv, lock, halt>>

Mkdir(t) ==
    LET l == th[t]
        d == l.dir1
        n == Name1(l)
        i == NewInode IN
    /\ At(t, "mkdir") /\ Free(d)
    /\ \/ /\ Removed(d) \/ ent[d][n] # NOINO \/ Unused = {}
          /\ Refused(t)
       \/ /\ ~Removed(d) /\ ent[d][n] = NOINO /\ Unused # {}
          /\ Uncreated(t)
       \/ /\ ~Removed(d) /\ ent[d][n] = NOINO /\ Unused # {}
          /\ alloc' = alloc \cup {i}
          /\ type' = [type EXCEPT ![i] = "dir"]
          /\ dotdot' = [dotdot EXCEPT ![i] = d]
          /\ ent' = WithEntry(d, n, i)
          /\ lc' = [lc EXCEPT ![i] = 2, ![d] = @ + 1]
          /\ ref' = Loaded(i)
          /\ Go(t, DropThen(End(l), i))
          /\ UNCHANGED <<morgue, stray, relinked, replaced>>
    /\ UNCHANGED <<load, morgueSv, lock, halt>>

\* sfs_link, up to the lock of the directory
LinkDir(t) ==
    LET l == th[t] IN
    /\ At(t, "link")
    /\ \/ /\ type[l.obj1] = "dir"
          /\ Go(t, End(l)) /\ UNCHANGED lock
       \/ /\ type[l.obj1] # "dir" /\ Take(t, l.dir1)
          /\ To(t, "link file")
    /\ UNCHANGED <<load, disk, morgueSv, ref, halt>>

\* sfs_link, from the lock of the file
LinkFile(t) ==
    LET l == th[t]
        d == l.dir1
        f == l.obj1 IN
    /\ At(t, "link file") /\ Free(f)
    /\ IF ent[d][Name2(l)] # NOINO
         THEN UNCHANGED disk
         ELSE /\ ent' = WithEntry(d, Name2(l), f)
              /\ lc' = [lc EXCEPT ![f] = @ + 1]
              /\ relinked' = IF lc[f] = 0 THEN relinked \cup {f} ELSE relinked
              /\ replaced' = replaced \ {f}
              /\ stray' = IF lc[d] = 0 THEN [stray EXCEPT ![f] = @ + 1] ELSE stray
              /\ UNCHANGED <<alloc, type, dotdot, morgue>>
    /\ Release({d})
    /\ Go(t, End(l))
    /\ UNCHANGED <<load, morgueSv, ref, halt>>

-----------------------------------------------------------------------------
(* sfs_rmdir and sfs_remove *)

\* Mutant: only files count.
HasNames_Files(d) == \E n \in Names : ent[d][n] # NOINO /\ type[ent[d][n]] = "file"

HasNames(d) == \E n \in Names : ent[d][n] # NOINO

\* consider_morgue, for the inodes whose last link goes
ToMorgue(S) == [i \in Inodes |-> IF i \in S THEN morgue[i] + 1 ELSE morgue[i]]

\* The directory is locked and the victim looked up.
Unlink1(t, k) ==
    LET l == th[t]
        d == l.dir1
        victim == ent[d][Name1(l)] IN
    /\ At(t, k)
    /\ \/ /\ Free(d)
          /\ Removed(d) \/ victim = NOINO
          /\ Go(t, End(l))
          /\ UNCHANGED <<ref, lock>>
       \/ /\ Take(t, d)
          /\ ~Removed(d) /\ victim # NOINO
          /\ ref' = Loaded(victim)
          /\ Go(t, [l EXCEPT !.pc = IF k = "rmdir" THEN "rmdir victim" ELSE "remove victim",
                             !.obj1 = victim])
    /\ UNCHANGED <<load, disk, morgueSv, halt>>

Rmdir(t) == Unlink1(t, "rmdir")
RemoveFile(t) == Unlink1(t, "remove")

\* The reference of sfs_lookonce is given up before the directory is unlocked.
AfterVictim(l) == [Dropping(l, <<l.obj1>>, "unlock dir") EXCEPT !.obj1 = NOINO]

RmdirVictim(t) ==
    LET l == th[t]
        d == l.dir1
        v == l.obj1 IN
    /\ At(t, "rmdir victim") /\ Free(v)
    /\ \/ /\ type[v] # "dir" \/ HasNames(v)                         \* ENOTDIR, ENOTEMPTY
          /\ Go(t, AfterVictim(l)) /\ UNCHANGED <<disk, halt, morgueSv, ref, lock>>
       \/ /\ type[v] = "dir" /\ ~HasNames(v)
          /\ IF lc[d] < 2 \/ lc[v] # 2 THEN Panic("rmdir link count")
             ELSE IF ~morgueSv THEN Panic("morgue vnode")
             ELSE /\ ent' = WithEntry(d, Name1(l), NOINO)
                  /\ lc' = [lc EXCEPT ![d] = @ - 1, ![v] = 0]
                  /\ dotdot' = [dotdot EXCEPT ![v] = NOINO]
                  /\ morgue' = ToMorgue({v})
                  /\ Go(t, AfterVictim(l))
                  /\ UNCHANGED <<alloc, type, stray, relinked, replaced, morgueSv, ref, lock,
                                 halt>>
    /\ UNCHANGED load

RemoveVictim(t) ==
    LET l == th[t]
        v == l.obj1 IN
    /\ At(t, "remove victim") /\ Free(v)
    /\ \/ /\ type[v] = "dir"                                         \* EISDIR
          /\ Go(t, AfterVictim(l)) /\ UNCHANGED <<disk, halt, morgueSv, ref, lock>>
       \/ /\ type[v] # "dir"
          /\ IF lc[v] = 0 THEN Panic("remove link count")
             ELSE IF lc[v] = 1 /\ ~morgueSv THEN Panic("morgue vnode")
             ELSE /\ ent' = WithEntry(l.dir1, Name1(l), NOINO)
                  /\ lc' = [lc EXCEPT ![v] = @ - 1]
                  /\ morgue' = IF lc[v] = 1 THEN ToMorgue({v}) ELSE morgue
                  /\ Go(t, AfterVictim(l))
                  /\ UNCHANGED <<alloc, type, dotdot, stray, relinked, replaced, morgueSv, ref,
                                 lock, halt>>
    /\ UNCHANGED load

UnlockDir(t) ==
    /\ At(t, "unlock dir")
    /\ Release({th[t].dir1})
    /\ Go(t, End(th[t]))
    /\ UNCHANGED <<load, disk, morgueSv, ref, halt>>

-----------------------------------------------------------------------------
(* sfs_rename: the first lookups and check_parent, one vnode lock at a time *)

RenameStart(t) ==
    /\ At(t, "rename") /\ Take(t, RENAMELOCK)
    /\ To(t, "rename obj1")
    /\ UNCHANGED <<load, disk, morgueSv, ref, halt>>

\* out0: the references to the objects go, then the rename lock.
Out0(l) == [Dropping(l, SelectSeq(<<l.obj2, l.obj1>>, LAMBDA i : i # NOINO), "rename end")
              EXCEPT !.obj1 = NOINO, !.obj2 = NOINO]

RenameObj1(t) ==
    LET l == th[t]
        i == ent[l.dir1][Name1(l)] IN
    /\ At(t, "rename obj1") /\ Free(l.dir1)
    /\ \/ i = NOINO /\ Go(t, Out0(l)) /\ UNCHANGED ref
       \/ /\ i # NOINO
          /\ Go(t, [l EXCEPT !.pc = "rename obj2", !.obj1 = i]) /\ ref' = Loaded(i)
    /\ UNCHANGED <<load, disk, morgueSv, lock, halt>>

\* obj2 may not exist.  check_parent then starts at dir2.
RenameObj2(t) ==
    LET l == th[t]
        i == ent[l.dir2][Name2(l)]
        more == [j \in Inodes |-> (IF j = i THEN 1 ELSE 0) + (IF j = l.dir2 THEN 1 ELSE 0)] IN
    /\ At(t, "rename obj2") /\ Free(l.dir2)
    /\ ref' = [j \in Inodes |-> ref[j] + more[j]]
    /\ Go(t, [l EXCEPT !.pc = "check_parent", !.obj2 = i, !.child = l.dir2, !.found = FALSE])
    /\ UNCHANGED <<load, disk, morgueSv, lock, halt>>

\* Mutant: only the target directory itself is compared, not those above it.
IsFailon_FirstOnly(l) == l.child = l.obj1 /\ l.child = l.dir2

IsFailon(l) == l.child = l.obj1

CheckParent(t) ==
    LET l == th[t]
        up == dotdot[l.child]
        m == [l EXCEPT !.found = @ \/ l.child = l.dir1, !.child = NOINO] IN
    /\ At(t, "check_parent")
    /\ \/ /\ IsFailon(l)                                               \* EINVAL
          /\ Go(t, DropThen(Out0([l EXCEPT !.child = NOINO]), l.child)) /\ UNCHANGED ref
       \/ /\ ~IsFailon(l) /\ Free(l.child) /\ up = NOINO               \* removed: ENOENT
          /\ Go(t, DropThen(Out0(m), l.child)) /\ UNCHANGED ref
       \/ /\ ~IsFailon(l) /\ Free(l.child) /\ up = l.child             \* the root
          /\ ref' = Loaded(up)
          /\ Go(t, Dropping(m, <<up, l.child>>, "rename check"))
       \/ /\ ~IsFailon(l) /\ Free(l.child) /\ up \notin {NOINO, l.child}
          /\ ref' = Loaded(up)
          /\ Go(t, Dropping([m EXCEPT !.child = up], <<l.child>>, "check_parent"))
    /\ UNCHANGED <<load, disk, morgueSv, lock, halt>>

-----------------------------------------------------------------------------
(* sfs_rename: the locks of the four vnodes, and the second lookups *)

\* Mutant: dir2 is always locked first.
Dir1First_Never(l) == FALSE

\* dir1 was seen on the way up from dir2.
Dir1First(l) == l.found

\* obj2 is looked up again under the lock of dir2.
ReloadObj2(l) == [Dropping(l, IF l.obj2 = NOINO THEN <<>> ELSE <<l.obj2>>, "rename reload2")
                    EXCEPT !.obj2 = NOINO]

\* obj1 is looked up again under the lock of dir1, which may still be wanted.
ReloadObj1(l) == [Dropping(l, <<l.obj1>>, "rename reload1") EXCEPT !.obj1 = NOINO]
AfterObj2(l) == IF l.dir1 = l.dir2 \/ Dir1First(l) THEN ReloadObj1(l) ELSE [l EXCEPT !.pc = "rename dir1"]

RenameCheck(t) ==
    LET l == th[t] IN
    /\ At(t, "rename check")
    /\ IF l.dir1 = l.obj1 \/ l.dir2 \in {l.obj1, l.obj2} THEN Panic("rename aliases")
       ELSE /\ \/ /\ l.obj2 = l.dir1                                  \* ENOTEMPTY
                  /\ Go(t, Out0(l)) /\ UNCHANGED lock
               \/ /\ l.obj2 # l.dir1 /\ l.dir1 # l.dir2 /\ Dir1First(l)
                  /\ Take(t, l.dir1) /\ To(t, "rename dir2")
               \/ /\ l.obj2 # l.dir1 /\ (l.dir1 = l.dir2 \/ ~Dir1First(l))
                  /\ Take(t, l.dir2) /\ Go(t, ReloadObj2(l))
            /\ UNCHANGED <<disk, morgueSv, ref, halt>>
    /\ UNCHANGED load

RenameDir2(t) ==
    LET l == th[t] IN
    /\ At(t, "rename dir2")
    /\ Take(t, l.dir2) /\ Go(t, ReloadObj2(l))
    /\ UNCHANGED <<load, disk, morgueSv, ref, halt>>

RenameReload2(t) ==
    LET l == th[t]
        i == ent[l.dir2][Name2(l)] IN
    /\ At(t, "rename reload2")
    /\ \/ i = NOINO /\ Go(t, AfterObj2(l)) /\ UNCHANGED ref
       \/ /\ i # NOINO
          /\ ref' = Loaded(i) /\ Go(t, [l EXCEPT !.pc = "rename lock obj2", !.obj2 = i])
    /\ UNCHANGED <<load, disk, morgueSv, lock, halt>>

RenameLockObj2(t) ==
    /\ At(t, "rename lock obj2")
    /\ Take(t, th[t].obj2) /\ Go(t, AfterObj2(th[t]))
    /\ UNCHANGED <<load, disk, morgueSv, ref, halt>>

RenameDir1(t) ==
    /\ At(t, "rename dir1")
    /\ Take(t, th[t].dir1) /\ Go(t, ReloadObj1(th[t]))
    /\ UNCHANGED <<load, disk, morgueSv, ref, halt>>

RenameReload1(t) ==
    LET l == th[t]
        i == ent[l.dir1][Name1(l)] IN
    /\ At(t, "rename reload1")
    /\ \/ i = NOINO /\ To(t, "rename unlock") /\ UNCHANGED ref
       \/ /\ i # NOINO /\ i = l.obj2                                \* nothing to do
          /\ ref' = Loaded(i) /\ Go(t, Dropping(l, <<i>>, "rename unlock"))
       \/ /\ i \notin {NOINO, l.obj2}
          /\ ref' = Loaded(i) /\ Go(t, [l EXCEPT !.pc = "rename lock obj1", !.obj1 = i])
    /\ UNCHANGED <<load, disk, morgueSv, lock, halt>>

-----------------------------------------------------------------------------
(* sfs_rename: the operation *)

MovesDir(l) == type[l.obj1] = "dir" /\ l.dir1 # l.dir2

\* dir2/name2 gets obj1 and dir1/name1 loses it.
MovedEntry(l) ==
    /\ ent' = [WithEntry(l.dir2, Name2(l), l.obj1) EXCEPT ![l.dir1][Name1(l)] = NOINO]
    /\ stray' = IF lc[l.dir1] = 0 THEN [stray EXCEPT ![l.obj1] = @ - 1] ELSE stray

\* A directory also gets a new parent.  The count of dir2 is lc2 when the target has been
\* disposed of.
Moved(l, lc2) ==
    LET gone == {l.obj2} \ {NOINO} IN
    /\ MovedEntry(l)
    /\ dotdot' = [i \in Inodes |-> IF MovesDir(l) /\ i = l.obj1 THEN l.dir2 ELSE
                                   IF i \in gone THEN NOINO ELSE dotdot[i]]
    /\ lc' = [i \in Inodes |-> IF i \in gone THEN 0 ELSE
                               IF i = l.dir2 THEN (IF MovesDir(l) THEN lc2 + 1 ELSE lc2) ELSE
                               IF MovesDir(l) /\ i = l.dir1 THEN lc[i] - 1 ELSE lc[i]]

WrongParent(l) == MovesDir(l) /\ dotdot[l.obj1] # l.dir1

\* The target is a name that does not exist, or an empty directory.
RenameMove(t) ==
    LET l == th[t]
        o1 == l.obj1
        o2 == l.obj2
        lc2 == IF o2 = NOINO THEN lc[l.dir2] ELSE lc[l.dir2] - 1 IN
    /\ At(t, "rename lock obj1")
    /\ o2 # NOINO => type[o1] = "dir" /\ type[o2] = "dir" /\ ~HasNames(o2)
    /\ ~Removed(l.dir2)
    /\ IF o2 # NOINO /\ (lc[l.dir2] < 2 \/ lc[o2] # 2)
         THEN Free(o1) /\ Panic("rename link count")
       ELSE IF WrongParent(l) THEN Free(o1) /\ Panic("rename ..")
       ELSE IF o2 # NOINO /\ ~morgueSv THEN Free(o1) /\ Panic("morgue vnode")
       ELSE /\ Free(o1)
            /\ lock' = [i \in DOMAIN lock |-> IF i = o1 THEN t ELSE
                          IF i # RENAMELOCK /\ i = o2 THEN NULL ELSE lock[i]]
            /\ Moved(l, lc2)
            /\ morgue' = ToMorgue({o2})
            /\ Go(t, [Dropping(l, IF o2 = NOINO THEN <<>> ELSE <<o2>>, "rename unlock")
                        EXCEPT !.obj2 = NOINO])
            /\ UNCHANGED <<alloc, type, relinked, replaced, morgueSv, ref, halt>>
    /\ UNCHANGED load

\* The target is a file: it loses the name, and its reference goes before the move.
RenameReplace(t) ==
    LET l == th[t]
        o1 == l.obj1
        o2 == l.obj2 IN
    /\ At(t, "rename lock obj1")
    /\ o2 # NOINO /\ ~Removed(l.dir2)
    /\ type[o1] = "file" /\ type[o2] = "file" /\ Free(o1)
    /\ IF lc[o2] = 0 THEN Panic("rename link count")
       ELSE /\ lock' = [lock EXCEPT ![o1] = t, ![o2] = NULL]
            /\ ent' = WithEntry(l.dir2, Name2(l), NOINO)
            /\ lc' = [lc EXCEPT ![o2] = @ - 1]
            /\ replaced' = IF lc[o2] = 1 THEN replaced \cup {o2} ELSE replaced
            /\ Go(t, [Dropping(l, <<o2>>, "rename replaced") EXCEPT !.obj2 = NOINO])
            /\ UNCHANGED <<alloc, type, dotdot, morgue, stray, relinked, morgueSv, ref, halt>>
    /\ UNCHANGED load

RenameReplaced(t) ==
    /\ At(t, "rename replaced")
    /\ MovedEntry(th[t])
    /\ To(t, "rename unlock")
    /\ UNCHANGED <<load, alloc, type, lc, dotdot, morgue, relinked, replaced, morgueSv, ref,
                   lock, halt>>

\* dir2 was removed, or the target has the wrong type or is not empty.
RenameRefused(t) ==
    LET l == th[t]
        o2 == l.obj2 IN
    /\ At(t, "rename lock obj1")
    /\ \/ Removed(l.dir2)
       \/ o2 # NOINO /\ type[o2] # type[l.obj1]
       \/ o2 # NOINO /\ type[o2] = "dir" /\ HasNames(o2)
    /\ Take(t, l.obj1)
    /\ To(t, "rename unlock")
    /\ UNCHANGED <<load, disk, morgueSv, ref, halt>>

RenameUnlock(t) ==
    /\ At(t, "rename unlock")
    /\ lock' = [i \in DOMAIN lock |-> IF lock[i] = t /\ i # RENAMELOCK THEN NULL ELSE lock[i]]
    /\ Go(t, Out0(th[t]))
    /\ UNCHANGED <<load, disk, morgueSv, ref, halt>>

RenameEnd(t) ==
    /\ At(t, "rename end")
    /\ Release({RENAMELOCK})
    /\ Go(t, End(th[t]))
    /\ UNCHANGED <<load, disk, morgueSv, ref, halt>>

-----------------------------------------------------------------------------
(* sfs_namefile: up the tree, one lock at a time *)

Namefile(t) ==
    LET l == th[t]
        sv == l.child
        parent == dotdot[sv] IN
    /\ At(t, "namefile") /\ Free(sv)
    /\ \/ /\ parent = NOINO
          /\ Go(t, Dropping([l EXCEPT !.child = NOINO], <<sv>>, "end")) /\ UNCHANGED ref
       \/ /\ parent = sv
          /\ ref' = Loaded(sv)
          /\ Go(t, Dropping([l EXCEPT !.child = NOINO], <<sv, sv>>, "end"))
       \/ /\ parent \notin {NOINO, sv}
          /\ ref' = Loaded(parent)
          /\ Go(t, [l EXCEPT !.pc = "getonename", !.walk = parent])
    /\ UNCHANGED <<load, disk, morgueSv, lock, halt>>

Getonename(t) ==
    LET l == th[t]
        m == [l EXCEPT !.walk = NOINO, !.child = NOINO] IN
    /\ At(t, "getonename") /\ Free(l.walk)
    /\ IF \E n \in Names : ent[l.walk][n] = l.child
         THEN Go(t, Dropping([m EXCEPT !.child = l.walk], <<l.child>>, "namefile"))
         ELSE Go(t, Dropping(m, <<l.walk, l.child>>, "end"))
    /\ UNCHANGED <<load, disk, morgueSv, ref, lock, halt>>

-----------------------------------------------------------------------------
(* Unmount, and a crash with the mount after it *)

\* sfs_unmount: the vnode of the morgue is destroyed before the test for open files,
\* which fails as long as the file system is the boot file system.
Unmount(t) ==
    /\ At(t, "unmount")
    /\ IF morgueSv THEN /\ morgueSv' = FALSE
                        /\ To(t, "end")
                        /\ UNCHANGED <<disk, ref, lock, halt>>
       ELSE Panic("morgue vnode")
    /\ UNCHANGED load

\* The entries of the morgue are loaded one after the other, and reclaimed.  A second
\* entry of an inode that the first one freed cannot be loaded.
BadEntry(i) == morgue[i] > 0 /\ (i \notin alloc \/ (lc[i] = 0 /\ morgue[i] > 1))

\* The machine stops between two calls of every thread, with the journal flushed, and
\* sfs_domount clears the morgue.
CrashAndMount ==
    LET buried == {i \in Inodes : morgue[i] > 0 /\ lc[i] = 0} IN
    /\ halt = "no" /\ Loads[load].crash
    /\ \A t \in Threads : th[t].pc = "idle"
    /\ \E t \in Threads : th[t].left < Loads[load].calls
    /\ IF \E i \in Inodes : BadEntry(i) THEN Panic("unallocated block")
       ELSE /\ alloc' = alloc \ buried
            /\ type' = [i \in Inodes |-> IF i \in buried THEN "none" ELSE type[i]]
            /\ ent' = [i \in Inodes |-> [n \in Names |-> IF i \in buried THEN NOINO ELSE ent[i][n]]]
            /\ morgue' = [i \in Inodes |-> 0]
            /\ relinked' = {}
            /\ replaced' = replaced \ buried
            /\ ref' = [i \in Inodes |-> IF i = ROOT THEN 1 ELSE 0]
            /\ morgueSv' = TRUE
            /\ th' = [t \in Threads |-> [th[t] EXCEPT !.fd = NOINO]]
            /\ UNCHANGED <<lc, dotdot, stray, lock, halt>>
    /\ UNCHANGED load

-----------------------------------------------------------------------------

Done ==
    /\ halt # "no" \/ \A t \in Threads : th[t].pc = "idle"
    /\ UNCHANGED vars

Step(t) ==
    \/ Begin(t) \/ Finish(t) \/ Path2(t) \/ Walk(t)
    \/ VnodeDecref(t) \/ DropsDone(t) \/ Reclaim(t)
    \/ Creat(t) \/ Mkdir(t) \/ LinkDir(t) \/ LinkFile(t)
    \/ Rmdir(t) \/ RemoveFile(t) \/ RmdirVictim(t) \/ RemoveVictim(t) \/ UnlockDir(t)
    \/ RenameStart(t) \/ RenameObj1(t) \/ RenameObj2(t) \/ CheckParent(t)
    \/ RenameCheck(t) \/ RenameDir2(t) \/ RenameReload2(t) \/ RenameLockObj2(t)
    \/ RenameDir1(t) \/ RenameReload1(t) \/ RenameMove(t) \/ RenameReplace(t)
    \/ RenameReplaced(t) \/ RenameRefused(t) \/ RenameUnlock(t) \/ RenameEnd(t)
    \/ Namefile(t) \/ Getonename(t) \/ Unmount(t)

Next == (\E t \in Threads : Step(t)) \/ CrashAndMount \/ Done

Spec == Init /\ [][Next]_vars

-----------------------------------------------------------------------------
(* Properties *)

\* Every variable stays in its type.
TypeOK ==
    /\ load \in DOMAIN Loads
    /\ alloc \subseteq Inodes
    /\ type \in [Inodes -> {"none", "file", "dir"}]
    /\ lc \in [Inodes -> Nat]
    /\ ent \in [Inodes -> [Names -> Inodes \cup {NOINO}]]
    /\ dotdot \in [Inodes -> Inodes \cup {NOINO}]
    /\ morgue \in [Inodes -> Nat] /\ stray \in [Inodes -> Nat]
    /\ ref \in [Inodes -> Nat]
    /\ lock \in [Inodes \cup {RENAMELOCK} -> Threads \cup {NULL}]
    /\ relinked \cup replaced \subseteq Inodes
    /\ morgueSv \in BOOLEAN

\* The references thread t holds to inode i.
Holds(t, i) ==
    LET l == th[t] IN
    Quantify({"walk", "dir1", "dir2", "obj1", "obj2", "child", "fd"}, LAMBDA f : l[f] = i)
        + Quantify(DOMAIN l.drop, LAMBDA k : l.drop[k] = i)

\* vn_refcount of every vnode in the table is the number of references that are held
\* (vnode.c, sfs_loadvnode and sfs_reclaim): no path of a call loses or doubles one, and
\* no vnode is destroyed under a thread that uses it.
RefsExact ==
    \A i \in Inodes : ref[i] = (IF i = ROOT THEN 1 ELSE 0)
                                 + MapThenSumSet(LAMBDA t : Holds(t, i), Threads)

\* The names in directories that were not removed, . and .. that lead to an inode.
LinksTo(i) ==
    Cardinality({p \in Inodes \X Names : lc[p[1]] > 0 /\ ent[p[1]][p[2]] = i})
    + (IF dotdot[i] # NOINO THEN 1 ELSE 0)
    + Cardinality({d \in Inodes : dotdot[d] = i})

\* An inode that nobody is working on has the link count of the names that lead to it,
\* plus those that sfs_link made in a removed directory, and names lead to allocated
\* inodes only: the operations of sfs_vnops.c never free what a name still reaches.
LinkCountsExact ==
    /\ \A i \in alloc : Free(i) => lc[i] = LinksTo(i) + stray[i]
    /\ \A d \in Inodes, n \in Names : ent[d][n] \in alloc \cup {NOINO}

\* The top of the tree is reached from directory i by going up.
ReachesRoot(i) ==
    LET up[k \in 0 .. INODES] == IF k = 0 THEN i ELSE
                                 IF up[k - 1] = NOINO THEN NOINO ELSE dotdot[up[k - 1]]
    IN up[INODES] = ROOT

\* The directories that were not removed form one tree below the root, and .. names the
\* directory that has the entry: concurrent renames, which check for this with other
\* calls in between (check_parent), never make a detached ring of directories.
OneTree ==
    \A i \in alloc : type[i] = "dir" /\ lc[i] > 0 =>
        /\ ReachesRoot(i)
        /\ i # ROOT => \E n \in Names : ent[dotdot[i]][n] = i

\* An inode that lost its last name and is still in use is in the morgue, unless rename
\* took the name over, and the morgue has one entry for such an inode and nothing else,
\* unless the inode was linked again (consider_morgue, sfs_reclaim).
MorgueExact ==
    \A i \in Inodes :
        /\ i \in alloc /\ lc[i] = 0 /\ Free(i) => morgue[i] > 0 \/ i \in replaced
        /\ morgue[i] > 0 => i \in relinked \/ (i \in alloc /\ lc[i] = 0 /\ morgue[i] = 1)

\* The lock that thread t asks for in its next step, or none.
Wants(t) ==
    LET l == th[t] IN
    CASE l.pc \in {"creat", "mkdir", "rmdir", "remove", "rename obj1", "rename dir1"} -> {l.dir1}
      [] l.pc = "link" /\ type[l.obj1] # "dir"                      -> {l.dir1}
      [] l.pc \in {"link file", "rmdir victim", "remove victim", "rename lock obj1"} -> {l.obj1}
      [] l.pc \in {"rename obj2", "rename dir2"}                    -> {l.dir2}
      [] l.pc = "rename lock obj2"                                  -> {l.obj2}
      [] l.pc = "rename check" -> {IF l.dir1 # l.dir2 /\ Dir1First(l) THEN l.dir1 ELSE l.dir2}
      [] l.pc = "rename"                                            -> {RENAMELOCK}
      [] l.pc \in {"check_parent", "namefile"}                      -> {l.child}
      [] l.pc \in {"walk", "getonename"}                            -> {l.walk}
      [] l.pc = "reclaim"                                           -> {Head(l.drop)}
      [] OTHER                                                      -> {}

\* A set of threads that wait for locks of each other.
Ring(S) == S # {} /\ \A t \in S : \E i \in Wants(t) : lock[i] \in S

\* "Locks the target vnodes and their parents in a complex fashion which is carefully
\* arranged so it won't deadlock with rmdir" (the comment on sfs_rename).  Refuted.
NoDeadlock == \A S \in SUBSET Threads : ~Ring(S)

\* sfs_rename locks the file that it would replace before dir1 or before a directory that
\* it moves.
FileBeforeDir(t) ==
    LET l == th[t] IN
    /\ l.pc \in {"rename dir1", "rename lock obj1"}
    /\ l.obj2 # NOINO /\ type[l.obj2] = "file"
    /\ \A i \in Wants(t) : type[i] = "dir"

\* The order in which all operations lock vnodes makes no ring of threads that wait for
\* each other, and no thread waits for a lock of its own, but for a rename to the name of
\* a file that has another name in a directory that is still to be locked.
NoOtherDeadlock == \A S \in SUBSET Threads : Ring(S) => \E t \in S : FileBeforeDir(t)

\* No assertion or panic of the operations fails, but for a morgue vnode that an unmount
\* destroyed and for a mount that finds a bad entry in the morgue.
NoAssertFails == halt \in {"no", "morgue vnode", "unallocated block"}
==============================================================================
