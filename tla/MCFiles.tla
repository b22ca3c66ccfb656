------------------------------ MODULE MCFiles ------------------------------
(***************************************************************************)
(* The parts of the file subsystem that have no step in common, for TLC in *)
(* one run: the file table, the VFS layer, semfs, and the blocks and       *)
(* directories of SFS.  Each behaviour is one of one part; the variables   *)
(* of the others keep a value that no property looks at, or the initial    *)
(* state in the case of the file table.                                    *)
(***************************************************************************)
EXTENDS FileTable, Sequences, TLC

VARIABLES
    part,                                                             \* the part that runs
    devs, refs, cwd, boot, open, swap, code, hold, lock, v_todo, v_halt,
    dents, sems, vref, dirlock, tablelock, semslock, waiting, fd, s_pc, s_arg, s_todo, s_faults,
    given, s_halt,
    ino, blk, used, op, want, lost, stale, left, b_faults, b_halt

vfs == <<devs, refs, cwd, boot, open, swap, code, hold, lock, v_todo, v_halt>>
semfs == <<dents, sems, vref, dirlock, tablelock, semslock, waiting, fd, s_pc, s_arg, s_todo,
           s_faults, given, s_halt>>
blocks == <<ino, blk, used, op, want, lost, stale, left, b_faults, b_halt>>
allvars == <<part, vars, vfs, semfs, blocks>>

Dev(m, f) == [mountable |-> m, fs |-> f]
Path(v, d, r) == [via |-> v, dev |-> d, rest |-> r]

\* null, emu0 and lhd0, and two processes that mount, use and unmount
V == INSTANCE Vfs WITH
    Procs <- {1, 2}, NoNode <- NULL, todo <- v_todo, halt <- v_halt,
    Known <- <<Dev(FALSE, "none"), Dev(FALSE, "fs"), Dev(TRUE, "none")>>,
    Paths <- {Path("name", 2, "empty"), Path("name", 3, "some"), Path("raw", 3, "empty"),
              Path("rel", 0, "some"), Path("boot", 0, "some"), Path("cur", 0, "empty")},
    Loads <- {<<<<"mount", "chdir", "getcwd", "unmount">>, <<"setbootfs", "chdir", "mkdir", "shutdown">>>>,
              <<<<"mount", "chdir", "unmount", "exit">>, <<"creat", "close", "link">>>>,
              <<<<"setbootfs", "rename", "shutdown">>, <<"mount", "open", "unmount">>>>,
              <<<<"open", "swapon", "swapoff", "exit">>, <<"setbootfs", "mount", "chdir", "sync">>>>,
              <<<<"swapon", "open">>, <<"chdir", "shutdown", "mount">>>>}

C(o, nm, k) == [op |-> o, name |-> nm, n |-> k]

\* Two readers and a writer; two creators, one of them exclusive, and a remover
S == INSTANCE Semfs WITH
    Procs <- {1, 2, 3}, Names <- {"a", "b"}, SLOTS <- 2, COUNTMAX <- 3, FAULTS <- 1,
    pc <- s_pc, arg <- s_arg, todo <- s_todo, faults <- s_faults, halt <- s_halt,
    Loads <- {
       <<<<C("creat", "a", 0), C("read", "", 2), C("close", "", 0)>>,
         <<C("creat", "a", 0), C("read", "", 1), C("close", "", 0)>>,
         <<C("lookup", "a", 0), C("write", "", 1), C("write", "", 2), C("close", "", 0)>>>>,
       <<<<C("creat", "a", 0), C("truncate", "", 3), C("write", "", 1), C("close", "", 0)>>,
         <<C("excl", "a", 0), C("truncate", "", 4), C("close", "", 0), C("remove", "a", 0)>>,
         <<C("creat", "b", 0), C("close", "", 0), C("remove", "a", 0)>>>>}

\* A file and a directory with pointers of all three levels of indirection
B == INSTANCE Blocks WITH
    Files <- {1, 2}, Dirs <- {2}, Names <- {1, 2, 3}, NDIRECT <- 1, D <- 2, LEVELS <- 3,
    NBLOCKS <- 20, FAULTS <- 1, faults <- b_faults, halt <- b_halt,
    Offsets <- {0, 23}, Lens <- {7, 22}, Cuts <- {1, 8, 11},
    Calls <- {<<3, 0>>, <<1, 2>>, <<0, 5>>}

NoVfs ==
    /\ devs = 0 /\ refs = 0 /\ cwd = 0 /\ boot = 0 /\ open = 0 /\ swap = 0 /\ code = 0
    /\ hold = 0 /\ lock = 0 /\ v_todo = 0 /\ v_halt = 0
NoSemfs ==
    /\ dents = 0 /\ sems = 0 /\ vref = 0 /\ dirlock = 0 /\ tablelock = 0 /\ semslock = 0
    /\ waiting = 0 /\ fd = 0 /\ s_pc = 0 /\ s_arg = 0 /\ s_todo = 0 /\ s_faults = 0
    /\ given = 0 /\ s_halt = 0
NoBlocks ==
    /\ ino = 0 /\ blk = 0 /\ used = 0 /\ op = 0 /\ want = 0 /\ lost = 0 /\ stale = 0 /\ left = 0
    /\ b_faults = 0 /\ b_halt = 0

MCInit ==
    /\ Init
    /\ \/ part = "filetable" /\ NoVfs /\ NoSemfs /\ NoBlocks
       \/ part = "vfs" /\ V!Init /\ NoSemfs /\ NoBlocks
       \/ part = "semfs" /\ NoVfs /\ S!Init /\ NoBlocks
       \/ part = "blocks" /\ NoVfs /\ NoSemfs /\ B!Init

MCNext ==
    /\ UNCHANGED part
    /\ \/ part = "filetable" /\ Next /\ UNCHANGED <<vfs, semfs, blocks>>
       \/ part = "vfs" /\ V!Next /\ UNCHANGED <<vars, semfs, blocks>>
       \/ part = "semfs" /\ S!Next /\ UNCHANGED <<vars, vfs, blocks>>
       \/ part = "blocks" /\ B!Next /\ UNCHANGED <<vars, vfs, semfs>>

MCSpec == MCInit /\ [][MCNext]_allvars

Symmetry == Permutations(Procs \ {kproc})

\* The properties of the parts, stated and explained in their modules
VnodeRefsExact == part = "vfs" => V!RefsExact
FsAlive == part = "vfs" => V!FsAlive /\ V!NoAssertFails
SemsExact == part = "semfs" => S!SemRefsExact /\ S!CountExact
BlocksOwnedOnce == part = "blocks" => B!BlocksOwnedOnce
TruncationExact == [][part = "blocks" => B!Truncated]_blocks
============================================================================
