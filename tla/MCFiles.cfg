\* The file table: two slots and two descriptors each; six forks are enough for
\* failed ones to bring the console's count down to one with two processes using
\* it.  The instances of the other parts are in MCFiles.
SPECIFICATION MCSpec
CONSTANTS
  Procs = {k, p1, p2}
  kproc = k
  NoProc = NoProc
  NULL = NULL
  OPEN_MAX = 2
  FT_MAX = 2
  STD = 1
  RefMod = 64
  MaxForks = 6
  MaxOff = 1
SYMMETRY Symmetry
INVARIANTS
  RefsCoverFds
  OffsetStable
  VnodeRefsExact
  FsAlive
  SemsExact
  BlocksOwnedOnce
PROPERTIES
  TruncationExact
\* The bounds and a failed assertion stop the system.
CHECK_DEADLOCK FALSE
