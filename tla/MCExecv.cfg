\* One copy buffer, as in the code, and two processes that want it; room for
\* two more address spaces than processes, and up to two arguments.
SPECIFICATION FairSpec
CONSTANTS
  Procs = {p1, p2}
  NoProc = NoProc
  CPY_BUF_MAX = 1
  AddrSpaces = {a1, a2, a3, a4}
  NoAS = NoAS
  MaxArgs = 2
INVARIANTS
  LoopsFind
  NothingHeldInUser
  RunsOnOwnSpace
PROPERTIES
  BufferHandedOn
\* The kernel stops at a fault in kernel mode.
CHECK_DEADLOCK FALSE
