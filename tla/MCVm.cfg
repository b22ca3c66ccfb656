SPECIFICATION Spec
CONSTANTS
    Procs = {p1, p2}
    First = p1
    Kthread = kthread
    NULL = NULL
    NCPUS = 2
    NPAGES = 4
    NSWAP = 4
    REGION = 1
    HEAPMAX = 1
    MIN_USER_PAGES = 1
    THRESHOLD = 25
    MAXDIRTY = 3
    Loads <- MCLoads
INVARIANTS
  Ownership
  SwapOwnership
  OneCpuMemory
CHECK_DEADLOCK FALSE
