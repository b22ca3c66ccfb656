SPECIFICATION MCSpec
CONSTANTS
    MBLOCK = 2
    PAGE = 8
    HEAPMAX = 24
    HALF = 64
    Requests = {0, 1, 4, 7, 44}
INVARIANTS
  ChainIntact
  HeldExactly
  
  ClientsSafe
PROPERTIES
  ClientsFinish
\* The kernel's loads and the problems come to an end.
CHECK_DEADLOCK FALSE
