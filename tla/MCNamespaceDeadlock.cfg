CHECK_DEADLOCK FALSE
SPECIFICATION Spec
CONSTANTS
    a = a
    b = b
    t1 = t1
    t2 = t2
    t3 = t3
    Threads = {t1, t2, t3}
    Names = {a, b}
    NULL = NULL
    INODES = 6
    Loads <- DeadlockLoads
INVARIANTS
  NoDeadlock
