CHECK_DEADLOCK FALSE
SPECIFICATION FairSpec
CONSTANTS
    t1 = t1
    t2 = t2
    t3 = t3
    t4 = t4
    NULL = NULL
    Threads = {t1, t2, t3, t4}
    Users = {t2, t3}
    Cpus = {1, 2}
    Boot <- MCBoot
    Loads <- MCLoads
    SHOOTDOWNS = 1
INVARIANTS
  OnePlace
  OneStack
PROPERTIES
  ReadyRuns
