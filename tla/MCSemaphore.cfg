\* Four threads: two wake-ups can be under way while a third thread overtakes
\* them and a fourth sleeps.
SPECIFICATION FairSpec
CONSTANTS
  Threads = {t1, t2, t3, t4}
  NoThread = NoThread
  InitialCount = 1
  MaxCount = 3
INVARIANTS
  UnitsClaimed
PROPERTIES
  ImplementsSemaphore
  NoIdleUnit
\* Every thread may sleep in P with nobody left to call V.
CHECK_DEADLOCK FALSE
