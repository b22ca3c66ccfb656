\* Four threads: more than enough for a holder, a sleeper and a third thread
\* that overtakes the sleeper or signals while it is being queued.
SPECIFICATION FairSpec
CONSTANTS
  Threads = {t1, t2, t3, t4}
  CVs = {c1, c2}
  NoThread = NoThread
  NoCV = NoCV
INVARIANTS
  IndInv
  NoLostWakeup
PROPERTIES
  ImplementsMonitor
  LockSleeperWoken
\* All threads may be asleep in cv_wait with nobody left to signal them.
CHECK_DEADLOCK FALSE
