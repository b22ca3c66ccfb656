\* The menu and three programs: enough for two orphans of one parent that
\* exit together, and for a grandparent.  Pid 4 is past the end of a table of
\* 4 slots.
SPECIFICATION MCSpec
CONSTANTS
  PROC_MAX = 4
  PID_MIN = 2
  PID_MAX = 19
  MaxPid = 4
  WaitArgs = {2, 3, 4}
INVARIANTS
  NoMissedExit
  ZombieKeptForParent
  NotFreedInUse
PROPERTIES
  ReapedByParentOrOrphan
  FreshPid
\* A panic, and the exit of every program, stop the system.
CHECK_DEADLOCK FALSE
