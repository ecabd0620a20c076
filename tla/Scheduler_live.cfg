SPECIFICATION FairSpec
CONSTANTS
  MaxPid = 2
  MaxThreads = 2
  QUANTUM = 2
  THREAD_QUANTUM = 1
  BlockTypes = {"T_BLOCKED_IO", "T_BLOCKED_MUTEX"}
  KillAny = FALSE
INVARIANT ThreadSwitchTerminates
PROPERTY ReadyThreadRuns
