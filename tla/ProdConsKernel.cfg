SPECIFICATION KernelSpec
CONSTANTS
  MaxPid = 2
  MaxThreads = 3
  QUANTUM = 5
  THREAD_QUANTUM = 1
  BlockTypes = {"T_BLOCKED_IO", "T_BLOCKED_MUTEX"}
  KillAny = FALSE
  BUFFERSIZE = 2
  CHAR = 256
  MaxItems = 4
  MaxRuns = 1
INVARIANTS ItemsInOrder WaiterTouchesNoItem
