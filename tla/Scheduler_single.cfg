SPECIFICATION Spec
CONSTANTS
  MaxPid = 3
  MaxThreads = 1
  QUANTUM = 2
  THREAD_QUANTUM = 1
  BlockTypes = {"T_BLOCKED_IO", "T_BLOCKED_MUTEX", "T_BLOCKED_PIPE"}
  KillAny = FALSE
INVARIANT BlockedThreadNeverRuns
INVARIANT ReadyThreadUnblocksProcess
INVARIANT QueueConsistent
PROPERTY DeadStaysDead
