SPECIFICATION MCSpec
CONSTANTS
  Thread = {t1, t2, t3, t4}
  Starts = {0, 1, 2}
  MaxUps = 4
  PIPE_BUF_SIZE = 4
  Char = {1, 2}
  Messages <- MCMessages
INVARIANTS MutexConsistent SemaphoreConsistent PipeConsistent SecondReceiveSucceeds
PROPERTIES WaiterComesIn CallsEnd PipeIsChannel
CHECK_DEADLOCK FALSE
