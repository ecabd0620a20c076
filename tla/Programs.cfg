SPECIFICATION MCSpec
CONSTANTS
  BUFFERSIZE = 2
  CHAR = 4
  MaxItems = 5
  MaxRuns = 2
  PHILOSOPHERS_COUNT = 2
  PidPairs <- MCPidPairs
  LINE_SIZE = 3
  MaxKeys = 4
  n1 = n1
  n2 = n2
  Node = {n1, n2}
  ZeroFirst = {n2}
  MESSAGE_BUFFER_SIZE = 2
  BYTE = 4
  MaxSends = 3
  Length <- MCLength
  BROADCAST = BROADCAST
  NONE = NONE
INVARIANTS SomePhilosopherRuns HeardIsSaid
INVARIANTS InOrderOnce LengthSurvives SomeWorkerRuns WaiterHasNoMessage
PROPERTIES CommandIsWhatIsSeen ItemsAreConsumed EllaEnds
PROPERTIES RingIsMailbox ReaderGetsFrame
CHECK_DEADLOCK FALSE
