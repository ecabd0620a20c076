SPECIFICATION MCSpec
CONSTANTS
  blocksAmount = 15
  p1 = p1
  p2 = p2
  Process = {p1, p2}
  RequestSizes = {1, 5}
  MaxMallocs = 4
  mutexes = mutexes
  semaphores = semaphores
  Kind = {mutexes, semaphores}
  NUMBER_OF_PAGES = 2
  MaxCreated = 5
SYMMETRY Symmetric
INVARIANTS FreshHeapsAreSound ThreadsAreApart ListsAreExact OnlyKnownLeaks FirstUseIsClean
CHECK_DEADLOCK FALSE
