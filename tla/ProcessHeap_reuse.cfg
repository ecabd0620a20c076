SPECIFICATION HeapSpec
CONSTANTS
  blocksAmount = 8
  Process = {p1, p2}
  RequestSizes = {1}
  MaxMallocs = 5
INVARIANTS HeapListsEnd
CHECK_DEADLOCK FALSE
