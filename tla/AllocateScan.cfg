SPECIFICATION MCSpec
CONSTANTS
  blocksAmount = 7
  MaxRequest = 8
  Memories <- MCMemories
INVARIANTS ScanFindsFirstFit MapHasItsPlace
PROPERTY ScanAdvances
CHECK_DEADLOCK FALSE
