SPECIFICATION Spec
CONSTANT PHILOSOPHERS_COUNT = 3
INVARIANT NeighboursDoNotEat
CHECK_DEADLOCK FALSE
