SPECIFICATION Spec
CONSTANTS
  BUFFER_SIZE = 2
  Char = {1}
  MaxPid = 2
INVARIANTS FocusIsThere KeyWakesReader KeyRingConsistent
PROPERTIES ScreensAreTerminals
CHECK_DEADLOCK FALSE
