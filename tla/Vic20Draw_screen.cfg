SPECIFICATION Spec
CONSTANTS
  Length = 3
  MaxFrames = 4
INVARIANT ScreenStable
CHECK_DEADLOCK FALSE
