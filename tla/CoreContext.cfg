SPECIFICATION Spec
CONSTANTS
  MinLength = 2
  MaxLength = 3
  ExtraRtvs = 0
  Adapters = {a1, a2}
  NoDevice = NoDevice
  MaxSignals = 6
INVARIANTS FenceIncreases FlushedBeforeRelease RtvsBalanced
PROPERTIES MoveKeepsContext ImplementsSlotPool WaitsEnd
CHECK_DEADLOCK FALSE
