SPECIFICATION Spec
CONSTANTS
  Length = 3
  MaxFrames = 5
INVARIANTS TargetExclusive SlotIdle FenceIncreases
PROPERTIES ImplementsHandoff WaitsEnd
CHECK_DEADLOCK FALSE
