SPECIFICATION Spec
CONSTANTS
  MinLength = 2
  MaxLength = 3
  ExtraRtvs = 0
  Adapters = {a1, a2}
  NoDevice = NoDevice
  MaxSignals = 4
INVARIANT ImageReady
CHECK_DEADLOCK FALSE
