SPECIFICATION Spec
INVARIANT TotalWithinTimeout
CONSTANTS
  Timeout = 3
  MaxSignals = 2
