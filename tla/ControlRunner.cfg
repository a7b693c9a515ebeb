SPECIFICATION Spec
INVARIANTS
  RunnerKeepsPipe
CONSTANTS
  MaxFd = 14
  Environments <- TwoChildren
CHECK_DEADLOCK FALSE
