SPECIFICATION Spec
INVARIANT FlowOfOneExperiment
CONSTANTS
  MaxFd = 14
  Environments <- TwoExperiments
CHECK_DEADLOCK FALSE
