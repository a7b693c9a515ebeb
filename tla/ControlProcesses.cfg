SPECIFICATION FairSpec
INVARIANTS
  TypeOK
  DescriptorsOwned
  ChildrenInSlots
  FlowAlignsLogs
  ResultsOfLastRun
PROPERTIES
  ExitNoticed
CONSTANTS
  MaxFd = 14
  Environments <- MCEnvironments
\* The control server may die, and then its children may all have ended.
CHECK_DEADLOCK FALSE
