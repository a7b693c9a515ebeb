SPECIFICATION Spec
CONSTANTS
  Data <- MCData
  Files <- SafetyFiles
  Window = 2
  LossIds <- FirstId
  ReorderIds <- LastId
  Faults <- FaultKinds
  MaxLoss = 1
INVARIANTS
  TypeOK
  NothingConfirmedUnwritten
  BufferWithinWindow
  NackNamesSentChunk
  NothingHeldWhileWaiting
  CompleteBeforeTerminate
  OutputIsWholeFile
PROPERTY
  ImplementsDelivery
