SPECIFICATION Spec
CONSTANTS
  Data <- MCData
  Files <- OneFile
  Window = 2
  LossIds <- NoIds
  ReorderIds <- FirstId
  Faults <- NoFaults
  MaxLoss = 0
PROPERTY
  HeldChunkIsOvertaken
