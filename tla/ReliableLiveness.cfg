SPECIFICATION FairSpec
CONSTANTS
  Data <- MCData
  Files <- MCFiles
  Window = 2
  LossIds <- FirstId
  ReorderIds <- LastId
  Faults <- NoFaults
  MaxLoss = 2
PROPERTY
  TransferCompletes
