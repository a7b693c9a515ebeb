SPECIFICATION FairSpec
CONSTANTS
  Data <- MCData
  Files <- OneFile
  Window = 2
  LossIds <- NoIds
  ReorderIds <- NoIds
  Faults <- KillOnly
  MaxLoss = 0
PROPERTY
  ServerEnds
