SPECIFICATION FairSpec
INVARIANTS
  TypeOK
  TransferOnlyWithSecret
  AttemptsInStep
  WritesInSequence
  OutputIsWholeFile
PROPERTIES
  UndisturbedOutcome
  BothEnd
CONSTANTS
  Data <- MCData
  Files <- MCFiles
  Passwords <- MCPasswords
  Secret <- MCSecret
  FaultSets <- MCFaultSets
  MaxLoss = 1
  MaxStray = 2
