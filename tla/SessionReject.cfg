SPECIFICATION Spec
INVARIANT RejectAfterThreePasswords
CONSTANTS
  Data <- MCData
  Files <- MCFiles
  Passwords <- MCPasswords
  Secret <- MCSecret
  FaultSets <- DuplicatesOnly
  MaxLoss = 0
  MaxStray = 0
