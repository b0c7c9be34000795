CONSTANTS
  Char = {1, 2}
  Contents  <- MCContents
  Positions <- MCPositions
  Lengths   <- MCLengths
  Inserts   <- MCInserts
  MaxHistory = 2
  MaxOps = 2
  MaxRemote = 3
  MaxChannel = 1
  TakingTurns = FALSE
  MaxLen = 0
  MaxText = 0
SPECIFICATION MCSpec
INVARIANT
  Converged
CHECK_DEADLOCK FALSE
