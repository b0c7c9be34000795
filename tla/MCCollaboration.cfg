CONSTANTS
  Char = {1, 2}
  Contents  <- MCContents
  Positions <- MCPositions
  Lengths   <- MCLengths
  Inserts   <- MCInserts
  MaxHistory = 2
  MaxOps = 2
  MaxRemote = 3
  MaxChannel = 1
  TakingTurns = TRUE
  MaxLen = 4
  MaxText = 2
SPECIFICATION MCSpec
INVARIANTS
  Converged
  ConvergeUnlessConflict
  TransformIsSound
CHECK_DEADLOCK FALSE
