CONSTANTS
  Char = {1, 2}
  Contents  <- MCContents
  Positions <- MCPositions
  Lengths   <- MCLengths
  Inserts   <- MCInserts
  MaxHistory = 2
  MaxOps = 3
  MaxRemote = 2
SPECIFICATION Spec
INVARIANTS
  TypeOK
  HistoryBounded
  TextFitsRange
PROPERTIES
  EmittedExplains
