CONSTANTS
  Char = {1, 2}
  Contents  <- MCContents
  Positions <- MCPositions
  Lengths   <- MCLengths
  Inserts   <- MCInserts
  MaxHistory = 2
  MaxOps = 3
  MaxRemote = 0
SPECIFICATION HSpec
INVARIANTS
  HistoryLeads
  NeverPutBack
PROPERTIES
  ImplementsTimeline
