SPECIFICATION MCSpec
CONSTANTS
  Chars = {"a", "b"}
  NL = "newline"
  Users = {u1}
  Texts <- MCTexts
  MaxHistory = 2
  MaxLength = 4
  MaxEdits = 3
  MaxClock = 1
  Author = {1, 2, 3}
  Values = {"x"}
  Timestamps = {1, 2}
  MaxFirst = 2
  MaxStep = 2
  Base = 2
  MaxInserts = 3
  MaxDeletes = 1
INVARIANTS
  EditorKept
  ReplicasAgree
PROPERTIES
  ChangesAreTold
CHECK_DEADLOCK FALSE
