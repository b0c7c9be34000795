SPECIFICATION MCSpec
CONSTANTS
  Logging = {t1, t2}
  Nobody = Nobody
  Starter = Starter
  MaxFileLines = 2
  MaxBackups = 3
  MaxLines = 6
  MaxCrashes = 1
  NodeName = {"a", "b"}
  MaxNodes = 3
  MaxChanges = 5
  Socket = {s1, s2, s3}
  MaxEdits = 2
  NoteValue <- NoteValues
  PortValue <- PortValues
  MaxSets = 2
INVARIANTS
  LogKept
  ClientsFollowed
  RoundTrips
PROPERTIES
  LogReturns
  TreeIsSound
CHECK_DEADLOCK FALSE
