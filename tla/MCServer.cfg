CONSTANTS
  Conn = {c1, c2}
  User = {alice, bob}
  first = c1
  shared = alice
  None = None
  NumWorkers = 2
  MaxWrites = 1
SPECIFICATION MCSpec
INVARIANTS
  SessionsConsistent
PROPERTIES
  RefusedOnlyIfTaken
  ClosedForGood
  ServerProgress
