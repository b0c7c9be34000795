SPECIFICATION MCSpec
CONSTANTS
  MaxSends = 2
  MaxPings = 1
  MaxReads = 2
  MaxFaults = 1
INVARIANTS
  HandlersOnce
  StreamKept
PROPERTIES
  ConnectionsEnd
CHECK_DEADLOCK FALSE
