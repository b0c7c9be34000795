SPECIFICATION MCSpec
CONSTANTS
  Conn = {"a", "b"}
  MaxClients = 2
  MaxListens = 2
  MaxAcceptFaults = 1
  MaxFed = 5
  MaxIoReads = 4
  MaxLen = 3
INVARIANTS
  StagesReported
  AcceptLoopKept
  ReadsKept
PROPERTIES
  TransportProgress
CHECK_DEADLOCK FALSE
