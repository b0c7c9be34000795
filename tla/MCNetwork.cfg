SPECIFICATION MCSpec
CONSTANTS
  Client = {c1, c2}
  NoClient = NoClient
  Garbled = Garbled
  Joined = Joined
  Congestion = TRUE
  MaxSends = 2
  MaxRequests = 1
  MaxMessages = 2
  MaxConnects = 2
INVARIANTS
  ConnectionsKept
  MessagesKept
PROPERTIES
  TcpProgress
  DisconnectReturns
CHECK_DEADLOCK FALSE
