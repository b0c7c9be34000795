SPECIFICATION MCSpec
CONSTANTS
  payload_size_basic = 1
  payload_size_extended = 2
  m_max_message_size = 5
  max_header_size = 24
  max_body_size = 2
  max_reason = 3
  max_port = 7
  Key = {"k1", "k2"}
INVARIANTS
  FramesKept
  HttpKept
  Negotiated
  ValuesSurvive
CHECK_DEADLOCK FALSE
