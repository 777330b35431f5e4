CONSTANTS
  c1 = c1
  c2 = c2
  N = 2
  MaxExtra = 1
  Clients = {c1, c2}
  MaxStrm = 2
  MoreStrms = 3
  MaxLines = 2
  IncrSz = 2
  NeedMore = 1
  MaxSize = 3
SPECIFICATION MessageSpec
INVARIANTS NoStrayAlarm RepliesExact
PROPERTIES ForCause WaitsEnd
CHECK_DEADLOCK FALSE
