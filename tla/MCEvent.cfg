CONSTANTS
  Versions = {"select01", "poll01", "select03"}
  NClient = 2
  MaxConns = 3
  MaxPieces = 3
  SndBuf = 1
  Clients = {c1, c2, c3}
  MAXEPOLLSIZE = 7
  MAXLINE = 2
  MaxBytes = 3
SPECIFICATION EventSpec
INVARIANTS TablesExact ServesReady NoneSkipped
PROPERTY DataRead
CHECK_DEADLOCK FALSE
