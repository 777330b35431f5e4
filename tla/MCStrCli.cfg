SPECIFICATION StrSpec
CONSTANTS
  N = 4
  K = 2
  C2S = 1
  S2C = 1
  OutCap = 1
INVARIANT ExitIsTrue
PROPERTIES Implements Ends ReplyShown
CHECK_DEADLOCK FALSE
