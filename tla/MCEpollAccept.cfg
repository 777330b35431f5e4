CONSTANTS
  Clients = {c1, c2}
  MAXEPOLLSIZE = 8
  MAXLINE = 1
  MaxBytes = 1
SPECIFICATION FairSpec
PROPERTY EventuallyAccepted
CHECK_DEADLOCK FALSE
