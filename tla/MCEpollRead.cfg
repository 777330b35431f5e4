CONSTANTS
  Clients = {c1}
  MAXEPOLLSIZE = 8
  MAXLINE = 1
  MaxBytes = 2
SPECIFICATION FairSpec
PROPERTY EventuallyRead
CHECK_DEADLOCK FALSE
