CONSTANTS
  Versions = {"web03"}
  nfiles = 2
  maxnconn = 2
SPECIFICATION FairSpec
PROPERTY Exits
CHECK_DEADLOCK FALSE
