CONSTANTS
  Versions = {"web01", "web02", "web03"}
  nfiles = 4
  maxnconn = 2
SPECIFICATION ClientSpec
INVARIANTS ConnLimit NdoneExact SetsExact
PROPERTY AllEnd
CHECK_DEADLOCK FALSE
