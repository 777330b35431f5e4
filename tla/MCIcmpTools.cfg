SPECIFICATION ToolSpec
CONSTANTS
  NClients = 2
  NPorts = 1
  TableSizes = {1, 2}
  Cap = 1
  MaxErrs = 1
  SeqMod = 2
  Count = 3
  Preloads = {0, 4}
  max_ttl = 3
  nprobes = 1
  PathLen = 2
  RcvBuf = 1
  MaxOther = 1
  MaxDups = 1
INVARIANT CountsExact
PROPERTIES OwnAnswers Delivered
CHECK_DEADLOCK FALSE
