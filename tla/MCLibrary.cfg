CONSTANTS
  SCALE = 32768
  RTT_RXTMIN = 2
  RTT_RXTMAX = 60
  RTT_MAXNREXMT = 3
  Samples = {0, 1, 2, 7, 60, 75}
  MaxSamples = 5
  NA = {0, 2}
  NAAAA = {0, 1}
  Clients = {c1}
  NAddrs = 2
  MsgLen = 2
  Callers = {t1, t2}
  maxlen = 3
  BufLen = 2
  MaxBytes = 3
  MaxFiles = 2
  MaxIntr = 1
SPECIFICATION LibSpec
INVARIANTS AnswersExact NothingLeaks BytesInOrder
PROPERTIES RtoDiscipline CallsEnd
CHECK_DEADLOCK FALSE
