SPECIFICATION SignalsSpec
CONSTANTS
  SCALE = 512
  RTT_RXTMIN = 2
  RTT_RXTMAX = 60
  RTT_MAXNREXMT = 3
  MaxRequests = 2
  SEQMOD = 4
  Samples = {0, 5}
  QSIZE = 3
  MaxArrivals = 6
  MaxProbes = 3
  MaxLate = 1
INVARIANTS ReplyMatchesRequest SampleOfThisRequest EchoInOrder NoStrandedDatagram NoFalseAlarm
PROPERTIES EventuallyEchoed SilenceNoticed
CHECK_DEADLOCK FALSE
