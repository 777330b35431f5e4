------------------------------- MODULE Library -------------------------------
(***************************************************************************)
(* The library's functions under test, one of four groups in a behaviour:  *)
(* the retransmission timer (RttEstimator), getaddrinfo() (GetAddrInfo), the *)
(* functions that open sockets under the daytime programs (Daytime), and the *)
(* functions that read and write lines (LineIO).  The variables of the other *)
(* groups stay as they are.                                                  *)
(***************************************************************************)
EXTENDS RttEstimator, FiniteSets

CONSTANTS NA, NAAAA, Clients, NAddrs, MsgLen,
          Callers, maxlen, BufLen, MaxBytes, MaxFiles, MaxIntr

ASSUME LineIOAssumption ==
  /\ IsFiniteSet(Callers) /\ maxlen \in Nat \ {0, 1} /\ BufLen \in Nat \ {0}
  /\ MaxBytes \in Nat /\ MaxFiles \in Nat \ {0} /\ MaxIntr \in Nat

VARIABLES
  group,   \* "rtt", "getaddrinfo", "daytime" or "lines"
  version, host, serv, hints, dns, res_inet6, gpc, failed, search, nsearch, haddrs, aihead,
  started, canon, passes, nfound, live, rc,
  sprog, cprog, nosock, busy, dead, spc, sres, sfds, serving, listenq, cpc, cres, cfds, nonb,
  sent, arrived, closed,
  func, input, file, off, read_buf, n, line, pc, ret, intr,
  got      \* of the daytime clients, or of the callers

G == INSTANCE GetAddrInfo
D == INSTANCE Daytime
L == INSTANCE LineIO

gaivars == <<version, host, serv, hints, dns, res_inet6, gpc, failed, search, nsearch, haddrs, aihead,
             started, canon, passes, nfound, live, rc>>
dayvars == <<sprog, cprog, nosock, busy, dead, spc, sres, sfds, serving, listenq, cpc, cres, cfds, nonb,
             sent, arrived, closed>>
linevars == <<func, input, file, off, read_buf, n, line, pc, ret, intr>>
allvars == <<group, vars, gaivars, dayvars, linevars, got>>

NoRtt == Init
NoGai ==
  /\ version = 0 /\ host = 0 /\ serv = 0 /\ hints = 0 /\ dns = 0 /\ res_inet6 = 0 /\ gpc = 0
  /\ failed = 0 /\ search = 0 /\ nsearch = 0 /\ haddrs = 0 /\ aihead = 0 /\ started = 0
  /\ canon = 0 /\ passes = 0 /\ nfound = 0 /\ live = 0 /\ rc = 0
NoDay ==
  /\ sprog = 0 /\ cprog = 0 /\ nosock = 0 /\ busy = 0 /\ dead = 0 /\ spc = 0 /\ sres = 0 /\ sfds = 0
  /\ serving = 0 /\ listenq = 0 /\ cpc = 0 /\ cres = 0 /\ cfds = 0 /\ nonb = 0
  /\ sent = 0 /\ arrived = 0 /\ closed = 0
NoLine ==
  /\ func = 0 /\ input = 0 /\ file = 0 /\ off = 0 /\ read_buf = 0
  /\ n = 0 /\ line = 0 /\ pc = 0 /\ ret = 0 /\ intr = 0

LibInit ==
  \/ group = "rtt" /\ Init /\ NoGai /\ NoDay /\ NoLine /\ got = 0
  \/ group = "getaddrinfo" /\ NoRtt /\ G!Init /\ NoDay /\ NoLine /\ got = 0
  \/ group = "daytime" /\ NoRtt /\ NoGai /\ D!Init /\ NoLine
  \/ group = "lines" /\ NoRtt /\ NoGai /\ NoDay /\ L!LineInit

RttStep(A) == group = "rtt" /\ A /\ UNCHANGED <<group, gaivars, dayvars, linevars, got>>
GaiStep(A) == group = "getaddrinfo" /\ A /\ UNCHANGED <<group, vars, dayvars, linevars, got>>
DayStep(A) == group = "daytime" /\ A /\ UNCHANGED <<group, vars, gaivars, linevars>>
LineStep(A) == group = "lines" /\ A /\ UNCHANGED <<group, vars, gaivars, dayvars>>

LibNext == RttStep(Next) \/ GaiStep(G!Next) \/ DayStep(D!Next) \/ LineStep(L!LineNext)

\* The daytime server, its clients and the bytes between them go on, and so does
\* every caller that reads or writes lines.
LibSpec ==
  /\ LibInit /\ [][LibNext]_allvars
  /\ WF_allvars(DayStep(D!server))
  /\ \A c \in Clients : WF_allvars(DayStep(D!client(c))) /\ WF_allvars(DayStep(D!Deliver(c)))
  /\ \A t \in Callers : WF_allvars(LineStep(L!CallerStep(t)))

-----------------------------------------------------------------------------
\* What a caller is given is right: the RTO covers the RTT just measured, and the
\* estimators stay what they estimate; getaddrinfo()'s list is exactly what its
\* arguments ask for; a client that ends well has printed the whole line; a line
\* ends where it should, and the value returned says how many bytes it has.
AnswersExact ==
  CASE group = "rtt" -> EstimatorsBounded /\ RtoCoversLastSample
    [] group = "getaddrinfo" -> G!ResultExact /\ G!FamilyExact
    [] group = "daytime" -> D!WholeTime
    [] group = "lines" -> L!ReturnExact

\* Nothing is left open or allocated for entries that did not work: a call of
\* getaddrinfo() that fails frees its list, and tcp_connect(), tcp_listen() and
\* the others close each socket that failed, and only those.
NothingLeaks ==
  CASE group = "getaddrinfo" -> G!HeapExactButFor
    [] group = "daytime" -> D!OneDescriptor
    [] OTHER -> TRUE

\* Readers and writers of lines lose, repeat and mix no bytes (LineIO's FileInOrder).
BytesInOrder == group = "lines" => L!FileInOrder

\* A client that can find the server gets the time, whichever entry of its list leads
\* there, and every caller gets through its files.
Begun(c) == group = "lines" \/ (group = "daytime" /\ D!Findable(c))
Ended(c) ==
  CASE group = "daytime" -> D!GetsTheTime(c)
    [] group = "lines" -> L!AllRead
    [] OTHER -> TRUE
CallsEnd == \A c \in Clients : Begun(c) ~> Ended(c)
=============================================================================
