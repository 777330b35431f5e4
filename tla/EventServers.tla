---------------------------- MODULE EventServers ----------------------------
(***************************************************************************)
(* The single-process servers that wait for events, side by side: the three *)
(* of SelectServer, and src/epoll.cpp (version "epoll").  Each has the      *)
(* variables of its module; those of the other stay as they are.            *)
(***************************************************************************)
EXTENDS SelectServer

CONSTANTS Clients, MAXEPOLLSIZE, MAXLINE, MaxBytes

ASSUME EpollAssumption ==
  /\ IsFiniteSet(Clients) /\ "listenfd" \notin Clients
  /\ MAXEPOLLSIZE \in Nat /\ MAXLINE \in Nat \ {0} /\ MaxBytes \in Nat

VARIABLES status, pending, sent, events, cur, curfds, full

selectonly == <<version, nconns, backlog, owner, nsent, outq, table, lready, nready, i, data>>
epollonly == <<status, pending, sent, events, cur, curfds, full>>
allvars == <<vars, epollonly>>

Epoll == INSTANCE EpollServer

EventInit ==
  \/ /\ Init
     /\ status = << >> /\ pending = << >> /\ sent = 0
     /\ events = {} /\ cur = "listenfd" /\ curfds = 0 /\ full = {}
  \/ /\ version = "epoll" /\ Epoll!Init
     /\ nconns = 0 /\ backlog = << >> /\ owner = << >> /\ nsent = 0 /\ outq = << >>
     /\ client = << >> /\ maxi = -1 /\ maxfd = 0 /\ allset = {}
     /\ lready = FALSE /\ nready = 0 /\ i = 0 /\ nleft = 0 /\ read_buf = << >>

SelectStep(A) == version # "epoll" /\ A /\ UNCHANGED epollonly
EpollStep(A) == version = "epoll" /\ A /\ UNCHANGED selectonly

EventNext == SelectStep(Next) \/ EpollStep(Epoll!Next)

\* The server is scheduled.  Clients may stop at any point.
EventSpec ==
  /\ EventInit /\ [][EventNext]_allvars
  /\ WF_allvars(SelectStep(ServerStep)) /\ WF_allvars(EpollStep(Epoll!ServerStep))

-----------------------------------------------------------------------------
\* The server's own record of its clients is exact through any history of
\* accepts and closes: client[], allset, maxi and maxfd, or curfds.
TablesExact == IF version = "epoll" THEN Epoll!CurfdsExact ELSE TableExact

\* No descriptor is served that is not ready, or is another's by now: select and
\* poll servers never block in read; epoll's events name open connections and
\* handle() closes only those hung up.
ServesReady ==
  IF version = "epoll" THEN Epoll!EventsOpen /\ Epoll!ClosesOnlyHungUp ELSE ReadNeverBlocks

Waiting(c) ==
  IF version = "epoll"
  THEN c \in Clients /\ status[c] = "open" /\ inq[c] > 0 /\ ~Epoll!LeftBehind(c)
  ELSE c \in Conns /\ inq[c] # << >> /\ \E fd \in Fds : owner[fd] = c
Over == IF version = "epoll" THEN Epoll!Dead ELSE pc \in Ends \/ Stalled

\* What clients send is read, all of it.  The exceptions: the server has ended; a
\* select or poll server waits for one client (Stalled) and goes on when that
\* client does; and src/epoll.cpp leaves what comes after a full buffer, but only
\* that, until more arrives.
DataRead == []<>(Over \/ \A c \in Conns \cup Clients : ~Waiting(c))
=============================================================================
