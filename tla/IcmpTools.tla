------------------------------ MODULE IcmpTools ------------------------------
(***************************************************************************)
(* The programs that read ICMP messages from raw sockets, side by side: the *)
(* daemon of Icmpd and the programs of Probe (dpc "probe").  Each has the   *)
(* variables of its module; those of the other stay as they are.            *)
(***************************************************************************)
EXTENDS Icmpd

CONSTANTS SeqMod, Count, Preloads, max_ttl, nprobes, PathLen, RcvBuf, MaxOther, MaxDups

VARIABLES pprog, ppc, alrm, ending, flag, sent, got, code, done, nreceived, nrepeats,
          rcvd_tbl, answered, raced, flight, rawq, nother, ndups

P == INSTANCE Probe

daemononly == <<daemon, listenq, icmp, nerrs, cst, inbox, outbox>>
probeonly == <<pprog, ppc, alrm, ending, flag, sent, got, code, done, nreceived, nrepeats,
               rcvd_tbl, answered, raced, flight, rawq, nother, ndups>>
allvars == <<daemononly, reg, probeonly>>
Probing == dpc = "probe"

ToolInit ==
  \/ /\ Init
     /\ pprog = P!Prog("none") /\ ppc = "none" /\ alrm = FALSE /\ ending = FALSE /\ flag = FALSE
     /\ sent = 0 /\ got = P!NoMsg /\ code = 0 /\ done = 0 /\ nreceived = 0 /\ nrepeats = 0
     /\ rcvd_tbl = {} /\ answered = {} /\ raced = FALSE
     /\ flight = {} /\ rawq = << >> /\ nother = 0 /\ ndups = 0
  \/ /\ P!Init
     /\ FD_SETSIZE = 0 /\ dpc = "probe" /\ client = << >> /\ maxi = -1 /\ allset = {} /\ rset = {}
     /\ nready = 0 /\ i = 0 /\ pkt = NoPort /\ conn = << >> /\ listenq = << >>
     /\ icmp = [v \in Raw |-> << >>] /\ nerrs = 0 /\ cst = [c \in Clients |-> "idle"]
     /\ inbox = [c \in Clients |-> << >>] /\ outbox = [c \in Clients |-> << >>]

DaemonStep(A) == ~Probing /\ A /\ UNCHANGED probeonly
ProbeStep(A) == Probing /\ A /\ UNCHANGED daemononly

ToolNext == DaemonStep(Next) \/ ProbeStep(P!Next)

\* The daemon runs, and so does a probing program and its timer; nothing is assumed
\* of the network or of the daemon's clients.
ToolSpec ==
  /\ ToolInit /\ [][ToolNext]_allvars
  /\ WF_allvars(DaemonStep(Daemon))
  /\ WF_allvars(ProbeStep(P!Process)) /\ WF_allvars(ProbeStep(P!Clock))

-----------------------------------------------------------------------------
\* What each program counts is so: the daemon's table, descriptor set and nready
\* agree with its connections; bsdping's nreceived is the number of probes with an
\* answer, though answers repeat and rcvd_tbl's bits are used again.
CountsExact == IF Probing THEN P!SummaryExact ELSE TableExact

\* Among messages that concern others, each program acts only on its own: the daemon
\* passes an error on to the client whose socket it is about, unless that has yet to
\* register; traceroute shows the answer to its last probe; udpcksum gives up only
\* without one.
OwnAnswers == [][IF Probing THEN P!AnswerMatches ELSE RightClient]_allvars

\* A registered client gets the errors about its port, unless another client or the
\* daemon's end stands in the way, and every probing program with an end comes to it,
\* whatever the network loses.
Delivered == ErrorDelivered /\ P!ProbeEnds
=============================================================================
