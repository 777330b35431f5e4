--------------------------- MODULE MessageClients ---------------------------
(***************************************************************************)
(* The clients that exchange messages rather than a stream of bytes, side   *)
(* by side: the UDP clients of DgCli, and the SCTP clients and servers of   *)
(* Sctp (prog.wait "sctp").  Each has the variables of its module; those of *)
(* the other stay as they are.                                              *)
(***************************************************************************)
EXTENDS DgCli

CONSTANTS Clients, MaxStrm, MoreStrms, MaxLines, IncrSz, NeedMore, MaxSize

ASSUME SctpAssumption ==
  /\ IsFiniteSet(Clients) /\ MaxStrm \in Nat \ {0} /\ MoreStrms \in Nat /\ MoreStrms > MaxStrm
  /\ MaxLines \in Nat /\ NeedMore \in Nat \ {0} /\ IncrSz \in Nat /\ IncrSz > NeedMore
  /\ MaxSize \in Nat \ {0}

VARIABLES serv, stream_increment, cli, asc, down, notes, spc, cur, at_in_buf, rdbuf_sz,
          peeled, cpc, round, nsent, i, lost

S == INSTANCE Sctp

udponly == <<prog, pc, line, timer, ready, gaveup, shown, network>>
sctponly == <<serv, stream_increment, cli, asc, down, notes, spc, cur, at_in_buf, rdbuf_sz,
              peeled, cpc, round, nsent, i, lost>>
allvars == <<udponly, up, got, sctponly>>
OverSctp == prog.wait = "sctp"

MessageInit ==
  \/ /\ Init
     /\ serv = S!plain /\ stream_increment = FALSE /\ cli = << >>
     /\ asc = [c \in Clients |-> "none"] /\ down = << >> /\ notes = << >>
     /\ spc = "exit" /\ cur = << >> /\ at_in_buf = 0 /\ rdbuf_sz = 0 /\ peeled = {}
     /\ cpc = [c \in Clients |-> "closed"] /\ round = << >> /\ nsent = << >> /\ i = << >>
     /\ lost = {}
  \/ /\ prog = Cli("sctp", TRUE, "any") /\ S!SctpInit
     /\ pc = "exit" /\ line = 0
     /\ alarm = "off" /\ blocked = FALSE /\ jmpset = FALSE /\ pipe = FALSE
     /\ ready = {} /\ gaveup = FALSE /\ shown = << >>
     /\ reqs = {} /\ reps = {} /\ sockq = << >> /\ err = FALSE /\ daemon = FALSE
     /\ nstrays = 0 /\ ndups = 0

UdpStep(A) == ~OverSctp /\ A /\ UNCHANGED sctponly
SctpStep(A) == OverSctp /\ A /\ UNCHANGED udponly

MessageNext == UdpStep(Next) \/ SctpStep(S!SctpNext)

\* A UDP client runs and time passes; an SCTP server and its children run, and the
\* clients receive what arrives.  Nothing is assumed of users and of UDP.
MessageSpec ==
  /\ MessageInit /\ [][MessageNext]_allvars
  /\ WF_allvars(UdpStep(Step) \/ SctpStep(S!ServerStep)) /\ WF_allvars(UdpStep(Clock))
  /\ \A c \in Clients : WF_allvars(SctpStep(S!Recv(c))) /\ WF_allvars(SctpStep(S!str_echo(c)))

-----------------------------------------------------------------------------
\* SCTP: each message is answered at most once, in the order of its stream and on the
\* stream the server's argument says, and a client reads its next line only when all
\* its messages are answered.
RepliesExact == OverSctp => S!StreamOrder /\ S!RoundComplete

\* UDP: one reply is printed for one request, the reply to that request unless a wait
\* was given up before or the network repeated a datagram.  SCTP: the server ends only
\* over an association that is going, never over a stream number or its buffer.
ForCause == [][IF OverSctp THEN S!EndsForCause ELSE ReplyMatches]_allvars

Waits(c) == IF OverSctp THEN cpc[c] = "recv" ELSE Waiting
Excused(c) == IF OverSctp THEN S!Given_up(c) ELSE Stuck

\* A wait ends, whatever a network that loses datagrams does, for every UDP client
\* with a timer whose signal did not come just before the call; an SCTP client gets
\* all its replies unless the association or the server ends.
WaitsEnd == \A c \in Clients : Waits(c) ~> (~Waits(c) \/ Excused(c))
=============================================================================
