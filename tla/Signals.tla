------------------------------- MODULE Signals -------------------------------
(***************************************************************************)
(* The programs that signal handlers drive, one of them at a time: the     *)
(* client of rtt/ and its server, whose dg_send_recv() SIGALRM interrupts; *)
(* the server of sigio/, whose dg_echo() SIGIO interrupts; and the         *)
(* heartbeat that the client and the server of oob/ run beside their       *)
(* loops, with SIGALRM and SIGURG.                                         *)
(***************************************************************************)
EXTENDS DgSendRecv

CONSTANTS QSIZE, MaxArrivals, MaxProbes, MaxLate

ASSUME QSIZEAssumption == QSIZE \in Nat \ {0}
ASSUME ArrivalsAssumption == MaxArrivals \in Nat
ASSUME ProbesAssumption == MaxProbes \in Nat

VARIABLES runs,   \* which of the three
          dg, iget, iput, nqueue, cntread, nread, spc, inhandler, sigio, nonblocking,
          arrived, taken, early, sent,
          timer, due, urg, stack, reg, nprobes, oob, flight, main, over, late, lost, rearmed

S == INSTANCE SigioEcho WITH pc <- spc
H == INSTANCE Heartbeat

servvars == <<dg, iget, iput, nqueue, cntread, nread, spc, inhandler, sigio, nonblocking,
              arrived, taken, early, sent>>
beatvars == <<timer, due, urg, stack, reg, nprobes, oob, flight, main, over, late, lost,
              rearmed>>
allvars == <<runs, vars, servvars, beatvars>>

\* The programs that do not run stay where they start.
SignalsInit == runs \in {"rtt", "sigio", "heartbeat"} /\ Init /\ S!Init /\ H!BeatInit

Client(A) == runs = "rtt" /\ A /\ UNCHANGED <<runs, servvars, beatvars>>
Serv(A) == runs = "sigio" /\ A /\ UNCHANGED <<runs, vars, beatvars>>
Beat(A) == runs = "heartbeat" /\ A /\ UNCHANGED <<runs, vars, servvars>>

SignalsNext == Client(Next) \/ Serv(S!Next) \/ Beat(H!BeatNext)

\* The statements and the handlers of each process are executed, a timer expires,
\* and TCP delivers the heartbeat's bytes.  A pending unblocked SIGIO is delivered
\* before the next statement of the main loop for ever: strong fairness, because
\* the mask opens and closes on every turn of the loop.  Nothing is assumed of
\* the UDP network or of the server of rtt/.
SignalsFairness ==
  /\ WF_allvars(Client(client) \/ Serv(S!dg_echo) \/ Beat(H!Handlers("cli")))
  /\ WF_allvars(Client(sig_alrm) \/ Serv(S!sig_io) \/ Beat(H!Handlers("serv")))
  /\ WF_allvars(Beat(H!Kernel)) /\ WF_allvars(Beat(H!Shutdown))
  /\ SF_allvars(Serv(S!Deliver))

SignalsSpec == SignalsInit /\ [][SignalsNext]_allvars /\ SignalsFairness

-----------------------------------------------------------------------------
(* Properties, with ReplyMatchesRequest and SampleOfThisRequest.           *)

\* Every datagram that sig_io reads is echoed once and in the order of arrival:
\* the handler never overwrites a slot that the main loop has yet to send.
EchoInOrder == S!EchoInOrder

\* A datagram waiting in the socket of the SIGIO server is never forgotten, but
\* for those before FIOASYNC with nothing after them.
NoStrandedDatagram == S!NoStrandedDatagram

\* The client of the heartbeat says that its server is unreachable, and the
\* server that its client sends no probes, only when that is so, but for the
\* races that Heartbeat names.
NoFalseAlarm == H!NoFalseAlarm

\* Every datagram is echoed once one has come after FIOASYNC, unless the server
\* exits or its handler blocks in recvfrom.
EventuallyEchoed == S!EventuallyEchoed

\* No one waits for ever for a peer that is silent: dg_send_recv() returns a reply
\* or gives up, unless its timer expires before sigsetjmp; and each end of the
\* heartbeat notices that the other's host has crashed, except a client that has
\* turned it off (strcliselect02.c:39).
SilenceNoticed ==
  /\ CallTerminates
  /\ \A p \in H!Ends2 : H!Unheard(p) ~> H!Noticed(p)
=============================================================================
