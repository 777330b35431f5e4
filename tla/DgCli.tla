------------------------------- MODULE DgCli -------------------------------
(***************************************************************************)
(* The UDP clients.  Each dg_cli() reads a line, sends it, and waits for    *)
(* one reply, or for all the replies that a broadcast or multicast draws    *)
(* until a timer expires.  They differ in how the wait ends:                *)
(*   block    lib/dg_cli.c, udpcliserv/dgcliaddr.c, dgcliinetaddr.c,        *)
(*            dgcliconnect.c, sigio/dgcli01.c                               *)
(*   select   advio/dgclitimeo.c, dgclitimeo1.c, icmpd/dgcli01.c            *)
(*   sockopt  advio/dgclitimeo2.c (SO_RCVTIMEO)                             *)
(*   alarm    advio/dgclitimeo3.c, bcast/dgclibcast1.c, 2.c,                *)
(*            mcast/dgclibcast1.c: SIGALRM interrupts recvfrom()            *)
(*   unblock  bcast/dgclibcast3.c: SIGALRM is blocked around recvfrom()     *)
(*   pselect  bcast/dgclibcast4.c, with the kernel's or with lib/pselect.c  *)
(*   longjmp  bcast/dgclibcast5.c, mcast/dgclimcast5.c, 6.c                 *)
(*   pipe     bcast/dgclibcast6.c                                           *)
(* Datagrams may be lost, delayed, reordered and, up to a bound, repeated;  *)
(* other hosts may answer too.                                              *)
(***************************************************************************)
EXTENDS Naturals, Sequences, FiniteSets

CONSTANTS N,         \* lines typed
          MaxExtra   \* datagrams that are repeated, or come from hosts not asked

ASSUME LimitsAssumption == N \in Nat \ {0} /\ MaxExtra \in Nat

VARIABLES
  prog,     \* the client program
  up,       \* the server's port is open
  pc,
  line,     \* number of the line being asked
  alarm,    \* off, set, or pending: expired while SIGALRM is blocked
  blocked,  \* SIGALRM is blocked
  jmpset,   \* sigsetjmp() has been called
  pipe,     \* a byte is in the pipe
  ready,    \* descriptors select() found and not yet handled
  got,      \* the datagram in recvline
  gaveup,   \* some wait for one reply ended without the server's reply
  shown,    \* what was printed: line asked, line answered, by whom
  reqs, reps,       \* datagrams in flight
  sockq,            \* datagrams in the client's socket
  err,              \* an ICMP error has come for the client
  daemon,           \* icmpd runs
  nstrays, ndups

timer == <<alarm, blocked, jmpset, pipe>>
client == <<pc, line, timer, ready, got, gaveup, shown>>
network == <<reqs, reps, sockq, err, daemon, nstrays, ndups>>
vars == <<prog, up, client, network>>

-----------------------------------------------------------------------------
(* The programs: how the wait ends, whether one reply ends it, whose        *)
(* replies count.                                                           *)

Cli(wait, one, from) ==
  [wait |-> wait, one |-> one, from |-> from, icmp |-> FALSE, mask |-> FALSE]

dg_cli == Cli("block", TRUE, "any")
dgcliaddr == Cli("block", TRUE, "checked")
dgcliinetaddr == Cli("block", TRUE, "any")
dgcliconnect == Cli("block", TRUE, "connected")
sigio_dgcli01 == Cli("block", TRUE, "any")
unixdgcli01 == Cli("block", TRUE, "any")
dgclitimeo == Cli("select", TRUE, "any")
dgclitimeo1 == Cli("select", TRUE, "any")
dgclitimeo2 == Cli("sockopt", TRUE, "any")
dgclitimeo3 == Cli("alarm", TRUE, "any")
icmpd_dgcli01 == [Cli("select", TRUE, "any") EXCEPT !.icmp = TRUE]
dgclibcast1 == Cli("alarm", FALSE, "any")
dgclibcast2 == Cli("alarm", FALSE, "any")
dgclibcast3 == Cli("unblock", FALSE, "any")
dgclibcast4(kernel) ==
  [Cli(IF kernel THEN "pselect" ELSE "unblock", FALSE, "any") EXCEPT !.mask = TRUE]
dgclibcast5 == Cli("longjmp", FALSE, "any")
dgclibcast6 == Cli("pipe", FALSE, "any")
mcast_dgclibcast1 == Cli("alarm", FALSE, "any")
dgclimcast5 == Cli("longjmp", FALSE, "any")
dgclimcast6 == Cli("longjmp", FALSE, "any")

udpcliserv_udpcli01 == dg_cli
udpcliserv_udpcli02 == dgcliaddr
udpcliserv_udpcli03 == dgcliinetaddr
udpcliserv_udpcli04 == dgcliconnect
advio_udpcli01 == dgclitimeo1
advio_udpcli02 == dgclitimeo2
advio_udpcli03 == dgclitimeo3
bcast_udpcli01 == dgclibcast1
bcast_udpcli02 == dgclibcast2
bcast_udpcli03 == dgclibcast3
bcast_udpcli04(kernel) == dgclibcast4(kernel)
bcast_udpcli05 == dgclibcast5
bcast_udpcli06 == dgclibcast6
mcast_udpcli01 == mcast_dgclibcast1
mcast_udpcli05 == dgclimcast5
mcast_udpcli06 == dgclimcast6
icmpd_udpcli01 == icmpd_dgcli01
sigio_udpcli01 == sigio_dgcli01

Programs ==
  {udpcliserv_udpcli01, udpcliserv_udpcli02, udpcliserv_udpcli03,
   udpcliserv_udpcli04, advio_udpcli01, advio_udpcli02, advio_udpcli03,
   bcast_udpcli01, bcast_udpcli02, bcast_udpcli03, bcast_udpcli05,
   bcast_udpcli06, mcast_udpcli01, mcast_udpcli05, mcast_udpcli06,
   icmpd_udpcli01, sigio_udpcli01, unixdgcli01, dgclitimeo}
  \cup {bcast_udpcli04(kernel) : kernel \in BOOLEAN}

UsesAlarm == prog.wait \in {"alarm", "unblock", "pselect", "longjmp", "pipe"}

None == [from |-> "none", of |-> 0]

Init ==
  /\ prog \in Programs /\ up \in BOOLEAN
  /\ pc = "fgets" /\ line = 0
  /\ alarm = "off" /\ blocked = FALSE /\ jmpset = FALSE /\ pipe = FALSE
  /\ ready = {} /\ got = None /\ gaveup = FALSE /\ shown = << >>
  /\ reqs = {} /\ reps = {} /\ sockq = << >> /\ err = FALSE /\ daemon = TRUE
  /\ nstrays = 0 /\ ndups = 0

-----------------------------------------------------------------------------
(* The loop over the lines.                                                *)

Fgets ==
  /\ pc = "fgets"
  /\ \/ line < N /\ line' = line + 1 /\ pc' = "sendto"
     \/ pc' = "exit" /\ UNCHANGED line
  /\ UNCHANGED <<prog, up, timer, ready, got, gaveup, shown, network>>

\* Sendto(); then the timer is set, if it is a timer that ends the wait.
Sendto ==
  /\ pc = "sendto"
  /\ reqs' = reqs \cup {line}
  /\ pc' = CASE UsesAlarm -> "arm"
             [] prog.wait = "block" -> "recv"
             [] OTHER -> "wait"
  /\ UNCHANGED <<prog, up, line, timer, ready, got, gaveup, shown, reps, sockq,
                 err, daemon, nstrays, ndups>>

\* alarm(); dgclibcast4 blocks the signal first.
Arm ==
  /\ pc = "arm"
  /\ alarm' = "set" /\ blocked' = (blocked \/ prog.mask)
  /\ pc' = "top"
  /\ UNCHANGED <<prog, up, line, jmpset, pipe, ready, got, gaveup, shown, network>>

\* The wait for one reply is given up: a time-out, a datagram from someone
\* else (dgcliaddr goes back to fgets(), not to recvfrom()), an ICMP error.
GiveUp == pc' = "fgets" /\ gaveup' = TRUE

-----------------------------------------------------------------------------
(* Up to the blocking call.                                                *)

\* dgclibcast3 and lib/pselect.c unblock the signal before the call: a
\* pending one is delivered there, and interrupts nothing.
Top ==
  /\ pc = "top"
  /\ CASE prog.wait = "unblock" ->
            /\ blocked' = FALSE /\ pc' = "gap"
            /\ alarm' = IF alarm = "pending" THEN "off" ELSE alarm
            /\ UNCHANGED jmpset
       [] prog.wait = "longjmp" ->
            jmpset' = TRUE /\ pc' = "recv" /\ UNCHANGED <<alarm, blocked>>
       [] OTHER ->
            /\ pc' = (IF prog.wait = "alarm" THEN "recv" ELSE "select")
            /\ UNCHANGED <<alarm, blocked, jmpset>>
  /\ UNCHANGED <<prog, up, line, pipe, ready, got, gaveup, shown, network>>

Gap ==
  /\ pc = "gap" /\ pc' = "recv"
  /\ UNCHANGED <<prog, up, line, timer, ready, got, gaveup, shown, network>>

-----------------------------------------------------------------------------
(* The timer.  SIGALRM does its work only where the program expects it.    *)

\* The handler runs while the process is at pc.
Handler ==
  /\ alarm' = "off"
  /\ CASE prog.wait = "pipe" -> pipe' = TRUE /\ UNCHANGED <<pc, gaveup, blocked>>
       [] prog.wait = "longjmp" ->
            pc' = (IF jmpset THEN "fgets" ELSE "crash") /\ UNCHANGED <<pipe, gaveup, blocked>>
       [] pc = "recv" /\ prog.one -> GiveUp /\ UNCHANGED <<pipe, blocked>>
       [] pc = "recv" /\ ~prog.one ->
            /\ pc' = "fgets" /\ blocked' = (prog.wait = "unblock")
            /\ UNCHANGED <<pipe, gaveup>>
       [] pc = "select" /\ prog.wait = "pselect" ->
            pc' = "fgets" /\ UNCHANGED <<pipe, gaveup, blocked>>
       [] OTHER -> UNCHANGED <<pc, pipe, gaveup, blocked>>

\* Mutant: pselect() waits with the mask of its caller.
DeliverableUnlessBlocked == ~blocked

\* pselect() unblocks the signal in the same step in which it waits.
Deliverable == ~blocked \/ (prog.wait = "pselect" /\ pc = "select")

Expire ==
  /\ alarm = "set"
  /\ IF Deliverable THEN Handler ELSE alarm' = "pending" /\ UNCHANGED <<pc, pipe, gaveup, blocked>>
  /\ UNCHANGED <<prog, up, line, jmpset, ready, got, shown, network>>

Pending ==
  /\ alarm = "pending" /\ Deliverable /\ Handler
  /\ UNCHANGED <<prog, up, line, jmpset, ready, got, shown, network>>

-----------------------------------------------------------------------------
(* The wait itself.                                                        *)

\* recvfrom(), or read() on a connected socket, which reports an ICMP error.
\* dgclibcast3 and lib/pselect.c block the signal again behind it.
Recv ==
  /\ pc = "recv"
  /\ \/ /\ sockq # << >>
        /\ got' = Head(sockq) /\ sockq' = Tail(sockq) /\ pc' = "print"
        /\ blocked' = (blocked \/ prog.wait = "unblock")
     \/ /\ prog.from = "connected" /\ err /\ pc' = "exit"
        /\ UNCHANGED <<got, sockq, blocked>>
  /\ UNCHANGED <<prog, up, line, alarm, jmpset, pipe, ready, gaveup, shown, reqs, reps,
                 err, daemon, nstrays, ndups>>

\* pselect() on the socket; select() on the socket and the pipe; select() on
\* the socket and, in icmpd/dgcli01, the connection to the daemon.
Selected ==
  {d \in {"sock", "pipe", "icmp"} :
     CASE d = "sock" -> sockq # << >>
       [] d = "pipe" -> pipe
       [] OTHER -> prog.icmp /\ (err \/ ~daemon)}

Select ==
  /\ pc \in {"select", "wait"} /\ Selected # {}
  /\ ready' = Selected /\ pc' = "handle"
  /\ UNCHANGED <<prog, up, line, timer, got, gaveup, shown, network>>

HandleSock ==
  /\ pc = "handle" /\ "sock" \in ready
  /\ got' = Head(sockq) /\ sockq' = Tail(sockq)
  /\ ready' = ready \ {"sock"} /\ pc' = "print"
  /\ UNCHANGED <<prog, up, line, timer, gaveup, shown, reqs, reps, err, daemon,
                 nstrays, ndups>>

\* The byte in the pipe says that the timer has expired.
HandlePipe ==
  /\ pc = "handle" /\ ready = {"pipe"}
  /\ pipe' = FALSE /\ ready' = {} /\ pc' = "fgets"
  /\ UNCHANGED <<prog, up, line, alarm, blocked, jmpset, got, gaveup, shown, network>>

\* An ICMP error from the daemon, or the end of the daemon.
HandleIcmp ==
  /\ pc = "handle" /\ ready = {"icmp"}
  /\ IF err
     THEN /\ err' = FALSE /\ pc' = "fgets"
          /\ gaveup' = (gaveup \/ got = None)
     ELSE pc' = "exit" /\ UNCHANGED <<err, gaveup>>
  /\ ready' = {} /\ got' = None
  /\ UNCHANGED <<prog, up, line, timer, shown, reqs, reps, sockq, daemon, nstrays, ndups>>

\* Readable_timeo(), SO_RCVTIMEO or the struct timeval of select() runs out.
Timeout ==
  /\ pc = "wait" /\ GiveUp
  /\ UNCHANGED <<prog, up, line, timer, ready, got, shown, network>>

\* Mutant: the alarm of a request that was answered goes on.
ShowReplyAlarmKept ==
  /\ pc = "print"
  /\ IF prog.from = "checked" /\ got.from # "server"
     THEN GiveUp /\ UNCHANGED <<shown, alarm>>
     ELSE /\ shown' = Append(shown, [asked |-> line, of |-> got.of, from |-> got.from])
          /\ pc' = CASE ready # {} -> "handle"
                     [] prog.one -> "fgets"
                     [] OTHER -> "top"
          /\ UNCHANGED <<gaveup, alarm>>
  /\ got' = IF pc' = "handle" THEN got ELSE None
  /\ UNCHANGED <<prog, up, line, blocked, jmpset, pipe, ready, network>>

\* The reply is printed, or ignored where its sender is checked.  After one
\* reply dgclitimeo3 turns the alarm off.
ShowReply ==
  /\ pc = "print"
  /\ IF prog.from = "checked" /\ got.from # "server"
     THEN GiveUp /\ UNCHANGED <<shown, alarm>>
     ELSE /\ shown' = Append(shown, [asked |-> line, of |-> got.of, from |-> got.from])
          /\ pc' = CASE ready # {} -> "handle"
                     [] prog.one -> "fgets"
                     [] OTHER -> "top"
          /\ alarm' = IF prog.one THEN "off" ELSE alarm
          /\ UNCHANGED gaveup
  /\ got' = IF pc' = "handle" THEN got ELSE None
  /\ UNCHANGED <<prog, up, line, blocked, jmpset, pipe, ready, network>>

-----------------------------------------------------------------------------
(* The server, the network and other hosts.                                *)

\* dg_echo(): Recvfrom(), Sendto(); or an ICMP port unreachable.
dg_echo ==
  /\ up
  /\ \E l \in reqs : reqs' = reqs \ {l} /\ reps' = reps \cup {[from |-> "server", of |-> l]}
  /\ UNCHANGED <<prog, up, client, sockq, err, daemon, nstrays, ndups>>

Unreachable ==
  /\ ~up
  /\ \E l \in reqs : reqs' = reqs \ {l} /\ err' = (prog.icmp \/ prog.from = "connected")
  /\ UNCHANGED <<prog, up, client, reps, sockq, daemon, nstrays, ndups>>

\* A connected socket takes datagrams of its peer only.
Deliver ==
  /\ \E r \in reps :
       /\ sockq' = IF prog.from = "connected" /\ r.from # "server" THEN sockq
                   ELSE Append(sockq, r)
       /\ \/ reps' = reps \ {r} /\ UNCHANGED ndups
          \/ nstrays + ndups < MaxExtra /\ ndups' = ndups + 1 /\ UNCHANGED reps
  /\ UNCHANGED <<prog, up, client, reqs, err, daemon, nstrays>>

Lose ==
  /\ \/ \E l \in reqs : reqs' = reqs \ {l} /\ UNCHANGED reps
     \/ \E r \in reps : reps' = reps \ {r} /\ UNCHANGED reqs
  /\ UNCHANGED <<prog, up, client, sockq, err, daemon, nstrays, ndups>>

Stray ==
  /\ line > 0 /\ nstrays + ndups < MaxExtra /\ nstrays' = nstrays + 1
  /\ reps' = reps \cup {[from |-> "other", of |-> line]}
  /\ UNCHANGED <<prog, up, client, reqs, sockq, err, daemon, ndups>>

DaemonEnds ==
  /\ prog.icmp /\ daemon /\ daemon' = FALSE
  /\ UNCHANGED <<prog, up, client, reqs, reps, sockq, err, nstrays, ndups>>

-----------------------------------------------------------------------------
Step == \/ Sendto \/ Arm \/ Top \/ Gap \/ Recv \/ Select \/ HandleSock \/ HandlePipe
        \/ HandleIcmp \/ ShowReply
Clock == Expire \/ Pending \/ Timeout

Next == \/ Fgets \/ Step \/ Clock
        \/ dg_echo \/ Unreachable \/ Deliver \/ Lose \/ Stray \/ DaemonEnds

\* The process runs and time passes; nothing is assumed of the user and of
\* the network.
Spec == Init /\ [][Next]_vars /\ WF_vars(Step) /\ WF_vars(Clock)

-----------------------------------------------------------------------------
(* Properties.                                                             *)

\* The wait for a reply; and the waits without end: recvfrom() blocks with no alarm
\* to come, in the programs that never had one and in those whose SIGALRM came just
\* before the call (dgclitimeo3.c:17, dgclibcast1.c:24, dgclibcast3.c:31, pselect.c:25).
Waiting == pc \notin {"fgets", "exit", "crash"}
Stuck == pc = "recv" /\ alarm = "off" /\ prog.wait \in {"block", "alarm", "unblock"}

\* Back at fgets() no alarm is left that would make it fail with EINTR, and no
\* byte is in the pipe that would end the next wait at once.
NoStrayAlarm == pc = "fgets" => alarm = "off" /\ ~pipe

\* One reply is printed for one request, and it is the reply to that request
\* unless a wait was given up before (dgclitimeo*.c, dgcliaddr.c:22) or the
\* network repeated a datagram; and a client that checks the sender, or has
\* connected its socket, prints nothing from another host.
ReplyMatches ==
  shown' # shown =>
    LET r == shown'[Len(shown')] IN
    /\ prog.one /\ r.from = "server" =>
         \/ r.of = r.asked
         \/ gaveup \/ ndups > 0 \/ (nstrays > 0 /\ prog.from = "any")
    /\ prog.one => \A j \in 1 .. Len(shown) : shown[j].asked # r.asked
    /\ prog.from # "any" => r.from = "server"
=============================================================================
