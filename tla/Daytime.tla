------------------------------ MODULE Daytime ------------------------------
(***************************************************************************)
(* The daytime clients and servers and the functions that open their        *)
(* sockets:                                                                 *)
(*   lib/tcp_connect.c, tcp_listen.c, udp_client.c, udp_connect.c,          *)
(*   udp_server.c, names/udp_server_reuseaddr.c   walk the list of          *)
(*       getaddrinfo() until an entry works                                 *)
(*   names/daytimetcpcli[1-3].c   walk a list of gethostbyname()            *)
(*   lib/connect_nonb.c, lib/connect_timeo.c      connect with a limit      *)
(*   intro, names, advio, nonblock, unixdomain, inetd: daytime*.c           *)
(* The host is a list of addresses; the server gets the first one it can    *)
(* bind, and a client has to find it.  A program is the record of what      *)
(* distinguishes it, so that programs that do the same are one.             *)
(***************************************************************************)
EXTENDS Integers, Sequences, FiniteSets, FiniteSetsExt, SequencesExt

CONSTANTS Clients, NAddrs,
          MsgLen    \* bytes of the line with the time

VARIABLES
  sprog, cprog,    \* the server, the program of each client
  nosock,          \* addresses of a family that socket() refuses
  busy,            \* addresses that bind() refuses
  dead,            \* addresses that connect() fails for
  spc, sres,       \* server: where it is, entry of its list
  sfds,            \* its descriptors of the list
  serving,         \* connections it has open
  listenq,         \* connections or datagrams waiting for it
  cpc, cres, cfds, \* clients: where, entry, descriptors
  nonb,            \* O_NONBLOCK is set
  sent, arrived,   \* bytes written to a client, bytes it can read or has read
  got,             \* bytes it has printed
  closed           \* the server's end: "open", "fin", "rst", "lost"

settings == <<sprog, cprog, nosock, busy, dead>>
svars == <<spc, sres, sfds, serving>>
cvars == <<cpc, cres, cfds, nonb, got>>
net == <<listenq, sent, arrived, closed>>
dvars == <<settings, svars, cvars, net>>

Addrs == 1 .. NAddrs

-----------------------------------------------------------------------------
(* Programs.                                                               *)

Client(open, peek) == [open |-> open, peek |-> peek]
Server(open, bytewise, linger) == [open |-> open, bytewise |-> bytewise, linger |-> linger]

intro_daytimetcpcli == Client("single", FALSE)
intro_daytimetcpcli1 == Client("single", FALSE)
intro_daytimetcpcli2 == Client("single", FALSE)
intro_daytimetcpcli3 == Client("single", FALSE)
intro_daytimetcpcliv6 == Client("single", FALSE)
names_daytimetcpcli == Client("tcp_connect", FALSE)
names_daytimetcpcli1 == Client("hostent", FALSE)
names_daytimetcpcli2 == Client("hostent", FALSE)
names_daytimetcpcli3 == Client("hostent", FALSE)
advio_daytimetcpcli == Client("tcp_connect", TRUE)
unix_daytimetcpcli == Client("tcp_connect", FALSE)
nonblock_daytimetcpcli == Client("connect_nonb", FALSE)
advio_tcpcli01 == Client("connect_timeo", FALSE)   \* goes on in str_cli()
names_daytimeudpcli1 == Client("udp_client", FALSE)
names_daytimeudpcli2 == Client("udp_connect", FALSE)
advio_daytimeudpcli3 == Client("udp_client", TRUE)
advio_daytimeudpcli4 == Client("udp_connect", TRUE)

intro_daytimetcpsrv == Server("single", FALSE, FALSE)
intro_daytimetcpsrv1 == Server("single", FALSE, FALSE)
intro_daytimetcpsrv2 == Server("single", TRUE, FALSE)
intro_daytimetcpsrv3 == Server("single", FALSE, FALSE)
intro_daytimetcpsrvv6 == Server("single", FALSE, FALSE)
names_daytimetcpsrv1 == Server("tcp_listen", FALSE, FALSE)
names_daytimetcpsrv2 == Server("tcp_listen", FALSE, FALSE)
names_daytimetcpsrv3 == Server("tcp_listen", FALSE, TRUE)
names_daytimetcpsrv4 == Server("tcp_listen", FALSE, FALSE)
unix_daytimetcpsrv2 == Server("tcp_listen", TRUE, FALSE)
inetd_daytimetcpsrv2 == Server("daemon", FALSE, FALSE)
inetd_daytimetcpsrv3 == Server("inetd", FALSE, FALSE)
names_daytimeudpsrv2 == Server("udp_server", FALSE, FALSE)
names_daytimeudpsrv3 == Server("udp_server_reuseaddr", FALSE, FALSE)

TcpClients ==
  {intro_daytimetcpcli, intro_daytimetcpcli1, intro_daytimetcpcli2, intro_daytimetcpcli3,
   intro_daytimetcpcliv6, names_daytimetcpcli, names_daytimetcpcli1, names_daytimetcpcli2,
   names_daytimetcpcli3, advio_daytimetcpcli, unix_daytimetcpcli, nonblock_daytimetcpcli, advio_tcpcli01}
UdpClients == {names_daytimeudpcli1, names_daytimeudpcli2, advio_daytimeudpcli3, advio_daytimeudpcli4}
TcpServers ==
  {intro_daytimetcpsrv, intro_daytimetcpsrv1, intro_daytimetcpsrv2, intro_daytimetcpsrv3,
   intro_daytimetcpsrvv6, names_daytimetcpsrv1, names_daytimetcpsrv2, names_daytimetcpsrv3,
   names_daytimetcpsrv4, unix_daytimetcpsrv2, inetd_daytimetcpsrv2, inetd_daytimetcpsrv3}
UdpServers == {names_daytimeudpsrv2, names_daytimeudpsrv3}

Udp == sprog \in UdpServers
Bytewise == sprog.bytewise

\* A program that is given one address tries no other.
OneAddress(open) == open \in {"single", "connect_nonb", "connect_timeo", "inetd"}

Init ==
  /\ sprog \in TcpServers \cup UdpServers
  /\ cprog \in [Clients -> IF Udp THEN UdpClients ELSE TcpClients]
  /\ nosock \in SUBSET Addrs /\ busy \in SUBSET Addrs /\ dead \in SUBSET Addrs
  /\ sres \in IF OneAddress(sprog.open) THEN Addrs ELSE {1}
  /\ spc = CASE sprog.open = "daemon" -> "daemon_init" [] sprog.open = "inetd" -> "loop" [] OTHER -> "socket"
  /\ sfds = IF sprog.open = "inetd" THEN {sres} ELSE {}   \* the socket of inetd
  /\ serving = {} /\ listenq = << >>
  /\ cpc = [c \in Clients |-> "start"]
  /\ cres \in {f \in [Clients -> Addrs] : \A c \in Clients : OneAddress(cprog[c].open) \/ f[c] = 1}
  /\ cfds = [c \in Clients |-> {}]
  /\ nonb = [c \in Clients |-> FALSE]
  /\ sent = [c \in Clients |-> 0] /\ arrived = [c \in Clients |-> 0] /\ got = [c \in Clients |-> 0]
  /\ closed = [c \in Clients |-> "open"]

-----------------------------------------------------------------------------
(* The server opens its socket.                                            *)

\* Closes all descriptors, before any is opened for the list.
daemon_init ==
  /\ spc = "daemon_init" /\ spc' = "socket" /\ sfds' = {}
  /\ UNCHANGED <<settings, sres, serving, cvars, net>>

\* The next entry, or err_sys().
NextEntry ==
  IF sres < NAddrs /\ ~OneAddress(sprog.open) THEN spc' = "socket" /\ sres' = sres + 1
  ELSE spc' = "failed" /\ UNCHANGED sres

server_socket ==
  /\ spc = "socket"
  /\ IF sres \in nosock THEN NextEntry /\ UNCHANGED sfds
     ELSE spc' = "bind" /\ sfds' = sfds \cup {sres} /\ UNCHANGED sres
  /\ UNCHANGED <<settings, serving, cvars, net>>

\* tcp_listen(), udp_server(): bind, listen, or close and try the next one.
server_bind ==
  /\ spc = "bind"
  /\ IF sres \in busy THEN NextEntry /\ sfds' = sfds \ {sres}
     ELSE spc' = "loop" /\ UNCHANGED <<sres, sfds>>
  /\ UNCHANGED <<settings, serving, cvars, net>>

Listening == spc \in {"loop", "serve"}
tcp_listen == sprog.open \in {"tcp_listen", "daemon"} /\ (daemon_init \/ server_socket \/ server_bind)
single_listen == sprog.open = "single" /\ (server_socket \/ server_bind)
udp_server == sprog.open = "udp_server" /\ (server_socket \/ server_bind)
udp_server_reuseaddr == sprog.open = "udp_server_reuseaddr" /\ (server_socket \/ server_bind)

-----------------------------------------------------------------------------
(* The clients open their sockets.                                         *)

Goto(c, where) == cpc' = [cpc EXCEPT ![c] = where]

\* The process ends, and with it its descriptors.
Exit(c, how) == Goto(c, how) /\ cfds' = [cfds EXCEPT ![c] = {}]

\* After an entry that does not work: the next one, or the end.
TryNext(c, fds) ==
  IF cres[c] < NAddrs /\ ~OneAddress(cprog[c].open)
  THEN Goto(c, "socket") /\ cres' = [cres EXCEPT ![c] = @ + 1] /\ cfds' = [cfds EXCEPT ![c] = fds]
  ELSE Exit(c, "failed") /\ UNCHANGED cres

\* socket() failing ends only the programs that use Socket() or err_sys().
client_socket(c) ==
  /\ cpc[c] \in {"start", "socket"}
  /\ IF cres[c] \notin nosock
     THEN /\ cfds' = [cfds EXCEPT ![c] = @ \cup {cres[c]}]
          /\ Goto(c, "connect") /\ UNCHANGED cres
     ELSE IF cprog[c].open \in {"tcp_connect", "udp_client", "udp_connect"} THEN TryNext(c, cfds[c])
     ELSE Exit(c, "failed") /\ UNCHANGED cres
  /\ UNCHANGED <<settings, svars, net, nonb, got>>

Answers(c) == Listening /\ sres = cres[c] /\ cres[c] \notin dead

Established(c) == Goto(c, "read") /\ listenq' = Append(listenq, c) /\ UNCHANGED <<cres, cfds>>

\* Mutant: a socket whose connect() failed stays open.
connect_KeepsOpen(c) ==
  /\ cpc[c] = "connect" /\ cprog[c].open \in {"single", "tcp_connect", "hostent"}
  /\ IF Answers(c) THEN Established(c) ELSE TryNext(c, cfds[c]) /\ UNCHANGED listenq
  /\ UNCHANGED <<settings, svars, nonb, got, sent, arrived, closed>>

\* Mutant: no other entry is tried.
connect_FirstOnly(c) ==
  /\ cpc[c] = "connect" /\ cprog[c].open \in {"single", "tcp_connect", "hostent"}
  /\ IF Answers(c) THEN Established(c) ELSE Exit(c, "failed") /\ UNCHANGED <<cres, listenq>>
  /\ UNCHANGED <<settings, svars, nonb, got, sent, arrived, closed>>

\* connect() of the TCP clients, and close() when it fails.
connect(c) ==
  /\ cpc[c] = "connect" /\ cprog[c].open \in {"single", "tcp_connect", "hostent"}
  /\ IF Answers(c) THEN Established(c) ELSE TryNext(c, cfds[c] \ {cres[c]}) /\ UNCHANGED listenq
  /\ UNCHANGED <<settings, svars, nonb, got, sent, arrived, closed>>

\* connect() that SIGALRM may interrupt at any time; the socket is closed.
connect_timeo(c) ==
  /\ cpc[c] = "connect" /\ cprog[c].open = "connect_timeo"
  /\ \/ Answers(c) /\ Established(c)
     \/ Exit(c, "failed") /\ UNCHANGED <<cres, listenq>>
  /\ UNCHANGED <<settings, svars, nonb, got, sent, arrived, closed>>

\* connect_nonb(): the connection may be there at once or be in progress.
connect_nonb(c) ==
  /\ cpc[c] = "connect" /\ cprog[c].open = "connect_nonb"
  /\ \/ Answers(c) /\ Established(c) /\ UNCHANGED nonb
     \/ /\ Goto(c, "select") /\ nonb' = [nonb EXCEPT ![c] = TRUE]
        /\ UNCHANGED <<cres, cfds>>
        /\ listenq' = IF Answers(c) THEN Append(listenq, c) ELSE listenq
  /\ UNCHANGED <<settings, svars, got, sent, arrived, closed>>

\* Select() and SO_ERROR; the flags are restored before anything is read.
connect_nonb_select(c) ==
  /\ cpc[c] = "select" /\ nonb' = [nonb EXCEPT ![c] = FALSE]
  /\ IF c \in ToSet(listenq) \cup serving \/ closed[c] # "open"
     THEN Goto(c, "read") /\ UNCHANGED cfds ELSE Exit(c, "failed")
  /\ UNCHANGED <<settings, svars, net, cres, got>>

\* udp_client(), udp_connect(): nothing is heard of the server.
udp_client(c) ==
  /\ cpc[c] = "connect" /\ cprog[c].open = "udp_client"
  /\ Goto(c, "send") /\ UNCHANGED <<settings, svars, net, cres, cfds, nonb, got>>

udp_connect(c) ==
  /\ cpc[c] = "connect" /\ cprog[c].open = "udp_connect"
  /\ IF cres[c] \in dead THEN TryNext(c, cfds[c] \ {cres[c]}) ELSE Goto(c, "send") /\ UNCHANGED <<cres, cfds>>
  /\ UNCHANGED <<settings, svars, net, nonb, got>>

-----------------------------------------------------------------------------
(* The clients read.                                                       *)

Avail(c) == arrived[c] - got[c]

\* The datagram reaches the server, is lost, or is answered by an error that
\* only a connected socket gets.
udp_send(c) ==
  /\ cpc[c] = "send"
  /\ \/ cres[c] \in dead /\ Exit(c, "failed") /\ UNCHANGED <<listenq, closed>>
     \/ Answers(c) /\ listenq' = Append(listenq, c) /\ Goto(c, "read") /\ UNCHANGED <<closed, cfds>>
     \/ /\ cres[c] \notin dead /\ Goto(c, "read") /\ UNCHANGED <<listenq, cfds>>
        /\ closed' = [closed EXCEPT ![c] = IF cprog[c].open = "udp_connect" /\ ~Answers(c)
                                           THEN "rst" ELSE "lost"]
  /\ UNCHANGED <<settings, svars, cres, nonb, got, sent, arrived>>

\* Read() returned n > 0: a TCP client goes on, a UDP client has its answer.
Show(c) ==
  /\ got' = [got EXCEPT ![c] = arrived[c]]
  /\ IF Udp THEN Exit(c, "exit") ELSE Goto(c, "read") /\ UNCHANGED cfds

client_read(c) ==
  /\ cpc[c] = "read" /\ cprog[c].open # "connect_timeo" /\ Avail(c) > 0
  /\ IF cprog[c].peek THEN Goto(c, "peeked") /\ UNCHANGED <<cfds, got>> ELSE Show(c)
  /\ UNCHANGED <<settings, svars, net, cres, nonb>>

\* After MSG_PEEK and FIONREAD what was seen is still there.
client_peeked(c) ==
  /\ cpc[c] = "peeked" /\ Show(c)
  /\ UNCHANGED <<settings, svars, net, cres, nonb>>

\* End of file, a reset or an error of ICMP, or nothing there and O_NONBLOCK.
client_end(c) ==
  /\ cpc[c] \in {"read", "peeked"} /\ cprog[c].open # "connect_timeo"
  /\ \/ closed[c] = "fin" /\ arrived[c] = sent[c] /\ Avail(c) = 0 /\ Exit(c, "exit")
     \/ closed[c] = "rst" /\ Exit(c, "failed")
     \/ nonb[c] /\ Avail(c) = 0 /\ Exit(c, "failed")
  /\ UNCHANGED <<settings, svars, net, cres, nonb, got>>

tcpcli01_str_cli(c) ==
  /\ cpc[c] = "read" /\ cprog[c].open = "connect_timeo" /\ Goto(c, "str_cli")
  /\ UNCHANGED <<settings, svars, net, cres, cfds, nonb, got>>

-----------------------------------------------------------------------------
(* The server's loop.                                                      *)

\* One connection at a time; inetd starts a process for each.
server_accept ==
  /\ ~Udp /\ spc = "loop" /\ listenq # << >>
  /\ serving' = serving \cup {Head(listenq)} /\ listenq' = Tail(listenq)
  /\ spc' = IF sprog.open = "inetd" THEN "loop" ELSE "serve"
  /\ UNCHANGED <<settings, sres, sfds, cvars, sent, arrived, closed>>

server_write(c) ==
  /\ c \in serving /\ sent[c] < MsgLen
  /\ sent' = [sent EXCEPT ![c] = IF Bytewise THEN @ + 1 ELSE MsgLen]
  /\ UNCHANGED <<settings, svars, cvars, listenq, arrived, closed>>

\* SO_LINGER with time 0 makes close() send a reset, and what has not been
\* sent is thrown away.
server_close(c) ==
  /\ c \in serving /\ sent[c] = MsgLen
  /\ closed' = [closed EXCEPT ![c] = IF sprog.linger THEN "rst" ELSE "fin"]
  /\ serving' = serving \ {c} /\ spc' = "loop"
  /\ UNCHANGED <<settings, sres, sfds, cvars, listenq, sent, arrived>>

udp_serve ==
  /\ Udp /\ spc = "loop" /\ listenq # << >>
  /\ sent' = [sent EXCEPT ![Head(listenq)] = MsgLen] /\ listenq' = Tail(listenq)
  /\ UNCHANGED <<settings, svars, cvars, arrived, closed>>

\* The network: bytes in order, a datagram as a whole or not at all.
Deliver(c) ==
  /\ arrived[c] < sent[c] /\ closed[c] \in {"open", "fin"}
  /\ IF Udp
     THEN \/ arrived' = [arrived EXCEPT ![c] = sent[c]] /\ UNCHANGED closed
          \/ closed' = [closed EXCEPT ![c] = "lost"] /\ UNCHANGED arrived
     ELSE \E n \in arrived[c] + 1 .. sent[c] : arrived' = [arrived EXCEPT ![c] = n] /\ UNCHANGED closed
  /\ UNCHANGED <<settings, svars, cvars, listenq, sent>>

-----------------------------------------------------------------------------
server ==
  \/ tcp_listen \/ single_listen \/ udp_server \/ udp_server_reuseaddr
  \/ server_accept \/ udp_serve \/ \E c \in Clients : server_write(c) \/ server_close(c)

client(c) ==
  \/ client_socket(c) \/ connect(c) \/ connect_timeo(c) \/ connect_nonb(c) \/ connect_nonb_select(c)
  \/ udp_client(c) \/ udp_connect(c) \/ udp_send(c)
  \/ client_read(c) \/ client_peeked(c) \/ client_end(c) \/ tcpcli01_str_cli(c)

Next == server \/ \E c \in Clients : client(c) \/ Deliver(c)

Fairness == WF_dvars(server) /\ \A c \in Clients : WF_dvars(client(c)) /\ WF_dvars(Deliver(c))

Spec == Init /\ [][Next]_dvars /\ Fairness

-----------------------------------------------------------------------------
(* Properties.                                                             *)

\* Each program has a descriptor for the entry it is working on and no other:
\* entries that did not work have been closed ("bind error, close and try
\* next one", tcp_listen.c:30), the one in use has not, and daemon_init()
\* closes nothing that is needed.
OneDescriptor ==
  /\ sfds \subseteq {sres} /\ (Listening => sfds = {sres})
  /\ \A c \in Clients :
       /\ cfds[c] \subseteq {cres[c]}
       /\ cpc[c] \in {"connect", "select", "send", "read", "peeked", "str_cli"} => cfds[c] = {cres[c]}

\* A client that ends without an error has printed all that the server wrote,
\* however the bytes arrived, and never after a reset ("force RST instead of
\* FIN after data", daytimetcpsrv3.c:28).
WholeTime == \A c \in Clients : cpc[c] = "exit" => got[c] = MsgLen /\ closed[c] # "rst"

\* The entry that a client's list leads to is the one of the server.
Usable(open, a) ==
  CASE OneAddress(open) -> TRUE
    [] open = "tcp_connect" -> TRUE
    [] open = "hostent" -> \A b \in 1 .. a : b \notin nosock
    [] open = "udp_client" -> \A b \in 1 .. a - 1 : b \in nosock
    [] open = "udp_connect" -> \A b \in 1 .. a - 1 : b \in nosock \cup dead

Findable(c) ==
  /\ cpc[c] = "start" /\ Listening /\ sres \notin nosock \cup dead
  /\ (OneAddress(cprog[c].open) => cres[c] = sres)
  /\ Usable(cprog[c].open, sres)

\* A client started when the server is listening on an address of its list
\* gets the time, whichever entry it is, unless a datagram is lost, the server
\* resets or the limit of connect_timeo() passes.  udp_client() stops at the
\* first entry that gives a socket, whoever listens there.
GetsTheTime(c) ==
  cpc[c] = "exit" \/ closed[c] = "lost" \/ sprog.linger \/ cprog[c].open = "connect_timeo"
=============================================================================
