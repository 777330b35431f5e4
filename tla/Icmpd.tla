------------------------------- MODULE Icmpd -------------------------------
(***************************************************************************)
(* The ICMP daemon of icmpd/: it takes descriptors of UDP sockets from its  *)
(* clients over Unix domain connections, remembers the port of each in the  *)
(* table client[], and passes every ICMP error it reads from its two raw    *)
(* sockets on to the connections whose port the error is about.             *)
(*                                                                         *)
(* A port stands for a family and a port number.  A connection is a         *)
(* descriptor of the daemon; descriptors are given out lowest first and     *)
(* are used again.  The buffer from the daemon to a client has a limit, at  *)
(* which Write() blocks; a Write() to a client that has closed kills the    *)
(* daemon, which leaves SIGPIPE alone.                                      *)
(***************************************************************************)
EXTENDS Integers, Sequences, FiniteSets, FiniteSetsExt

CONSTANTS NClients,    \* client processes
          NPorts,      \* UDP port numbers of each family
          TableSizes,  \* values of FD_SETSIZE, the entries of client[]
          Cap,         \* messages the buffer to a client holds
          MaxErrs      \* ICMP messages that arrive

Clients == 1 .. NClients              \* in the order in which they connect
fd4 == 3
fd6 == 4
listenfd == 5
Fds == 6 .. 5 + NClients
Raw == {fd4, fd6}
Ports == [v : Raw, n : 1 .. NPorts]   \* the family, as its raw socket, and the number
none == 0
NoPort == [v |-> 0, n |-> 0]          \* no UDP socket, or not bound
Answer(ok) == [v |-> 0, n |-> ok]     \* "1" or "0"

VARIABLES
  FD_SETSIZE,
  dpc,       \* where the daemon is: select, listen, v4, v6, forward, conn, dead
  client,    \* client[]: connfd (-1 if free), and the port last stored
  maxi,
  allset,    \* connections that select() looks at
  rset, nready,
  i,         \* index of the loop over client[]
  pkt,       \* the ICMP error being forwarded
  conn,      \* of an open descriptor of the daemon: the client behind it
  listenq,   \* clients waiting for accept()
  icmp,      \* ICMP messages in the two raw sockets: the port, or NoPort
  nerrs,
  cst,       \* state of a client: idle, open, closed
  inbox,     \* what the daemon has written and the client not read
  outbox,    \* what the client has written and the daemon not read
  reg        \* the port of the client's UDP socket, or NoPort

daemon == <<FD_SETSIZE, dpc, client, maxi, allset, rset, nready, i, pkt, conn>>
clients == <<cst, inbox, outbox, reg>>
dvars == <<daemon, listenq, icmp, nerrs, clients>>

Slots == 0 .. FD_SETSIZE - 1

Init ==
  /\ FD_SETSIZE \in TableSizes /\ dpc = "select"
  /\ client = [s \in Slots |-> [connfd |-> -1, port |-> NoPort]] /\ maxi = -1
  /\ allset = {} /\ rset = {} /\ nready = 0 /\ i = 0 /\ pkt = NoPort
  /\ conn = [f \in Fds |-> none]
  /\ listenq = << >> /\ icmp = [v \in Raw |-> << >>] /\ nerrs = 0
  /\ cst = [c \in Clients |-> "idle"]
  /\ inbox = [c \in Clients |-> << >>] /\ outbox = [c \in Clients |-> << >>]
  /\ reg = [c \in Clients |-> NoPort]

-----------------------------------------------------------------------------
(* The loop of main().                                                     *)

Readable ==
  {f \in {listenfd} \cup Raw \cup allset :
     CASE f = listenfd -> listenq # << >>
       [] f \in Raw -> icmp[f] # << >>
       [] OTHER -> outbox[conn[f]] # << >> \/ cst[conn[f]] = "closed"}

\* Where the loop goes with nready = n and the descriptors rs left in rset:
\* back to select(), or to the first of listenfd, fd4, fd6, client[0 .. top].
Stage(n, rs, table, top) ==
  LET ready == {s \in 0 .. top : table[s].connfd \in rs} IN
  CASE n <= 0 -> <<"select", 0>>
    [] n > 0 /\ listenfd \in rs -> <<"listen", 0>>
    [] n > 0 /\ listenfd \notin rs /\ fd4 \in rs -> <<"v4", 0>>
    [] n > 0 /\ rs \cap {listenfd, fd4} = {} /\ fd6 \in rs -> <<"v6", 0>>
    [] n > 0 /\ rs \cap {listenfd, fd4, fd6} = {} ->
         IF ready = {} THEN <<"select", 0>> ELSE <<"conn", Min(ready)>>

Go(n, rs, table, top) ==
  /\ nready' = n /\ rset' = rs
  /\ dpc' = Stage(n, rs, table, top)[1] /\ i' = Stage(n, rs, table, top)[2]

Select ==
  /\ dpc = "select" /\ Readable # {}
  /\ Go(Cardinality(Readable), Readable, client, maxi)
  /\ UNCHANGED <<FD_SETSIZE, client, maxi, allset, pkt, conn, listenq, icmp, nerrs, clients>>

-----------------------------------------------------------------------------
(* readable_listen()                                                       *)

FreeSlots == {s \in Slots : client[s].connfd < 0}

\* The first free entry takes the connection; its port stays what it was.
readable_listen ==
  /\ dpc = "listen"
  /\ LET c == Head(listenq)
         f == Min({g \in Fds : conn[g] = none}) IN
     IF FreeSlots = {}
     THEN /\ cst' = [cst EXCEPT ![c] = "closed"]
          /\ UNCHANGED <<client, maxi, allset, conn>>
     ELSE /\ client' = [client EXCEPT ![Min(FreeSlots)].connfd = f]
          /\ allset' = allset \cup {f} /\ conn' = [conn EXCEPT ![f] = c]
          /\ maxi' = Max({maxi, Min(FreeSlots)})
          /\ UNCHANGED cst
  /\ listenq' = Tail(listenq)
  /\ Go(nready - 1, rset \ {listenfd}, client', maxi')
  /\ UNCHANGED <<FD_SETSIZE, pkt, icmp, nerrs, inbox, outbox, reg>>

-----------------------------------------------------------------------------
(* readable_v4() and readable_v6()                                         *)

\* An ICMP message: an error about a UDP datagram goes to the clients.
readable_raw(v) ==
  /\ icmp' = [icmp EXCEPT ![v] = Tail(@)]
  /\ IF Head(icmp[v]) = NoPort
     THEN Go(nready - 1, rset \ {v}, client, maxi) /\ UNCHANGED pkt
     ELSE pkt' = Head(icmp[v]) /\ dpc' = "forward" /\ i' = 0 /\ UNCHANGED <<nready, rset>>
  /\ UNCHANGED <<FD_SETSIZE, client, maxi, allset, conn, listenq, nerrs, clients>>

readable_v4 == dpc = "v4" /\ readable_raw(fd4)
readable_v6 == dpc = "v6" /\ readable_raw(fd6)

\* Mutant: the family is not compared.
ConcernedByNumber(k) == {s \in k .. maxi : client[s].connfd >= 0 /\ client[s].port.n = pkt.n}

\* Entries from k on that are connected and have the family and the port of
\* the error.
Concerned(k) == {s \in k .. maxi : client[s].connfd >= 0 /\ client[s].port = pkt}

\* The loop over client[], from one Write() to the next; it blocks while the
\* buffer is full.
Forward ==
  /\ dpc = "forward"
  /\ IF Concerned(i) = {}
     THEN /\ Go(nready - 1, rset \ {pkt.v}, client, maxi) /\ pkt' = NoPort
          /\ UNCHANGED inbox
     ELSE LET s == Min(Concerned(i))  c == conn[client[s].connfd] IN
          /\ IF cst[c] = "closed"
             THEN dpc' = "dead" /\ UNCHANGED <<i, inbox>>
             ELSE /\ Len(inbox[c]) < Cap
                  /\ inbox' = [inbox EXCEPT ![c] = Append(@, pkt)]
                  /\ i' = s + 1 /\ UNCHANGED dpc
          /\ UNCHANGED <<nready, rset, pkt>>
  /\ UNCHANGED <<FD_SETSIZE, client, maxi, allset, conn, listenq, icmp, nerrs, cst, outbox, reg>>

-----------------------------------------------------------------------------
(* readable_conn()                                                         *)

\* clientdone:
ClientDone(f) ==
  /\ allset' = allset \ {f} /\ conn' = [conn EXCEPT ![f] = none]
  /\ client' = [client EXCEPT ![i].connfd = -1]

\* Ports of v that no socket has; none for a message without a socket.
FreePorts(v) == {p \in Ports : p.v = v /\ \A c \in Clients : reg[c] # p}

\* A descriptor of a bound or unbound UDP socket, or something else.  The
\* answer "1" or "0" goes to a client that may have closed meanwhile.
readable_conn ==
  /\ dpc = "conn"
  /\ LET f == client[i].connfd  c == conn[f] IN
     \/ /\ outbox[c] = << >> /\ ClientDone(f)
        /\ UNCHANGED <<inbox, outbox, reg, cst>>
     \/ /\ outbox[c] # << >> /\ cst[c] # "closed" /\ Len(inbox[c]) < Cap
        /\ outbox' = [outbox EXCEPT ![c] = Tail(@)]
        /\ LET p == Head(outbox[c])
               bound == IF p.n > 0 THEN {p} ELSE FreePorts(p.v) IN
           IF bound = {}
           THEN /\ ClientDone(f) /\ cst' = [cst EXCEPT ![c] = "closed"]
                /\ inbox' = [inbox EXCEPT ![c] = Append(@, Answer(0))]
                /\ UNCHANGED reg
           ELSE \E q \in bound :
                  /\ client' = [client EXCEPT ![i].port = q]
                  /\ reg' = [reg EXCEPT ![c] = q]
                  /\ inbox' = [inbox EXCEPT ![c] = Append(@, Answer(1))]
                  /\ UNCHANGED <<allset, conn, cst>>
  /\ Go(nready - 1, rset \ {client[i].connfd}, client', maxi)
  /\ UNCHANGED <<FD_SETSIZE, maxi, pkt, listenq, icmp, nerrs>>

\* The answer goes to a client that has closed, or Read_fd() fails because
\* the client closed with messages unread: either ends the daemon.
readable_conn_dies ==
  /\ dpc = "conn"
  /\ LET c == conn[client[i].connfd] IN
     cst[c] = "closed" /\ (outbox[c] # << >> \/ inbox[c] # << >>)
  /\ dpc' = "dead"
  /\ UNCHANGED <<FD_SETSIZE, client, maxi, allset, rset, nready, i, pkt, conn, listenq, icmp,
                 nerrs, clients>>

-----------------------------------------------------------------------------
(* Clients, like icmpd/dgcli01.c, and the network.                         *)

Connect(c) ==
  /\ cst[c] = "idle" /\ \A b \in 1 .. c - 1 : cst[b] # "idle"
  /\ dpc # "dead"
  /\ cst' = [cst EXCEPT ![c] = "open"] /\ listenq' = Append(listenq, c)
  /\ UNCHANGED <<daemon, icmp, nerrs, inbox, outbox, reg>>

\* Write_fd() of a socket that is bound, or is not.
Register(c) ==
  /\ cst[c] = "open" /\ outbox[c] = << >> /\ reg[c] = NoPort
  /\ \E v \in Raw : \E p \in FreePorts(v) \cup {[v |-> v, n |-> 0]} :
       /\ outbox' = [outbox EXCEPT ![c] = <<p>>]
       /\ reg' = [reg EXCEPT ![c] = IF p.n > 0 THEN p ELSE NoPort]
  /\ UNCHANGED <<daemon, listenq, icmp, nerrs, cst, inbox>>

\* A message without a descriptor, or with one that is not a socket.
RegisterBad(c) ==
  /\ cst[c] = "open" /\ outbox[c] = << >> /\ reg[c] = NoPort
  /\ outbox' = [outbox EXCEPT ![c] = <<NoPort>>]
  /\ UNCHANGED <<daemon, listenq, icmp, nerrs, cst, inbox, reg>>

Receive(c) ==
  /\ cst[c] = "open" /\ inbox[c] # << >>
  /\ inbox' = [inbox EXCEPT ![c] = Tail(@)]
  /\ UNCHANGED <<daemon, listenq, icmp, nerrs, cst, outbox, reg>>

\* The client ends, and with it its UDP socket.
ClientEnds(c) ==
  /\ cst[c] = "open"
  /\ cst' = [cst EXCEPT ![c] = "closed"] /\ reg' = [reg EXCEPT ![c] = NoPort]
  /\ UNCHANGED <<daemon, listenq, icmp, nerrs, inbox, outbox>>

\* An ICMP message for a UDP port of this host, or another one.
IcmpArrives ==
  /\ dpc # "dead" /\ nerrs < MaxErrs /\ nerrs' = nerrs + 1
  /\ \/ \E p \in Ports : icmp' = [icmp EXCEPT ![p.v] = Append(@, p)]
     \/ \E v \in Raw : icmp' = [icmp EXCEPT ![v] = Append(@, NoPort)]
  /\ UNCHANGED <<daemon, listenq, clients>>

Daemon == Select \/ readable_listen \/ readable_v4 \/ readable_v6 \/ Forward
          \/ readable_conn \/ readable_conn_dies

Next == \/ Daemon \/ IcmpArrives
        \/ \E c \in Clients : Connect(c) \/ Register(c) \/ RegisterBad(c) \/ Receive(c)
                              \/ ClientEnds(c)

\* The daemon runs; nothing is assumed of its clients.
Spec == Init /\ [][Next]_dvars /\ WF_dvars(Daemon)

-----------------------------------------------------------------------------
(* Properties.                                                             *)

\* The table, the descriptor set and the open connections are the same thing,
\* and nready counts exactly the ready descriptors that are still to be
\* handled: no early return leaves one out, no handler runs without data.
TableExact ==
  dpc # "dead" =>
    /\ allset = {f \in Fds : conn[f] # none}
    /\ allset = {client[s].connfd : s \in 0 .. maxi} \ {-1}
    /\ \A s \in Slots : s > maxi => client[s].connfd < 0
    /\ \A s, t \in Slots : s # t /\ client[s].connfd >= 0 => client[s].connfd # client[t].connfd
    /\ nready = Cardinality(rset) /\ (dpc = "select" <=> rset = {})

\* The daemon knows the client and its port, and waits in a Write() to a
\* client that does not read.
Registered(c) == cst[c] = "open" /\ reg[c] # NoPort /\ outbox[c] = << >>
Full == \E c \in Clients : Len(inbox[c]) = Cap

\* An error about the port of a registered client reaches that client, unless
\* it ends, or the daemon has died, or is held up by a client that does not
\* read (readable_v4.c:83).
ErrorDelivered ==
  \A c \in Clients :
    (\E k \in 1 .. MaxErrs, v \in Raw :
        /\ k <= Len(icmp[v]) /\ icmp[v][k] = reg[c] /\ Registered(c)) ~>
      (inbox[c] # << >> \/ ~Registered(c) \/ dpc = "dead" \/ Full)

\* An ICMP error is written to client c.
Written(c) == dpc = "forward" /\ Len(inbox'[c]) > Len(inbox[c])

\* readable_v4.c:55, "find client's Unix domain socket": an ICMP error is
\* written only to a client whose own UDP socket it is about.
ToTheRightClient == [][\A c \in Clients : Written(c) => reg[c] = pkt]_dvars

\* The only exception is a client that has not registered yet and was given
\* the entry of one that has ended (readable_listen.c:15 keeps its port).
RightClient == \A c \in Clients : Written(c) => reg[c] = pkt \/ ~Registered(c)
=============================================================================
