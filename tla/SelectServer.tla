---------------------------- MODULE SelectServer ----------------------------
(***************************************************************************)
(* The single-process echo servers built on a table of clients:             *)
(*   "select01"  tcpcliserv/tcpservselect01.c  (select, read)               *)
(*   "poll01"    tcpcliserv/tcpservpoll01.c    (poll, read)                 *)
(*   "select03"  nonblock/tcpservselect03.c    (select, Readline)           *)
(* What clients send comes in pieces, each the end of a line ("line") or    *)
(* not ("part"); what is echoed lies in the buffers of the connection       *)
(* until its client reads it, and Writen blocks when they are full.         *)
(* Descriptors are numbered as the kernel does: the lowest one free.        *)
(***************************************************************************)
EXTENDS Integers, Sequences, FiniteSets

CONSTANTS
  Versions,   \* the programs to consider
  NClient,    \* entries of client[] (FD_SETSIZE, OPEN_MAX)
  MaxConns,   \* bound: connections made, numbered from 1
  MaxPieces,  \* bound: pieces that clients send
  SndBuf      \* pieces that the buffers from the server to a client hold

ASSUME VersionAssumption == Versions \subseteq {"select01", "poll01", "select03"}
ASSUME BoundsAssumption ==
  NClient \in Nat \ {0} /\ MaxConns \in Nat /\ MaxPieces \in Nat /\ SndBuf \in Nat \ {0}

VARIABLES
  version,
  nconns, backlog,       \* connections made, and those not yet accepted
  owner,                 \* the connection behind each descriptor, 0 if it is free
  nsent,                 \* pieces sent
  inq, outq, hup,        \* of each connection: pieces and echoes unread, hangup
  client, maxi,          \* the table of clients
  maxfd, allset,         \* select's arguments
  ready,                 \* select: descriptors of rset.  poll: entries with revents
  lready, nready,        \* is listenfd in it; descriptors left to deal with
  pc, i,                 \* "wait", "accept", "scan", "read", "line" (in Readline, which
                         \* has part of a line), "writen" or how the server ended
  nleft,                 \* pieces that Writen has still to write
  read_buf               \* lib/readline.c: the static buffer, and in "line" the part

network == <<nconns, backlog, owner, nsent, inq, outq, hup>>
table == <<client, maxi, maxfd, allset>>
loop == <<ready, lready, nready, pc, i>>
data == <<nleft, read_buf>>
vars == <<version, network, table, loop, data>>

Conns == 1 .. MaxConns
listenfd == 3
Fds == 4 .. 3 + MaxConns
Entries == 0 .. NClient - 1
Ends == {"too many clients", "err_sys"}

Readable(fd) == owner[fd] # 0 /\ (inq[owner[fd]] # << >> \/ hup[owner[fd]] # "no")

Init ==
  /\ version \in Versions
  /\ nconns = 0 /\ backlog = << >> /\ owner = [fd \in Fds |-> 0]
  /\ nsent = 0 /\ inq = [c \in Conns |-> << >>] /\ outq = [c \in Conns |-> 0]
  /\ hup = [c \in Conns |-> "no"]
  /\ client = [e \in Entries |-> -1] /\ maxi = -1
  /\ maxfd = listenfd /\ allset = {}
  \* client[].revents of tcpservpoll01.c is not initialized.
  /\ ready \in (IF version = "poll01" THEN SUBSET Entries ELSE {{}})
  /\ lready = FALSE /\ nready = 0
  /\ pc = "wait" /\ i = 0
  /\ nleft = 0 /\ read_buf = << >>

-----------------------------------------------------------------------------
(* Clients. *)

Connect ==
  /\ nconns < MaxConns
  /\ nconns' = nconns + 1 /\ backlog' = Append(backlog, nconns + 1)
  /\ UNCHANGED <<version, owner, nsent, inq, outq, hup, table, loop, data>>

\* The client resets a connection that is not yet accepted, which leaves the
\* queue with all that was sent on it.
Abort ==
  /\ \E k \in 1 .. Len(backlog) :
       /\ backlog' = SubSeq(backlog, 1, k - 1) \o SubSeq(backlog, k + 1, Len(backlog))
       /\ inq' = [inq EXCEPT ![backlog[k]] = << >>]
       /\ hup' = [hup EXCEPT ![backlog[k]] = "rst"]
  /\ UNCHANGED <<version, nconns, owner, nsent, outq, table, loop, data>>

Connected(c) ==
  (\E fd \in Fds : owner[fd] = c) \/ (\E k \in 1 .. Len(backlog) : backlog[k] = c)

\* Only Readline looks at where lines end.
Pieces == IF version = "select03" THEN {"part", "line"} ELSE {"line"}

Send(c) ==
  /\ Connected(c) /\ hup[c] = "no" /\ nsent < MaxPieces
  /\ nsent' = nsent + 1
  /\ \E p \in Pieces : inq' = [inq EXCEPT ![c] = Append(@, p)]
  /\ UNCHANGED <<version, nconns, backlog, owner, outq, hup, table, loop, data>>

\* The client reads what was echoed; it need not.
Receive(c) ==
  /\ Connected(c) /\ outq[c] > 0
  /\ outq' = [outq EXCEPT ![c] = 0]
  /\ UNCHANGED <<version, nconns, backlog, owner, nsent, inq, hup, table, loop, data>>

\* The client sends a FIN.
Hangup(c) ==
  /\ Connected(c) /\ hup[c] = "no"
  /\ hup' = [hup EXCEPT ![c] = "fin"]
  /\ UNCHANGED <<version, nconns, backlog, owner, nsent, inq, outq, table, loop, data>>

\* A reset, at once or in answer to what is sent to a closed client, discards
\* what is unread on both sides.
Reset(c) ==
  /\ Connected(c) /\ hup[c] # "rst"
  /\ hup' = [hup EXCEPT ![c] = "rst"]
  /\ inq' = [inq EXCEPT ![c] = << >>] /\ outq' = [outq EXCEPT ![c] = 0]
  /\ UNCHANGED <<version, nconns, backlog, owner, nsent, table, loop, data>>

-----------------------------------------------------------------------------
(* The server. *)

\* Select or Poll: blocks until something is readable and reports all of it.
\* Poll gives it entries 0 .. maxi and leaves the revents of the others alone.
Wait ==
  /\ pc = "wait"
  /\ LET fds     == {fd \in allset : fd <= maxfd /\ Readable(fd)}
         entries == {e \in Entries : e <= maxi /\ client[e] # -1 /\ Readable(client[e])}
         count   == IF version = "poll01" THEN Cardinality(entries) ELSE Cardinality(fds)
     IN /\ ready' = IF version = "poll01"
                    THEN entries \cup {e \in ready : e > maxi}
                    ELSE fds
        /\ lready' = (backlog # << >>)
        /\ nready' = count + (IF lready' THEN 1 ELSE 0)
        /\ nready' > 0
        /\ pc' = IF lready' THEN "accept" ELSE "scan"
  /\ i' = 0
  /\ UNCHANGED <<version, network, table, data>>

FreeFd == CHOOSE fd \in Fds : owner[fd] = 0 /\ \A g \in Fds : owner[g] = 0 => fd <= g

\* Mutant: maxfd and maxi are not raised.
AcceptMaximaKept(e) ==
  /\ pc = "accept" /\ backlog # << >>
  /\ client[e] = -1 /\ \A d \in Entries : d < e => client[d] # -1
  /\ backlog' = Tail(backlog)
  /\ owner' = [owner EXCEPT ![FreeFd] = Head(backlog)]
  /\ client' = [client EXCEPT ![e] = FreeFd]
  /\ allset' = allset \cup {FreeFd}
  /\ nready' = nready - 1
  /\ pc' = IF nready - 1 <= 0 THEN "wait" ELSE "scan"
  /\ UNCHANGED <<version, nconns, nsent, inq, outq, hup, maxi, maxfd, ready, lready, i, data>>

\* Accept (blocks if the client has gone), the first free entry, the two maxima.
Accept(e) ==
  /\ pc = "accept" /\ backlog # << >>
  /\ client[e] = -1 /\ \A d \in Entries : d < e => client[d] # -1
  /\ backlog' = Tail(backlog)
  /\ owner' = [owner EXCEPT ![FreeFd] = Head(backlog)]
  /\ client' = [client EXCEPT ![e] = FreeFd]
  /\ allset' = allset \cup {FreeFd}
  /\ maxfd' = IF FreeFd > maxfd THEN FreeFd ELSE maxfd
  /\ maxi' = IF e > maxi THEN e ELSE maxi
  /\ nready' = nready - 1
  /\ pc' = IF nready - 1 <= 0 THEN "wait" ELSE "scan"
  /\ UNCHANGED <<version, nconns, nsent, inq, outq, hup, ready, lready, i, data>>

TooMany ==
  /\ pc = "accept" /\ backlog # << >>
  /\ \A e \in Entries : client[e] # -1
  /\ pc' = "too many clients"
  /\ UNCHANGED <<version, network, table, ready, lready, nready, i, data>>

\* Mutant: the entry's readiness is not looked at.
IsReadyAny(e) == TRUE

IsReady(e) == IF version = "poll01" THEN e \in ready ELSE client[e] \in ready

\* The loop over client[0 .. maxi]: on to the next entry that is ready.
Scan ==
  /\ pc = "scan"
  /\ LET found == {e \in Entries : i <= e /\ e <= maxi /\ client[e] # -1 /\ IsReady(e)}
     IN IF found = {}
        THEN pc' = "wait" /\ UNCHANGED i
        ELSE pc' = "read" /\ i' = CHOOSE e \in found : \A d \in found : e <= d
  /\ UNCHANGED <<version, network, table, ready, lready, nready, data>>

\* Mutant: break with one still ready.
NextEntryEarly ==
  /\ nready' = nready - 1 /\ i' = i + 1
  /\ pc' = IF nready - 1 <= 1 THEN "wait" ELSE "scan"
  /\ UNCHANGED <<ready, lready>>

\* After an entry is dealt with: if (--nready <= 0) break;
NextEntry ==
  /\ nready' = nready - 1
  /\ pc' = IF nready - 1 <= 0 THEN "wait" ELSE "scan"
  /\ i' = i + 1
  /\ UNCHANGED <<ready, lready>>

conn == owner[client[i]]

\* On to Writen, with n pieces.
Echo(n) ==
  /\ pc' = "writen" /\ nleft' = n
  /\ UNCHANGED <<ready, lready, nready, i>>

\* Read takes all there is.
ReadData ==
  /\ pc = "read" /\ version # "select03" /\ inq[conn] # << >>
  /\ inq' = [inq EXCEPT ![conn] = << >>]
  /\ Echo(Len(inq[conn]))
  /\ UNCHANGED <<version, nconns, backlog, owner, nsent, outq, hup, table, read_buf>>

LineEnds(buf) == {k \in 1 .. Len(buf) : buf[k] = "line"}

\* What follows the first line of buf.
AfterLine(buf) ==
  SubSeq(buf, 1 + CHOOSE k \in LineEnds(buf) : \A j \in LineEnds(buf) : k <= j, Len(buf))

\* Readline takes one line of read_buf, whoever sent it, and reads this descriptor
\* when there is none: again and again, until the line ends or the client has sent
\* its FIN, after which it returns the part it has.
ReadLine ==
  /\ pc \in {"read", "line"} /\ version = "select03"
  /\ hup[conn] = "rst" => LineEnds(read_buf) # {}
  /\ LET buf == IF LineEnds(read_buf) # {} THEN read_buf ELSE read_buf \o inq[conn]
     IN \/ LineEnds(buf) # {} /\ read_buf' = AfterLine(buf) /\ Echo(1)
        \/ /\ LineEnds(buf) = {} /\ inq[conn] # << >>
           /\ read_buf' = buf /\ pc' = "line"
           /\ UNCHANGED <<ready, lready, nready, i, nleft>>
        \/ /\ LineEnds(buf) = {} /\ inq[conn] = << >>
           /\ hup[conn] = "fin" /\ read_buf # << >>
           /\ read_buf' = << >> /\ Echo(1)
  /\ inq' = IF LineEnds(read_buf) # {} THEN inq ELSE [inq EXCEPT ![conn] = << >>]
  /\ UNCHANGED <<version, nconns, backlog, owner, nsent, outq, hup, table>>

\* One write() of Writen: it blocks while the buffers are full.
Writen ==
  /\ pc = "writen" /\ hup[conn] # "rst" /\ outq[conn] < SndBuf
  /\ outq' = [outq EXCEPT ![conn] = @ + 1]
  /\ nleft' = nleft - 1
  /\ IF nleft = 1 THEN NextEntry ELSE UNCHANGED loop
  /\ UNCHANGED <<version, nconns, backlog, owner, nsent, inq, hup, table, read_buf>>

\* Mutant: the descriptor is not taken out of allset.
CloseKept ==
  /\ pc = "read" /\ inq[conn] = << >> /\ hup[conn] = "fin"
  /\ version = "select03" => read_buf = << >>
  /\ owner' = [owner EXCEPT ![client[i]] = 0]
  /\ client' = [client EXCEPT ![i] = -1]
  /\ outq' = [outq EXCEPT ![conn] = 0]
  /\ NextEntry
  /\ UNCHANGED <<version, nconns, backlog, nsent, inq, hup, maxi, maxfd, allset, data>>

\* End-of-file, and for poll01 also a reset: close and free the entry.  Echoes that
\* the client has yet to read are no longer the server's.
Close ==
  /\ pc = "read" /\ inq[conn] = << >> /\ (version = "select03" => read_buf = << >>)
  /\ hup[conn] = "fin" \/ (hup[conn] = "rst" /\ version = "poll01")
  /\ owner' = [owner EXCEPT ![client[i]] = 0]
  /\ allset' = allset \ {client[i]}
  /\ client' = [client EXCEPT ![i] = -1]
  /\ outq' = [outq EXCEPT ![conn] = 0]
  /\ NextEntry
  /\ UNCHANGED <<version, nconns, backlog, nsent, inq, hup, maxi, maxfd, data>>

\* Read, Readline and Writen exit on any error; only tcpservpoll01.c tells a reset
\* from the others, and only in read.
ReadError ==
  /\ pc \in {"read", "line", "writen"} /\ (version = "poll01" => pc = "writen")
  /\ hup[conn] = "rst" /\ (pc # "writen" => LineEnds(read_buf) = {})
  /\ pc' = "err_sys"
  /\ UNCHANGED <<version, network, table, ready, lready, nready, i, data>>

ServerStep ==
  \/ Wait \/ TooMany \/ (\E e \in Entries : Accept(e))
  \/ Scan \/ ReadData \/ ReadLine \/ Writen \/ Close \/ ReadError

Next ==
  \/ ServerStep \/ Connect \/ Abort
  \/ \E c \in Conns : Send(c) \/ Receive(c) \/ Hangup(c) \/ Reset(c)

Spec == Init /\ [][Next]_vars
FairSpec == Spec /\ WF_vars(ServerStep)

-----------------------------------------------------------------------------
TypeOK ==
  /\ version \in Versions
  /\ nconns \in 0 .. MaxConns /\ backlog \in Seq(Conns)
  /\ owner \in [Fds -> 0 .. MaxConns]
  /\ nsent \in 0 .. MaxPieces /\ inq \in [Conns -> Seq(Pieces)]
  /\ outq \in [Conns -> 0 .. SndBuf]
  /\ hup \in [Conns -> {"no", "fin", "rst"}]
  /\ client \in [Entries -> Fds \cup {-1}] /\ maxi \in -1 .. NClient - 1
  /\ maxfd \in {listenfd} \cup Fds /\ allset \subseteq Fds
  /\ ready \subseteq (IF version = "poll01" THEN Entries ELSE Fds)
  /\ lready \in BOOLEAN /\ nready \in 0 .. NClient + 1
  /\ pc \in {"wait", "accept", "scan", "read", "line", "writen"} \cup Ends /\ i \in 0 .. NClient
  /\ nleft \in 0 .. MaxPieces /\ read_buf \in Seq(Pieces)

Used == {e \in Entries : client[e] # -1}

\* The table, the descriptor set and the two maxima agree through any history of
\* accepts and closes: the next select or poll watches every open connection and
\* nothing else, and no two entries name the same descriptor.
TableExact ==
  /\ {client[e] : e \in Used} = {fd \in Fds : owner[fd] # 0}
  /\ \A d, e \in Used : d # e => client[d] # client[e]
  /\ allset = {client[e] : e \in Used}
  /\ \A e \in Used : e <= maxi /\ client[e] <= maxfd

\* The server reads only what select or poll found readable, so it never blocks
\* in read with other clients waiting: not when a descriptor was closed and its
\* number given to a new connection, and not from the uninitialized revents of an
\* entry that poll has never seen, which --nready <= 0 keeps the loop away from.
\* (Readline reads again when a line is not complete: see Stalled.)
ReadNeverBlocks == pc = "read" => Readable(client[i])

\* The early exits on --nready <= 0 skip no client that select reported.
NoneSkipped ==
  pc = "wait" /\ version # "poll01" => \A e \in Used : i <= e => ~IsReady(e)

\* The server waits for one client, and with it all the others: in accept for one
\* that has aborted its connection, in Readline for the rest of a line, or in
\* Writen for one that does not read.
Stalled ==
  \/ pc = "accept" /\ backlog = << >>
  \/ pc = "line" /\ inq[conn] = << >> /\ hup[conn] = "no"
  \/ pc = "writen" /\ outq[conn] = SndBuf /\ hup[conn] # "rst"
=============================================================================
