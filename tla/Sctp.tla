-------------------------------- MODULE Sctp --------------------------------
(***************************************************************************)
(* The SCTP echo servers and clients of sctp/: one-to-many sockets over     *)
(* which every association has its own streams.  The servers sctpserv01.c   *)
(* to sctpserv07.c and sctpserv_fork.c, with pdapi_recvmsg(), the           *)
(* notifications and sctp_peeloff(); the clients sctpclient01.c, 02 and 04, *)
(* with sctpstr_cli() and sctpstr_cli_echoall() in all their versions.      *)
(* Within a stream messages stay in order, unless sent MSG_UNORDERED;       *)
(* between streams any order is possible.                                   *)
(***************************************************************************)
EXTENDS Integers, Sequences, FiniteSets, SequencesExt

CONSTANTS
  Clients,
  MaxStrm,        \* SERV_MAX_SCTP_STRM: streams of an association
  MoreStrms,      \* SERV_MORE_STRMS_SCTP: what sctpserv02 asks for
  MaxLines,       \* bound: lines a client reads when it is alone
  IncrSz,         \* SCTP_PDAPI_INCR_SZ
  NeedMore,       \* SCTP_PDAPI_NEED_MORE_THRESHOLD
  MaxSize         \* bound: length of a message

VARIABLES
  serv, stream_increment, cli,    \* the programs, of each client too, and the server's argument
  asc,                            \* the association of each client
  up, down,                       \* messages on the way, of each client and stream
  notes,                          \* clients with a notification for the server, and for them
  spc, cur,                       \* the server's place, and what it has received
  at_in_buf, rdbuf_sz,            \* pdapi_recvmsg()
  peeled,                         \* associations a child of sctpserv_fork has
  cpc, round, nsent, i,           \* each client: place, lines to read, messages sent, loop index
  got,                            \* history: the replies of each client
  lost                            \* history: clients whose reply can no longer come

progs == <<serv, stream_increment, cli>>
cvars == <<cpc, round, nsent, i, got>>
svars == <<spc, cur, at_in_buf, rdbuf_sz>>
sctpvars == <<progs, asc, up, down, notes, svars, peeled, cvars, lost>>

-----------------------------------------------------------------------------
(* The programs. *)

plain ==
  [more |-> FALSE, eof |-> FALSE, autoclose |-> FALSE, pdapi |-> FALSE, notify |-> FALSE, fork |-> FALSE]

sctpserv01 == plain
sctpserv02 == [plain EXCEPT !.more = TRUE]
sctpserv03 == [plain EXCEPT !.eof = TRUE]
sctpserv04 == [plain EXCEPT !.autoclose = TRUE]
sctpserv05 == [plain EXCEPT !.pdapi = TRUE]
sctpserv06 == [plain EXCEPT !.notify = TRUE]
sctpserv07 == [plain EXCEPT !.notify = TRUE]    \* stream_increment = FALSE
sctpserv_fork == [plain EXCEPT !.fork = TRUE]   \* stream_increment = FALSE

\* A line goes to one stream, or "per" messages to each; unordered; with notifications.
sctp_strcli == [all |-> FALSE, per |-> 1, unordered |-> FALSE, notify |-> FALSE]
sctp_strcli_un == [all |-> FALSE, per |-> 1, unordered |-> TRUE, notify |-> FALSE]
sctp_strcli1 == [all |-> FALSE, per |-> 1, unordered |-> FALSE, notify |-> TRUE]
sctp_strcliecho == [all |-> TRUE, per |-> 1, unordered |-> FALSE, notify |-> FALSE]
sctp_strcliecho2 == [all |-> TRUE, per |-> 2, unordered |-> FALSE, notify |-> FALSE]

sctpclient01 == {sctp_strcli, sctp_strcli_un, sctp_strcliecho, sctp_strcliecho2}
sctpclient02 == {sctp_strcli, sctp_strcliecho}   \* ends with MSG_ABORT
sctpclient04 == {sctp_strcli1}

Streams == 0 .. MoreStrms - 1
OutStrms == IF serv.more THEN MoreStrms ELSE MaxStrm
Expected(c) == IF cli[c].all THEN cli[c].per * MaxStrm ELSE 1

Nobody ==
  [c |-> CHOOSE c \in Clients : TRUE, s |-> 0, m |-> [id |-> 0, from |-> 0, unordered |-> FALSE], size |-> 0]
\* The lines of each client: one for everybody, or several for one that is alone;
\* those that send many messages for a line have one.
Lines ==
  (IF cli[Nobody.c].per = 1 THEN {[c \in Clients |-> 1]} ELSE {})
  \cup {[c \in Clients |-> IF c # Nobody.c THEN 0 ELSE IF cli[c].all THEN 1 ELSE MaxLines]}

Empty == [c \in Clients |-> [s \in Streams |-> << >>]]

SctpInit ==
  /\ \/ /\ serv \in {sctpserv01, sctpserv02, sctpserv03, sctpserv04, sctpserv05, sctpserv06}
        /\ stream_increment \in BOOLEAN
     \/ serv \in {sctpserv07, sctpserv_fork} /\ stream_increment = FALSE
  /\ \E p \in sctpclient01 \cup sctpclient02 \cup sctpclient04 :
       cli = [c \in Clients |-> IF c = Nobody.c THEN p ELSE sctp_strcli]
  /\ asc = [c \in Clients |-> "none"] /\ up = Empty /\ down = Empty /\ notes = [server |-> {}, client |-> {}]
  /\ spc = "recv" /\ cur = Nobody
  /\ at_in_buf = 0 /\ rdbuf_sz = IncrSz /\ peeled = {}
  /\ round \in Lines
  /\ cpc = [c \in Clients |-> IF round[c] = 0 THEN "closed" ELSE "send"]
  /\ nsent = [c \in Clients |-> 0] /\ i = [c \in Clients |-> 0]
  /\ got = [c \in Clients |-> << >>] /\ lost = {}

\* What recvmsg may return: the first message of a stream, or an unordered one.
Next_in(q) == {k \in 1 .. Len(q) : k = 1 \/ q[k].unordered}

\* The association of c is up, or over; those who asked for it are told.
Notified(c) ==
  notes' = [server |-> IF serv.notify THEN notes.server \cup {c} ELSE {},
            client |-> IF cli[c].notify THEN notes.client \cup {c} ELSE {}]

-----------------------------------------------------------------------------
(* The clients. *)

\* The stream of the next message: what the line says, or all in turn.
Stream(c) == IF cli[c].all THEN {i[c] \div cli[c].per} ELSE 0 .. MaxStrm

Message(c, s) == [id |-> nsent[c], from |-> s, unordered |-> cli[c].unordered]

\* Sctp_sendmsg(); the first sets up the association.  A stream there is not,
\* and an association that is shutting down, are errors.
Send(c) ==
  /\ cpc[c] = "send" /\ round[c] > 0 /\ spc # "exit"
  /\ \E s \in Stream(c) :
       IF s >= MaxStrm \/ asc[c] = "shut"
       THEN cpc' = [cpc EXCEPT ![c] = "err_sys"] /\ UNCHANGED <<asc, up, notes, nsent, i>>
       ELSE /\ up' = [up EXCEPT ![c][s] = Append(@, Message(c, s))]
            /\ nsent' = [nsent EXCEPT ![c] = @ + 1]
            /\ asc' = [asc EXCEPT ![c] = "up"]
            /\ IF asc[c] = "none" THEN Notified(c) ELSE UNCHANGED notes
            /\ IF i[c] + 1 = Expected(c)
               THEN i' = [i EXCEPT ![c] = 0] /\ cpc' = [cpc EXCEPT ![c] = "recv"]
               ELSE i' = [i EXCEPT ![c] = @ + 1] /\ UNCHANGED cpc
  /\ UNCHANGED <<progs, down, svars, peeled, round, got, lost>>

\* Sctp_recvmsg(), as often as messages were sent.
Recv(c) ==
  /\ cpc[c] = "recv"
  /\ \E s \in Streams : \E k \in Next_in(down[c][s]) :
       /\ got' = [got EXCEPT ![c] = Append(@, [m |-> down[c][s][k], s |-> s])]
       /\ down' = [down EXCEPT ![c][s] = RemoveAt(@, k)]
  /\ IF i[c] + 1 = Expected(c)
     THEN /\ i' = [i EXCEPT ![c] = 0] /\ cpc' = [cpc EXCEPT ![c] = "send"]
          /\ round' = [round EXCEPT ![c] = @ - 1]
     ELSE i' = [i EXCEPT ![c] = @ + 1] /\ UNCHANGED <<cpc, round>>
  /\ UNCHANGED <<progs, asc, up, notes, svars, peeled, nsent, lost>>

\* sctp_strcli1.c: a notification is shown, and the wait goes on.
check_notification(c) ==
  /\ cpc[c] = "recv" /\ c \in notes.client
  /\ notes' = [notes EXCEPT !.client = @ \ {c}]
  /\ UNCHANGED <<progs, asc, up, down, svars, peeled, cvars, lost>>

\* The association ends; what a child of sctpserv_fork had is gone with it.
Over(c) ==
  /\ asc' = [asc EXCEPT ![c] = "none"] /\ peeled' = peeled \ {c}
  /\ IF asc[c] = "none" THEN UNCHANGED notes ELSE Notified(c)

\* End of input: Close(), or MSG_ABORT first.  The client may also be stopped
\* while it waits; the server then may or may not read what was sent.
Close(c) ==
  /\ \/ cpc[c] = "send" /\ round[c] = 0
     \/ cpc[c] \in {"recv", "err_sys"}
  /\ cpc' = [cpc EXCEPT ![c] = "closed"]
  /\ Over(c)
  /\ up' \in (IF c \in peeled THEN {} ELSE {up}) \cup {[up EXCEPT ![c] = Empty[c]]}
  /\ down' = [down EXCEPT ![c] = Empty[c]]
  /\ UNCHANGED <<progs, svars, round, nsent, i, got, lost>>

-----------------------------------------------------------------------------
(* The server. *)

\* Where the server goes with a whole message, and when it has answered it.
AfterSend ==
  /\ at_in_buf' = 0
  /\ IF serv.fork THEN spc' = "peel" /\ UNCHANGED cur ELSE spc' = "recv" /\ cur' = Nobody
AfterRecv == IF stream_increment THEN "streams" ELSE "send"

\* An error ends the server, and with it the associations it still has.
err_sys ==
  /\ spc' = "exit" /\ UNCHANGED <<cur, at_in_buf, rdbuf_sz>>
  /\ asc' = [c \in Clients |-> IF c \in peeled THEN asc[c] ELSE "none"]

Sctp_recvmsg ==
  /\ spc = "recv"
  /\ \E c \in Clients \ peeled, s \in Streams : \E k \in Next_in(up[c][s]) :
       /\ up' = [up EXCEPT ![c][s] = RemoveAt(@, k)]
       /\ IF serv.pdapi
          THEN \E size \in 1 .. MaxSize, n \in 1 .. rdbuf_sz :
                 /\ n <= size /\ at_in_buf' = n
                 /\ cur' = [c |-> c, s |-> s, m |-> up[c][s][k], size |-> size]
                 /\ spc' = "pdapi"
          ELSE /\ cur' = [c |-> c, s |-> s, m |-> up[c][s][k], size |-> 0]
               /\ spc' = AfterRecv /\ UNCHANGED at_in_buf
  /\ UNCHANGED <<progs, asc, down, notes, rdbuf_sz, peeled, cvars, lost>>

\* sctpserv05: until MSG_EOR, the buffer is grown where little is left, and the
\* next part of the message goes behind what is there.
pdapi_recvmsg ==
  /\ spc = "pdapi"
  /\ IF at_in_buf = cur.size THEN spc' = AfterRecv /\ UNCHANGED <<at_in_buf, rdbuf_sz>>
     ELSE LET sz == IF rdbuf_sz - at_in_buf < NeedMore THEN rdbuf_sz + IncrSz ELSE rdbuf_sz
          IN  \E n \in 1 .. sz - at_in_buf :
                /\ n <= cur.size - at_in_buf
                /\ at_in_buf' = at_in_buf + n /\ rdbuf_sz' = sz /\ UNCHANGED spc
  /\ UNCHANGED <<progs, asc, up, down, notes, cur, peeled, cvars, lost>>

\* sctpserv06 and 07: a notification is printed and not echoed.
print_notification ==
  /\ spc = "recv"
  /\ \E c \in notes.server : notes' = [notes EXCEPT !.server = @ \ {c}]
  /\ UNCHANGED <<progs, asc, up, down, svars, peeled, cvars, lost>>

\* Mutant: the stream after the last is not taken for the first.
sctp_get_no_strms_OffByOne ==
  /\ spc = "streams"
  /\ IF asc[cur.c] = "none" THEN err_sys
     ELSE /\ cur' = [cur EXCEPT !.s = IF @ + 1 > OutStrms THEN 0 ELSE @ + 1] /\ spc' = "send"
          /\ UNCHANGED <<asc, at_in_buf, rdbuf_sz>>
  /\ UNCHANGED <<progs, up, down, notes, peeled, cvars, lost>>

\* The reply goes to the next stream.  The status of an association that has
\* gone meanwhile is an error.
sctp_get_no_strms ==
  /\ spc = "streams"
  /\ IF asc[cur.c] = "none" THEN err_sys
     ELSE /\ cur' = [cur EXCEPT !.s = IF @ + 1 >= OutStrms THEN 0 ELSE @ + 1] /\ spc' = "send"
          /\ UNCHANGED <<asc, at_in_buf, rdbuf_sz>>
  /\ UNCHANGED <<progs, up, down, notes, peeled, cvars, lost>>

\* Mutant: the reply is sent MSG_UNORDERED whatever came.
Sctp_sendmsg_Unordered ==
  /\ spc = "send"
  /\ \/ /\ asc[cur.c] = "up" /\ cur.s < OutStrms
        /\ down' = [down EXCEPT ![cur.c][cur.s] = Append(@, [cur.m EXCEPT !.unordered = TRUE])]
        /\ asc' = [asc EXCEPT ![cur.c] = IF serv.eof THEN "shut" ELSE "up"]
        /\ AfterSend /\ UNCHANGED <<rdbuf_sz, lost>>
     \/ /\ asc[cur.c] = "none"
        /\ AfterSend /\ lost' = lost \cup {cur.c} /\ UNCHANGED <<asc, down, rdbuf_sz>>
     \/ (asc[cur.c] # "up" \/ cur.s >= OutStrms) /\ err_sys /\ UNCHANGED <<down, lost>>
  /\ UNCHANGED <<progs, up, notes, peeled, cvars>>

\* The reply; with MSG_EOF (sctpserv03) the association is shut down behind it.
\* While it is shutting down sending is an error; when it is gone, sending sets
\* up another, which the client does not accept, and may also be an error.
Sctp_sendmsg ==
  /\ spc = "send"
  /\ \/ /\ asc[cur.c] = "up" /\ cur.s < OutStrms
        /\ down' = [down EXCEPT ![cur.c][cur.s] = Append(@, cur.m)]
        /\ asc' = [asc EXCEPT ![cur.c] = IF serv.eof THEN "shut" ELSE "up"]
        /\ AfterSend /\ UNCHANGED <<rdbuf_sz, lost>>
     \/ /\ asc[cur.c] = "none"
        /\ AfterSend /\ lost' = lost \cup {cur.c} /\ UNCHANGED <<asc, down, rdbuf_sz>>
     \/ (asc[cur.c] # "up" \/ cur.s >= OutStrms) /\ err_sys /\ UNCHANGED <<down, lost>>
  /\ UNCHANGED <<progs, up, notes, peeled, cvars>>

\* sctpserv_fork: no association id, or sctp_peeloff() fails: go on; fork()
\* fails: the association is closed with the descriptor; else a child has it.
Peeloff ==
  /\ spc = "peel" /\ spc' = "recv" /\ cur' = Nobody
  /\ \/ UNCHANGED <<asc, up, peeled, lost>>
     \/ /\ asc[cur.c] = "up"
        /\ \/ peeled' = peeled \cup {cur.c} /\ UNCHANGED <<asc, up, lost>>
           \/ /\ asc' = [asc EXCEPT ![cur.c] = "shut"] /\ up' = [up EXCEPT ![cur.c] = Empty[cur.c]]
              /\ lost' = lost \cup {cur.c} /\ UNCHANGED peeled
  /\ UNCHANGED <<progs, down, notes, at_in_buf, rdbuf_sz, cvars>>

\* The child: str_echo(), which reads from any stream and writes to the first.
str_echo(c) ==
  /\ c \in peeled /\ asc[c] = "up"
  /\ \E s \in Streams : \E k \in Next_in(up[c][s]) :
       /\ up' = [up EXCEPT ![c][s] = RemoveAt(@, k)]
       /\ down' = [down EXCEPT ![c][0] = Append(@, [up[c][s][k] EXCEPT !.unordered = FALSE])]
  /\ UNCHANGED <<progs, asc, notes, svars, peeled, cvars, lost>>

\* SCTP_AUTOCLOSE (sctpserv04): an idle association is shut down.
Autoclose(c) ==
  /\ serv.autoclose /\ spc # "exit" /\ asc[c] = "up" /\ up[c] = Empty[c] /\ down[c] = Empty[c]
  /\ spc # "recv" => cur.c # c
  /\ asc' = [asc EXCEPT ![c] = "shut"]
  /\ UNCHANGED <<progs, up, down, notes, svars, peeled, cvars, lost>>

\* The shutdown is complete.
ShutdownComplete(c) ==
  /\ asc[c] = "shut" /\ Over(c)
  /\ UNCHANGED <<progs, up, down, svars, cvars, lost>>

ServerStep == Sctp_recvmsg \/ pdapi_recvmsg \/ sctp_get_no_strms \/ Sctp_sendmsg \/ Peeloff

SctpNext ==
  \/ ServerStep \/ print_notification
  \/ \E c \in Clients :
       \/ Send(c) \/ Recv(c) \/ check_notification(c) \/ Close(c)
       \/ str_echo(c) \/ Autoclose(c) \/ ShutdownComplete(c)

\* The server and its children run, messages arrive, and clients receive them.
SctpSpec ==
  /\ SctpInit /\ [][SctpNext]_sctpvars /\ WF_sctpvars(ServerStep)
  /\ \A c \in Clients : WF_sctpvars(Recv(c)) /\ WF_sctpvars(str_echo(c))

-----------------------------------------------------------------------------
ReplyStream(m) == IF stream_increment THEN (m.from + 1) % OutStrms ELSE m.from

\* A client gets a reply to each of its messages at most once, on the stream the
\* server's argument says, and replies to ordered messages of one stream in the
\* order sent, however the streams overtake each other.  Only sctpserv_fork is
\* exempt from the last two: its child answers on stream 0.
StreamOrder ==
  \A c \in Clients : \A j, k \in DOMAIN got[c] :
    LET a == got[c][j] b == got[c][k]
    IN  /\ j # k => a.m.id # b.m.id
        /\ a.m.id < nsent[c]
        /\ ~serv.fork => /\ a.s = ReplyStream(a.m)
                         /\ (j < k /\ a.m.from = b.m.from /\ ~cli[c].unordered => a.m.id < b.m.id)

\* A client reads its next line only when all its messages are answered: what
\* it prints after a line are the replies to that line, notifications or not.
RoundComplete ==
  \A c \in Clients : cpc[c] = "send" /\ i[c] = 0 => Len(got[c]) = nsent[c]

\* The server ends only over an association that is going or gone, never over
\* a stream number or a message that does not fit its buffer.
EndsForCause ==
  /\ spc # "exit" /\ spc' = "exit" => asc[cur.c] # "up"
  /\ at_in_buf' <= rdbuf_sz'
  /\ serv.pdapi /\ spc' = "send" => at_in_buf' = cur'.size

\* A client waits for ever when the server has ended or the association it asked
\* over was shut down with the message unanswered.
Given_up(c) == c \in lost \/ spc = "exit"
=============================================================================
