------------------------------- MODULE StrCli -------------------------------
(***************************************************************************)
(* The TCP echo clients.  Every program connects, calls a str_cli() that    *)
(* copies standard input to the socket and the socket to standard output,   *)
(* and exits.  The str_cli()s differ in how they wait for the two inputs:   *)
(*   lockstep  lib/str_cli.c, tcpcliserv/str_cli08.c, 09.c, 11.c            *)
(*   select    select/strcliselect01.c, 02.c, advio/str_cli_select02.c,     *)
(*             str_cli_poll03.c, str_cli_kqueue04.c, oob/strcliselect02.c,  *)
(*             sock/looptcp.c                                               *)
(*   nonb      nonblock/strclinonb.c                                        *)
(*   fork      nonblock/strclifork.c                                        *)
(*   thread    threads/strclithread.c, strclithread2.c                      *)
(* The peer is one of the str_echo()s (lib/str_echo.c, tcpcliserv/          *)
(* str_echo08.c, 09.c, oob/strecho02.c, unixdomain/strecho.c,               *)
(* advio/str_echo_stdio02.c), which may be killed at any time.  A line is a *)
(* number; what one write sends of it is a piece, and the piece that ends   *)
(* the line is even.                                                        *)
(***************************************************************************)
EXTENDS Naturals, Sequences

CONSTANTS N,        \* lines typed
          K,        \* pieces in a buffer of MAXLINE bytes
          C2S, S2C, \* pieces the two socket buffers hold
          OutCap    \* pieces standard output takes before it blocks

ASSUME BoundsAssumption == {N, K, C2S, S2C, OutCap} \subseteq Nat \ {0}

VARIABLES
  prog,      \* the client program
  echo,      \* the str_echo() at the other end
  conns,     \* connections made
  pc,        \* of the client; of the reader where a writer runs beside it
  wpc,       \* of the writer: fork()'s parent, the thread copyto()
  typed,     \* lines typed so far
  eofin,     \* end-of-file has been typed
  nread,     \* lines read from the descriptor of standard input
  sio,       \* lines in the stdio buffer of standard input
  to, too,   \* pieces to write to the socket, and how many are written
  fr, fro,   \* pieces to write to standard output, and how many are written
  rl,        \* pieces in readline()'s static buffer
  ready,     \* descriptors select() found readable and not yet handled
  stdineof,
  done,      \* flag of strclithread2.c
  undrained, \* pieces in the pipe behind standard output
  exit,      \* how the program ended
  taken, shown,  \* pieces accepted and pieces written to standard output
  c2s, cfin, \* client to server: pieces in flight, FIN sent
  s2c, sfin, \* server to client
  rst,       \* the client's socket has received a RST
  srv,       \* the server process: run, done (EOF seen) or dead (killed)
  sbuf,      \* pieces str_echo() has read and not yet written
  flushing   \* it is writing them

stdin == <<typed, eofin>>
input == <<nread, sio, to, too, taken>>
output == <<fr, fro, rl, shown, undrained>>
toServer == <<c2s, cfin>>
toClient == <<s2c, sfin>>
server == <<srv, sbuf, flushing>>
flags == <<stdineof, done>>
vars == <<prog, echo, conns, pc, wpc, stdin, input, output, ready, flags, exit,
          toServer, toClient, rst, server>>

Min2(a, b) == IF a < b THEN a ELSE b
Drop(s, n) == SubSeq(s, n + 1, Len(s))

-----------------------------------------------------------------------------
(* The programs.                                                           *)

StrCliOf(style) ==
  [style |-> style,
   stdio |-> TRUE,        \* reads standard input with fgets()
   readline |-> TRUE,     \* reads the socket with readline()
   halves |-> FALSE,      \* writes a line in two pieces
   check |-> FALSE,       \* skips lines that are no request
   eof |-> "shutdown",    \* at EOF on standard input: shutdown, or return
   first |-> {"sock"},    \* handled first when both are ready ({}: any order)
   keeps |-> FALSE,       \* keeps standard input registered after its EOF
   file |-> FALSE,        \* standard input is a regular file
   quits |-> TRUE,        \* EOF from the server is an error before our own
   flag |-> FALSE]        \* remembers in done that the writer has ended

str_cli == [StrCliOf("lockstep") EXCEPT !.eof = "return"]
str_cli08 == str_cli
str_cli09 == [str_cli EXCEPT !.check = TRUE]
str_cli11 == [str_cli EXCEPT !.halves = TRUE]
strcliselect01 == [StrCliOf("select") EXCEPT !.eof = "return"]
strcliselect02 == [StrCliOf("select") EXCEPT !.stdio = FALSE, !.readline = FALSE]
str_cli_select02 == StrCliOf("select")
str_cli_poll03 == [strcliselect02 EXCEPT !.first = {}, !.keeps = TRUE]
str_cli_kqueue04(isfile) == [strcliselect02 EXCEPT !.first = {}, !.file = isfile]
strcliselect02_oob == StrCliOf("select")
strclinonb == [StrCliOf("nonb") EXCEPT !.stdio = FALSE, !.readline = FALSE]
strclifork == [StrCliOf("fork") EXCEPT !.quits = FALSE]
strclithread == [StrCliOf("thread") EXCEPT !.quits = FALSE]
strclithread2 == [StrCliOf("thread") EXCEPT !.flag = TRUE]
loop_tcp(halfclose) ==
  [strcliselect02 EXCEPT !.first = {"stdin"}, !.quits = FALSE,
                         !.eof = IF halfclose THEN "shutdown" ELSE "return"]

Main(strcli) == [cli |-> strcli, nconn |-> 1, timer |-> FALSE]

tcpcliserv_tcpcli01 == Main(str_cli)
tcpcli04 == [Main(str_cli) EXCEPT !.nconn = 5]
tcpcli05 == Main(str_cli)
tcpcli07 == [Main(str_cli) EXCEPT !.timer = TRUE]
tcpcli08 == Main(str_cli08)
tcpcli09 == Main(str_cli09)
tcpcli10 == Main(str_cli)
tcpcli11 == Main(str_cli11)
select_tcpcli01 == Main(strcliselect01)
select_tcpcli02 == Main(strcliselect02)
nonblock_tcpcli01 == Main(strclifork)
nonblock_tcpcli02 == Main(strclinonb)
nonblock_tcpcli04 == Main(str_cli)
advio_tcpcli01 == Main(str_cli)
advio_tcpcli02 == Main(str_cli_select02)
advio_tcpcli03 == Main(str_cli_poll03)
advio_tcpcli04(isfile) == Main(str_cli_kqueue04(isfile))
oob_tcpcli02 == Main(strcliselect02_oob)
threads_tcpcli01 == Main(strclithread)
threads_tcpcli02 == Main(strclithread2)
unixstrcli01 == Main(str_cli)

Programs ==
  {tcpcliserv_tcpcli01, tcpcli04, tcpcli05, tcpcli07, tcpcli08, tcpcli09,
   tcpcli10, tcpcli11, select_tcpcli01, select_tcpcli02, nonblock_tcpcli01,
   nonblock_tcpcli02, nonblock_tcpcli04, advio_tcpcli01, advio_tcpcli02,
   advio_tcpcli03, oob_tcpcli02, threads_tcpcli01, threads_tcpcli02,
   unixstrcli01}
  \cup {advio_tcpcli04(isfile) : isfile \in BOOLEAN}
  \cup {Main(loop_tcp(halfclose)) : halfclose \in BOOLEAN}

\* What a str_echo() reads before it writes: a buffer, or a line; and what
\* lies in a stdio buffer until that is full or the process exits.
EchoOf(unit, stdio) == [unit |-> unit, stdio |-> stdio]

str_echo == EchoOf("buffer", FALSE)
str_echo08 == EchoOf("line", FALSE)
str_echo09 == EchoOf("line", FALSE)
str_echo_oob == EchoOf("line", FALSE)
str_echo_cred == EchoOf("buffer", FALSE)
str_echo_stdio == EchoOf("line", TRUE)

Echoes == {str_echo, str_echo08, str_echo09, str_echo_oob, str_echo_cred,
           str_echo_stdio}

cli == prog.cli
Threaded == cli.style \in {"fork", "thread"}
Running == exit = "none"

Init ==
  /\ prog \in Programs
  /\ echo \in {e \in Echoes : prog.cli.halves => e = str_echo}
  /\ conns = 0 /\ pc = "connect" /\ wpc = "none"
  /\ typed \in (IF prog.cli.file THEN 1 .. N ELSE {0}) /\ eofin = prog.cli.file
  /\ nread = 0 /\ sio = << >> /\ to = << >> /\ too = 0 /\ taken = << >>
  /\ fr = << >> /\ fro = 0 /\ rl = << >> /\ shown = << >> /\ undrained = 0
  /\ ready = {} /\ stdineof = FALSE /\ done = FALSE /\ exit = "none"
  /\ c2s = << >> /\ cfin = FALSE /\ s2c = << >> /\ sfin = FALSE /\ rst = FALSE
  /\ srv = "run" /\ sbuf = << >> /\ flushing = FALSE

\* The process ends; the kernel closes its socket.
Exit(how) == exit' = how /\ pc' = "exit" /\ cfin' = TRUE

\* Where str_cli() starts, and where its loop comes back to.
Top == CASE cli.style = "lockstep" -> "fgets"
         [] cli.style \in {"select", "nonb"} -> "select"
         [] OTHER -> "readline"

\* Connect() once, or five times in tcpcli04; then str_cli() starts, with
\* its child or its thread where it has one.
Connect ==
  /\ pc = "connect" /\ Running
  /\ \/ /\ conns' = conns + 1
        /\ IF conns' < prog.nconn THEN UNCHANGED <<pc, wpc>>
           ELSE pc' = Top /\ wpc' = IF Threaded THEN "fgets" ELSE "none"
        /\ UNCHANGED <<exit, cfin>>
     \/ Exit("error") /\ UNCHANGED <<conns, wpc>>
  /\ UNCHANGED <<prog, echo, stdin, input, output, ready, flags, c2s, toClient, rst, server>>

-----------------------------------------------------------------------------
(* Standard input.                                                         *)

Pieces(line) == IF cli.halves THEN <<2 * line - 1, 2 * line>> ELSE <<2 * line>>

\* What one read() of the descriptor may return: the next lines, at most a
\* buffer of them.
NextLines == {[j \in 1 .. n |-> nread + j] : n \in 1 .. Min2(K, typed - nread)}

\* What fgets() finds in its buffer, refilled by one read() if it was empty.
StdioBuffers == IF sio # << >> THEN {sio} ELSE NextLines

\* Mutant: EOF of the descriptor is taken for EOF of the stdio stream.
AtEofOfDescriptor == nread = typed /\ eofin

AtEof == sio = << >> /\ nread = typed /\ eofin

\* fgets(): one line; str_cli09 reads on when it holds no two numbers.
Fgets(next, skip) ==
  \E b \in StdioBuffers :
    /\ nread' = nread + (IF sio = << >> THEN Len(b) ELSE 0)
    /\ sio' = Tail(b)
    /\ \/ /\ to' = Pieces(Head(b)) /\ taken' = taken \o Pieces(Head(b))
          /\ next
       \/ cli.check /\ UNCHANGED <<to, taken>> /\ skip
    /\ UNCHANGED too

\* read(): all the lines it returns.
Read(limit) ==
  \E b \in NextLines :
    LET new == [j \in 1 .. Len(b) |-> 2 * b[j]] IN
    /\ Len(b) =< limit
    /\ nread' = nread + Len(b)
    /\ to' = to \o new /\ taken' = taken \o new
    /\ UNCHANGED <<sio, too>>

-----------------------------------------------------------------------------
(* The socket.                                                             *)

\* One piece of Writen(): the first write to a server that is gone draws a
\* RST, the next one SIGPIPE.
WritePiece ==
  /\ too < Len(to)
  /\ IF srv = "run" /\ ~rst
     THEN Len(c2s) < C2S /\ c2s' = Append(c2s, to[too + 1]) /\ UNCHANGED rst
     ELSE ~rst /\ rst' = TRUE /\ UNCHANGED c2s
  /\ IF too + 1 = Len(to) THEN to' = << >> /\ too' = 0
     ELSE too' = too + 1 /\ UNCHANGED to

SockReadable == s2c # << >> \/ sfin \/ rst

\* read() of the socket: up to limit pieces.  Once they are gone a RST is
\* reported as an error, or as the EOF of the FIN that came before it.
ReadSock(limit) ==
  {<<"data", SubSeq(s2c, 1, n)>> : n \in 1 .. Min2(limit, Len(s2c))}
  \cup (IF s2c = << >> /\ sfin THEN {<<"eof", << >> >>} ELSE {})
  \cup (IF s2c = << >> /\ rst THEN {<<"error", << >> >>} ELSE {})

EndOfLine(p) == p % 2 = 0

-----------------------------------------------------------------------------
(* Reading the socket and writing what came to standard output.            *)

\* EOF from the server: premature unless our own EOF went out before.  The
\* child of strclifork terminates its parent, if there still is one.
SocketEof ==
  IF wpc = "dead" THEN "killed"
  ELSE IF ~cli.quits \/ stdineof \/ done THEN "normal" ELSE "premature"

\* An error of the socket ends the process; the parent of strclifork does
\* not notice that its child has gone.
SocketError ==
  IF cli.style = "fork" /\ wpc # "dead"
  THEN pc' = "dead" /\ UNCHANGED <<exit, cfin>>
  ELSE Exit(IF wpc = "dead" THEN "killed" ELSE "error")

\* readline(): pieces of the static buffer, filled by a read() when it is
\* empty, up to the end of the line or of the file.
Readline ==
  /\ pc = "readline" /\ Running
  /\ \/ /\ rl # << >>
        /\ fr' = Append(fr, Head(rl)) /\ rl' = Tail(rl)
        /\ pc' = IF EndOfLine(Head(rl)) THEN "fputs" ELSE pc
        /\ UNCHANGED <<exit, cfin, s2c>>
     \/ /\ rl = << >>
        /\ \E r \in ReadSock(K) :
             /\ rl' = r[2] /\ s2c' = Drop(s2c, Len(r[2]))
             /\ CASE r[1] = "data" -> UNCHANGED <<pc, exit, cfin>>
                  [] r[1] = "error" -> SocketError
                  [] r[1] = "eof" ->
                       IF fr # << >> THEN pc' = "fputs" /\ UNCHANGED <<exit, cfin>>
                       ELSE Exit(SocketEof)
        /\ UNCHANGED fr
  /\ UNCHANGED <<prog, echo, conns, wpc, stdin, input, fro, shown, undrained, ready,
                 flags, c2s, sfin, rst, server>>

\* read() where there is no readline().
ReadSocket ==
  /\ pc = "read" /\ Running
  /\ \E r \in ReadSock(K) :
       /\ fr' = r[2] /\ s2c' = Drop(s2c, Len(r[2]))
       /\ CASE r[1] = "data" -> pc' = "fputs" /\ UNCHANGED <<exit, cfin>>
            [] r[1] = "error" -> SocketError
            [] r[1] = "eof" -> Exit(SocketEof)
  /\ UNCHANGED <<prog, echo, conns, wpc, stdin, input, fro, rl, shown, undrained, ready,
                 flags, c2s, sfin, rst, server>>

\* After one descriptor: the other one that select() found, or select().
Continue(r) == IF cli.style = "select" /\ r # {} THEN "handle" ELSE Top

Fputs ==
  /\ pc = "fputs" /\ Running /\ undrained < OutCap
  /\ shown' = Append(shown, fr[fro + 1]) /\ undrained' = undrained + 1
  /\ IF fro + 1 = Len(fr)
     THEN fr' = << >> /\ fro' = 0 /\ pc' = Continue(ready)
     ELSE fro' = fro + 1 /\ UNCHANGED <<fr, pc>>
  /\ UNCHANGED <<prog, echo, conns, wpc, stdin, input, rl, ready, flags, exit,
                 toServer, toClient, rst, server>>

-----------------------------------------------------------------------------
(* Lockstep: fgets, write, readline, fputs.                                *)

FgetsLine ==
  /\ pc = "fgets" /\ Running
  /\ \/ Fgets(pc' = "write", UNCHANGED pc) /\ UNCHANGED <<exit, cfin>>
     \/ AtEof /\ Exit("normal") /\ UNCHANGED input
  /\ UNCHANGED <<prog, echo, conns, wpc, stdin, output, ready, flags, c2s, toClient,
                 rst, server>>

\* Writen().  kqueue04 then shuts down a file it has read to its end.
Write ==
  /\ pc = "write" /\ Running
  /\ \/ /\ WritePiece
        /\ pc' = IF to' # << >> THEN pc
                 ELSE IF cli.style = "lockstep" THEN "readline" ELSE Continue(ready)
        /\ LET last == cli.file /\ to' = << >> /\ nread = typed IN
           cfin' = (cfin \/ last) /\ stdineof' = (stdineof \/ last)
        /\ UNCHANGED exit
     \/ /\ rst /\ Exit("killed")
        /\ UNCHANGED <<to, too, c2s, rst, stdineof>>
  /\ UNCHANGED <<prog, echo, conns, wpc, stdin, nread, sio, taken, output, ready, done,
                 toClient, server>>

-----------------------------------------------------------------------------
(* select(), poll() and kqueue() over standard input and the socket.       *)

StdinReadable == nread < typed \/ (eofin /\ ~cli.file)

Readable ==
  {d \in {"stdin", "sock"} :
     IF d = "sock" THEN SockReadable
     ELSE StdinReadable /\ (~stdineof \/ cli.keeps)}

Select ==
  /\ pc = "select" /\ cli.style = "select" /\ Running
  /\ Readable # {} /\ ready' = Readable /\ pc' = "handle"
  /\ UNCHANGED <<prog, echo, conns, wpc, stdin, input, output, flags, exit, toServer,
                 toClient, rst, server>>

\* d is handled now: it is ready and no descriptor goes before it.
Turn(d) == d \in ready /\ (d \in cli.first \/ ready \cap cli.first = {})

SockReady ==
  /\ pc = "handle" /\ Running /\ Turn("sock")
  /\ ready' = ready \ {"sock"}
  /\ pc' = IF cli.readline THEN "readline" ELSE "read"
  /\ UNCHANGED <<prog, echo, conns, wpc, stdin, input, output, flags, exit, toServer,
                 toClient, rst, server>>

\* The loop goes back to select() from the EOF of standard input; with poll()
\* and kqueue() it goes on to the next event.
StdinReady ==
  /\ pc = "handle" /\ Running /\ Turn("stdin")
  /\ \/ /\ IF cli.stdio THEN Fgets(TRUE, FALSE) ELSE Read(K)
        /\ pc' = "write" /\ ready' = ready \ {"stdin"}
        /\ UNCHANGED <<stdineof, exit, cfin>>
     \/ /\ AtEof /\ cli.eof = "shutdown"
        /\ stdineof' = TRUE /\ cfin' = TRUE
        /\ ready' = IF cli.first = {} THEN ready \ {"stdin"} ELSE {}
        /\ pc' = Continue(ready')
        /\ UNCHANGED <<exit, input>>
     \/ /\ AtEof /\ cli.eof = "return"
        /\ Exit("normal") /\ UNCHANGED <<ready, stdineof, input>>
  /\ UNCHANGED <<prog, echo, conns, wpc, stdin, output, done, c2s, toClient, rst, server>>

-----------------------------------------------------------------------------
(* The writer that runs beside the reader.                                 *)

\* fgets(); at EOF the FIN goes out.  Then the parent pauses and the thread
\* ends, in strclithread2 after setting done.
CopyToFgets ==
  /\ wpc = "fgets" /\ Running
  /\ \/ Fgets(wpc' = "write", FALSE) /\ UNCHANGED cfin
     \/ /\ AtEof /\ cfin' = TRUE
        /\ wpc' = IF cli.style = "fork" THEN "pause" ELSE IF cli.flag THEN "flag" ELSE "end"
        /\ UNCHANGED input
  /\ UNCHANGED <<prog, echo, conns, pc, stdin, output, ready, flags, exit, c2s,
                 toClient, rst, server>>

\* SIGPIPE ends the process: both threads, but only the parent.
CopyToWrite ==
  /\ wpc = "write" /\ Running
  /\ \/ /\ WritePiece
        /\ wpc' = IF to' = << >> THEN "fgets" ELSE wpc
        /\ UNCHANGED <<pc, exit, cfin>>
     \/ /\ rst
        /\ IF cli.style = "fork" /\ pc # "dead"
           THEN wpc' = "dead" /\ UNCHANGED <<pc, exit, cfin>>
           ELSE Exit("killed") /\ UNCHANGED wpc
        /\ UNCHANGED <<to, too, c2s, rst>>
  /\ UNCHANGED <<prog, echo, conns, stdin, nread, sio, taken, output, ready, flags,
                 toClient, server>>

CopyToDone ==
  /\ wpc = "flag" /\ Running
  /\ done' = TRUE /\ wpc' = "end"
  /\ UNCHANGED <<prog, echo, conns, pc, stdin, input, output, ready, stdineof, exit,
                 toServer, toClient, rst, server>>

-----------------------------------------------------------------------------
(* Nonblocking I/O: one pass handles, in this order, standard input, the    *)
(* socket, standard output, and the socket again.                          *)

SockWritable == Len(c2s) < C2S \/ srv # "run" \/ rst

\* Mutant: standard output is watched only once the buffer is full.
NonbSelectedWhenFull ==
  {d \in {"stdin", "sock", "out", "wsock"} :
     CASE d = "stdin" -> ~stdineof /\ Len(to) < K /\ StdinReadable
       [] d = "sock" -> Len(fr) < K /\ SockReadable
       [] d = "out" -> Len(fr) = K /\ undrained < OutCap
       [] OTHER -> too < Len(to) /\ SockWritable}

NonbSelected ==
  {d \in {"stdin", "sock", "out", "wsock"} :
     CASE d = "stdin" -> ~stdineof /\ Len(to) < K /\ StdinReadable
       [] d = "sock" -> Len(fr) < K /\ SockReadable
       [] d = "out" -> fro < Len(fr) /\ undrained < OutCap
       [] OTHER -> too < Len(to) /\ SockWritable}

NonbSelect ==
  /\ pc = "select" /\ cli.style = "nonb" /\ Running
  /\ NonbSelected # {} /\ ready' = NonbSelected /\ pc' = "pass"
  /\ UNCHANGED <<prog, echo, conns, wpc, stdin, input, output, flags, exit, toServer,
                 toClient, rst, server>>

NonbStdin ==
  /\ pc = "pass" /\ Running /\ "stdin" \in ready
  /\ \/ Read(K - Len(to)) /\ ready' = (ready \ {"stdin"}) \cup {"wsock"}
        /\ UNCHANGED <<stdineof, cfin>>
     \/ /\ AtEof /\ stdineof' = TRUE /\ cfin' = (cfin \/ too = Len(to))
        /\ ready' = ready \ {"stdin"} /\ UNCHANGED input
  /\ UNCHANGED <<prog, echo, conns, pc, wpc, stdin, output, done, exit, c2s, toClient,
                 rst, server>>

NonbSock ==
  /\ pc = "pass" /\ Running /\ "stdin" \notin ready /\ "sock" \in ready
  /\ \E r \in ReadSock(K - Len(fr)) :
       /\ fr' = fr \o r[2] /\ s2c' = Drop(s2c, Len(r[2]))
       /\ CASE r[1] = "data" -> /\ ready' = (ready \ {"sock"}) \cup {"out"}
                                /\ UNCHANGED <<pc, exit, cfin>>
            [] r[1] = "error" -> SocketError /\ UNCHANGED ready
            [] r[1] = "eof" -> Exit(SocketEof) /\ UNCHANGED ready
  /\ UNCHANGED <<prog, echo, conns, wpc, stdin, input, fro, rl, shown, undrained, flags,
                 c2s, sfin, rst, server>>

\* Mutant: the drained buffer is rewound in only one of its two pointers.
NonbOutKeepsIn ==
  /\ pc = "pass" /\ Running /\ ready \cap {"stdin", "sock"} = {} /\ "out" \in ready
  /\ LET n == Min2(OutCap - undrained, Len(fr) - fro) IN
     /\ shown' = shown \o SubSeq(fr, fro + 1, fro + n) /\ undrained' = undrained + n
     /\ fro' = IF fro + n = Len(fr) THEN 0 ELSE fro + n
     /\ UNCHANGED fr
  /\ ready' = ready \ {"out"}
  /\ UNCHANGED <<prog, echo, conns, pc, wpc, stdin, input, rl, flags, exit, toServer,
                 toClient, rst, server>>

\* write() takes what fits, or nothing (EWOULDBLOCK).
NonbOut ==
  /\ pc = "pass" /\ Running /\ ready \cap {"stdin", "sock"} = {} /\ "out" \in ready
  /\ LET n == Min2(OutCap - undrained, Len(fr) - fro) IN
     /\ shown' = shown \o SubSeq(fr, fro + 1, fro + n) /\ undrained' = undrained + n
     /\ IF fro + n = Len(fr) THEN fr' = << >> /\ fro' = 0
        ELSE fro' = fro + n /\ UNCHANGED fr
  /\ ready' = ready \ {"out"}
  /\ UNCHANGED <<prog, echo, conns, pc, wpc, stdin, input, rl, flags, exit, toServer,
                 toClient, rst, server>>

\* The FIN that EOF on standard input left for later follows the last byte.
NonbWrite ==
  /\ pc = "pass" /\ Running /\ ready = {"wsock"}
  /\ \/ /\ ~rst
        /\ LET n == IF srv = "run" THEN Min2(C2S - Len(c2s), Len(to) - too)
                    ELSE Len(to) - too
           IN /\ c2s' = IF srv = "run" THEN c2s \o SubSeq(to, too + 1, too + n) ELSE c2s
              /\ rst' = (srv # "run" /\ n > 0)
              /\ IF too + n = Len(to)
                 THEN to' = << >> /\ too' = 0 /\ cfin' = (cfin \/ stdineof)
                 ELSE too' = too + n /\ UNCHANGED <<to, cfin>>
        /\ ready' = {} /\ UNCHANGED <<pc, exit>>
     \/ /\ rst /\ too < Len(to) /\ Exit("killed")
        /\ UNCHANGED <<to, too, c2s, rst, ready>>
  /\ UNCHANGED <<prog, echo, conns, wpc, stdin, nread, sio, taken, output, flags,
                 toClient, server>>

NonbAgain ==
  /\ pc = "pass" /\ Running /\ ready = {} /\ pc' = "select"
  /\ UNCHANGED <<prog, echo, conns, wpc, stdin, input, output, ready, flags, exit,
                 toServer, toClient, rst, server>>

-----------------------------------------------------------------------------
(* SIGALRM of tcpcli07, the server, and the world around them.             *)

sig_alrm ==
  /\ prog.timer /\ Running /\ Exit("alarm")
  /\ UNCHANGED <<prog, echo, conns, wpc, stdin, input, output, ready, flags, c2s,
                 toClient, rst, server>>

client == <<prog, echo, conns, pc, wpc, stdin, input, output, ready, flags, exit>>

\* read() up to a buffer, Readline() or fgets() one line; standard I/O holds
\* its output back until a buffer is full.
str_echo_read ==
  /\ srv = "run" /\ ~flushing /\ c2s # << >>
  /\ \E n \in 1 .. (IF echo.unit = "line" THEN 1 ELSE Min2(K, Len(c2s))) :
       sbuf' = sbuf \o SubSeq(c2s, 1, n) /\ c2s' = Drop(c2s, n)
  /\ flushing' = (~echo.stdio \/ Len(sbuf') = K)
  /\ UNCHANGED <<client, cfin, toClient, rst, srv>>

\* Writen() back; a client that has gone makes it fail sooner or later.
str_echo_write ==
  /\ srv = "run" /\ flushing
  /\ \/ /\ Running /\ Len(s2c) < S2C
        /\ s2c' = Append(s2c, Head(sbuf)) /\ UNCHANGED srv
     \/ ~Running /\ srv' \in {"run", "dead"} /\ UNCHANGED s2c
  /\ sbuf' = Tail(sbuf) /\ flushing' = (sbuf' # << >>)
  /\ UNCHANGED <<client, toServer, sfin, rst>>

\* Mutant: read() of nothing goes back to again, as EINTR does.
str_echo_again == srv = "run" /\ ~flushing /\ c2s = << >> /\ cfin /\ UNCHANGED vars

\* EOF: str_echo() returns and the process exits, which flushes standard I/O.
str_echo_eof ==
  /\ srv = "run" /\ ~flushing /\ c2s = << >> /\ cfin
  /\ IF sbuf = << >> THEN srv' = "done" /\ sfin' = TRUE /\ UNCHANGED flushing
     ELSE flushing' = TRUE /\ UNCHANGED <<srv, sfin>>
  /\ UNCHANGED <<client, toServer, s2c, rst, sbuf>>

\* The server process is killed: a FIN, or a RST if it had data to read.
Killed ==
  /\ srv = "run" /\ Running
  /\ srv' = "dead" /\ sfin' = TRUE /\ sbuf' = << >> /\ flushing' = FALSE /\ c2s' = << >>
  /\ rst' \in BOOLEAN /\ (rst' => c2s # << >>)
  /\ UNCHANGED <<client, cfin, s2c>>

Type ==
  /\ Running /\ ~eofin
  /\ \/ typed < N /\ typed' = typed + 1 /\ UNCHANGED eofin
     \/ eofin' = TRUE /\ UNCHANGED typed
  /\ UNCHANGED <<prog, echo, conns, pc, wpc, input, output, ready, flags, exit, toServer,
                 toClient, rst, server>>

Drain ==
  /\ undrained > 0 /\ undrained' = undrained - 1
  /\ UNCHANGED <<prog, echo, conns, pc, wpc, stdin, input, fr, fro, rl, shown, ready, flags,
                 exit, toServer, toClient, rst, server>>

-----------------------------------------------------------------------------
Reader ==
  \/ Connect \/ FgetsLine \/ Write \/ Readline \/ ReadSocket \/ Fputs
  \/ Select \/ SockReady \/ StdinReady
  \/ NonbSelect \/ NonbStdin \/ NonbSock \/ NonbOut \/ NonbWrite \/ NonbAgain
Writer == CopyToFgets \/ CopyToWrite \/ CopyToDone
Server == str_echo_read \/ str_echo_write \/ str_echo_eof

Next == Reader \/ Writer \/ Server \/ sig_alrm \/ Killed \/ Type \/ Drain

\* Every process runs, and whoever reads standard output goes on reading.  The
\* user need not type, nor anyone kill the server.
StrSpec ==
  Init /\ [][Next]_vars
       /\ WF_vars(Reader) /\ WF_vars(Writer) /\ WF_vars(Server) /\ WF_vars(Drain)

-----------------------------------------------------------------------------
(* Properties.                                                             *)

Range(s) == {s[j] : j \in 1 .. Len(s)}

Pipe == INSTANCE EchoPipe WITH ended <- exit # "none"

\* Refinement: whatever the way of waiting, what str_cli() writes to standard
\* output is what it read from standard input, each piece once and in order.
Implements == Pipe!Spec

\* A client that returns from str_cli() while its server lives has shown the
\* echo of all that was typed.  The exceptions are those that return at the
\* EOF of standard input (strcliselect01.c:25, sock without -h), and, in
\* strclinonb.c:74, what is still in the buffer fr when the FIN is read.
NothingLost ==
  exit = "normal" /\ srv # "dead" /\ ~(cli.style = "select" /\ cli.eof = "return")
  => /\ eofin /\ nread = typed /\ sio = << >>
     /\ taken = shown \o Drop(fr, fro)
     /\ cli.style # "nonb" => fr = << >>

\* "server terminated prematurely" is said only of a server that was killed;
\* strclithread2.c:37 may say it of one that answered our FIN before the
\* thread could set done.
PrematureIsReal == exit = "premature" => srv = "dead" \/ wpc = "flag"

\* What a client says by its way of ending is true.
ExitIsTrue == NothingLost /\ PrematureIsReal

\* Client and server each wait in Writen() for the other to read: possible for
\* a client that multiplexes blocking I/O (strcliselect02.c:39) when the
\* buffer of the replies is smaller than three times its own.
Deadlocked ==
  /\ cli.style = "select" /\ S2C < 3 * K - 1
  /\ pc = "write" /\ Len(c2s) = C2S /\ Len(s2c) = S2C /\ flushing

\* The client waits for a line that waits in the server's stdio buffer
\* (str_echo_stdio02.c:13) for more lines.
HeldBack ==
  /\ echo.stdio /\ sbuf # << >> /\ ~flushing
  /\ cli.style = "lockstep" /\ pc = "readline"
  /\ c2s = << >> /\ s2c = << >> /\ rl = << >>

\* EOF on standard input ends every client, and the death of the server ends
\* every one that does not wait for the user alone.  The parent of
\* strclifork.c:22 stays when its child died of an error; Deadlocked and
\* HeldBack are the only other ways to hang.
MustEnd == Running /\ (eofin \/ (srv = "dead" /\ cli.style # "lockstep"))
HasEnded == ~Running \/ pc = "dead" \/ Deadlocked \/ HeldBack

\* Every client that has to end does, and then so does its server process.
Ends == (MustEnd ~> HasEnded) /\ (~Running ~> srv # "run")

\* No reply stays for ever in the socket's buffer or in the client's own: again
\* and again all that came have come out, unless the client ends; with select()
\* one may stay in the buffer of readline(), which select() knows nothing of
\* (strcliselect01.c:15-18).
HeldReplies ==
  {piece \in Range(s2c \o rl \o Drop(fr, fro)) :
     ~(cli.style = "select" /\ piece \in Range(rl))}
ReplyShown == []<>(HeldReplies = {} \/ ~Running \/ pc = "dead" \/ Deadlocked)
=============================================================================
