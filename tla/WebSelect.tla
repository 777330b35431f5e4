----------------------------- MODULE WebSelect -----------------------------
(***************************************************************************)
(* The Web client with non-blocking connects and select: nonblock/web.c,    *)
(* start_connect.c, write_get_cmd.c, home_page.c and web.h.  Descriptors    *)
(* are the lowest free numbers, so those of closed connections come back.   *)
(***************************************************************************)
EXTENDS Integers, FiniteSets

CONSTANTS nfiles, maxnconn

VARIABLES
  f_flags, f_fd,                  \* of each file
  nconn, nlefttoconn, nlefttoread,
  rset, wset, rs, ws,             \* the sets, and what select() made of them
  main, i,
  conn                            \* the connection of each file, in the kernel

wcounters == <<nconn, nlefttoconn, nlefttoread>>
wvars == <<f_flags, f_fd, wcounters, rset, wset, rs, ws, main, i, conn>>

Files == 1 .. nfiles
Fds == 1 .. maxnconn
Ends == {"exit", "err_sys", "sigpipe", "nothing found"}

Init ==
  /\ f_flags = [f \in Files |-> "0"] /\ f_fd = [f \in Files |-> 0]
  /\ nconn = 0 /\ nlefttoconn = nfiles /\ nlefttoread = nfiles
  /\ rset = {} /\ wset = {} /\ rs = {} /\ ws = {}
  /\ main = "home_page" /\ i = 1
  /\ conn = [f \in Files |-> "none"]

\* One blocking connection, before anything else.
home_page ==
  /\ main = "home_page" /\ main' \in {"create", "err_sys"}
  /\ UNCHANGED <<f_flags, f_fd, wcounters, rset, wset, rs, ws, i, conn>>

MoreToConnect == nlefttoread > 0 /\ nconn < maxnconn /\ nlefttoconn > 0

Active == {f \in Files : f_flags[f] \in {"F_CONNECTING", "F_READING"}}
Open == {f_fd[f] : f \in Active}
NewFd == CHOOSE fd \in Files \ Open : \A e \in Files \ Open : fd <= e

\* write_get_cmd(): the GET command is written, and the reply will be read.
write_get_cmd(f, fd) ==
  /\ f_flags' = [f_flags EXCEPT ![f] = "F_READING"] /\ rset' = rset \cup {fd}

\* The first file not started; its connect() is done at once, fails at once or
\* is in progress.
start_connect(f) ==
  /\ main = "create" /\ MoreToConnect
  /\ f_flags[f] = "0" /\ \A g \in Files : g < f => f_flags[g] # "0"
  /\ f_fd' = [f_fd EXCEPT ![f] = NewFd]
  /\ nconn' = nconn + 1 /\ nlefttoconn' = nlefttoconn - 1
  /\ \/ /\ f_flags' = [f_flags EXCEPT ![f] = "F_CONNECTING"]
        /\ rset' = rset \cup {NewFd} /\ wset' = wset \cup {NewFd}
        /\ conn' = [conn EXCEPT ![f] = "syn"] /\ UNCHANGED main
     \/ write_get_cmd(f, NewFd) /\ conn' = [conn EXCEPT ![f] = "up"] /\ UNCHANGED <<wset, main>>
     \/ main' = "err_sys" /\ UNCHANGED <<f_flags, rset, wset, conn>>
  /\ UNCHANGED <<nlefttoread, rs, ws, i>>

EndCreate ==
  /\ main = "create"
  /\ MoreToConnect => \A f \in Files : f_flags[f] # "0"
  /\ main' = IF MoreToConnect THEN "nothing found" ELSE IF nlefttoread = 0 THEN "exit" ELSE "select"
  /\ UNCHANGED <<f_flags, f_fd, wcounters, rset, wset, rs, ws, i, conn>>

Readable == {f_fd[f] : f \in {g \in Active : conn[g] \in {"refused", "data", "fin", "rst"}}}
Writable == {f_fd[f] : f \in {g \in Active : conn[g] # "syn"}}

Select ==
  /\ main = "select" /\ (rset \cap Readable) \cup (wset \cap Writable) # {}
  /\ rs' = rset \cap Readable /\ ws' = wset \cap Writable
  /\ main' = "scan" /\ i' = 1
  /\ UNCHANGED <<f_flags, f_fd, wcounters, rset, wset, conn>>

\* Mutant: the descriptor is still tested for writing.
Connected_KeepsWset ==
  /\ write_get_cmd(i, f_fd[i]) /\ UNCHANGED <<wset, main>>

\* The connection is there, or has failed: then too the command is written, to
\* a socket that is not connected.
Connected ==
  IF conn[i] = "refused"
  THEN main' = "sigpipe" /\ UNCHANGED <<f_flags, rset, wset>>
  ELSE write_get_cmd(i, f_fd[i]) /\ wset' = wset \ {f_fd[i]} /\ UNCHANGED main

ReadFile ==
  CASE conn[i] = "data" -> conn' = [conn EXCEPT ![i] = "up"] /\ UNCHANGED <<f_flags, nconn, nlefttoread, rset, main>>
    [] conn[i] = "fin" ->
         /\ f_flags' = [f_flags EXCEPT ![i] = "F_DONE"] /\ rset' = rset \ {f_fd[i]}
         /\ nconn' = nconn - 1 /\ nlefttoread' = nlefttoread - 1 /\ UNCHANGED <<conn, main>>
    [] OTHER -> main' = "err_sys" /\ UNCHANGED <<f_flags, nconn, nlefttoread, rset, conn>>

\* One turn of the loop over the files.
Scan ==
  /\ main = "scan" /\ i <= nfiles /\ i' = i + 1
  /\ \/ /\ f_flags[i] = "F_CONNECTING" /\ f_fd[i] \in rs \cup ws
        /\ Connected /\ UNCHANGED <<nconn, nlefttoread, conn>>
     \/ f_flags[i] = "F_READING" /\ f_fd[i] \in rs /\ ReadFile /\ UNCHANGED wset
     \/ /\ ~(f_flags[i] = "F_CONNECTING" /\ f_fd[i] \in rs \cup ws)
        /\ ~(f_flags[i] = "F_READING" /\ f_fd[i] \in rs)
        /\ UNCHANGED <<f_flags, nconn, nlefttoread, rset, wset, main, conn>>
  /\ UNCHANGED <<f_fd, nlefttoconn, rs, ws>>

EndScan ==
  /\ main = "scan" /\ i > nfiles /\ main' = "create"
  /\ UNCHANGED <<f_flags, f_fd, wcounters, rset, wset, rs, ws, i, conn>>

\* The server and the network; it answers only what it was asked.
Answer(f) ==
  /\ main \notin Ends
  /\ \/ conn[f] = "syn" /\ conn' = [conn EXCEPT ![f] = "up"]
     \/ conn[f] = "up" /\ f_flags[f] = "F_READING" /\ conn' = [conn EXCEPT ![f] = "fin"]
  /\ UNCHANGED <<f_flags, f_fd, wcounters, rset, wset, rs, ws, main, i>>
Data(f) ==
  /\ main \notin Ends /\ conn[f] = "up" /\ f_flags[f] = "F_READING"
  /\ conn' = [conn EXCEPT ![f] = "data"]
  /\ UNCHANGED <<f_flags, f_fd, wcounters, rset, wset, rs, ws, main, i>>
Refuse(f) ==
  /\ main \notin Ends
  /\ \/ conn[f] = "syn" /\ conn' = [conn EXCEPT ![f] = "refused"]
     \/ conn[f] = "up" /\ f_flags[f] = "F_READING" /\ conn' = [conn EXCEPT ![f] = "rst"]
  /\ UNCHANGED <<f_flags, f_fd, wcounters, rset, wset, rs, ws, main, i>>

MainStep == home_page \/ EndCreate \/ Select \/ Scan \/ EndScan \/ \E f \in Files : start_connect(f)

Next == MainStep \/ \E f \in Files : Answer(f) \/ Data(f) \/ Refuse(f)

\* A server answers in the end, even if it keeps sending first.
Fairness == WF_wvars(MainStep) /\ \A f \in Files : SF_wvars(Answer(f))

Spec == Init /\ [][Next]_wvars /\ Fairness

-----------------------------------------------------------------------------
Having(flags) == {f \in Files : f_flags[f] \in flags}

\* The sets and the counters agree with the flags of the files, at every step:
\* no descriptor that was closed and perhaps given to another file is left in
\* a set, and "nothing found" (web.c:39) is unreachable.
SetsExact ==
  /\ rset = Open /\ wset = {f_fd[f] : f \in Having({"F_CONNECTING"})}
  /\ Cardinality(Open) = Cardinality(Active)
  /\ main # "err_sys" => /\ nconn = Cardinality(Open) /\ Open \subseteq Fds
                         /\ nlefttoconn = Cardinality(Having({"0"}))
  /\ nlefttoread = nfiles - Cardinality(Having({"F_DONE"}))
  /\ main # "nothing found"

\* A file whose connection fails is never taken for one that was read: the
\* message of web.c:59 is followed by the write, which ends the process before
\* another step.
FailureEnds ==
  /\ \A f \in Files : f_flags[f] = "F_READING" => conn[f] \in {"up", "data", "fin", "rst"}
  /\ \A f \in Files : f_flags[f] = "F_DONE" => conn[f] = "fin"
=============================================================================
