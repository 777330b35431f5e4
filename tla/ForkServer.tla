----------------------------- MODULE ForkServer -----------------------------
(***************************************************************************)
(* The concurrent TCP servers that start a process or a thread for every    *)
(* connection: main's accept loop, the workers, the descriptors they share, *)
(* and the SIGCHLD handler that reaps terminated children.                  *)
(*                                                                          *)
(* lib/signal.c asks for SA_RESTART where the system has it, so an accept   *)
(* interrupted by SIGCHLD is restarted or fails with EINTR depending on the *)
(* build: restart says which.                                               *)
(***************************************************************************)
EXTENDS ServerConstants, Sequences

(* The programs, by what tells them apart: the worker, whether main calls     *)
(* accept and tests EINTR or calls the wrapper Accept, and how SIGCHLD is     *)
(* handled.                                                                   *)
Program(w, a, r) == [worker |-> w, accept |-> a, reap |-> r]

tcpserv01 == Program("process", "Accept", "none")
tcpserv02 == Program("process", "Accept", "wait")
tcpserv03 == Program("process", "accept", "wait")
tcpserv04 == Program("process", "accept", "waitpid")
tcpserv08 == Program("process", "accept", "waitpid")
tcpserv09 == Program("process", "accept", "waitpid")
advio_tcpserv02 == Program("process", "accept", "waitpid")
ipopts_tcpserv01 == Program("process", "accept", "waitpid")
oob_tcpserv02 == Program("process", "accept", "waitpid")
unixstrserv01 == Program("process", "accept", "waitpid")
unixstrserv02 == Program("process", "accept", "waitpid")
serv01 == Program("process", "accept", "waitpid")
serv06 == Program("thread", "Accept", "none")
threads_tcpserv01 == Program("thread", "Accept", "none")
threads_tcpserv02 == Program("thread", "Accept", "none")

Programs ==
  {tcpserv01, tcpserv02, tcpserv03, tcpserv04, tcpserv08, tcpserv09, advio_tcpserv02,
   ipopts_tcpserv01, oob_tcpserv02, unixstrserv01, unixstrserv02, serv01, serv06,
   threads_tcpserv01, threads_tcpserv02}

VARIABLES
  program, restart,
  nconns, queue,      \* connections made, and those not yet accepted
  aborted,            \* those whose client has gone before accept
  main, connfd,       \* main's place in its loop, and the connection it holds
  worker,             \* of each connection: its process or thread
  open,               \* of each connection: the processes that have it open
  sigchld, handler    \* is SIGCHLD pending; is sig_chld running

network == <<nconns, queue, aborted>>
vars == <<program, restart, network, main, connfd, worker, open, sigchld, handler>>

Conns == 1 .. NConns
Parent == 0
Ended == main \in {"exit", "err_sys"}
Processes == program.worker = "process"

Init ==
  /\ program \in Programs /\ restart \in BOOLEAN
  /\ nconns = 0 /\ queue = << >> /\ aborted = {}
  /\ main = "accept" /\ connfd = 0
  /\ worker = [c \in Conns |-> "none"] /\ open = [c \in Conns |-> {}]
  /\ sigchld = FALSE /\ handler = FALSE

\* main, and every thread of it, ends.  A child that ends later belongs to init.
End(how) ==
  /\ main' = how /\ handler' = FALSE /\ sigchld' = FALSE
  /\ open' = [c \in Conns |-> open[c] \ {Parent}]
  /\ worker' = [c \in Conns |->
                  IF worker[c] = "zombie" \/ (~Processes /\ worker[c] = "running")
                  THEN "reaped" ELSE worker[c]]
  /\ UNCHANGED <<program, restart, network, connfd>>

-----------------------------------------------------------------------------
(* Clients. *)

Connect ==
  /\ nconns < NConns
  /\ nconns' = nconns + 1 /\ queue' = Append(queue, nconns + 1)
  /\ UNCHANGED <<program, restart, aborted, main, connfd, worker, open, sigchld, handler>>

Abort(c) ==
  /\ \E k \in 1 .. Len(queue) : queue[k] = c
  /\ aborted' = aborted \cup {c}
  /\ UNCHANGED <<program, restart, nconns, queue, main, connfd, worker, open, sigchld, handler>>

-----------------------------------------------------------------------------
(* main.  It runs only while the handler does not. *)

At(place) == main = place /\ ~handler

Accept ==
  /\ At("accept") /\ queue # << >> /\ Head(queue) \notin aborted
  /\ connfd' = Head(queue) /\ queue' = Tail(queue)
  /\ open' = [open EXCEPT ![Head(queue)] = {Parent}]
  /\ main' = "fork"
  /\ UNCHANGED <<program, restart, nconns, aborted, worker, sigchld, handler>>

\* An aborted connection: the system may drop it unseen, and Accept goes round on
\* ECONNABORTED and EPROTO.
AcceptAgain ==
  /\ At("accept") /\ queue # << >> /\ Head(queue) \in aborted
  /\ queue' = Tail(queue)
  /\ UNCHANGED <<program, restart, nconns, aborted, main, connfd, worker, open, sigchld, handler>>

\* The programs that call accept themselves let only EINTR pass.
AcceptError ==
  /\ At("accept") /\ queue # << >> /\ Head(queue) \in aborted
  /\ program.accept = "accept"
  /\ End("err_sys")

\* Mutant: the parent goes back to accept and leaves the connection open.
ForkUnclosed ==
  /\ At("fork") /\ worker' = [worker EXCEPT ![connfd] = "running"]
  /\ main' = "accept"
  /\ open' = [c \in Conns |->
                IF Processes /\ Parent \in open[c] THEN open[c] \cup {connfd} ELSE open[c]]
  /\ UNCHANGED <<program, restart, network, connfd, sigchld, handler>>

\* Fork: the child gets a copy of every descriptor the parent has open.  A thread
\* shares them, and main goes straight back to accept.
Fork ==
  /\ At("fork") /\ worker' = [worker EXCEPT ![connfd] = "running"]
  /\ main' = IF Processes THEN "close" ELSE "accept"
  /\ open' = [c \in Conns |->
                IF Processes /\ Parent \in open[c] THEN open[c] \cup {connfd} ELSE open[c]]
  /\ UNCHANGED <<program, restart, network, connfd, sigchld, handler>>

\* Fork and Pthread_create end the server when they fail.
ForkError == At("fork") /\ End("err_sys")

Close ==
  /\ At("close") /\ main' = "accept"
  /\ open' = [open EXCEPT ![connfd] = @ \ {Parent}]
  /\ UNCHANGED <<program, restart, network, connfd, worker, sigchld, handler>>

\* SIGINT: sig_int of serv01.c and serv06.c, the default action elsewhere.
sig_int == ~Ended /\ End("exit")

-----------------------------------------------------------------------------
(* The workers: str_echo or web_child until the client closes, then exit, or    *)
(* Close in a thread.                                                           *)

Finish(c) ==
  /\ worker[c] = "running"
  /\ worker' = [worker EXCEPT ![c] = IF Processes /\ ~Ended THEN "zombie" ELSE "reaped"]
  /\ open' = [d \in Conns |-> IF Processes THEN open[d] \ {c} ELSE
                              IF d = c THEN {} ELSE open[d]]
  /\ sigchld' = (sigchld \/ (Processes /\ program.reap # "none" /\ ~Ended))
  /\ UNCHANGED <<program, restart, network, main, connfd, handler>>

\* An error in a thread ends the process; in a child it is only another Finish.
ThreadError(c) == worker[c] = "running" /\ ~Processes /\ End("err_sys")

-----------------------------------------------------------------------------
(* sig_chld. *)

Deliver ==
  /\ sigchld /\ ~handler /\ sigchld' = FALSE /\ handler' = TRUE
  /\ UNCHANGED <<program, restart, network, main, connfd, worker, open>>

\* Mutant: wait in place of the waitpid loop.
LoopsOnce == FALSE

\* Does the handler go on after it has reaped one child?
Loops == program.reap = "waitpid"

Reap(c) ==
  /\ handler /\ worker[c] = "zombie"
  /\ worker' = [worker EXCEPT ![c] = "reaped"]
  /\ handler' = Loops
  /\ UNCHANGED <<program, restart, network, main, connfd, open, sigchld>>

\* Mutant: waitpid without WNOHANG.
NothingToReapBlocking == \A c \in Conns : worker[c] \notin {"zombie", "running"}

\* waitpid finds no terminated child; wait would block while one runs.
NothingToReap ==
  /\ \A c \in Conns : worker[c] # "zombie"
  /\ program.reap = "wait" => \A c \in Conns : worker[c] # "running"

HandlerReturn ==
  /\ handler /\ NothingToReap /\ handler' = FALSE
  /\ UNCHANGED <<program, restart, network, main, connfd, worker, open, sigchld>>

\* SIGCHLD interrupted the wrapper Accept, which ends the server on EINTR.
Interrupted(c) ==
  /\ handler /\ worker[c] = "zombie" /\ ~Loops
  /\ main = "accept" /\ ~restart /\ program.accept = "Accept"
  /\ End("err_sys")

MainStep ==
  \/ Accept \/ AcceptAgain \/ AcceptError \/ Fork \/ ForkError \/ Close
  \/ Deliver \/ HandlerReturn \/ \E c \in Conns : Reap(c) \/ Interrupted(c)

Next ==
  \/ MainStep \/ Connect \/ sig_int
  \/ \E c \in Conns : Abort(c) \/ Finish(c) \/ ThreadError(c)

Spec == Init /\ [][Next]_vars

\* main and its handler are scheduled; a worker ends only when its client does.
FairSpec == Spec /\ WF_vars(MainStep)

-----------------------------------------------------------------------------
TypeOK ==
  /\ program \in Programs /\ restart \in BOOLEAN
  /\ nconns \in 0 .. NConns /\ queue \in Seq(Conns) /\ aborted \subseteq Conns
  /\ main \in {"accept", "fork", "close", "exit", "err_sys"} /\ connfd \in 0 .. NConns
  /\ worker \in [Conns -> {"none", "running", "zombie", "reaped"}]
  /\ open \in [Conns -> SUBSET (0 .. NConns)]
  /\ sigchld \in BOOLEAN /\ handler \in BOOLEAN

\* Who has the connection of c open: main between accept and close, and its own
\* worker.  So the client gets its FIN when that worker is done, no child keeps the
\* connection of another, and no descriptor is lost.
Holders(c) ==
  (IF main \in {"fork", "close"} /\ connfd = c THEN {Parent} ELSE {})
  \cup (IF worker[c] # "running" THEN {} ELSE IF Processes THEN {c} ELSE {Parent})
DescriptorsExact == \A c \in Conns : open[c] = Holders(c)

\* With the waitpid loop, signals that merge strand no child: while one is a zombie
\* SIGCHLD is pending or the handler runs.
NoStrandedZombie ==
  program.reap = "waitpid" =>
    \A c \in Conns : worker[c] = "zombie" => sigchld \/ handler

\* A connection is accepted or dropped, or the server ends: in particular the
\* handler never blocks in wait while children run.
EventuallyAccepted ==
  \A c \in Conns : (\E k \in 1 .. Len(queue) : queue[k] = c)
                     ~> ((\A k \in 1 .. Len(queue) : queue[k] # c) \/ Ended)

-----------------------------------------------------------------------------
(* Who has a connection, as ConnService counts it: main from accept to fork,   *)
(* then its worker until that ends.                                            *)
ServedBy(c) ==
  (IF main = "fork" /\ connfd = c THEN {Parent} ELSE {})
  \cup (IF worker[c] = "running" THEN {c} ELSE {})
=============================================================================
