------------------------------- MODULE Prefork -------------------------------
(***************************************************************************)
(* The servers whose workers all accept on the shared listening socket: the *)
(* preforked serv02, serv02l, serv02m, serv03, serv03m and serv04, the      *)
(* prethreaded serv07 and serv09, and the iterative serv00, whose one       *)
(* worker is main itself.  SIGINT makes the preforked parent terminate its  *)
(* children; a thread's error or SIGINT ends the whole process.             *)
(***************************************************************************)
EXTENDS ServerConstants, Sequences

(* The programs, by what tells them apart: what the workers are, how many, the  *)
(* lock around accept, and whether they block in select before it.             *)
Program(w, n, l, s) == [worker |-> w, n |-> n, lock |-> l, select |-> s]

serv00 == Program("thread", 1, "none", FALSE)
serv02 == Program("process", nchildren, "none", FALSE)
serv02l == Program("process", nchildren, "none", TRUE)
serv02m == Program("process", nchildren, "none", FALSE)
serv03 == Program("process", nchildren, "fcntl", FALSE)
serv03m == Program("process", nchildren, "fcntl", FALSE)
serv04 == Program("process", nchildren, "pthread", FALSE)
serv07 == Program("thread", nchildren, "pthread", FALSE)
serv09 == Program("thread", nchildren, "none", FALSE)

Programs == {serv00, serv02, serv02l, serv02m, serv03, serv03m, serv04, serv07, serv09}

VARIABLES
  program,
  nconns, queue,    \* connections made, and those not yet accepted
  pc, connfd,       \* of each worker: its place in its loop, and its connection
  lock,             \* the worker that holds my_lock or mlock, 0 if none
  doomed,           \* children that SIGTERM or SIGINT has been sent to
  main, i           \* main's place and its loop index

vars == <<program, nconns, queue, pc, connfd, lock, doomed, main, i>>

Conns == 1 .. NConns
Workers == 1 .. nchildren
Processes == program.worker = "process"
Locked == program.lock # "none"
Ended == main \in {"exit", "killed"}
Alive(p) == pc[p] \notin {"none", "zombie", "reaped"}

\* The first statement of a worker's loop.
Top == IF Locked THEN "lock" ELSE IF program.select THEN "select" ELSE "accept"

Init ==
  /\ program \in Programs
  /\ nconns = 0 /\ queue = << >>
  /\ pc = [p \in Workers |-> "none"] /\ connfd = [p \in Workers |-> 0]
  /\ lock = 0 /\ doomed = {}
  /\ main = "make" /\ i = 1

-----------------------------------------------------------------------------
(* Clients. *)

Connect ==
  /\ nconns < NConns
  /\ nconns' = nconns + 1 /\ queue' = Append(queue, nconns + 1)
  /\ UNCHANGED <<program, pc, connfd, lock, doomed, main, i>>

\* A reset before accept; the wrapper Accept does not report it.
Abort ==
  /\ \E k \in 1 .. Len(queue) :
       queue' = SubSeq(queue, 1, k - 1) \o SubSeq(queue, k + 1, Len(queue))
  /\ UNCHANGED <<program, nconns, pc, connfd, lock, doomed, main, i>>

-----------------------------------------------------------------------------
(* The workers. *)

\* Mutant: my_lock_wait returns with the lock taken.
LockTaken(p) ==
  /\ pc[p] = "lock"
  /\ lock' = p /\ pc' = [pc EXCEPT ![p] = "accept"]
  /\ UNCHANGED <<program, nconns, queue, connfd, doomed, main, i>>

my_lock_wait(p) ==
  /\ pc[p] = "lock" /\ lock = 0
  /\ lock' = p /\ pc' = [pc EXCEPT ![p] = "accept"]
  /\ UNCHANGED <<program, nconns, queue, connfd, doomed, main, i>>

\* serv02l: every child blocked in select sees the connection; one accepts it and
\* the others go on to block in accept.
Select(p) ==
  /\ pc[p] = "select" /\ queue # << >>
  /\ pc' = [pc EXCEPT ![p] = "accept"]
  /\ UNCHANGED <<program, nconns, queue, connfd, lock, doomed, main, i>>

Accept(p) ==
  /\ pc[p] = "accept" /\ queue # << >>
  /\ connfd' = [connfd EXCEPT ![p] = Head(queue)] /\ queue' = Tail(queue)
  /\ pc' = [pc EXCEPT ![p] = IF Locked THEN "unlock" ELSE "web_child"]
  /\ UNCHANGED <<program, nconns, lock, doomed, main, i>>

my_lock_release(p) ==
  /\ pc[p] = "unlock" /\ lock' = 0 /\ pc' = [pc EXCEPT ![p] = "web_child"]
  /\ UNCHANGED <<program, nconns, queue, connfd, doomed, main, i>>

\* web_child returns at the client's end-of-file, and the worker closes connfd.
Close(p) ==
  /\ pc[p] = "web_child"
  /\ connfd' = [connfd EXCEPT ![p] = 0] /\ pc' = [pc EXCEPT ![p] = Top]
  /\ UNCHANGED <<program, nconns, queue, lock, doomed, main, i>>

\* A process ends.  The kernel releases its fcntl lock; a mutex in shared memory
\* stays locked.
Exit(p) ==
  /\ pc' = [pc EXCEPT ![p] = IF Ended THEN "reaped" ELSE "zombie"]
  /\ connfd' = [connfd EXCEPT ![p] = 0]
  /\ lock' = IF lock = p /\ program.lock = "fcntl" THEN 0 ELSE lock
  /\ UNCHANGED <<program, nconns, queue, doomed, main, i>>

\* The process that all threads belong to ends.
ExitAll ==
  /\ pc' = [p \in Workers |-> "reaped"] /\ connfd' = [p \in Workers |-> 0]
  /\ lock' = 0 /\ main' = "exit"
  /\ UNCHANGED <<program, nconns, queue, doomed, i>>

\* A bad request, a reset connection, or accept failing for want of resources.
Error(p) ==
  /\ pc[p] \in {"accept", "web_child"}
  /\ IF Processes THEN Exit(p) ELSE ExitAll

\* The signal takes effect, wherever the child is.
Terminate(p) == p \in doomed /\ Alive(p) /\ Exit(p)

-----------------------------------------------------------------------------
(* main. *)

\* child_make, thread_make.
Make ==
  /\ main = "make" /\ i <= program.n
  /\ pc' = [pc EXCEPT ![i] = Top] /\ i' = i + 1
  /\ UNCHANGED <<program, nconns, queue, connfd, lock, doomed, main>>

\* Signal(SIGINT, sig_int), then pause for ever.
Pause ==
  /\ main = "make" /\ i > program.n
  /\ main' = "pause"
  /\ UNCHANGED <<program, nconns, queue, pc, connfd, lock, doomed, i>>

\* SIGINT, to the parent alone or from the terminal to the children as well, which
\* have its default action.  Until the handler is installed the parent dies of it, as
\* it does when Fork fails.
sig_int ==
  \/ /\ main = "make" /\ Processes /\ main' = "killed" /\ doomed' \in {doomed, Workers}
     /\ pc' = [p \in Workers |-> IF pc[p] = "zombie" THEN "reaped" ELSE pc[p]]
     /\ UNCHANGED <<program, nconns, queue, connfd, lock, i>>
  \/ /\ main = "pause" /\ Processes /\ main' = "kill" /\ i' = 1 /\ doomed' \in {doomed, Workers}
     /\ UNCHANGED <<program, nconns, queue, pc, connfd, lock>>
  \/ main \in {"make", "pause"} /\ ~Processes /\ ExitAll

\* Mutant: the last child is not sent the signal.
KillAllButOne ==
  /\ main = "kill" /\ i <= program.n /\ i' = i + 1
  /\ doomed' = IF i < program.n THEN doomed \cup {i} ELSE doomed
  /\ UNCHANGED <<program, nconns, queue, pc, connfd, lock, main>>

Kill ==
  /\ main = "kill" /\ i <= program.n
  /\ doomed' = doomed \cup {i} /\ i' = i + 1
  /\ UNCHANGED <<program, nconns, queue, pc, connfd, lock, main>>

\* while (wait(NULL) > 0) ;
Wait(p) ==
  /\ main = "kill" /\ i > program.n /\ pc[p] = "zombie"
  /\ pc' = [pc EXCEPT ![p] = "reaped"]
  /\ UNCHANGED <<program, nconns, queue, connfd, lock, doomed, main, i>>

\* wait fails with ECHILD.
NoChild == \A p \in Workers : pc[p] \in {"none", "reaped"}

WaitEnds ==
  /\ main = "kill" /\ i > program.n /\ NoChild /\ main' = "exit"
  /\ UNCHANGED <<program, nconns, queue, pc, connfd, lock, doomed, i>>

MainStep == Make \/ Pause \/ Kill \/ WaitEnds \/ \E p \in Workers : Wait(p)
WorkerStep(p) == my_lock_wait(p) \/ Select(p) \/ Accept(p) \/ my_lock_release(p)

Next ==
  \/ MainStep \/ sig_int \/ Connect \/ Abort
  \/ \E p \in Workers : WorkerStep(p) \/ Close(p) \/ Error(p) \/ Terminate(p)

Spec == Init /\ [][Next]_vars

\* Everybody is scheduled and signals are delivered; a client may stay for ever.
FairSpec ==
  /\ Spec /\ WF_vars(MainStep)
  /\ \A p \in Workers : WF_vars(WorkerStep(p)) /\ WF_vars(Terminate(p))

-----------------------------------------------------------------------------
TypeOK ==
  /\ program \in Programs
  /\ nconns \in 0 .. NConns /\ queue \in Seq(Conns)
  /\ pc \in [Workers -> {"none", "lock", "select", "accept", "unlock", "web_child",
                         "zombie", "reaped"}]
  /\ connfd \in [Workers -> 0 .. NConns] /\ lock \in 0 .. nchildren
  /\ doomed \subseteq Workers
  /\ main \in {"make", "pause", "kill", "exit", "killed"} /\ i \in 1 .. nchildren + 1

\* The lock is held exactly by the worker in accept, and by no other: a child that
\* dies there gives it back, except that serv04's mutex in shared memory then stays
\* locked for ever.
LockExact ==
  /\ \A p \in Workers :
       Locked /\ pc[p] \in {"accept", "unlock"} => lock = p
  /\ lock # 0 => pc[lock] \in {"accept", "unlock"} \/ (program = serv04 /\ ~Alive(lock))

\* After sig_int the parent exits only with every child terminated and reaped.
ExitLeavesNoChild == main = "exit" => \A p \in Workers : ~Alive(p)

LockLost == lock # 0 /\ ~Alive(lock)

\* A connection is accepted or dropped unless the server has been told to end, every
\* worker is busy or gone, or the lock is lost.
Served ==
  \A c \in Conns :
    (\E k \in 1 .. Len(queue) : queue[k] = c)
      ~> \/ \A k \in 1 .. Len(queue) : queue[k] # c
         \/ Ended \/ main = "kill" \/ LockLost
         \/ \A p \in Workers : pc[p] = "web_child" \/ ~Alive(p)

-----------------------------------------------------------------------------
(* Who has a connection, as ConnService counts it: the worker that accepted it,*)
(* until that closes connfd or ends.                                           *)
Holders(c) == {p \in Workers : connfd[p] = c}
=============================================================================
