------------------------------- MODULE Servers -------------------------------
(***************************************************************************)
(* The concurrent TCP servers side by side, server says which: serv05 and   *)
(* serv08, and the families of Prefork and ForkServer.  Each has the        *)
(* variables of its module; the others stay as they are, so that Serv08's   *)
(* invariants of the ring hold of the other servers too.  All of them       *)
(* implement ConnService.                                                   *)
(***************************************************************************)
EXTENDS Serv08

VARIABLES
  server,
  backlog, child_status, child_count, navail, rset, nsel, down, up, child, conn,
  lock, doomed, i,
  restart, aborted, worker, open, sigchld, handler,
  pc, program, queue

only05 == <<backlog, child_status, child_count, navail, rset, nsel, down, up, child, conn>>
only08 == <<naccepted, ntaken, clifd, iput, iget, thread, thread_count>>
onlyPrefork == <<lock, doomed, i>>
onlyFork == <<restart, aborted, worker, open, sigchld, handler>>
allvars == <<server, only05, only08, onlyPrefork, onlyFork, nconns, pc, main, connfd, program, queue>>

S05 == INSTANCE Serv05
Pre == INSTANCE Prefork
Frk == INSTANCE ForkServer

No05 ==
  /\ backlog = << >> /\ child_status = << >> /\ child_count = << >> /\ navail = 0
  /\ rset = {} /\ nsel = 0 /\ down = << >> /\ up = << >> /\ child = << >> /\ conn = << >>
No08 ==
  /\ naccepted = 0 /\ ntaken = 0 /\ clifd = << >> /\ iput = 0 /\ iget = 0
  /\ thread = [t \in Threads |-> "lock"] /\ thread_count = << >>
NoPrefork == lock = 0 /\ doomed = {} /\ i = 0
NoFork ==
  /\ restart = FALSE /\ aborted = {} /\ worker = << >> /\ open = << >>
  /\ sigchld = FALSE /\ handler = FALSE

ServersInit ==
  \/ /\ server = "serv05" /\ S05!Init /\ No08 /\ NoPrefork /\ NoFork
     /\ main = "none" /\ connfd = 0 /\ program = << >> /\ queue = << >>
  \/ /\ server = "serv08" /\ Init /\ No05 /\ NoPrefork /\ NoFork
     /\ pc = "none" /\ program = << >> /\ queue = << >>
  \/ server = "prefork" /\ Pre!Init /\ No05 /\ No08 /\ NoFork
  \/ server = "fork" /\ Frk!Init /\ No05 /\ No08 /\ NoPrefork /\ pc = "none"

Step05(A) ==
  /\ server = "serv05" /\ A
  /\ UNCHANGED <<server, only08, onlyPrefork, onlyFork, main, connfd, program, queue>>
Step08(A) ==
  /\ server = "serv08" /\ A
  /\ UNCHANGED <<server, only05, onlyPrefork, onlyFork, pc, program, queue>>
StepPrefork(A) == server = "prefork" /\ A /\ UNCHANGED <<server, only05, only08, onlyFork>>
StepFork(A) == server = "fork" /\ A /\ UNCHANGED <<server, only05, only08, onlyPrefork, pc>>

ServersNext == Step05(S05!Next) \/ Step08(Next) \/ StepPrefork(Pre!Next) \/ StepFork(Frk!Next)

\* The fairness of each component's FairSpec.
ServersSpec ==
  /\ ServersInit /\ [][ServersNext]_allvars
  /\ WF_allvars(Step05(S05!ParentStep)) /\ \A k \in S05!Children : WF_allvars(Step05(S05!ChildStep(k)))
  /\ WF_allvars(Step08(Accept)) /\ WF_allvars(Step08(Put))
  /\ \A t \in Threads : WF_allvars(Step08(thread_main(t)))
  /\ WF_allvars(StepPrefork(Pre!MainStep)) /\ WF_allvars(StepFork(Frk!MainStep))
  /\ \A p \in Pre!Workers :
       WF_allvars(StepPrefork(Pre!WorkerStep(p))) /\ WF_allvars(StepPrefork(Pre!Terminate(p)))

-----------------------------------------------------------------------------
AllConns == 1 .. (IF MaxConns > NConns THEN MaxConns ELSE NConns)

Queue ==
  CASE server = "serv05" -> backlog
    [] server = "serv08" -> Backlog
    [] OTHER -> queue

HolderSet(c) ==
  CASE server = "serv05" -> S05!Holders(c)
    [] server = "serv08" -> Holders(c)
    [] server = "prefork" -> Pre!Holders(c)
    [] server = "fork" -> Frk!ServedBy(c)

\* The connections that the clients of this server can make.
ServerConns == 1 .. (IF server \in {"serv05", "serv08"} THEN MaxConns ELSE NConns)
holders == [c \in ServerConns |-> HolderSet(c)]

Service == INSTANCE ConnService WITH
  Workers <- (1 .. nchildren) \cup Threads \cup (1 .. NConns),
  made <- nconns, queue <- Queue

\* Every server takes connections in order of arrival, gives each to one worker
\* and each worker one at a time, and serves none twice: not through a pipe to a
\* child, a ring shared by threads, an inherited listening socket or a fork.
Implements == Service!Spec

\* serv05: navail, which opens and closes the listening descriptor, counts the
\* children whose status is 0, after any order of accepts and ready messages.
NavailExact == server = "serv05" => S05!NavailExact

\* serv03, serv04 and serv07: the lock is held exactly by the worker in accept,
\* also after a child dies there, save for serv04's mutex in shared memory.
LockExact == server = "prefork" => Pre!LockExact

\* The fork servers: a connection is open in main between accept and close and in
\* its own worker, and nowhere else.
DescriptorsExact == server = "fork" => Frk!DescriptorsExact

\* With the waitpid loop, SIGCHLDs that merge strand no zombie.
NoStrandedZombie == server = "fork" => Frk!NoStrandedZombie

Pending(c) ==
  c \in ServerConns /\ ((\E k \in 1 .. Len(Queue) : Queue[k] = c) \/ HolderSet(c) = {Acceptor})

\* What excuses a server: it has ended, or all its workers are busy or gone, or
\* the lock died with its holder.
Excused ==
  CASE server = "serv05" -> ~S05!ParentAlive
    [] server = "serv08" -> ~Alive
    [] server = "fork" -> Frk!Ended
    [] server = "prefork" ->
         \/ Pre!Ended \/ main = "kill" \/ Pre!LockLost
         \/ \A p \in Pre!Workers : pc[p] = "web_child" \/ ~Pre!Alive(p)

\* Every connection reaches a worker or is dropped, although a client may abort
\* between select and accept, a signal may be lost on no thread, and sig_chld may
\* interrupt main at any point.
EveryoneServed == \A c \in AllConns : Pending(c) ~> (~Pending(c) \/ Excused)

ToldToEnd ==
  CASE server = "serv05" -> ~S05!ParentAlive [] server = "prefork" -> main = "kill" [] OTHER -> FALSE
ChildrenGone ==
  CASE server = "serv05" -> \A k \in S05!Children : child[k] = "dead"
    [] server = "prefork" -> main = "exit" /\ \A p \in Pre!Workers : ~Pre!Alive(p)
    [] OTHER -> TRUE

\* A server told to end leaves no child behind: sig_int's loops reach and wait for
\* each of them, and serv05's children see the end of their pipes when the parent
\* is gone, though the later ones hold the earlier ones' pipes open.
NoChildOutlives == ToldToEnd ~> ChildrenGone
=============================================================================
