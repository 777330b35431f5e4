------------------------------- MODULE Serv08 -------------------------------
(***************************************************************************)
(* The prethreaded server whose main thread accepts: server/serv08.c and    *)
(* server/pthread08.c.  Main puts each connected descriptor into the ring   *)
(* clifd and signals clifd_cond; the threads take descriptors out.  Both    *)
(* hold clifd_mutex, so each critical section is one step; a thread leaves  *)
(* cond_wait by a signal or spuriously and competes for the mutex again.    *)
(***************************************************************************)
EXTENDS ServerConstants, Sequences

VARIABLES
  nconns,         \* connections made by clients
  naccepted,      \* connections accepted by main: the last is connfd
  ntaken,         \* history: connections taken by the threads
  clifd, iput, iget,
  main,           \* "accept", "put" (about to lock) or how the process ended
  thread,         \* each thread: "lock", "wait" (in cond_wait) or "web_child"
  connfd,         \* the connection a thread serves, 0 before its first
  thread_count

ring == <<clifd, iput, iget>>
pool == <<thread, connfd, thread_count, ntaken>>
vars == <<nconns, naccepted, ring, main, pool>>

Conns == 1 .. MaxConns
Slots == 0 .. MAXNCLI - 1
Ends  == {"iput = iget", "exit"}
Alive == main \notin Ends

\* if (++i == MAXNCLI) i = 0;
Wrap(i) == IF i + 1 = MAXNCLI THEN 0 ELSE i + 1

Init ==
  /\ nconns = 0 /\ naccepted = 0 /\ ntaken = 0
  /\ clifd = [s \in Slots |-> 0] /\ iput = 0 /\ iget = 0
  /\ main = "accept"
  /\ thread = [t \in Threads |-> "lock"]
  /\ connfd = [t \in Threads |-> 0]
  /\ thread_count = [t \in Threads |-> 0]

Connect ==
  /\ Alive /\ nconns < MaxConns
  /\ nconns' = nconns + 1
  /\ UNCHANGED <<naccepted, ring, main, pool>>

-----------------------------------------------------------------------------
(* The main thread. *)

Accept ==
  /\ main = "accept" /\ naccepted < nconns
  /\ naccepted' = naccepted + 1
  /\ main' = "put"
  /\ UNCHANGED <<nconns, ring, pool>>

Waiting == {t \in Threads : thread[t] = "wait"}

\* Mutant: a signal only when the ring was empty.
SignalWhenEmpty ==
  IF Waiting = {} \/ iput # iget
  THEN UNCHANGED thread
  ELSE \E t \in Waiting : thread' = [thread EXCEPT ![t] = "lock"]

\* Pthread_cond_signal: one waiting thread, if there is one, wakes.
Signal ==
  IF Waiting = {}
  THEN UNCHANGED thread
  ELSE \E t \in Waiting : thread' = [thread EXCEPT ![t] = "lock"]

\* Mutant: the ring is never found full.
PutUnchecked ==
  /\ main = "put"
  /\ clifd' = [clifd EXCEPT ![iput] = naccepted] /\ iput' = Wrap(iput)
  /\ main' = "accept" /\ Signal
  /\ UNCHANGED <<nconns, naccepted, ntaken, iget, connfd, thread_count>>

Put ==
  /\ main = "put"
  /\ clifd' = [clifd EXCEPT ![iput] = naccepted]
  /\ iput' = Wrap(iput)
  /\ \/ Wrap(iput) = iget /\ main' = "iput = iget" /\ UNCHANGED thread
     \/ Wrap(iput) # iget /\ main' = "accept" /\ Signal
  /\ UNCHANGED <<nconns, naccepted, ntaken, iget, connfd, thread_count>>

\* SIGINT, or err_quit by some thread, ends the process.
sig_int ==
  /\ Alive /\ main' = "exit"
  /\ UNCHANGED <<nconns, naccepted, ring, pool>>

-----------------------------------------------------------------------------
(* Thread t: the body of thread_main. *)

Get(t) ==
  /\ Alive /\ thread[t] = "lock" /\ iget # iput
  /\ connfd' = [connfd EXCEPT ![t] = clifd[iget]]
  /\ iget' = Wrap(iget)
  /\ ntaken' = ntaken + 1
  /\ thread' = [thread EXCEPT ![t] = "web_child"]
  /\ thread_count' = [thread_count EXCEPT ![t] = @ + 1]
  /\ UNCHANGED <<nconns, naccepted, clifd, iput, main>>

Cond_wait(t) ==
  /\ Alive /\ thread[t] = "lock" /\ iget = iput
  /\ thread' = [thread EXCEPT ![t] = "wait"]
  /\ UNCHANGED <<nconns, naccepted, ntaken, ring, main, connfd, thread_count>>

Spurious(t) ==
  /\ Alive /\ thread[t] = "wait"
  /\ thread' = [thread EXCEPT ![t] = "lock"]
  /\ UNCHANGED <<nconns, naccepted, ntaken, ring, main, connfd, thread_count>>

\* web_child returns when the client closes; Close(connfd).
Close(t) ==
  /\ Alive /\ thread[t] = "web_child"
  /\ thread' = [thread EXCEPT ![t] = "lock"]
  /\ UNCHANGED <<nconns, naccepted, ntaken, ring, main, connfd, thread_count>>

\* web_child exits the whole process on a bad request.
BadRequest(t) ==
  /\ Alive /\ thread[t] = "web_child"
  /\ main' = "exit"
  /\ UNCHANGED <<nconns, naccepted, ring, pool>>

thread_main(t) == Get(t) \/ Cond_wait(t) \/ Close(t)

Next ==
  \/ Connect \/ Accept \/ Put \/ sig_int
  \/ \E t \in Threads : thread_main(t) \/ Spurious(t) \/ BadRequest(t)

Spec == Init /\ [][Next]_vars

\* Every thread runs when it can, and every client closes sooner or later.
FairSpec ==
  Spec /\ WF_vars(Accept) /\ WF_vars(Put) /\ \A t \in Threads : WF_vars(thread_main(t))

-----------------------------------------------------------------------------
TypeOK ==
  /\ nconns \in 0 .. MaxConns /\ naccepted \in 0 .. nconns /\ ntaken \in 0 .. naccepted
  /\ clifd \in [Slots -> Conns \cup {0}] /\ iput \in Slots /\ iget \in Slots
  /\ main \in {"accept", "put"} \cup Ends
  /\ thread \in [Threads -> {"lock", "wait", "web_child"}]
  /\ connfd \in [Threads -> Conns \cup {0}]
  /\ thread_count \in [Threads -> Nat]

\* Connections in the ring: all those accepted that are neither taken nor
\* still in main's hands.
Queued == naccepted - ntaken - (IF main = "put" THEN 1 ELSE 0)

\* The ring index reached k slots after iget.
Slot(k) == IF iget + k >= MAXNCLI THEN iget + k - MAXNCLI ELSE iget + k

\* The ring holds the accepted connections in order: none lost, doubled or
\* overwritten, whatever order main and the threads take the mutex in.
RingInv ==
  Alive => /\ Queued \in 0 .. MAXNCLI - 1
           /\ iput = Slot(Queued)
           /\ \A k \in 0 .. Queued - 1 : clifd[Slot(k)] = ntaken + 1 + k

\* Each thread serves a connection that no other thread serves: a connection is
\* taken from the ring once.
ServedOnce ==
  \A s, t \in Threads : s # t /\ connfd[s] # 0 => connfd[s] # connfd[t]

\* Threads about to look at the ring.
Awake == {t \in Threads : thread[t] = "lock"}

\* A thread sleeps in cond_wait only if for every stored connection some other
\* thread is awake to take it: no wakeup is lost between the test and the wait,
\* or to a thread that found the ring emptied by another.
NoLostWakeup == Alive /\ Waiting # {} => Queued <= Cardinality(Awake)

\* err_quit("iput = iget") happens only with MAXNCLI connections untaken.
QuitsOnlyWhenFull == main = "iput = iget" => naccepted - ntaken = MAXNCLI

-----------------------------------------------------------------------------
(* The refinement of ConnService: what main has accepted and what lies in the   *)
(* ring is main's, until a thread takes it.                                     *)
Backlog == [k \in 1 .. nconns - naccepted |-> naccepted + k]
InRing == IF iput < iget THEN iput - iget + MAXNCLI ELSE iput - iget
Stored == {clifd[Slot(k)] : k \in 0 .. InRing - 1}
Holders(c) ==
  IF ~Alive THEN {}
  ELSE (IF (main = "put" /\ naccepted = c) \/ c \in Stored THEN {Acceptor} ELSE {})
       \cup {t \in Threads : thread[t] = "web_child" /\ connfd[t] = c}
=============================================================================
