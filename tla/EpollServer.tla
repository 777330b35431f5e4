----------------------------- MODULE EpollServer -----------------------------
(***************************************************************************)
(* The edge-triggered echo server src/epoll.cpp: main's loop over the       *)
(* events of epoll_wait, and handle().  Sockets are nonblocking.            *)
(*                                                                          *)
(* Edge triggering: a descriptor enters the ready list when a connection,   *)
(* data, an end-of-file or a reset arrives (or when it is added and already *)
(* readable), and leaves it when epoll_wait reports it, whether or not the  *)
(* program then consumes all there is.                                      *)
(***************************************************************************)
EXTENDS Integers, Sequences, FiniteSets

CONSTANTS
  Clients,        \* one connection each
  MAXEPOLLSIZE,   \* limit on descriptors (setrlimit) and on curfds
  MAXLINE,        \* bytes handle() reads at most
  MaxBytes        \* bound: bytes that clients send

VARIABLES
  status,      \* of each connection: "none", "pending", "open" or "closed" by the server
  pending,     \* listenfd's queue of connections
  sent,        \* bytes that clients have sent
  inq,         \* bytes in each connection's receive buffer
  hup,         \* "no", "fin" (client closed) or "rst" (client reset)
  ready,       \* epoll's ready list
  events,      \* events returned and not yet handled
  pc,          \* "epoll_wait", "loop", "write" or "sigpipe"
  cur,         \* handle()'s descriptor
  curfds,
  full         \* history: connections whose last read() filled buf

kernel == <<status, pending, sent, inq, hup>>
vars == <<kernel, ready, events, pc, cur, curfds, full>>

Open == {c \in Clients : status[c] = "open"}

\* stdin, stdout, stderr, listenfd and kdpfd are descriptors too.
OpenDescriptors == 5 + Cardinality(Open)

Readable(f) ==
  IF f = "listenfd" THEN pending # << >> ELSE inq[f] > 0 \/ hup[f] # "no"

\* An arrival on an open connection puts it on the ready list.
Notify(c) == ready' = IF status[c] = "open" THEN ready \cup {c} ELSE ready

Init ==
  /\ status = [c \in Clients |-> "none"] /\ pending = << >>
  /\ sent = 0 /\ inq = [c \in Clients |-> 0]
  /\ hup = [c \in Clients |-> "no"]
  /\ ready = {} /\ events = {}
  /\ pc = "epoll_wait" /\ cur = "listenfd"
  /\ curfds = 1 /\ full = {}

-----------------------------------------------------------------------------
(* Clients. *)

server == <<events, pc, cur, curfds, full>>

Connect(c) ==
  /\ status[c] = "none"
  /\ status' = [status EXCEPT ![c] = "pending"]
  /\ pending' = Append(pending, c)
  /\ ready' = ready \cup {"listenfd"}
  /\ UNCHANGED <<sent, inq, hup, server>>

Send(c) ==
  /\ status[c] \in {"pending", "open"} /\ hup[c] = "no" /\ sent < MaxBytes
  /\ sent' = sent + 1 /\ inq' = [inq EXCEPT ![c] = @ + 1]
  /\ Notify(c)
  /\ UNCHANGED <<status, pending, hup, server>>

\* The client closes its sending side, or resets the connection (also after
\* that), which discards unread data.
Hangup(c) ==
  /\ status[c] \in {"pending", "open"}
  /\ \/ hup[c] = "no" /\ hup' = [hup EXCEPT ![c] = "fin"] /\ UNCHANGED inq
     \/ hup[c] # "rst" /\ hup' = [hup EXCEPT ![c] = "rst"] /\ inq' = [inq EXCEPT ![c] = 0]
  /\ Notify(c)
  /\ UNCHANGED <<status, pending, sent, server>>

-----------------------------------------------------------------------------
(* The server. *)

\* At most curfds events are returned.
epoll_wait ==
  /\ pc = "epoll_wait"
  /\ \E S \in SUBSET {f \in ready : Readable(f)} :
       /\ S # {} /\ Cardinality(S) <= curfds
       /\ Cardinality(S) < curfds => S = {f \in ready : Readable(f)}
       /\ events' = S
       /\ ready' = {f \in ready \ S : Readable(f)}
  /\ pc' = "loop"
  /\ UNCHANGED <<kernel, cur, curfds, full>>

\* The for loop over the events ends, or goes on, after event f.
Handled(f) ==
  /\ events' = events \ {f}
  /\ pc' = IF events = {f} THEN "epoll_wait" ELSE "loop"

\* accept fails when no descriptor is left; the connection stays pending.
AcceptEmfile ==
  /\ pc = "loop" /\ "listenfd" \in events
  /\ OpenDescriptors >= MAXEPOLLSIZE
  /\ Handled("listenfd")
  /\ UNCHANGED <<kernel, ready, cur, curfds, full>>

\* One accept per event.  EPOLL_CTL_ADD queues the connection if already readable.
Accept ==
  LET c == Head(pending) IN
  /\ pc = "loop" /\ "listenfd" \in events /\ OpenDescriptors < MAXEPOLLSIZE
  /\ pending' = Tail(pending)
  /\ IF curfds >= MAXEPOLLSIZE
     THEN status' = [status EXCEPT ![c] = "closed"] /\ UNCHANGED <<ready, curfds>>
     ELSE /\ status' = [status EXCEPT ![c] = "open"]
          /\ ready' = IF Readable(c) THEN ready \cup {c} ELSE ready
          /\ curfds' = curfds + 1
  /\ Handled("listenfd")
  /\ UNCHANGED <<sent, inq, hup, cur, full>>

\* handle(): one read.  End-of-file and error close the descriptor, and main
\* then deletes it from epoll (which closing has done already) and counts down.
handle_read(c) ==
  LET n == IF inq[c] < MAXLINE THEN inq[c] ELSE MAXLINE IN
  /\ pc = "loop" /\ c \in events \ {"listenfd"}
  /\ inq' = [inq EXCEPT ![c] = @ - n]
  /\ cur' = c
  /\ full' = IF n = MAXLINE THEN full \cup {c} ELSE full \ {c}
  /\ IF n > 0
     THEN pc' = "write" /\ UNCHANGED <<status, events, ready, curfds>>
     ELSE /\ status' = [status EXCEPT ![c] = "closed"]
          /\ ready' = ready \ {c}
          /\ curfds' = curfds - 1
          /\ Handled(c)
  /\ UNCHANGED <<pending, sent, hup>>

\* handle(): one write.  Its result is ignored, so a full send buffer or an error
\* only loses the echo; on a reset connection it may also raise SIGPIPE.
handle_write ==
  /\ pc = "write"
  /\ \/ Handled(cur)
     \/ hup[cur] = "rst" /\ pc' = "sigpipe" /\ UNCHANGED events
  /\ UNCHANGED <<kernel, ready, cur, curfds, full>>

ServerStep ==
  epoll_wait \/ AcceptEmfile \/ Accept \/ handle_write \/ \E c \in Clients : handle_read(c)

Next ==
  \/ ServerStep
  \/ \E c \in Clients : Connect(c) \/ Send(c) \/ Hangup(c)

Spec == Init /\ [][Next]_vars

\* The server is scheduled.  Clients may stop at any point.
FairSpec == Spec /\ WF_vars(ServerStep)

-----------------------------------------------------------------------------
Fds == Clients \cup {"listenfd"}

TypeOK ==
  /\ status \in [Clients -> {"none", "pending", "open", "closed"}]
  /\ pending \in Seq(Clients)
  /\ sent \in 0 .. MaxBytes /\ inq \in [Clients -> 0 .. MaxBytes]
  /\ hup \in [Clients -> {"no", "fin", "rst"}]
  /\ ready \subseteq Fds /\ events \subseteq Fds
  /\ pc \in {"epoll_wait", "loop", "write", "sigpipe"}
  /\ cur \in Fds
  /\ curfds \in 1 .. MAXEPOLLSIZE /\ full \subseteq Clients

\* curfds, the size given to epoll_wait, is the number of descriptors registered,
\* so one call can return an event for each of them.
CurfdsExact == curfds = 1 + Cardinality(Open)

\* No event of a batch is stale: its connection is still open although events
\* handled before it may have closed others, and accept may have reused those
\* descriptors.
EventsOpen == events \ {"listenfd"} \subseteq Open

\* Whatever is accepted later, handle() closes only connections that their client
\* has closed or reset, and none that still holds data: EAGAIN, which handle()
\* would take for an error, cannot happen.
ClosesOnlyHungUp ==
  \A c \in Clients : status[c] = "closed" => hup[c] # "no" /\ inq[c] = 0

Dead == pc = "sigpipe"

\* One read() per event: what did not fit it waits for the next event, if one comes.
LeftBehind(c) == inq[c] > 0 /\ c \in full /\ c \notin ready \cup events

\* What a client sends is read.
EventuallyRead ==
  \A c \in Clients : status[c] = "open" /\ inq[c] > 0 ~> (inq[c] = 0 \/ Dead)

\* A pending connection is accepted while descriptors are left.
EventuallyAccepted ==
  \A c \in Clients : status[c] = "pending" ~> (status[c] # "pending" \/ Dead)
=============================================================================
