# TLA+ models of the TcpIp repository

The repository is a collection of network programs: the sources of *UNIX Network
Programming* (volume 1, third edition) under `src/unpv13e/`, an epoll server in
`src/epoll.cpp`, and notes on networking in `src/Document/`.  Each program is
small; what makes them hard is that almost every one of them shares state between a
main loop and something that runs in between: signal handlers, children, threads,
the kernel's readiness lists, or a network that loses and reorders.

This directory models the programs in which that sharing is substantial, checks
them with TLC on small instances, and proves the central invariants with TLAPS for
every size.  Paths below are relative to `src/unpv13e/` unless they start with
`src/`.

## The system's parts

| Part | Modules | Code |
|---|---|---|
| signal-driven UDP echo server | `SigioEcho` | `sigio/dgecho01.c` |
| reliable UDP request/reply | `DgSendRecv`, `Rtt` | `rtt/*.c`, `lib/rtt.c` |
| preforked server with descriptor passing | `Serv05` | `server/serv05.c`, `child05.c`, `lib/read_fd.c` |
| prethreaded server, main accepts | `Serv08` | `server/serv08.c`, `pthread08.c` |
| servers whose workers all accept | `Prefork`, `PreforkProofs` | `server/serv00`, `02`, `02l`, `02m`, `03`, `03m`, `04`, `07`, `09`, their children, threads and locks |
| a process or thread per connection | `ForkServer` | fifteen `main`s in `tcpcliserv`, `server`, `threads`, `advio`, `ipopts`, `oob`, `unixdomain`; the SIGCHLD handlers |
| all these servers, and what they promise | `Servers`, `ServersProofs`, `ServerStepsProofs`, `ConnService`, `ServerConstants` | |
| select and poll echo servers | `SelectServer` | `tcpcliserv/tcpservselect01.c`, `tcpservpoll01.c`, `nonblock/tcpservselect03.c`, `lib/readline.c`, `lib/writen.c` |
| edge-triggered epoll echo server | `EpollServer` | `src/epoll.cpp` |
| both event-driven kinds | `EventServers`, `EventServersProofs` | |
| stream echo clients | `StrCli`, `EchoPipe`, `StrCliInputProofs`, `StrCliProofs` | `lib/str_cli.c`, and the `str_cli`s and `str_echo`s of `tcpcliserv`, `select`, `advio`, `nonblock`, `threads`, `oob`, `unixdomain`, `sock/looptcp.c` |
| heartbeat over out-of-band data | `Heartbeat` | `oob/heartbeatcli.c`, `oob/heartbeatserv.c`, and their callers `oob/strcliselect02.c`, `oob/strecho02.c` |
| the three that signal handlers drive | `Signals`, `SignalsProofs` | |
| Web clients | `WebThreads`, `WebSelect`, `WebClients`, `WebClientsProofs` | `threads/web01.c` to `web03.c`; `nonblock/web.c`, `start_connect.c` |
| UDP clients | `DgCli` | `lib/dg_cli.c`, `udpcliserv/dgcli*.c`, `advio/dgclitimeo*.c`, `bcast/`, `mcast/`, `lib/pselect.c`, `lib/readable_timeo.c` |
| SCTP echo servers and clients | `Sctp` | `sctp/*.c` |
| both kinds of message clients | `MessageClients` | |
| ICMP daemon and its clients | `Icmpd` | `icmpd/*.c` |
| ping, traceroute, udpcksum | `Probe` | `ping/*.c`, `traceroute/*.c`, `udpcksum/*.c` |
| all readers of ICMP | `IcmpTools` | |
| retransmission timer | `Rtt`, `RttEstimator` | `lib/rtt.c`, `lib/unprtt.h` |
| `getaddrinfo`, two implementations | `GetAddrInfo` | `libgai/*.c`, `libfree/getaddrinfo.c` |
| functions that open sockets, daytime programs | `Daytime` | `lib/tcp_connect.c`, `tcp_listen.c`, `udp_client.c`, `udp_connect.c`, `udp_server.c`, `connect_nonb.c`, `connect_timeo.c`, `daemon_init.c`; `intro/`, `names/`, `advio/`, `unixdomain/`, `inetd/daytime*.c` |
| functions that read and write lines | `LineIO` | `lib/readn.c`, `writen.c`, `readline.c`; `threads/readline.c`, `server/readline*.c` |
| these four groups of functions | `Library` | |

The parts interact in three ways, and the modules follow them.  Programs of one
kind are alternatives: one module whose initial state chooses the program.  A program
and its peers (a server with its clients, a client with its server and the network, a
handler with the loop it interrupts) are in one module, since what is hard lies between
them.  Kinds that promise the same are put side by side in a module that runs one of
them per behaviour and states the promise once: `Servers`, `EventServers`, `WebClients`,
`Signals`, `MessageClients`, `IcmpTools`, `Library`.  Such a module extends one component,
instantiates the others over variables of the same names, and leaves the variables of
those that do not run as they are.

## How the modules correspond to the code

A module's variables are the program's variables under their own names (`iget`,
`nqueue`, `child_status`, `navail`, `clifd`, `maxi`, `curfds`, `rcvd_tbl`, `aihead`, ...),
plus the state of the kernel the program depends on (pending signals, listen queues, what
is unread on a socket, the epoll ready list), plus a program counter where the program
can be interrupted.  Data is abstracted to what tells messages apart: a datagram, a
connection or a line is a number.  Calls that end the program on error are actions
that lead to a final state, so that a property does not hold because the program is
assumed never to fail.  The error ends left out are those of set-up calls and of a few
calls that fail only when the kernel refuses: `epoll_ctl` when a connection is added
(`src/epoll.cpp:124`), `fcntl` on the lock file (`server/lock_fcntl.c:41`), the quits on
an ICMP message that is cut short and a failed `sock_bind_wild` in `icmpd`, and the
EAI_SERVICE and EAI_SYSTEM returns of `libgai/ga_unix.c`.

**SigioEcho.**  `dg_echo`'s loop is split wherever SIGIO is open (`TestEmpty`,
`Unblock`, `Send`, `Advance`, `Block`, `Decrement`); the handler `sig_io` is entered by
`Deliver` between any two of these and runs to its end, while datagrams may `Arrive`.
SIGIO is a single bit: signals do not queue.  The socket's set-up is included because
FIOASYNC comes before FIONBIO and before SIGIO is blocked.

**Rtt, RttEstimator, DgSendRecv.**  `Rtt` has the functions of `lib/rtt.c` as operators
on a record; floats are integers in units of 1/`SCALE` s, exact for the bounded number
of updates since the code divides by 8 and by 4 only.  `RttEstimator` calls them in
every legal order.  `DgSendRecv` composes them with the client's retransmission loop,
the server, and a network that is a set from which nothing is ever removed: that is
loss, duplication, delay and reordering at once.  SIGALRM may strike at every
statement once the timer is armed, with `siglongjmp` back into the loop; before
`sigsetjmp` has been called that is undefined and leads to a state of that name.

**Serv05.**  Two stream pipes per child (`down` for passed descriptors, `up` for the
one-byte "ready" messages), the parent's `select` result and its loop over it, and
children that serve, die of a bad request, or see end-of-file.  A child inherits the
parent's ends of the pipes made before its fork; `ParentEndOpen` is what that does to
end-of-file.

**Serv08.**  The ring `clifd` with `iput` and `iget`.  Each critical section under
`clifd_mutex` is one step; `pthread_cond_wait` releases the mutex and may return
unasked.

**Prefork.**  `nchildren` workers around one listening socket, with `my_lock_wait` and
`my_lock_release`, a mutex, `select`, or nothing in front of `accept`.  A worker can
end in `accept`, in `web_child`, or wherever a signal finds it; the kernel then
releases an fcntl lock but not a mutex in shared memory.  SIGINT reaches the parent
alone or, from a terminal, the children too.

**ForkServer.**  `open[c]` is the set of processes that have connection `c` open: `fork`
copies, `close` and `exit` remove.  SIGCHLD is one pending bit; the handler runs while
main waits, and either loops over `waitpid(WNOHANG)` or calls `wait` once.  `restart`
is whether the build has SA_RESTART.

**ConnService** is the abstract specification of all four: connections are queued in
the order they are made, are taken from the head by the acceptor or a worker, may be
passed from the acceptor to a worker, are held by at most one worker, who holds
nothing else, and are closed once.  Each server says who holds a connection (`Holders`:
a descriptor in a pipe or a slot of the ring is the acceptor's until a worker has it).

**SelectServer.**  The table `client[]` with `maxi`, `maxfd`, `allset`; readiness as
reported by one `select` or `poll`, used while accepts and closes change the table;
descriptors numbered by the kernel's lowest-free rule; `poll`'s uninitialized
`revents` as an arbitrary set; `readline`'s static buffer.  What a client sends comes in
pieces (`inq`) that end a line or do not; what the server writes stays in the connection's
buffers (`outq`, at most `SndBuf`) until the client reads it, which it need not.  `Readline`
and `Writen` are therefore calls that can take several steps (`pc` "line" and "writen"),
and in either the one process can wait for one client.

**EpollServer.**  Edge-triggered readiness: a descriptor enters the ready list when
something arrives and leaves it when reported, consumed or not.  `read` takes at most
MAXLINE bytes; `full` remembers the connections whose last `read` filled the buffer.

**StrCli** has every `str_cli`, by its way of waiting: in lockstep, with `select`, `poll` or
`kqueue`, non-blocking with two buffers, with a second process or thread.  Both socket
buffers are finite, so that writes block; the peer is one of the `str_echo`s, the one with
stdio buffers included, and may be killed.  A line is written in one or more pieces, so
that partial reads and writes happen.  **EchoPipe** is what they promise: what comes
out is a prefix of what went in.

**Heartbeat.**  Client and server each with a timer, pending SIGALRM and SIGURG, and a stack
of handlers, since neither handler blocks the other's signal; `++nprobes` is a load and a
store.  A second passes when both have run their handlers; bytes arrive in the second they
were sent in, but for `MaxLate` seconds of a run.  The ghost variables `late`, `lost` and
`rearmed` count what the property needs to say how a false alarm comes about.

**WebThreads, WebSelect.**  The creating loop, flags and counters; three ways in which
main waits for threads (`thr_join` for any, polling, a condition variable); and
`nonblock/web.c` with its descriptor sets, where numbers are the lowest free ones and
come back.

**DgCli.**  One loop of fgets, sendto, wait and print; the programs differ in how the wait
ends: not at all, `select`, SO_RCVTIMEO, SIGALRM with or without a mask, `pselect` of the
kernel or of the library, `siglongjmp`, a pipe.  Between any two calls the signal may come
and the network may lose, delay, reorder or repeat a datagram or bring one from a host
that was not asked.

**Sctp.**  Associations with streams, notifications, `sctp_peeloff`, MSG_EOF, MSG_ABORT,
autoclose and partial delivery into `pdapi_recvmsg`'s growing buffer.  Within a stream
messages keep their order, between streams they do not.

**Icmpd.**  The daemon's `select` loop with its early returns, the table of clients whose
entries are used again, descriptors passed over the Unix socket, and a Write() that
blocks on a slow client and kills the daemon over one that has gone.

**Probe.**  The sender in the SIGALRM handler and the receive loop, or the alarm and the
probe loop; the answers of other programs reach the same raw socket.  SET of `bsdping.c`
is a load and a store with the handler's CLR possible in between.

**GetAddrInfo.**  Both implementations as a sequence of searches, lists and clones, every
allocation and lookup of which may fail; the blocks on the heap are counted.
**Daytime.**  The walks over a list of addresses, any of which may refuse `socket`, `bind`
or `connect`, under every daytime client and server of the repository.  **LineIO.**  The
loops over short counts and EINTR, with a buffer per process, per thread or per caller.

## Runs

| Run | Bounds | States | What it shows |
|---|---|---|---|
| `signals` | ring of 3, 6 datagrams; rtt: 2 calls, 3 retransmissions, RTTs 0 and 5 s; heartbeat: limit 3, 1 late second | 90 k | echoes in order and complete under any interleaving, no datagram stranded behind a merged SIGIO; replies and samples belong to the call, every call ends; "unreachable" and "no probes" are true, a crash is noticed |
| `servers` | 3 children or threads, ring of 3, 3 or 4 connections | 68 k | every server implements `ConnService`; counters, ring, lock and descriptors exact; no lost wake-up, no stranded zombie; connections served; no child left |
| `event_servers` | table of 2, 3 connections, 3 pieces, room for 1 echo; epoll: 3 clients, descriptors for 2, 3 bytes, 2 in a read | 654 k | tables agree; no descriptor is read that is not ready and no stale event is served; none skipped; data read, but for what `Stalled` and `LeftBehind` name |
| `stream_clients` | 4 lines, buffers of 1 and 2 pieces | 148 k | every client implements `EchoPipe`; nothing lost at a normal end, "terminated prematurely" is true; clients end; replies come out |
| `web` | 4 files, 2 connections, 4 programs | 13 k | limit, counters and descriptor sets exact; the only ways to wait for ever are the two named |
| `message_clients` | UDP: 2 lines, 1 datagram too many; SCTP: 2 clients, 2 streams, 2 lines, messages of up to 3 | 160 k | replies belong to requests and streams; no alarm left over; servers end only for cause; waits end |
| `icmp_tools` | 2 clients, tables of 1 and 2, 1 error; sequence numbers modulo 2, 3 echo requests, 3 hops, 1 foreign and 1 repeated message | 149 k | tables and counters exact; each program acts on its own answers; errors are delivered, probing ends |
| `library` | 5 RTTs of 0 to 75 s; 0 or 2 A and 0 or 1 AAAA records; 2 addresses, a line of 2 bytes; 2 callers, 2 files of up to 3 bytes, lines of 2 | 451 k | results exact; nothing leaks; bytes neither lost nor mixed; the RTO keeps its limits; calls end |
| `web03_deadlock` | 2 files, 2 threads | | finding: `web03.c` can deadlock |
| `epoll_accept` | 2 clients | | finding: one accept per edge leaves a connection behind |
| `epoll_read` | 1 client, 2 bytes, 1 in a read | | finding: one read per edge leaves data behind |
| `icmpd_stale` | 2 clients | | finding: a new client is sent the errors of the one before it |

The bounds are chosen so that every index wraps, every table, buffer and pool is at
some point full and at some point reused, more connections come than there are
entries, children or ring slots, sequence numbers are used again, and there are three
workers, so that one can interfere with a hand-over between two others.  Three pieces let
one client fill its buffers and stop the server in `Writen` while another has data unread;
three bytes are more than epoll's `read` takes.  Each program of
a family is covered by the same run.  Over SCTP, a client alone reads two lines, so that
a round follows a round; two clients read one each, so that associations interleave.
CHECK_DEADLOCK is off throughout: the bounds end the clients, and several programs may
really end or wait for ever for a client.

A property of a composed run is the conjunction, by program, of what the components
state.  `AnswersExact` of `library`, for instance, is `EstimatorsBounded` and
`RtoCoversLastSample` of `RttEstimator`, `ResultExact` and `FamilyExact` of `GetAddrInfo`,
`WholeTime` of `Daytime` and `ReturnExact` of `LineIO`, of which each compares what the code
computes with a definition that does not follow the code's steps: the entries the
arguments ask for, the bytes of the file.

### Fairness

* Weak fairness of the program's own next statement everywhere: the process or thread
  is scheduled.  Clients, the network, errors and SIGINT are never assumed to act, but
  for the following.  `Serv05` and `Serv08` assume that a client which is being served
  closes sooner or later, since their workers are reused only then.  In `ForkServer`
  and `Prefork` a client may stay for ever and the properties say so.  `Daytime` assumes
  that bytes written to a TCP connection arrive, as TCP provides; datagrams may be lost.
  `Sctp` assumes neither lines nor closing.  In `SelectServer` a client need not finish a
  line, nor read what is echoed to it, and in `EpollServer` it need not send again.
* `SigioEcho` has strong fairness of signal delivery: the mask is opened on every turn
  of the loop and the kernel delivers a pending signal when it is.
* `DgSendRecv`, `DgCli`, `Probe` and `Heartbeat` assume that an armed timer expires, and
  `Heartbeat` that handlers run within the second, without which no limit is safe.
* `WebThreads` has strong fairness of a thread's turn at `ndone_mutex`, which `web02`'s
  polling main keeps taking and releasing, and assumes that servers answer; so does
  `WebSelect`, whose `select` finds each answer however the loop is timed.

## Findings

* **`threads/web03.c:78`** (run `web03_deadlock`).  A thread sets F_DONE at line 121
  before it locks `ndone_mutex` at line 123.  Main, woken for another thread and holding
  the mutex, can see the flag and join the thread, which waits for the mutex.
* **`src/epoll.cpp:104`** (run `epoll_accept`).  The listening socket is edge-triggered
  and accepted from once per event; `src/Document/Epoll的两种触发方式.md` lines 19, 20 and
  32 describe this case and ask for a loop.
* **`src/epoll.cpp:147`** (run `epoll_read`).  `handle()` reads once per event; lines 9, 10 and
  22 of the same document say that what is left over raises no further event.  A client that
  sends more than MAXLINE bytes at once, and then waits for its echo, waits for ever.
* **`icmpd/readable_listen.c:15`** (run `icmpd_stale`).  A new client is given a table entry
  of which only the descriptor is set.  Until it registers, errors about the port of the
  client that had the entry before are written to it.

Behaviour met while modelling that the properties allow explicitly, rather than hide:

* `sigio/dgecho01.c:86` tests for a full ring before it looks whether another datagram
  is there, so the server quits with a ring that is exactly full.
* `rtt/dg_send_recv.c:63` arms the timer before `sigsetjmp` at line 68, and a timer that
  expires between the loop's end at line 86 and `alarm(0)` at line 88 can still give up.
* `lib/rtt.c:114` doubles the RTO without `rtt_minmax`: it exceeds RTT_RXTMAX, which
  `lib/unprtt.h:16` calls the maximum, until the next `rtt_stop`.
* `oob/heartbeatcli.c:43`: `sig_urg` between the load and the store of `++nprobes` has its
  reset undone.  It takes `maxnprobes` - 1 undone resets in a row, one fewer for each late
  second, to make a live peer "unreachable"; the same holds with the code's limit of five.
* `oob/strcliselect02.c:39`: a SIGALRM pending at `alarm(0)` re-arms the alarm, and the next
  probe, after `Shutdown`, kills the client by SIGPIPE.  Without that race the heartbeat
  stays off: the server may then exit with "no probes from client" before the last echo,
  and the client does not notice a crash.
* `oob/heartbeatserv.c:31`: when a late probe and the next arrive together, the second
  SIGURG finds no byte, and `recv` fails with EINVAL, which ends the process.
* `threads/web02.c:68` writes F_CONNECTING after the thread has started and can
  overwrite its F_DONE (`Overwritten` in `WebThreads`).
* `nonblock/tcpservselect03.c:69` reads several clients through `readline`'s one static
  buffer: the rest of one client's segment goes to the next client that is ready.
* The select and poll servers are one process with blocking calls.  A client that resets
  between `select` and `accept` (`tcpcliserv/tcpservselect01.c:41`), one that does not read
  its echoes (`tcpservselect01.c:76`, `tcpservpoll01.c:83`, `nonblock/tcpservselect03.c:75`),
  and for `tcpservselect03.c:69` one that sends part of a line leave the server waiting, and
  with it all other clients (`Stalled`).  `DataRead` says that there is no other way: whenever
  the server is not in such a call it comes to a state in which nothing is unread.
* `src/epoll.cpp` reads once per edge, so an end-of-file that arrives together with data
  stays unread, and it ignores the result of `write`.  The branch for `curfds >=
  MAXEPOLLSIZE` is never reached: `accept` fails with EMFILE first.
* The servers that call `accept` themselves end on ECONNABORTED; `tcpcliserv/tcpserv02.c`
  ends on EINTR where SA_RESTART is missing; the `wait` handlers of `tcpserv02.c` and
  `tcpserv03.c` can strand zombies, so `NoStrandedZombie` is about the `waitpid` ones.
* `server/serv04.c`'s mutex stays locked when its holder dies (`LockLost`), and SIGINT
  before `Signal` at `server/serv02.c:27` leaves the children running.
* `select/strcliselect01.c:25` returns at the end of its input with replies still to come;
  `select/strcliselect01.c:18` and its kin do not see lines that wait in `readline`'s buffer;
  `nonblock/strclinonb.c:74` returns with replies in `fr`.
* `select/strcliselect02.c:39` and the other clients that multiplex blocking writes can wait
  for a server that waits for them, with small enough buffers (`Deadlocked`);
  `advio/str_echo_stdio02.c:13` keeps the echo a lockstep client waits for (`HeldBack`);
  `nonblock/strclifork.c:22` leaves the parent paused when the child dies of an error;
  `threads/strclithread2.c:37` can report a premature end that was not one.
* In `advio/dgclitimeo3.c:17`, `bcast/dgclibcast1.c:24`, `dgclibcast3.c:31` and
  `lib/pselect.c:25` SIGALRM can come just before the call it is to interrupt (`Stuck`).  A
  wait that was given up leaves a reply that is printed for the next line.
* `sctp/sctpserv03.c:45` and the servers like it end when an association goes between a
  receive and the reply; a shutdown can cross a client's next message (`lost`).
* `icmpd/readable_v4.c:83` blocks on a client that does not read and dies over one that
  has closed.
* `ping/bsdping.c:504` can lose a CLR of the handler in a SET; `traceroute/recv_v4.c:25` can
  miss its alarm; `traceroute/recv_v6.c:49` takes any time exceeded message for its own;
  `udpcksum/udpcksum.c:39` can throw an answer away.
* `libgai/getaddrinfo.c:165`, `ga_unix.c:27` and `libfree/getaddrinfo.c:740` do not free all
  they have after an error, and `libfree/getaddrinfo.c` may free a list that has no value
  yet (state "undefined").
* `lib/readline.c:35` returns one more than the bytes stored when the line is full, and the
  versions in `server/` also at an end-of-file without newline; `server/readline.c` takes
  EINTR for an error.
* `lib/udp_client.c:21` stops at the first address that gives a socket, whoever listens.

## Proofs

Eight modules of theorems, for all values of the constants.  With them every safety
property of the runs `signals`, `servers`, `event_servers`, `stream_clients` and `web` is
proved; TLC has checked the same formulas on small instances.

The named assumptions on constants (`QSIZEAssumption`, `nchildrenAssumption`, ...) say
only that sizes are positive naturals (the ring of `Serv08` has at least two slots),
bounds are naturals, the sets of threads and of epoll's clients are finite (and there is a
thread), RTT_RXTMIN is at most RTT_RXTMAX, and that `DgSendRecv` makes fewer calls than
there are sequence numbers.
Those of the four server modules are in `ServerConstants`.  Each proof has the same
shape: an inductive invariant, one lemma for the initial state, one per action or
group of actions, and a temporal step per theorem.  The inductive invariants were
checked with TLC as well.

* **SignalsProofs** — all safety properties of run `signals`, of its specification
  `SignalsSpec`.  One program runs and the variables of the others stay as they are.
  * The SIGIO server: `RingTypes`, `InOrder`, `NoStranded`.  `EchoInOrder` alone is not
    inductive: `RingInv` says where each datagram read and not yet echoed is in the ring,
    with the two intermediate states of the main loop in which `iget` has moved and
    `nqueue` has not, and `BusyInv` that the loop past its test has something to send.
    `NoStranded` carries the invariant on SIGIO through the handler's run.  `RingTypes`
    includes that the index of `cntread` stays inside the array.
  * `dg_send_recv`: `RepliesMatch`, `SamplesUnambiguous`.  `NetInv` says of every datagram
    ever sent that its sequence number determines its call, and that one of this call
    carries a timestamp of this call.
  * The heartbeat: `AlarmsAreTrue`, for every limit and any number of late seconds.  `CliInv`
    and `ServInv` bound each end's count, and the value its handler has loaded and not yet
    stored, by the seconds lost or late so far.  The bounds hold only with what is on the
    way: as long as nothing is (`Circuit`, `Owed`) the count is zero, or one lower.
    `Stacks` says how the two handlers of an end can interrupt each other.
* **ServersProofs** — all safety properties of run `servers`, of its specification
  `ServersSpec`: `RingHolds`, `WakeupsSuffice`, `NavailCounts`, `LockHeld`,
  `DescriptorsHeld`, `ZombiesReaped` and `ServersImplement`; and `PoolsAreSafe`, what else is
  proved of the servers with a pool (no connection is given to a busy child or to two
  threads, `nsel` counts what is left of a `select` result, and the two `err_quit`s of the
  parents are unreachable or true).  The steps of `Serv08`, which `Servers` extends, are proved
  here.  Its wake-up argument counts: threads awake are at least as many as connections
  queued while anyone sleeps, and every step changes both numbers accordingly.  The other
  servers' invariants come from instances of the next two modules; one server runs and the
  variables of the others stay as they are, so each invariant is also one of `ServersSpec`.
  `ServersImplement` is the refinement of `ConnService`, step by step: the acceptor holds what
  the parent has accepted (a descriptor in a pipe or in the ring included), a worker what it
  serves, and each action of each server is a `Connect`, `Drop`, `Take`, `Pass`, `Close` or a
  stutter.
* **ServerStepsProofs** — the lemmas about `Serv05` and `ForkServer`.  `S05IInv` lists the four
  states a child marked busy can be in and says that what `select` reported still holds when
  the parent acts on it.  For `ForkServer`, queued connections are distinct and have no
  worker yet, nor has the one between accept and fork; without that a new worker could
  be given a descriptor set that is not empty.
* **PreforkProofs** — `LockHeld`, `NoChildLeft`, `PreforkImplements` of `Prefork` alone.  `PlaceInv`
  says which programs reach which places, that the holder of the lock has been started, that
  workers from `i` on have not, and that only parents of processes send signals.
* **StrCliInputProofs, StrCliProofs** — `ExitsAreTrue` and `EveryClientEchoes`, for all
  client programs, peers, numbers of lines and sizes of buffers.  `FlowInv` lays
  everything accepted from standard input end to end: what is shown, `fr`, `readline`'s
  buffer, the two socket buffers, the server's stdio buffer and `to` are parts of it that
  follow one another while both processes live; when one has died what is left is still
  in order, but may have a gap at the end.  Every read and write moves a boundary between two
  neighbours (`CutDrop`, `CutJoin` and the lemmas like them).  `NothingLost` needs `EndInv`, what had
  been done before each FIN, `ControlInv`, which buffers each kind of client uses where, and
  `LineInv`, that a client in lockstep has one line under way.  The first module has the
  invariant and the steps from standard input to the socket, the second those from the
  socket to standard output, the server's, and the theorems.
* **EventServersProofs** — `TablesKept`, `ReadyServed`, `SkipsNone`.  For the select and poll
  servers `OwnersInv` says that a connection has one descriptor, `AcceptInv` and `LoopInv` what
  is left of a `select` or `poll` result while the loop goes through it: with `select` no more
  entries at or past `i` are reported than `nready` says, so none is skipped; with `poll` each of
  them is readable but perhaps the one accept has added, whose `revents` poll never wrote,
  and then `nready` is used up by the others before it.  `BusyInv` says the same of the entries
  past `i` while `Readline` or `Writen` is under way, for as long as the client makes it wait.
  The numbers of descriptors are the
  lowest free ones, whose existence is a counting argument.  For epoll `PendingInv` says that
  an event of the listening socket has a connection behind it and an event of a connection
  something to read; `accept` fails for want of descriptors before the
  `curfds >= MAXEPOLLSIZE` branch could be taken.
* **WebClientsProofs** — `LimitKept`, `NdoneCounts`, `SetsKept`.  For the threaded clients `Places`
  says which program's main can be where, and `Counts` that `nconn`, `nlefttoconn` and the flags
  follow the threads, up to the one that `web02`'s main has started and not yet counted.  For
  `nonblock/web.c` `FdsInv` says that connections under way have distinct descriptors and that
  what `select` reported still holds when the loop comes to it; `NewFd`, the lowest free number,
  exists since no more are open than there are files.

Only model-checked:

* all liveness properties: fairness and ENABLED are beyond the prover;
* the safety properties of the runs `library`, `message_clients` and `icmp_tools`.  Those of
  `library` compare what a computation returns with a reference definition (`AnswersExact`,
  `BytesInOrder`), which is induction over its data, or count blocks on the heap over all
  error paths of it (`NothingLeaks`); those of the other two (`RepliesExact`, `NoStrayAlarm`,
  `CountsExact`) are conjunctions over a dozen programs each.

## Not modelled

`PROJECT.json` lists every other part with the reason.  In short:

* programs that keep no state between two calls: UDP echo loops, `mysdr`, `ssntp`,
  `mcast/send.c`, clients with fixed input;
* programs that print kernel tables or options (`route`, `ioctl`, `key`, `sockopt`,
  `streams`), whose substance is the kernel's format;
* pure conversions of characters (`inet_pton`, `inet_ntop`, `in_cksum`, `getnameinfo`), which
  the repository's own tests enumerate and no program's control depends on;
* `sock`, an option-driven test tool, but for its two-way loop;
* wrappers that call one function and end the program on error (they are the error ends
  of the actions), copies kept beside the code and not built, generated configuration,
  and prose.

## Running

    tlc -config MCServers.cfg Servers
    tlapm PreforkProofs.tla

and likewise for the other modules; `PROJECT.json` pairs modules and configurations.
