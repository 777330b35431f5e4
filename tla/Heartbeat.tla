------------------------------ MODULE Heartbeat ------------------------------
(***************************************************************************)
(* The heartbeat over out-of-band data (oob/heartbeatcli.c and             *)
(* oob/heartbeatserv.c, called by oob/strcliselect02.c and                 *)
(* oob/strecho02.c).  Each end has an alarm every second and a counter     *)
(* nprobes of the alarms since it heard from its peer.  The client's alarm *)
(* sends an out-of-band byte, the server's SIGURG handler sends it back;   *)
(* too many alarms without SIGURG end the process.  Both handlers of a     *)
(* process use nprobes, neither blocks the other, and ++nprobes is a load  *)
(* and a store: sig_urg may run between the two.                           *)
(*                                                                         *)
(* A second passes (Second) when the handlers of the last one have run.    *)
(* Bytes arrive in the second they were sent in, except in MaxLate seconds *)
(* of a run, when TCP has to send one again.  Either host may crash: a     *)
(* network that fails looks the same to the end that is left.              *)
(***************************************************************************)
EXTENDS Naturals, Sequences

CONSTANTS MaxProbes,   \* the limit both are called with (strcliselect02.c:10)
          MaxLate      \* in how many seconds a byte may be late

VARIABLES
  timer,     \* timer[p]: alarm(nsec) runs
  due,       \* due[p]: SIGALRM is pending
  urg,       \* urg[p]: SIGURG is pending
  stack,     \* stack[p]: where each handler of p stands, the running one first
  reg,       \* reg[p]: the nprobes that sig_alrm loaded
  nprobes,   \* nprobes[p]
  oob,       \* oob[p]: the out-of-band byte of p's socket
  flight,    \* flight[p]: how many bytes p has sent and TCP not delivered
  main,      \* where the client's loop stands
  over,      \* over[p]: how p ended
  late,      \* the seconds that found a byte still on its way
  lost,      \* lost[p]: how many resets in a row a store of sig_alrm undid
  rearmed    \* sig_alrm ran after the client turned its heartbeat off

Ends2 == {"cli", "serv"}
Peer(p) == IF p = "cli" THEN "serv" ELSE "cli"

\* nsec and its limit, as both functions adjust them (heartbeatcli.c:13-16).
nsec == 1
Limit == IF MaxProbes < nsec THEN nsec ELSE MaxProbes

BeatInit ==
  /\ timer = [p \in Ends2 |-> TRUE]
  /\ due = [p \in Ends2 |-> FALSE] /\ urg = [p \in Ends2 |-> FALSE]
  /\ stack = [p \in Ends2 |-> << >>] /\ reg = [p \in Ends2 |-> 0]
  /\ nprobes = [p \in Ends2 |-> 0] /\ oob = [p \in Ends2 |-> FALSE]
  /\ flight = [p \in Ends2 |-> 0] /\ main = "loop"
  /\ over = [p \in Ends2 |-> "none"]
  /\ late = 0 /\ lost = [p \in Ends2 |-> 0] /\ rearmed = FALSE

Alive(p) == over[p] = "none"
Push(p, frame) == stack' = [stack EXCEPT ![p] = <<frame>> \o @]
Running(p, frame) == Alive(p) /\ stack[p] # << >> /\ Head(stack[p]) = frame
Return(p) == stack' = [stack EXCEPT ![p] = Tail(@)]
InHandler(p, frames) == \E j \in 1 .. Len(stack[p]) : stack[p][j] \in frames

\* The process or its host is gone, and its signals with it.
Quit(p, how) ==
  /\ over' = [over EXCEPT ![p] = how]
  /\ timer' = [timer EXCEPT ![p] = FALSE] /\ due' = [due EXCEPT ![p] = FALSE]
  /\ urg' = [urg EXCEPT ![p] = FALSE] /\ stack' = [stack EXCEPT ![p] = << >>]
  /\ reg' = [reg EXCEPT ![p] = 0] /\ nprobes' = [nprobes EXCEPT ![p] = 0]
  /\ oob' = [oob EXCEPT ![p] = FALSE]
  /\ flight' = [flight EXCEPT ![Peer(p)] = 0, ![p] = IF how = "crashed" THEN 0 ELSE @]
  /\ UNCHANGED <<main, late, lost, rearmed>>

\* What p sends reaches its peer.
Deliverable(p) == Alive(Peer(p))

\* send() of one byte with MSG_OOB.  After shutdown(), or when the peer's
\* socket is closed and its RST came back, SIGPIPE ends the sender.
SendOOB(p, then) ==
  \/ /\ ~(p = "cli" /\ main = "shut")
     /\ flight' = [flight EXCEPT ![p] = IF Deliverable(p) THEN @ + 1 ELSE 0]
     /\ then /\ UNCHANGED <<main, over, late>>
  \/ /\ (p = "cli" /\ main = "shut") \/ over[Peer(p)] \notin {"none", "crashed"}
     /\ Quit(p, "sigpipe")

-----------------------------------------------------------------------------
\* SIGALRM: the handler starts and loads nprobes.
AlarmLoad(p) ==
  /\ Alive(p) /\ due[p] /\ ~InHandler(p, {"store"})
  /\ due' = [due EXCEPT ![p] = FALSE]
  /\ reg' = [reg EXCEPT ![p] = nprobes[p]]
  /\ Push(p, "store")
  /\ UNCHANGED <<timer, urg, nprobes, oob, flight, main, over, late, lost, rearmed>>

\* The rest of sig_alrm: give up, or (the client) send a probe, and re-arm.
Rearm(p) ==
  /\ nprobes' = [nprobes EXCEPT ![p] = reg[p] + 1]
  /\ lost' = [lost EXCEPT ![p] = IF nprobes[p] < reg[p] THEN @ + 1 ELSE @]
  /\ timer' = [timer EXCEPT ![p] = TRUE]
  /\ rearmed' = (rearmed \/ (p = "cli" /\ main # "loop"))
  /\ reg' = [reg EXCEPT ![p] = 0] /\ Return(p)
  /\ UNCHANGED <<due, urg, oob>>

sig_alrm(p) ==
  /\ Running(p, "store")
  /\ IF reg[p] + 1 > Limit
     THEN Quit(p, IF p = "cli" THEN "unreachable" ELSE "noprobes")
     ELSE IF p = "cli" THEN SendOOB(p, Rearm(p))
     ELSE Rearm(p) /\ UNCHANGED <<flight, main, over, late>>

\* SIGURG: the handler starts,
UrgStart(p) ==
  /\ Alive(p) /\ urg[p] /\ ~InHandler(p, {"recv", "reset"})
  /\ urg' = [urg EXCEPT ![p] = FALSE]
  /\ Push(p, "recv")
  /\ UNCHANGED <<timer, due, reg, nprobes, oob, flight, main, over, late, lost, rearmed>>

\* recv() takes the byte, or fails with EWOULDBLOCK when only the urgent
\* pointer has come; EINVAL (the byte was read already) ends the process.
\* The server sends the byte back.
Received(p) ==
  /\ \E read \in BOOLEAN : oob' = [oob EXCEPT ![p] = ~read]
  /\ stack' = [stack EXCEPT ![p] = <<"reset">> \o Tail(@)]
  /\ UNCHANGED <<timer, due, urg, reg, nprobes, lost, rearmed>>

sig_urg(p) ==
  /\ Running(p, "recv")
  /\ IF ~oob[p]
     THEN Quit(p, "recv error")
     ELSE IF p = "serv" THEN SendOOB(p, Received(p))
     ELSE Received(p) /\ UNCHANGED <<flight, main, over, late>>

\* Mutant: the counter is not reset.
UrgNoReset(p) ==
  /\ Running(p, "reset") /\ Return(p)
  /\ UNCHANGED <<timer, due, urg, reg, nprobes, oob, flight, main, over, late, lost, rearmed>>

\* nprobes = 0, and return.
UrgReset(p) ==
  /\ Running(p, "reset")
  /\ nprobes' = [nprobes EXCEPT ![p] = 0]
  /\ lost' = IF InHandler(p, {"store"}) THEN lost ELSE [lost EXCEPT ![p] = 0]
  /\ Return(p)
  /\ UNCHANGED <<timer, due, urg, reg, oob, flight, main, over, late, rearmed>>

Handlers(p) == AlarmLoad(p) \/ sig_alrm(p) \/ UrgStart(p) \/ sig_urg(p) \/ UrgReset(p)

-----------------------------------------------------------------------------
(* The programs that carry the heartbeat, and the kernel.                  *)

\* str_cli() at EOF of standard input: alarm(0), and then shutdown().  A
\* SIGALRM that is pending by then is delivered after alarm(0).
HeartbeatOff ==
  /\ main = "loop" /\ Alive("cli") /\ stack["cli"] = << >>
  /\ main' = "off" /\ timer' = [timer EXCEPT !["cli"] = FALSE]
  /\ UNCHANGED <<due, urg, stack, reg, nprobes, oob, flight, over, late, lost, rearmed>>

Shutdown ==
  /\ main = "off" /\ Alive("cli") /\ stack["cli"] = << >> /\ ~due["cli"]
  /\ main' = "shut"
  /\ UNCHANGED <<timer, due, urg, stack, reg, nprobes, oob, flight, over, late, lost, rearmed>>

\* The FIN of the peer is behind its bytes.  str_echo() returns when it has
\* read the client's; str_cli() ends when it has read the server's.
ReadEof(p) ==
  /\ Alive(p) /\ stack[p] = << >> /\ flight[Peer(p)] = 0
  /\ \/ p = "serv" /\ main = "shut"
     \/ over[Peer(p)] \notin {"none", "crashed"}
  /\ Quit(p, "eof")

\* The urgent pointer of p's next byte arrives, with the byte or before it.
\* A byte that was not yet read is no longer out of band.
Arrive(p) ==
  /\ flight[p] > 0
  /\ flight' = [flight EXCEPT ![p] = @ - 1]
  /\ oob' = [oob EXCEPT ![Peer(p)] = TRUE]
  /\ urg' = [urg EXCEPT ![Peer(p)] = TRUE]
  /\ UNCHANGED <<timer, due, stack, reg, nprobes, main, over, late, lost, rearmed>>

\* A second passes.
KeptUp(p) == Alive(p) => ~due[p] /\ ~urg[p] /\ stack[p] = << >>
Second ==
  /\ \E p \in Ends2 : timer[p]
  /\ \A p \in Ends2 : KeptUp(p)
  /\ late' = IF \E p \in Ends2 : flight[p] > 0 THEN late + 1 ELSE late
  /\ late' <= MaxLate
  /\ due' = timer /\ timer' = [p \in Ends2 |-> FALSE]
  /\ UNCHANGED <<urg, stack, reg, nprobes, oob, flight, main, over, lost, rearmed>>

\* The host of p crashes: it sends no FIN.
Crash(p) == Alive(p) /\ Quit(p, "crashed")

Kernel == (\E p \in Ends2 : Arrive(p)) \/ Second
BeatNext ==
  \/ \E p \in Ends2 : Handlers(p) \/ ReadEof(p) \/ Crash(p)
  \/ HeartbeatOff \/ Shutdown \/ Kernel

-----------------------------------------------------------------------------
(* Properties.                                                             *)

\* With both hosts up, neither end takes the other for gone, unless resets of
\* its counter were undone one after the other, Limit - 1 less one for each
\* late second; or, for the server, the client has turned its heartbeat off
\* and waits for the last echoes.  The client is killed by SIGPIPE while its
\* server is there only if SIGALRM was pending at alarm(0): the handler re-arms
\* the alarm, and the next probe is sent after shutdown().
NoFalseAlarm ==
  LET Undone(p) == lost[p] >= Limit - 1 - late IN
  /\ over["cli"] = "unreachable" => ~Alive("serv") \/ Undone("cli")
  /\ over["serv"] = "noprobes" => ~Alive("cli") \/ main # "loop" \/ Undone("serv")
  /\ over["cli"] = "sigpipe" => ~Alive("serv") \/ rearmed
  /\ over["serv"] = "sigpipe" => ~Alive("cli")

\* A process whose peer's host has crashed; it ends, or it is a client that has
\* turned its heartbeat off, which nothing wakes.
Unheard(p) == Alive(p) /\ over[Peer(p)] = "crashed"
Noticed(p) == ~Alive(p) \/ (p = "cli" /\ main # "loop" /\ ~rearmed)
=============================================================================
