---------------------------- MODULE ConnService ----------------------------
(***************************************************************************)
(* What every concurrent server promises of a connection: it waits in the   *)
(* listen queue until it is accepted, in the order of arrival, or dropped;  *)
(* from then on it is in the hands of one holder at a time, the acceptor    *)
(* (main, with what it has stored for others) or a worker, and a worker has *)
(* one at a time; once given up it is never served again.                   *)
(***************************************************************************)
EXTENDS Integers, Sequences

CONSTANTS
  Acceptor,   \* the holder that may have several connections
  Workers     \* the others

VARIABLES
  made,       \* connections made, numbered from 1
  queue,      \* those not yet accepted
  holders     \* of each connection: who has it

Conns == DOMAIN holders
Free(h) == h = Acceptor \/ \A c \in Conns : h \notin holders[c]

Init == made = 0 /\ queue = << >> /\ holders = [c \in Conns |-> {}]

Connect ==
  /\ made' = made + 1 /\ queue' = Append(queue, made + 1)
  /\ UNCHANGED holders

Drop ==
  /\ \E k \in 1 .. Len(queue) :
       queue' = SubSeq(queue, 1, k - 1) \o SubSeq(queue, k + 1, Len(queue))
  /\ UNCHANGED <<made, holders>>

Take(h) ==
  /\ queue # << >> /\ Free(h)
  /\ queue' = Tail(queue) /\ holders' = [holders EXCEPT ![Head(queue)] = {h}]
  /\ UNCHANGED made

\* The acceptor hands a connection to a worker.
Pass(c, h) ==
  /\ holders[c] = {Acceptor} /\ Free(h)
  /\ holders' = [holders EXCEPT ![c] = {h}]
  /\ UNCHANGED <<made, queue>>

\* Connections are closed: one, or all those of a process that ends.
Close ==
  /\ \E S \in SUBSET Conns :
       holders' = [c \in Conns |-> IF c \in S THEN {} ELSE holders[c]]
  /\ UNCHANGED <<made, queue>>

Next ==
  \/ Connect \/ Drop \/ Close
  \/ \E h \in Workers \cup {Acceptor} : Take(h) \/ \E c \in Conns : Pass(c, h)

Spec == Init /\ [][Next]_<<made, queue, holders>>
=============================================================================
