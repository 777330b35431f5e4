--------------------------- MODULE ServersProofs ---------------------------
(***************************************************************************)
(* Proofs about the concurrent servers (Servers) for any number of          *)
(* children, threads and connections and any ring size.  Serv08, whose      *)
(* module Servers extends, is proved here; the other servers' own proofs    *)
(* are used through instances of their proof modules.                       *)
(***************************************************************************)
EXTENDS Servers, TLAPS

\* The provers of a leaf that names none, in the order they are tried.
USE SMT, Zenon, Z3

\* What a thread has taken is no newer than the last connection taken.
TakenInv == \A t \in Threads : connfd[t] <= ntaken

IInv ==
  TypeOK /\ RingInv /\ ServedOnce /\ NoLostWakeup /\ QuitsOnlyWhenFull /\ TakenInv

USE MAXNCLIAssumption, MaxConnsAssumption

\* Sets of threads can be counted.  Counted below proves it, from the theorems
\* about finite sets; until then it is a hypothesis of the lemmas that count.
Counting ==
  \A S \in SUBSET Threads :
    /\ Cardinality(S) \in Nat
    /\ \A t \in Threads \ S : Cardinality(S \cup {t}) = Cardinality(S) + 1
    /\ \A t \in S : Cardinality(S \ {t}) = Cardinality(S) - 1

\* The awake threads can be counted.
LEMMA AwakeFinite ==
  ASSUME Counting
  PROVE  Cardinality(Awake) \in Nat /\ (Awake # {} => Cardinality(Awake) # 0)
<1>1. Awake \in SUBSET Threads
  BY DEF Awake
<1>2. ASSUME NEW t \in Awake PROVE Cardinality(Awake) - 1 \in Nat
  <2>1. Awake \ {t} \in SUBSET Threads
    BY <1>1
  <2>2. Cardinality(Awake \ {t}) \in Nat
    BY <2>1 DEF Counting
  <2> QED
    BY <1>1, <2>2 DEF Counting
<1> QED
  BY <1>1, <1>2 DEF Counting

\* The invariant holds when the threads have been made.
LEMMA InitIInv == Init => IInv
<1> SUFFICES ASSUME Init PROVE IInv
  OBVIOUS
<1>1. TypeOK
  BY DEF Init, TypeOK, Slots, Conns
<1>2. RingInv /\ QuitsOnlyWhenFull
  BY DEF Init, RingInv, Queued, Slot, QuitsOnlyWhenFull
<1>3. ServedOnce /\ TakenInv
  BY DEF Init, ServedOnce, TakenInv
<1>4. NoLostWakeup
  BY DEF Init, NoLostWakeup, Waiting
<1> QED
  BY <1>1, <1>2, <1>3, <1>4 DEF IInv

\* A wakeup, by signal, spuriously or by Close, adds one thread to Awake.
LEMMA Wake ==
  ASSUME Counting, TypeOK, NEW t \in Threads, thread[t] # "lock",
         thread' = [thread EXCEPT ![t] = "lock"]
  PROVE  Cardinality(Awake') = Cardinality(Awake) + 1
<1>1. Awake' = Awake \cup {t} /\ t \notin Awake /\ Awake \in SUBSET Threads
  BY DEF TypeOK, Awake
<1> QED
  BY <1>1 DEF Counting

\* A thread that goes to serve or to wait leaves Awake.
LEMMA Leave ==
  ASSUME Counting, TypeOK, NEW t \in Threads, thread[t] = "lock",
         NEW st \in {"wait", "web_child"}, thread' = [thread EXCEPT ![t] = st]
  PROVE  Cardinality(Awake') = Cardinality(Awake) - 1
<1>1. Awake' = Awake \ {t} /\ t \in Awake /\ Awake \in SUBSET Threads
  BY DEF TypeOK, Awake
<1> QED
  BY <1>1 DEF Counting

\* The counters are naturals in order.
LEMMA Counters ==
  ASSUME TypeOK
  PROVE  /\ nconns \in Nat /\ naccepted \in Nat /\ ntaken \in Nat
         /\ ntaken <= naccepted /\ naccepted <= nconns /\ nconns <= MaxConns
  BY DEF TypeOK

\* A client connects, or accept returns to main.
LEMMA AcceptStep == ASSUME IInv, Connect \/ Accept PROVE IInv'
<1>1. /\ UNCHANGED <<clifd, iput, iget, thread, connfd, thread_count, ntaken>>
      /\ main' \in {"accept", "put"} \cup Ends
      /\ nconns' \in Nat /\ naccepted' \in Nat
      /\ ntaken <= naccepted' /\ naccepted' <= nconns' /\ nconns' <= MaxConns
  <2>1. CASE Connect
    BY <2>1, Counters DEF IInv, TypeOK, Connect, ring, pool
  <2>2. CASE Accept
    BY <2>2, Counters DEF IInv, Accept, ring, pool
  <2> QED
    BY <2>1, <2>2
<1>2. TypeOK'
  BY <1>1, Counters DEF IInv, TypeOK
<1>3. Queued' = Queued /\ Alive /\ Alive' /\ UNCHANGED <<ring, pool>>
  <2>1. CASE Connect
    BY <2>1 DEF Connect, Queued, Alive, ring, pool
  <2>2. CASE Accept
    BY <2>2, Counters DEF IInv, Accept, Queued, Alive, Ends, ring, pool
  <2> QED
    BY <2>1, <2>2
<1>4. RingInv'
  BY <1>3 DEF IInv, RingInv, Slot, ring, pool
<1>5. ServedOnce' /\ TakenInv'
  BY <1>3 DEF IInv, ServedOnce, TakenInv, pool
<1>6. NoLostWakeup'
  BY <1>3 DEF IInv, NoLostWakeup, Waiting, Awake, pool
<1>7. QuitsOnlyWhenFull'
  BY <1>3, Zenon DEF QuitsOnlyWhenFull, Alive, Ends
<1> QED
  BY <1>2, <1>4, <1>5, <1>6, <1>7 DEF IInv

\* main puts a connection in clifd, quits when the ring is full, or signals a thread.
LEMMA PutStep == ASSUME Counting, IInv, Put PROVE IInv'
<1>1. /\ main = "put" /\ Alive /\ naccepted \in Conns
      /\ Queued \in 0 .. MAXNCLI - 1 /\ Queued = naccepted - ntaken - 1
  <2>1. main = "put" /\ Alive
    BY Zenon DEF Put, Alive, Ends
  <2>2. Queued \in 0 .. MAXNCLI - 1 /\ Queued = naccepted - ntaken - 1
    BY <2>1 DEF IInv, RingInv, Queued
  <2> QED
    BY <2>1, <2>2, Counters DEF IInv, Conns
<1>2. UNCHANGED <<nconns, naccepted, ntaken, iget, connfd, thread_count>>
  BY Zenon DEF Put
<1>3. /\ thread' \in [Threads -> {"lock", "wait", "web_child"}]
      /\ main' \in {"accept", "iput = iget"}
  BY Zenon DEF IInv, TypeOK, Put, Signal
<1>4. clifd' = [clifd EXCEPT ![iput] = naccepted] /\ iput' = Wrap(iput) /\ iput' \in Slots
  <2>1. iput \in Slots
    BY DEF IInv, TypeOK
  <2>2. Wrap(iput) \in Slots
    BY <2>1 DEF Wrap, Slots
  <2> QED
    BY <2>2, Zenon DEF Put
<1>5. TypeOK'
  <2>1. clifd' \in [Slots -> Conns \cup {0}]
    BY <1>1, <1>4 DEF IInv, TypeOK
  <2> QED
    BY <2>1, <1>2, <1>3, <1>4, Zenon DEF IInv, TypeOK, Ends
<1>6. iput = Slot(Queued) /\ iget \in Slots
  BY <1>1 DEF IInv, RingInv, TypeOK
<1>7. Wrap(iput) = iget <=> Queued = MAXNCLI - 1
  BY <1>1, <1>6 DEF Slot, Wrap, Slots
<1>8. main' = "iput = iget" <=> Wrap(iput) = iget
  BY Zenon DEF Put
<1>9. QuitsOnlyWhenFull'
  <2>1. naccepted' - ntaken' = Queued + 1
    BY <1>1, <1>2, Counters DEF IInv
  <2>2. main' = "iput = iget" => Queued = MAXNCLI - 1
    BY <1>7, <1>8, Zenon
  <2>3. Queued = MAXNCLI - 1 => Queued + 1 = MAXNCLI
    BY <1>1
  <2> QED
    BY <2>1, <2>2, <2>3, Zenon DEF QuitsOnlyWhenFull
<1>10. ASSUME Alive'
       PROVE  /\ main' = "accept" /\ Queued' = Queued + 1 /\ Queued < MAXNCLI - 1
              /\ Wrap(iput) # iget
  <2>1. main' = "accept" /\ Wrap(iput) # iget
    BY <1>10, <1>3, <1>8, Zenon DEF Alive, Ends
  <2>2. Queued' = naccepted' - ntaken'
    BY <2>1, <1>2, Counters DEF IInv, Queued
  <2>3. Queued' = Queued + 1
    BY <2>2, <1>1, <1>2, Counters DEF IInv
  <2>4. Queued < MAXNCLI - 1
    BY <2>1, <1>1, <1>7
  <2> QED
    BY <2>1, <2>3, <2>4
<1>11. RingInv'
  <2> SUFFICES ASSUME Alive'
               PROVE  /\ Queued' \in 0 .. MAXNCLI - 1 /\ iput' = Slot(Queued)'
                      /\ \A k \in 0 .. Queued' - 1 : clifd'[Slot(k)'] = ntaken' + 1 + k
    BY DEF RingInv
  <2>1. Queued' = Queued + 1 /\ Queued' \in 0 .. MAXNCLI - 1
    BY <1>1, <1>10
  <2>2. iput' = Slot(Queued)'
    BY <2>1, <1>1, <1>2, <1>4, <1>6 DEF Slot, Wrap, Slots
  <2>3. ASSUME NEW k \in 0 .. Queued' - 1
        PROVE  clifd'[Slot(k)'] = ntaken' + 1 + k
    <3>1. Slot(k)' = Slot(k) /\ Slot(k) \in Slots
      BY <1>1, <1>2, <1>6, <2>1 DEF Slot, Slots
    <3>2. CASE k = Queued
      BY <3>1, <3>2, <1>1, <1>2, <1>4, <1>6 DEF IInv, TypeOK
    <3>3. CASE k # Queued
      <4>1. k \in 0 .. Queued - 1 /\ Slot(k) # iput
        BY <3>3, <1>1, <1>6, <2>1 DEF Slot, Slots
      <4>2. clifd[Slot(k)] = ntaken + 1 + k
        BY <4>1, <1>1 DEF IInv, RingInv
      <4> QED
        BY <3>1, <4>1, <4>2, <1>2, <1>4 DEF IInv, TypeOK
    <3> QED
      BY <3>2, <3>3
  <2> QED
    BY <2>1, <2>2, <2>3
<1>12. ServedOnce' /\ TakenInv'
  BY <1>2 DEF IInv, ServedOnce, TakenInv
<1>13. NoLostWakeup'
  <2> SUFFICES ASSUME Alive', Waiting' # {} PROVE Queued' <= Cardinality(Awake')
    BY DEF NoLostWakeup
  <2>1. Signal /\ Queued' = Queued + 1
    BY <1>10, <1>8 DEF Put
  <2>2. Waiting # {}
    BY <2>1 DEF Signal, Waiting
  <2>3. PICK t \in Waiting : thread' = [thread EXCEPT ![t] = "lock"]
    BY <2>1, <2>2 DEF Signal
  <2>4. Cardinality(Awake') = Cardinality(Awake) + 1
    BY <2>3, Wake, Zenon DEF IInv, Waiting
  <2>5. Queued <= Cardinality(Awake)
    BY <1>1, <2>2 DEF IInv, NoLostWakeup
  <2> QED
    BY <2>1, <2>4, <2>5, <1>1, AwakeFinite
<1> QED
  BY <1>5, <1>9, <1>11, <1>12, <1>13 DEF IInv

\* A thread takes the connection at iget.
LEMMA GetStep == ASSUME Counting, IInv, NEW t \in Threads, Get(t) PROVE IInv'
<1>1. Alive /\ Alive' /\ thread[t] = "lock" /\ iget # iput
  BY DEF Get, Alive
<1>2. /\ connfd' = [connfd EXCEPT ![t] = clifd[iget]] /\ iget' = Wrap(iget)
      /\ ntaken' = ntaken + 1 /\ thread' = [thread EXCEPT ![t] = "web_child"]
      /\ thread_count' = [thread_count EXCEPT ![t] = @ + 1]
      /\ UNCHANGED <<nconns, naccepted, clifd, iput, main>>
  BY DEF Get
<1>3. /\ Queued \in 0 .. MAXNCLI - 1 /\ iput = Slot(Queued)
      /\ \A k \in 0 .. Queued - 1 : clifd[Slot(k)] = ntaken + 1 + k
  BY <1>1 DEF IInv, RingInv
<1>4. iget \in Slots /\ iput \in Slots /\ Wrap(iget) \in Slots
  BY DEF IInv, TypeOK, Wrap, Slots
<1>5. Queued >= 1 /\ Slot(0) = iget
  BY <1>1, <1>3, <1>4 DEF Slot, Slots
<1>6. clifd[iget] = ntaken + 1
  <2>1. 0 \in 0 .. Queued - 1
    BY <1>3, <1>5
  <2>2. clifd[Slot(0)] = ntaken + 1 + 0
    BY <2>1, <1>3
  <2> QED
    BY <2>2, <1>5, Counters DEF IInv
<1>7. Queued' = Queued - 1 /\ ntaken' <= naccepted
  BY <1>2, <1>5, Counters DEF IInv, Queued
<1>8. ntaken' \in Conns /\ ntaken' \in 0 .. naccepted
  BY <1>2, <1>7, Counters DEF IInv, Conns
<1>9. TypeOK'
  <2>1. connfd' \in [Threads -> Conns \cup {0}]
    BY <1>2, <1>6, <1>8 DEF IInv, TypeOK
  <2>2. thread_count' \in [Threads -> Nat]
    BY <1>2 DEF IInv, TypeOK
  <2> QED
    BY <2>1, <2>2, <1>2, <1>4, <1>8 DEF IInv, TypeOK
<1>10. RingInv'
  <2>1. \A k \in 0 .. Queued - 1 : Slot(k)' = Slot(k + 1)
    BY <1>2, <1>3, <1>4 DEF Slot, Wrap, Slots
  <2>2. iput' = Slot(Queued)'
    BY <1>2, <1>3, <1>4, <1>5, <1>7 DEF Slot, Wrap, Slots
  <2>3. ASSUME NEW k \in 0 .. Queued' - 1
        PROVE  clifd'[Slot(k)'] = ntaken' + 1 + k
    <3>1. k \in 0 .. Queued - 1 /\ k + 1 \in 0 .. Queued - 1
      BY <1>3, <1>7
    <3>2. clifd[Slot(k + 1)] = ntaken + 1 + (k + 1)
      BY <3>1, <1>3
    <3> QED
      BY <3>1, <3>2, <2>1, <1>2, Counters DEF IInv
  <2> QED
    BY <2>2, <2>3, <1>3, <1>5, <1>7 DEF RingInv
<1>11. TakenInv'
  <2>1. \A s \in Threads : connfd[s] \in Nat /\ connfd[s] <= ntaken
    BY DEF IInv, TypeOK, TakenInv, Conns
  <2> QED
    BY <2>1, <1>2, <1>6, Counters DEF IInv, TypeOK, TakenInv
<1>12. ServedOnce'
  <2>1. \A s \in Threads : connfd[s] # ntaken + 1
    BY Counters DEF IInv, TypeOK, TakenInv, Conns
  <2> QED
    BY <2>1, <1>2, <1>6 DEF IInv, TypeOK, ServedOnce
<1>13. NoLostWakeup'
  <2> SUFFICES ASSUME Waiting' # {} PROVE Queued' <= Cardinality(Awake')
    BY DEF NoLostWakeup
  <2>1. Waiting # {}
    BY <1>2 DEF IInv, TypeOK, Waiting
  <2>2. Queued <= Cardinality(Awake)
    BY <2>1, <1>1 DEF IInv, NoLostWakeup
  <2>3. Cardinality(Awake') = Cardinality(Awake) - 1
    BY <1>1, <1>2, Leave, Zenon DEF IInv
  <2> QED
    BY <2>2, <2>3, <1>3, <1>7, AwakeFinite
<1>14. QuitsOnlyWhenFull'
  BY <1>1, Zenon DEF QuitsOnlyWhenFull, Alive, Ends
<1> QED
  BY <1>9, <1>10, <1>11, <1>12, <1>13, <1>14 DEF IInv

\* The steps that move one thread between waiting and looking.
LEMMA ThreadStep ==
  ASSUME Counting, IInv, NEW t \in Threads, Cond_wait(t) \/ Spurious(t) \/ Close(t)
  PROVE  IInv'
<1>1. /\ Alive /\ Alive'
      /\ UNCHANGED <<nconns, naccepted, ntaken, clifd, iput, iget, main, connfd, thread_count>>
  BY DEF Cond_wait, Spurious, Close, Alive, ring
<1>2. TypeOK'
  <2>1. thread' \in [Threads -> {"lock", "wait", "web_child"}]
    BY DEF IInv, TypeOK, Cond_wait, Spurious, Close
  <2> QED
    BY <2>1, <1>1 DEF IInv, TypeOK
<1>3. Queued' = Queued
  BY <1>1 DEF Queued
<1>4. RingInv'
  BY <1>1, <1>3 DEF IInv, RingInv, Slot
<1>5. ServedOnce' /\ TakenInv' /\ QuitsOnlyWhenFull'
  BY <1>1, Zenon DEF IInv, ServedOnce, TakenInv, QuitsOnlyWhenFull
<1>6. NoLostWakeup'
  <2>1. Queued \in 0 .. MAXNCLI - 1
    BY <1>1 DEF IInv, RingInv
  <2>2. CASE Cond_wait(t)
    <3>1. Queued = 0
      <4>1. iput = Slot(Queued) /\ iget = iput /\ iget \in Slots
        BY <1>1, <2>2 DEF IInv, RingInv, TypeOK, Cond_wait
      <4> QED
        BY <4>1, <2>1 DEF Slot, Slots
    <3>2. Cardinality(Awake') = Cardinality(Awake) - 1 /\ t \in Awake
      BY <2>2, Leave, Zenon DEF IInv, Cond_wait, Awake
    <3>3. Cardinality(Awake) # 0
      BY <3>2, AwakeFinite
    <3> QED
      BY <3>1, <3>2, <3>3, <1>3, AwakeFinite DEF NoLostWakeup
  <2>3. CASE Spurious(t) \/ Close(t)
    <3>1. Cardinality(Awake') = Cardinality(Awake) + 1
      BY <2>3, Wake DEF IInv, Spurious, Close
    <3>2. Waiting' # {} => Waiting # {}
      BY <2>3 DEF IInv, TypeOK, Waiting, Spurious, Close
    <3>3. Waiting' # {} => Queued <= Cardinality(Awake)
      BY <3>2, <1>1 DEF IInv, NoLostWakeup
    <3>4. Waiting' # {} => Queued' <= Cardinality(Awake')
      BY <3>1, <3>3, <1>3, <2>1, AwakeFinite
    <3> QED
      BY <3>4 DEF NoLostWakeup
  <2> QED
    BY <2>2, <2>3
<1> QED
  BY <1>2, <1>4, <1>5, <1>6 DEF IInv

\* The process ends.
LEMMA ExitStep ==
  ASSUME IInv, sig_int \/ \E t \in Threads : BadRequest(t)
  PROVE  IInv'
<1>1. main' = "exit" /\ UNCHANGED <<nconns, naccepted, ring, pool>>
  BY DEF sig_int, BadRequest
<1>2. TypeOK'
  BY <1>1, Zenon DEF IInv, TypeOK, ring, pool, Ends
<1>3. ServedOnce' /\ TakenInv'
  BY <1>1 DEF IInv, ServedOnce, TakenInv, pool
<1> QED
  BY <1>1, <1>2, <1>3, Zenon DEF IInv, RingInv, NoLostWakeup, QuitsOnlyWhenFull, Alive, Ends

\* Every step of serv08 keeps the invariant.
LEMMA StepIInv == ASSUME Counting, IInv, [Next]_vars PROVE IInv'
<1>1. CASE UNCHANGED vars
  BY <1>1, Zenon DEF vars, ring, pool, IInv, TypeOK, RingInv, ServedOnce, NoLostWakeup,
              QuitsOnlyWhenFull, TakenInv, Alive, Waiting, Awake, Queued, Slot
<1>2. CASE Next
  BY <1>2, AcceptStep, PutStep, GetStep, ThreadStep, ExitStep DEF Next, thread_main
<1> QED
  BY <1>1, <1>2

-----------------------------------------------------------------------------
(* Serv08 refines ConnService.                                                 *)

\* Who has a connection: main from accept to Get, then the thread that took it.
Has08(c) ==
  (IF ntaken < c /\ c <= naccepted THEN {Acceptor} ELSE {})
  \cup {t \in Threads : thread[t] = "web_child" /\ connfd[t] = c}
HoldersInv == Alive => \A c \in Conns : Holders(c) = Has08(c)

\* The counters say who holds a connection: main, the ring, or the thread that took it.
LEMMA HoldersFollow == IInv => HoldersInv
<1> SUFFICES ASSUME IInv, Alive, NEW c \in Conns PROVE Holders(c) = Has08(c)
  BY DEF HoldersInv
<1>1. /\ Queued \in 0 .. MAXNCLI - 1 /\ iput = Slot(Queued) /\ iget \in Slots
      /\ \A k \in 0 .. Queued - 1 : clifd[Slot(k)] = ntaken + 1 + k
  BY DEF IInv, RingInv, TypeOK
<1>2. InRing = Queued
  BY <1>1 DEF InRing, Slot, Slots
<1>3. c \in Nat /\ ntaken \in Nat /\ naccepted \in Nat
  BY Counters DEF IInv, Conns
<1>4. c \in Stored <=> ntaken < c /\ c <= ntaken + Queued
  <2>1. c \in Stored <=> \E k \in 0 .. Queued - 1 : c = ntaken + 1 + k
    BY <1>1, <1>2 DEF Stored
  <2>2. ASSUME ntaken < c, c <= ntaken + Queued
        PROVE  c - ntaken - 1 \in 0 .. Queued - 1 /\ c = ntaken + 1 + (c - ntaken - 1)
    BY <1>1, <1>3, <2>2
  <2> QED
    BY <1>1, <1>3, <2>1, <2>2
<1>5. (main = "put" /\ naccepted = c) \/ c \in Stored <=> ntaken < c /\ c <= naccepted
  <2>1. Queued = naccepted - ntaken - (IF main = "put" THEN 1 ELSE 0)
    BY DEF Queued
  <2> QED
    BY <1>1, <1>3, <1>4, <2>1
<1> QED
  BY <1>5 DEF Holders, Has08

\* The same after a step.
LEMMA HoldersFollowNext == IInv' => HoldersInv'
  BY HoldersFollow, PTL

\* What the refinement mapping is for serv08.
LEMMA At08 ==
  ASSUME server = "serv08", server' = "serv08"
  PROVE  /\ DOMAIN holders = Conns /\ \A c \in Conns : holders[c] = Holders(c)
         /\ holders' = [c \in Conns |-> Holders(c)']
         /\ Queue = Backlog /\ Queue' = Backlog'
  BY DEF holders, ServerConns, Conns, HolderSet, Queue

\* Some connections are closed, none changes hands otherwise.
LEMMA CloseImplements08 ==
  ASSUME server = "serv08", server' = "serv08", UNCHANGED <<nconns, Backlog>>,
         \A c \in Conns : Holders(c)' = Holders(c) \/ Holders(c)' = {}
  PROVE  Service!Next
<1> DEFINE S == {c \in Conns : Holders(c)' = {}}
<1>1. holders' = [c \in Conns |-> IF c \in S THEN {} ELSE holders[c]] /\ S \in SUBSET Conns
  BY At08
<1>2. Service!Close
  BY <1>1, At08, Zenon DEF Service!Close, Service!Conns
<1> QED
  BY <1>2 DEF Service!Next

\* When the process has ended nobody holds a connection.
LEMMA HoldersEmpty == ~Alive' => \A c \in Conns : Holders(c)' = {}
  BY DEF Holders

\* The backlog is what has connected and has not been accepted.
LEMMA BacklogFacts ==
  ASSUME TypeOK
  PROVE  /\ Backlog \in Seq(Nat) /\ Len(Backlog) = nconns - naccepted
         /\ nconns - naccepted \in Nat
         /\ \A k \in 1 .. nconns - naccepted : Backlog[k] = naccepted + k
  BY Counters DEF Backlog

\* Connect is the service's.
LEMMA ConnectImplements08 ==
  ASSUME IInv, IInv', server = "serv08", server' = "serv08", Connect
  PROVE  Service!Next
<1>1. nconns' = nconns + 1 /\ UNCHANGED <<naccepted, ring, main, pool>> /\ Alive /\ Alive'
  BY DEF Connect, Alive
<1>2. \A c \in Conns : Holders(c)' = Holders(c)
  BY <1>1 DEF Holders, Stored, InRing, Slot, Alive, ring, pool
<1>3. Backlog' = Append(Backlog, nconns + 1)
  <2>1. nconns \in Nat /\ naccepted \in Nat /\ naccepted <= nconns
    BY Counters DEF IInv
  <2>2. Backlog = [k \in 1 .. nconns - naccepted |-> naccepted + k]
    BY DEF Backlog
  <2>3. Backlog' = [k \in 1 .. (nconns + 1) - naccepted |-> naccepted + k]
    BY <1>1 DEF Backlog
  <2> QED
    BY <2>1, <2>2, <2>3
<1>4. Service!Connect
  <2>1. holders' = holders
    BY <1>2, At08 DEF holders
  <2> QED
    BY <1>1, <1>3, <2>1, At08 DEF Service!Connect
<1> QED
  BY <1>4 DEF Service!Next

\* accept is the service's Accept: main, or the ring, holds the connection.
LEMMA AcceptImplements08 ==
  ASSUME IInv, IInv', server = "serv08", server' = "serv08", Accept
  PROVE  Service!Next
<1>1. /\ naccepted < nconns /\ naccepted' = naccepted + 1
      /\ UNCHANGED <<nconns, ring, pool>> /\ Alive /\ Alive'
  BY DEF Accept, Alive, Ends
<1>2. /\ nconns \in Nat /\ naccepted \in Nat /\ ntaken \in Nat
      /\ ntaken <= naccepted /\ nconns <= MaxConns
  BY Counters DEF IInv
<1>3. PICK d \in Conns : d = naccepted + 1
  BY <1>1, <1>2 DEF Conns
<1>4. Backlog # << >> /\ Head(Backlog) = d /\ Backlog' = Tail(Backlog)
  <2>1. Backlog = [k \in 1 .. nconns - naccepted |-> naccepted + k]
    BY DEF Backlog
  <2>2. Backlog' = [k \in 1 .. nconns - (naccepted + 1) |-> (naccepted + 1) + k]
    BY <1>1 DEF Backlog
  <2> QED
    BY <1>1, <1>2, <1>3, <2>1, <2>2
<1>5. \A c \in Conns : Has08(c)' = IF c = d THEN {Acceptor} ELSE Has08(c)
  <2>1. \A c \in Conns : c \in Nat
    BY DEF Conns
  <2>2. \A t \in Threads : connfd[t] # d
    BY <1>2, <1>3, <2>1 DEF IInv, TakenInv, TypeOK
  <2> QED
    BY <1>1, <1>2, <1>3, <2>1, <2>2 DEF Has08, pool
<1>6. \A c \in Conns : Holders(c)' = IF c = d THEN {Acceptor} ELSE Holders(c)
  BY <1>1, <1>5, HoldersFollow, HoldersFollowNext DEF HoldersInv
<1>7. holders' = [holders EXCEPT ![d] = {Acceptor}]
  BY <1>6, At08, Zenon DEF holders
<1>8. Service!Take(Acceptor)
  BY <1>1, <1>4, <1>7, At08, Zenon DEF Service!Take, Service!Free
<1> QED
  BY <1>8, Zenon DEF Service!Next

\* A put moves no connection: the ring is main's.
LEMMA PutImplements08 ==
  ASSUME IInv, IInv', server = "serv08", server' = "serv08", Put
  PROVE  Service!Next
<1>1. UNCHANGED <<nconns, naccepted, ntaken, connfd>> /\ Alive
  BY Zenon DEF Put, Alive, Ends
<1>2. \A t \in Threads : thread'[t] = "web_child" <=> thread[t] = "web_child"
  BY Zenon DEF Put, Signal, Waiting, IInv, TypeOK
<1>3. \A c \in Conns : Has08(c)' = Has08(c)
  BY <1>1, <1>2 DEF Has08
<1>4. \A c \in Conns : Holders(c)' = Holders(c) \/ Holders(c)' = {}
  BY <1>1, <1>3, HoldersFollow, HoldersFollowNext, HoldersEmpty DEF HoldersInv
<1> QED
  BY <1>1, <1>4, CloseImplements08 DEF Backlog

\* A get moves the connection from the ring to the thread.
LEMMA GetImplements08 ==
  ASSUME IInv, IInv', server = "serv08", server' = "serv08", NEW t \in Threads, Get(t)
  PROVE  Service!Next
<1>1. /\ Alive /\ Alive' /\ thread[t] = "lock" /\ ntaken' = ntaken + 1 /\ iget # iput
      /\ connfd' = [connfd EXCEPT ![t] = clifd[iget]]
      /\ thread' = [thread EXCEPT ![t] = "web_child"]
      /\ UNCHANGED <<nconns, naccepted>>
  BY DEF Get, Alive
<1>2. ntaken \in Nat /\ naccepted \in Nat /\ naccepted <= MaxConns /\ ntaken + 1 <= naccepted
  <2>1. ntaken' <= naccepted'
    BY DEF IInv, TypeOK
  <2> QED
    BY <1>1, <2>1, Counters DEF IInv
<1>3. PICK d \in Conns : d = ntaken + 1
  BY <1>2 DEF Conns
<1>4. clifd[iget] = d
  <2>1. /\ Queued \in 0 .. MAXNCLI - 1 /\ iput = Slot(Queued) /\ iget \in Slots
        /\ \A k \in 0 .. Queued - 1 : clifd[Slot(k)] = ntaken + 1 + k
    BY <1>1 DEF IInv, RingInv, TypeOK
  <2>2. Slot(0) = iget /\ Queued # 0
    BY <1>1, <2>1 DEF Slot, Slots
  <2>3. 0 \in 0 .. Queued - 1
    BY <2>1, <2>2
  <2>4. clifd[Slot(0)] = ntaken + 1 + 0
    BY <2>1, <2>3
  <2> QED
    BY <1>2, <1>3, <2>2, <2>4
<1>5. /\ \A c \in Conns : c \in Nat
      /\ \A s \in Threads : connfd[s] \in Nat /\ connfd[s] <= ntaken /\ connfd[s] # d
  <2>1. \A c \in Conns : c \in Nat
    BY DEF Conns
  <2>2. \A s \in Threads : connfd[s] \in Nat /\ connfd[s] <= ntaken
    BY <2>1 DEF IInv, TakenInv, TypeOK
  <2> QED
    BY <1>2, <1>3, <2>1, <2>2
<1>6. /\ connfd'[t] = d /\ thread'[t] = "web_child"
      /\ \A s \in Threads : s # t => connfd'[s] = connfd[s] /\ thread'[s] = thread[s]
  BY <1>1, <1>4 DEF IInv, TypeOK
<1>7. Has08(d) = {Acceptor} /\ Has08(d)' = {t}
  BY <1>1, <1>2, <1>3, <1>5, <1>6 DEF Has08
<1>8. ASSUME NEW c \in Conns, c # d PROVE Has08(c)' = Has08(c)
  <2>1. ntaken' < c /\ c <= naccepted' <=> ntaken < c /\ c <= naccepted
    BY <1>1, <1>2, <1>3, <1>5, <1>8
  <2>2. \A s \in Threads : thread'[s] = "web_child" /\ connfd'[s] = c
                             <=> thread[s] = "web_child" /\ connfd[s] = c
    BY <1>1, <1>6, <1>8
  <2> QED
    BY <2>1, <2>2 DEF Has08
<1>9. /\ Holders(d) = {Acceptor}
      /\ \A c \in Conns : Holders(c)' = IF c = d THEN {t} ELSE Holders(c)
  BY <1>1, <1>7, <1>8, HoldersFollow, HoldersFollowNext DEF HoldersInv
<1>10. holders' = [holders EXCEPT ![d] = {t}]
  BY <1>9, At08, Zenon DEF holders
<1>11. t = Acceptor \/ \A c \in Conns : t \notin holders[c]
  <2>1. \A c \in Conns : t \in Has08(c) => t = Acceptor
    BY <1>1 DEF Has08
  <2> QED
    BY <1>1, <2>1, At08, HoldersFollow DEF HoldersInv
<1>12. Service!Pass(d, t)
  BY <1>1, <1>9, <1>10, <1>11, At08, Zenon DEF Service!Pass, Service!Free, Service!Conns, Backlog
<1> QED
  BY <1>12, At08, Zenon DEF Service!Next, Service!Conns

\* Waiting and waking change no holder; closing lets go.
LEMMA ThreadImplements08 ==
  ASSUME IInv, IInv', server = "serv08", server' = "serv08", NEW t \in Threads,
         Cond_wait(t) \/ Spurious(t) \/ Close(t)
  PROVE  Service!Next
<1>1. /\ Alive /\ Alive' /\ UNCHANGED <<nconns, naccepted, ntaken, connfd>>
      /\ thread'[t] # "web_child" /\ \A s \in Threads : s # t => thread'[s] = thread[s]
  BY DEF Cond_wait, Spurious, Close, Alive, IInv, TypeOK
<1>2. ASSUME NEW c \in Conns PROVE Has08(c)' = Has08(c) \/ Has08(c)' = {}
  <2>1. CASE thread[t] = "web_child" /\ connfd[t] = c
    <3>1. c # 0 /\ c \in Nat /\ c <= ntaken /\ ntaken \in Nat
      BY <2>1, Counters DEF IInv, TakenInv, Conns
    <3>2. \A s \in Threads : s # t => connfd[s] # c
      BY <2>1, <3>1 DEF IInv, ServedOnce
    <3>3. ~(ntaken < c)
      BY <3>1
    <3> QED
      BY <1>1, <3>2, <3>3 DEF Has08
  <2>2. CASE ~(thread[t] = "web_child" /\ connfd[t] = c)
    BY <1>1, <2>2 DEF Has08
  <2> QED
    BY <2>1, <2>2
<1>3. \A c \in Conns : Holders(c)' = Holders(c) \/ Holders(c)' = {}
  BY <1>1, <1>2, HoldersFollow, HoldersFollowNext DEF HoldersInv
<1> QED
  BY <1>1, <1>3, CloseImplements08 DEF Backlog

\* The end of the process lets go of everything.
LEMMA ExitImplements08 ==
  ASSUME server = "serv08", server' = "serv08", sig_int \/ \E t \in Threads : BadRequest(t)
  PROVE  Service!Next
<1>1. ~Alive' /\ UNCHANGED <<nconns, naccepted>>
  BY Zenon DEF sig_int, BadRequest, Alive, Ends
<1> QED
  BY <1>1, HoldersEmpty, CloseImplements08 DEF Backlog

\* Every step of serv08 is a step of the service.
LEMMA NextImplements08 ==
  ASSUME Counting, IInv, server = "serv08", server' = "serv08", Next
  PROVE  Service!Next
<1>1. IInv'
  BY StepIInv
<1> QED
  BY <1>1, ConnectImplements08, AcceptImplements08, PutImplements08, GetImplements08,
     ThreadImplements08, ExitImplements08 DEF Next, thread_main

-----------------------------------------------------------------------------
(* The servers together.  One runs, the variables of the others stay as they   *)
(* are: each server's own inductive invariant is one of ServersSpec.           *)

\* A step of ServersNext is one of the server that runs, and the server stays.
LEMMA OneServer ==
  ASSUME [ServersNext]_allvars
  PROVE  /\ server' = server
         /\ \/ server = "serv05" /\ S05!Next
            \/ server = "serv08" /\ Next
            \/ server = "prefork" /\ Pre!Next
            \/ server = "fork" /\ Frk!Next
            \/ UNCHANGED allvars
  BY DEF ServersNext, Step05, Step08, StepPrefork, StepFork, allvars

\* serv08's own variables while another server runs.
Idle08 == No08 /\ main # "put"

Inv08 == IF server = "serv08" THEN IInv ELSE Idle08

\* The invariant of the composition for serv08 holds at the start.
LEMMA InitInv08 == ServersInit => Inv08
<1> SUFFICES ASSUME ServersInit PROVE Inv08
  OBVIOUS
<1>1. CASE server = "serv08"
  BY <1>1, InitIInv DEF ServersInit, Inv08
<1>2. CASE server # "serv08"
  BY <1>2 DEF ServersInit, Inv08, Idle08, Pre!Init, Frk!Init
<1> QED
  BY <1>1, <1>2

\* No other server has a place called "put".
LEMMA NoPutPre == ASSUME main # "put", Pre!Next PROVE main' # "put"
  BY Zenon
     DEF Pre!Next, Pre!Connect, Pre!Abort, Pre!WorkerStep, Pre!Top, Pre!Locked, Pre!my_lock_wait,
         Pre!Select, Pre!Accept, Pre!my_lock_release, Pre!Close, Pre!Exit, Pre!ExitAll, Pre!Error,
         Pre!MainStep, Pre!Make, Pre!Pause, Pre!sig_int, Pre!Kill, Pre!Wait, Pre!WaitEnds,
         Pre!Terminate

\* The fork servers have no put.
LEMMA NoPutFrk == ASSUME main # "put", Frk!Next PROVE main' # "put"
  BY Zenon DEF Frk!Next, Frk!Connect, Frk!Abort, Frk!MainStep, Frk!Accept, Frk!AcceptAgain,
         Frk!AcceptError, Frk!ThreadError, Frk!ForkError, Frk!Fork, Frk!Close, Frk!Finish,
         Frk!Deliver, Frk!Reap, Frk!NothingToReap, Frk!HandlerReturn, Frk!Interrupted, Frk!End,
         Frk!sig_int

\* Every step of the composition keeps it.
LEMMA StepInv08 == ASSUME Counting, Inv08, [ServersNext]_allvars PROVE Inv08'
<1>1. CASE server = "serv08"
  <2>1. CASE Next
    BY <1>1, <2>1, StepIInv, OneServer DEF Inv08
  <2>2. CASE UNCHANGED allvars
    <3>1. UNCHANGED vars
      BY <2>2 DEF allvars, only08, vars, ring, pool
    <3> QED
      BY <1>1, <3>1, StepIInv, OneServer DEF Inv08
  <2> QED
    BY <1>1, <2>1, <2>2, OneServer
<1>2. CASE server # "serv08"
  <2>1. UNCHANGED only08
    BY <1>2 DEF ServersNext, Step05, Step08, StepPrefork, StepFork, allvars
  <2>2. main' # "put"
    <3>1. main # "put"
      BY <1>2 DEF Inv08, Idle08
    <3>2. CASE server = "prefork" /\ Pre!Next
      BY <3>1, <3>2, NoPutPre
    <3>3. CASE server = "fork" /\ Frk!Next
      BY <3>1, <3>3, NoPutFrk
    <3>4. CASE UNCHANGED main
      BY <3>1, <3>4
    <3> QED
      BY <1>2, <3>2, <3>3, <3>4 DEF ServersNext, Step05, Step08, StepPrefork, StepFork, allvars
  <2> QED
    BY <1>2, <2>1, <2>2, OneServer DEF Inv08, Idle08, No08, only08
<1> QED
  BY <1>1, <1>2

-----------------------------------------------------------------------------
(* The refinement of ConnService by the other servers is proved in their own   *)
(* proof modules, each with its own mapping and workers.  ServiceStep is a step *)
(* of ConnService from the queue q and the holders h to r and g.               *)
ServiceStep(Workers, q, h, r, g) ==
  \/ nconns' = nconns + 1 /\ r = Append(q, nconns + 1) /\ g = h
  \/ /\ \E k \in 1 .. Len(q) : r = SubSeq(q, 1, k - 1) \o SubSeq(q, k + 1, Len(q))
     /\ nconns' = nconns /\ g = h
  \/ /\ \E S \in SUBSET DOMAIN h : g = [c \in DOMAIN h |-> IF c \in S THEN {} ELSE h[c]]
     /\ nconns' = nconns /\ r = q
  \/ \E w \in Workers \cup {Acceptor} :
       /\ w = Acceptor \/ \A c \in DOMAIN h : w \notin h[c]
       /\ nconns' = nconns
       /\ \/ q # << >> /\ r = Tail(q) /\ g = [h EXCEPT ![Head(q)] = {w}]
          \/ \E c \in DOMAIN h : h[c] = {Acceptor} /\ g = [h EXCEPT ![c] = {w}] /\ r = q

\* A step of the service with fewer workers is one of the service with all.
LEMMA ServiceStepIs ==
  ASSUME NEW W \in SUBSET ((1 .. nchildren) \cup Threads \cup (1 .. NConns)),
         ServiceStep(W, Queue, holders, Queue', holders')
  PROVE  Service!Next
<1> USE DEF Service!Conns, Service!Free
<1>1. ASSUME nconns' = nconns + 1, Queue' = Append(Queue, nconns + 1), holders' = holders
      PROVE  Service!Next
  BY <1>1, Zenon DEF Service!Next, Service!Connect
<1>2. ASSUME NEW k \in 1 .. Len(Queue), nconns' = nconns, holders' = holders,
             Queue' = SubSeq(Queue, 1, k - 1) \o SubSeq(Queue, k + 1, Len(Queue))
      PROVE  Service!Next
  BY <1>2, Zenon DEF Service!Next, Service!Drop
<1>3. ASSUME NEW S \in SUBSET DOMAIN holders, nconns' = nconns, Queue' = Queue,
             holders' = [c \in DOMAIN holders |-> IF c \in S THEN {} ELSE holders[c]]
      PROVE  Service!Next
  BY <1>3, Zenon DEF Service!Next, Service!Close
<1>4. ASSUME NEW w \in W \cup {Acceptor}, nconns' = nconns,
             w = Acceptor \/ \A c \in DOMAIN holders : w \notin holders[c],
             \/ /\ Queue # << >> /\ Queue' = Tail(Queue)
                /\ holders' = [holders EXCEPT ![Head(Queue)] = {w}]
             \/ \E c \in DOMAIN holders :
                  /\ holders[c] = {Acceptor} /\ holders' = [holders EXCEPT ![c] = {w}]
                  /\ Queue' = Queue
      PROVE  Service!Next
  <2>1. w \in ((1 .. nchildren) \cup Threads \cup (1 .. NConns)) \cup {Acceptor}
    OBVIOUS
  <2>2. Service!Take(w) \/ \E c \in DOMAIN holders : Service!Pass(c, w)
    BY <1>4, Zenon DEF Service!Take, Service!Pass
  <2> QED
    BY <2>1, <2>2, Zenon DEF Service!Next
<1> QED
  BY <1>1, <1>2, <1>3, <1>4, Zenon DEF ServiceStep

\* serv08's first state and steps.
LEMMA InitImplements08 ==
  ASSUME server = "serv08", ServersInit
  PROVE  Service!Init
<1>1. Init
  BY DEF ServersInit
<1>2. Backlog = << >>
  BY <1>1 DEF Init, Backlog
<1>3. \A c \in Conns : Holders(c) = {}
  BY <1>1 DEF Init, Holders, Stored, InRing
<1>4. holders = [c \in Conns |-> {}] /\ Queue = << >>
  BY <1>2, <1>3 DEF holders, ServerConns, Conns, HolderSet, Queue
<1>5. DOMAIN holders = Conns
  BY <1>4
<1> QED
  BY <1>1, <1>4, <1>5 DEF Init, Service!Init, Service!Conns

\* A stuttering step changes nothing of the mapping.
LEMMA Stutters == UNCHANGED allvars => UNCHANGED <<nconns, Queue, holders>>
<1> SUFFICES ASSUME UNCHANGED allvars PROVE UNCHANGED <<nconns, Queue, holders>>
  OBVIOUS
<1>1. UNCHANGED <<nconns, Queue>>
  BY DEF allvars, only05, only08, Queue, Backlog
<1>2. ServerConns' = ServerConns
  BY DEF allvars, ServerConns
<1>3. \A c \in ServerConns : HolderSet(c)' = HolderSet(c)
  BY DEF allvars, only05, only08, onlyPrefork, onlyFork, HolderSet, Holders, Alive, Stored, InRing,
         Slot, S05!Holders, S05!Has, Pre!Holders, Frk!ServedBy
<1> QED
  BY <1>1, <1>2, <1>3 DEF holders

\* The assumptions on the constants, for the instances.
LEMMA Constants ==
  /\ nchildren \in Nat \ {0} /\ IsFiniteSet(Threads) /\ Threads # {} /\ MAXNCLI \in Nat \ {0, 1}
  /\ MaxConns \in Nat /\ NConns \in Nat
  BY nchildrenAssumption, ThreadsAssumption, NConnsAssumption

\* serv08's invariant, or its variables at rest, give what is checked of the ring.
LEMMA Holds08 == Inv08 => RingInv /\ NoLostWakeup
<1>1. IInv => RingInv
  BY DEF IInv
<1>2. Idle08 => RingInv
  <2> SUFFICES ASSUME Idle08 PROVE RingInv
    OBVIOUS
  <2>1. naccepted = 0 /\ ntaken = 0 /\ iput = 0 /\ iget = 0 /\ Queued = 0 - 0 - 0
    BY Zenon DEF Idle08, No08, Queued
  <2>2. iput = Slot(Queued)
    BY <2>1 DEF Slot
  <2>3. Queued \in 0 .. MAXNCLI - 1 /\ 0 .. Queued - 1 = {}
    BY <2>1
  <2> QED
    BY <2>2, <2>3, Zenon DEF RingInv
<1>3. Inv08 => NoLostWakeup
  BY DEF Inv08, Idle08, No08, IInv, NoLostWakeup, Waiting
<1> QED
  BY <1>1, <1>2, <1>3, Zenon DEF Inv08

-----------------------------------------------------------------------------
(* The servers with a worker for each connection, by ServerStepsProofs.  P        *)
(* repeats ForkServer's and Serv05's definitions under names of its own.          *)
P == INSTANCE ServerStepsProofs

\* The fork servers that the step proofs speak of start as the composition's do.
LEMMA SameInitFrk == Frk!Init <=> P!Frk!Init
  BY DEF Frk!Conns, P!Frk!Conns, Frk!Init, P!Frk!Init, Frk!Program, P!Frk!Program,
         Frk!Programs, P!Frk!Programs, Frk!advio_tcpserv02, P!Frk!advio_tcpserv02,
         Frk!ipopts_tcpserv01, P!Frk!ipopts_tcpserv01, Frk!oob_tcpserv02,
         P!Frk!oob_tcpserv02, Frk!serv01, P!Frk!serv01, Frk!serv06, P!Frk!serv06,
         Frk!tcpserv01, P!Frk!tcpserv01, Frk!tcpserv02, P!Frk!tcpserv02, Frk!tcpserv03,
         P!Frk!tcpserv03, Frk!tcpserv04, P!Frk!tcpserv04, Frk!tcpserv08, P!Frk!tcpserv08,
         Frk!tcpserv09, P!Frk!tcpserv09, Frk!threads_tcpserv01, P!Frk!threads_tcpserv01,
         Frk!threads_tcpserv02, P!Frk!threads_tcpserv02, Frk!unixstrserv01,
         P!Frk!unixstrserv01, Frk!unixstrserv02, P!Frk!unixstrserv02

\* And take the same steps.
LEMMA SameNextFrk == Frk!Next <=> P!Frk!Next
  BY Zenon DEF Frk!Abort, P!Frk!Abort, Frk!Accept, P!Frk!Accept, Frk!AcceptAgain,
         P!Frk!AcceptAgain, Frk!AcceptError, P!Frk!AcceptError, Frk!At, P!Frk!At,
         Frk!Close, P!Frk!Close, Frk!Connect, P!Frk!Connect, Frk!Conns, P!Frk!Conns,
         Frk!Deliver, P!Frk!Deliver, Frk!End, P!Frk!End, Frk!Ended, P!Frk!Ended,
         Frk!Finish, P!Frk!Finish, Frk!Fork, P!Frk!Fork, Frk!ForkError, P!Frk!ForkError,
         Frk!HandlerReturn, P!Frk!HandlerReturn, Frk!Interrupted, P!Frk!Interrupted,
         Frk!Loops, P!Frk!Loops, Frk!MainStep, P!Frk!MainStep, Frk!Next, P!Frk!Next,
         Frk!NothingToReap, P!Frk!NothingToReap, Frk!Parent, P!Frk!Parent, Frk!Processes,
         P!Frk!Processes, Frk!Reap, P!Frk!Reap, Frk!ThreadError, P!Frk!ThreadError,
         Frk!network, P!Frk!network, Frk!sig_int, P!Frk!sig_int

\* The assumptions of the step proofs hold of the constants.
LEMMA ConstantsP ==
  /\ P!IsFiniteSet(Threads) /\ nchildren \in Nat \ {0} /\ Threads # {}
  /\ MAXNCLI \in Nat \ {0, 1} /\ MaxConns \in Nat /\ NConns \in Nat
  BY Constants DEF IsFiniteSet, P!IsFiniteSet

\* The fork servers' inductive invariant, while one of them runs.
InvFrk == server = "fork" => P!FrkIInv

\* Init of the composition, for the fork servers.
LEMMA InitInvFrk == ServersInit => InvFrk /\ (server = "fork" => P!FrkService!Init)
  BY SameInitFrk, P!FrkInitRefines, ConstantsP DEF ServersInit, InvFrk

\* Next of the composition, for the fork servers.
LEMMA StepInvFrk ==
  InvFrk /\ [ServersNext]_allvars
    => /\ InvFrk'
       /\ server = "fork" => [P!FrkService!Next]_<<nconns, queue, P!FrkHolders>>
  BY OneServer, SameNextFrk, P!FrkNextRefines, ConstantsP
     DEF InvFrk, allvars, onlyFork, P!Frk!vars, P!Frk!network

\* The refinement mapping of Servers is the one of the fork servers.
LEMMA MapFrk ==
  /\ server = "fork" => holders = P!FrkHolders /\ Queue = queue
  /\ server' = "fork" => holders' = P!FrkHolders' /\ Queue' = queue'
  BY DEF holders, ServerConns, HolderSet, Queue, P!FrkHolders, P!Frk!Conns, Frk!ServedBy,
         P!Frk!ServedBy, Frk!Parent, P!Frk!Parent

\* A fork server's first state is one of ConnService, and so is every step.
LEMMA InitImplementsFrk == server = "fork" /\ ServersInit => Service!Init
  BY InitInvFrk, MapFrk
     DEF Service!Init, P!FrkService!Init, Service!Conns, P!FrkService!Conns

\* A step of their service is a step of the composition's.
LEMMA ServiceStepFrk ==
  ASSUME P!FrkService!Next, server = "fork", server' = "fork"
  PROVE  ServiceStep(1 .. NConns, Queue, holders, Queue', holders')
  BY MapFrk, Zenon
     DEF ServiceStep, Acceptor, P!Frk!Parent, P!Frk!Conns,
         P!FrkService!Next, P!FrkService!Connect, P!FrkService!Drop, P!FrkService!Close,
         P!FrkService!Take, P!FrkService!Pass, P!FrkService!Conns, P!FrkService!Free

\* Every step of the fork servers is one of the service or a stutter.
LEMMA NextImplementsFrk ==
  ASSUME server = "fork", InvFrk, [ServersNext]_allvars
  PROVE  [Service!Next]_<<nconns, Queue, holders>>
  BY OneServer, StepInvFrk, MapFrk, ServiceStepFrk, ServiceStepIs, Zenon

-----------------------------------------------------------------------------
(* serv05, by ServerStepsProofs.                                                 *)

\* serv05 of the step proofs starts as the composition's does.
LEMMA SameInitS05 == S05!Init <=> P!S05!Init
  BY DEF S05!Children, P!S05!Children, S05!Init, P!S05!Init

\* The two instances count alike.
LEMMA SameCardinality == \A S : S05!Cardinality(S) = P!S05!Cardinality(S)
  BY DEF S05!Cardinality, P!S05!Cardinality

\* select is the same.
LEMMA SameSelectS05 == S05!Select <=> P!S05!Select
  BY SameCardinality DEF S05!Select, P!S05!Select, S05!Readable, P!S05!Readable,
                         S05!ListenReady, P!S05!ListenReady, S05!Children, P!S05!Children,
                         S05!pipes, P!S05!pipes, S05!kids, P!S05!kids

\* And so are all its steps.
LEMMA SameNextS05 == S05!Next <=> P!S05!Next
  BY SameSelectS05, Zenon DEF S05!Abort, P!S05!Abort, S05!Accept, P!S05!Accept, S05!BadRequest,
                       P!S05!BadRequest, S05!ChildStep, P!S05!ChildStep, S05!Children,
                       P!S05!Children, S05!Connect, P!S05!Connect, S05!Ends, P!S05!Ends,
                       S05!Finish, P!S05!Finish, S05!FirstAvailable, P!S05!FirstAvailable,
                       S05!Next, P!S05!Next, S05!ParentAlive, P!S05!ParentAlive,
                       S05!ParentEndOpen, P!S05!ParentEndOpen, S05!ParentStep,
                       P!S05!ParentStep, S05!ReadEof, P!S05!ReadEof, S05!Read_fd,
                       P!S05!Read_fd, S05!Scan, P!S05!Scan, S05!ScanEof, P!S05!ScanEof,
                       S05!kids, P!S05!kids, S05!parent, P!S05!parent, S05!pipes, P!S05!pipes,
                       S05!sig_int, P!S05!sig_int

\* serv05's inductive invariant, while it runs.
Inv05 == server = "serv05" => P!S05IInv /\ P!S05HeldInv

\* Init of the composition, for serv05.
LEMMA InitInv05 ==
  ASSUME P!S05Counting, ServersInit PROVE Inv05 /\ (server = "serv05" => P!S05Service!Init)
  BY SameInitS05, P!S05InitRefines, ConstantsP DEF ServersInit, Inv05

\* Next of the composition, for serv05.
LEMMA StepInv05 ==
  ASSUME P!S05Counting, Inv05, [ServersNext]_allvars
  PROVE  /\ Inv05'
         /\ server = "serv05" => [P!S05Service!Next]_<<nconns, backlog, P!S05Holders>>
  BY OneServer, SameNextS05, P!S05NextRefines, ConstantsP, Zenon
     DEF Inv05, allvars, only05, P!S05!vars, P!S05!parent, P!S05!pipes, P!S05!kids

\* The refinement mapping of Servers is the one of serv05.
LEMMA Map05 ==
  /\ server = "serv05" => holders = P!S05Holders /\ Queue = backlog
  /\ server' = "serv05" => holders' = P!S05Holders' /\ Queue' = backlog'
  BY DEF holders, ServerConns, HolderSet, Queue, P!S05Holders, P!S05!Conns, S05!Holders,
         P!S05!Holders, S05!Children, P!S05!Children, S05!Has, P!S05!Has

\* serv05's first state is one of ConnService, and so is every step.
LEMMA InitImplements05 ==
  ASSUME P!S05Counting, server = "serv05", ServersInit PROVE Service!Init
  BY InitInv05, Map05
     DEF Service!Init, P!S05Service!Init, Service!Conns, P!S05Service!Conns

\* A step of its service is a step of the composition's.
LEMMA ServiceStep05 ==
  ASSUME P!S05Service!Next, server = "serv05", server' = "serv05"
  PROVE  ServiceStep(1 .. nchildren, Queue, holders, Queue', holders')
  BY Map05, Zenon
     DEF ServiceStep, Acceptor, P!Acceptor,
         P!S05Service!Next, P!S05Service!Connect, P!S05Service!Drop, P!S05Service!Close,
         P!S05Service!Take, P!S05Service!Pass, P!S05Service!Conns, P!S05Service!Free

\* Every step of serv05 is one of the service or a stutter.
LEMMA NextImplements05 ==
  ASSUME P!S05Counting, server = "serv05", Inv05, [ServersNext]_allvars
  PROVE  [Service!Next]_<<nconns, Queue, holders>>
  BY OneServer, StepInv05, Map05, ServiceStep05, ServiceStepIs, Zenon

-----------------------------------------------------------------------------
(* The preforked and prethreaded servers, by PreforkProofs.                    *)
PPre == INSTANCE PreforkProofs

\* The prefork servers of PreforkProofs start as the composition's do.
LEMMA SameInitPre == Pre!Init <=> PPre!Init
  BY DEF Pre!Init, PPre!Init, Pre!Program, PPre!Program, Pre!Programs, PPre!Programs,
         Pre!Workers, PPre!Workers, Pre!serv00, PPre!serv00, Pre!serv02, PPre!serv02,
         Pre!serv02l, PPre!serv02l, Pre!serv02m, PPre!serv02m, Pre!serv03, PPre!serv03,
         Pre!serv03m, PPre!serv03m, Pre!serv04, PPre!serv04, Pre!serv07, PPre!serv07,
         Pre!serv09, PPre!serv09

\* And take the same steps.
LEMMA SameNextPre == Pre!Next <=> PPre!Next
  BY Zenon DEF Pre!Abort, PPre!Abort, Pre!Accept, PPre!Accept, Pre!Alive, PPre!Alive,
         Pre!Close, PPre!Close, Pre!Connect, PPre!Connect, Pre!Ended, PPre!Ended,
         Pre!Error, PPre!Error, Pre!Exit, PPre!Exit, Pre!ExitAll, PPre!ExitAll,
         Pre!Kill, PPre!Kill, Pre!Locked, PPre!Locked, Pre!MainStep, PPre!MainStep,
         Pre!Make, PPre!Make, Pre!Next, PPre!Next, Pre!NoChild, PPre!NoChild, Pre!Pause,
         PPre!Pause, Pre!Processes, PPre!Processes, Pre!Select, PPre!Select,
         Pre!Terminate, PPre!Terminate, Pre!Top, PPre!Top, Pre!Wait, PPre!Wait,
         Pre!WaitEnds, PPre!WaitEnds, Pre!WorkerStep, PPre!WorkerStep, Pre!Workers,
         PPre!Workers, Pre!my_lock_release, PPre!my_lock_release, Pre!my_lock_wait,
         PPre!my_lock_wait, Pre!sig_int, PPre!sig_int

\* The assumptions of PreforkProofs hold of the constants.
LEMMA ConstantsPre ==
  /\ PPre!IsFiniteSet(Threads) /\ nchildren \in Nat \ {0} /\ Threads # {}
  /\ MAXNCLI \in Nat \ {0, 1} /\ MaxConns \in Nat /\ NConns \in Nat
  BY Constants DEF IsFiniteSet, PPre!IsFiniteSet

\* The inductive invariant of these servers, while one of them runs.
InvPre == server = "prefork" => PPre!IInv /\ PPre!HeldInv

\* Init of the composition, for the prefork servers.
LEMMA InitInvPre == ServersInit => InvPre /\ (server = "prefork" => PPre!Service!Init)
  BY SameInitPre, PPre!InitRefines, ConstantsPre DEF ServersInit, InvPre

\* Next of the composition, for the prefork servers.
LEMMA StepInvPre ==
  InvPre /\ [ServersNext]_allvars
    => /\ InvPre'
       /\ server = "prefork" => [PPre!Service!Next]_<<nconns, queue, PPre!holders>>
  BY OneServer, SameNextPre, PPre!NextRefines, ConstantsPre
     DEF InvPre, allvars, onlyPrefork, PPre!vars

\* The refinement mapping of Servers is the one of the prefork servers.
LEMMA MapPre ==
  /\ server = "prefork" => holders = PPre!holders /\ Queue = queue
  /\ server' = "prefork" => holders' = PPre!holders' /\ Queue' = queue'
  BY DEF holders, ServerConns, HolderSet, Queue, PPre!holders, PPre!Conns, Pre!Holders,
         PPre!Holders, Pre!Workers, PPre!Workers

\* A preforked or prethreaded server's first state is one of ConnService, and so is every step.
LEMMA InitImplementsPre == server = "prefork" /\ ServersInit => Service!Init
  BY InitInvPre, MapPre
     DEF Service!Init, PPre!Service!Init, Service!Conns, PPre!Service!Conns

\* A step of their service is a step of the composition's.
LEMMA ServiceStepPre ==
  ASSUME PPre!Service!Next, server = "prefork", server' = "prefork"
  PROVE  ServiceStep(1 .. nchildren, Queue, holders, Queue', holders')
  BY MapPre, Zenon
     DEF ServiceStep, Acceptor, PPre!Acceptor, PPre!Workers,
         PPre!Service!Next, PPre!Service!Connect, PPre!Service!Drop, PPre!Service!Close,
         PPre!Service!Take, PPre!Service!Pass, PPre!Service!Conns, PPre!Service!Free

\* Every step of the prefork servers is one of the service or a stutter.
LEMMA NextImplementsPre ==
  ASSUME server = "prefork", InvPre, [ServersNext]_allvars
  PROVE  [Service!Next]_<<nconns, Queue, holders>>
  BY OneServer, StepInvPre, MapPre, ServiceStepPre, ServiceStepIs, Zenon

-----------------------------------------------------------------------------
(* The servers together, whichever of them runs.                               *)

\* Each server's inductive invariant.
ServersInv == Inv05 /\ Inv08 /\ InvPre /\ InvFrk

\* Every server starts with its invariant, and as the service does.
LEMMA InitServers ==
  ASSUME P!S05Counting, ServersInit PROVE ServersInv /\ Service!Init
<1>1. server \in {"serv05", "serv08", "prefork", "fork"}
  BY DEF ServersInit
<1> QED
  BY <1>1, InitInv05, InitInv08, InitInvPre, InitInvFrk, InitImplements05, InitImplements08,
     InitImplementsPre, InitImplementsFrk, Zenon DEF ServersInv

\* Every step keeps the invariants and is a step of the service or a stutter.
LEMMA StepServers ==
  ASSUME Counting, P!S05Counting, ServersInv, [ServersNext]_allvars
  PROVE  ServersInv' /\ [Service!Next]_<<nconns, Queue, holders>>
<1>1. ServersInv'
  BY StepInv05, StepInv08, StepInvPre, StepInvFrk, Zenon DEF ServersInv
<1>2. CASE server = "serv08" /\ Next
  BY <1>1, <1>2, NextImplements08, OneServer DEF ServersInv, Inv08
<1> QED
  BY <1>1, <1>2, Stutters, NextImplements05, NextImplementsPre, NextImplementsFrk, OneServer, Zenon
     DEF ServersInv

\* What the invariants say of the servers in which each of these can fail.
LEMMA Consequences ==
  ServersInv => /\ NavailExact /\ RingInv /\ NoLostWakeup /\ LockExact
                /\ DescriptorsExact /\ NoStrandedZombie
<1> SUFFICES ASSUME ServersInv PROVE /\ NavailExact /\ RingInv /\ NoLostWakeup /\ LockExact
                                     /\ DescriptorsExact /\ NoStrandedZombie
  OBVIOUS
<1>1. NavailExact
  BY SameCardinality DEF ServersInv, Inv05, NavailExact, P!S05IInv, P!S05!NavailExact,
         S05!NavailExact, P!S05!Available, S05!Available, P!S05!Children, S05!Children
<1>2. RingInv /\ NoLostWakeup
  BY Holds08, Zenon DEF ServersInv
<1>3. LockExact
  BY DEF ServersInv, InvPre, LockExact, PPre!IInv, PPre!LockExact, Pre!LockExact, PPre!Workers,
         Pre!Workers, PPre!Locked, Pre!Locked, PPre!Alive, Pre!Alive, PPre!serv04, Pre!serv04,
         PPre!Program, Pre!Program
<1>4. DescriptorsExact /\ NoStrandedZombie
  BY Zenon
     DEF ServersInv, InvFrk, DescriptorsExact, NoStrandedZombie, P!FrkIInv,
         P!Frk!DescriptorsExact, Frk!DescriptorsExact, P!Frk!Holders, Frk!Holders, P!Frk!Conns,
         Frk!Conns, P!Frk!Parent, Frk!Parent, P!Frk!Processes, Frk!Processes,
         P!Frk!NoStrandedZombie, Frk!NoStrandedZombie
<1> QED
  BY <1>1, <1>2, <1>3, <1>4

-----------------------------------------------------------------------------
(* Sets of threads and of children are finite and can be counted, by the       *)
(* theorems about finite sets.  With that every server's invariant is one.     *)
Fin == INSTANCE FiniteSetTheorems

\* The subsets of a finite set, counted.
LEMMA Subsets ==
  ASSUME NEW T, Fin!IsFiniteSet(T)
  PROVE  \A S \in SUBSET T :
           /\ Fin!Cardinality(S) \in Nat /\ Fin!Cardinality(S) <= Fin!Cardinality(T)
           /\ S = {} <=> Fin!Cardinality(S) = 0
           /\ \A e \in T \ S : Fin!Cardinality(S \cup {e}) = Fin!Cardinality(S) + 1
           /\ \A e \in S : Fin!Cardinality(S \ {e}) = Fin!Cardinality(S) - 1
  BY Fin!FS_Subset, Fin!FS_CardinalityType, Fin!FS_EmptySet, Fin!FS_AddElement,
     Fin!FS_RemoveElement, Zenon

\* The counting facts of serv08's threads and of serv05's children.
LEMMA Counted == Counting /\ P!S05Counting
<1>1. \A T : Fin!Cardinality(T) = Cardinality(T) /\ Fin!Cardinality(T) = P!S05!Cardinality(T)
  BY DEF Fin!Cardinality, Cardinality, P!S05!Cardinality
<1>2. Fin!IsFiniteSet(Threads)
  BY Constants DEF IsFiniteSet, Fin!IsFiniteSet
<1>3. Counting
  BY <1>1, <1>2, Subsets DEF Counting
<1>4. Fin!IsFiniteSet(P!S05!Children) /\ Fin!Cardinality(P!S05!Children) = nchildren
  BY Constants, Fin!FS_Interval DEF P!S05!Children
<1>5. P!S05Counting
  BY <1>1, <1>4, Subsets, Constants DEF P!S05Counting
<1> QED
  BY <1>3, <1>5

\* The invariants hold in every state, with what follows from them, and every
\* behaviour is one of the service.
LEMMA Inductive ==
  ServersSpec => /\ []ServersInv /\ Service!Spec /\ []NavailExact /\ []RingInv /\ []NoLostWakeup
                 /\ []LockExact /\ []DescriptorsExact /\ []NoStrandedZombie
<1>1. ServersInit => ServersInv /\ Service!Init
  BY Counted, InitServers
<1>2. ServersInv /\ [ServersNext]_allvars
        => ServersInv' /\ [Service!Next]_<<nconns, Queue, holders>>
  BY Counted, StepServers
<1> QED
  BY <1>1, <1>2, Consequences, PTL DEF ServersSpec, Service!Spec

\* serv05's navail counts the children whose status is 0, after any order of
\* accepts, ready messages and deaths, for any number of children.
THEOREM NavailCounts == ServersSpec => []NavailExact
  BY Inductive, PTL

\* For any ring size serv08's ring holds the accepted connections, in order, none
\* lost, doubled or overwritten (serv08.c main and pthread08.c thread_main).
THEOREM RingHolds == ServersSpec => []RingInv
  BY Inductive, PTL

\* For any number of threads no wakeup is lost: pthread_cond_signal once per
\* connection is enough, spurious wakeups and stolen connections included.
THEOREM WakeupsSuffice == ServersSpec => []NoLostWakeup
  BY Inductive, PTL

\* Whatever worker waits for it, and wherever a child dies, the lock of serv03,
\* serv04 and serv07 is held exactly by the worker in accept, for any number of
\* workers (lock_fcntl.c, lock_pthread.c, pthread07.c).
THEOREM LockHeld == ServersSpec => []LockExact
  BY Inductive, PTL

\* A connection that a fork server has accepted is open in main between accept
\* and close and in its own worker, and nowhere else, for any number of them.
THEOREM DescriptorsHeld == ServersSpec => []DescriptorsExact
  BY Inductive, PTL

\* With the waitpid loop of sigchldwaitpid.c, SIGCHLDs that merge strand no
\* zombie, for any number of children.
THEOREM ZombiesReaped == ServersSpec => []NoStrandedZombie
  BY Inductive, PTL

\* What else is proved of the servers with a pool: serv05's err_quit("no available
\* children") is unreachable, its Write_fd always finds a living child that waits,
\* and its early exits on --nsel == 0 skip no descriptor that select reported;
\* serv08 gives no connection to two threads and quits on "iput = iget" only with
\* MAXNCLI connections untaken.
PoolsSafe ==
  /\ server = "serv05" => S05!AlwaysAChild /\ S05!AvailableMeansWaiting /\ S05!NselExact
  /\ server = "serv08" => ServedOnce /\ QuitsOnlyWhenFull

\* For any number of children, threads and clients and any ring size (serv05.c,
\* child05.c, serv08.c, pthread08.c).
THEOREM PoolsAreSafe == ServersSpec => []PoolsSafe
<1>1. ServersInv => PoolsSafe
  BY SameCardinality, Zenon
     DEF ServersInv, Inv05, Inv08, P!S05IInv, IInv, PoolsSafe, P!S05!AlwaysAChild, S05!AlwaysAChild,
         P!S05!AvailableMeansWaiting, S05!AvailableMeansWaiting, P!S05!NselExact, S05!NselExact,
         P!S05!ParentAlive, S05!ParentAlive, P!S05!Ends, S05!Ends, P!S05!Children, S05!Children
<1> QED
  BY <1>1, Inductive, PTL

\* Whatever the server, connections are taken in order of arrival, each is given
\* to one worker and each worker one at a time, and none is served twice: through
\* a pipe to a child, the ring of serv08, an inherited listening socket or a fork,
\* for any number of children, threads and connections.
THEOREM ServersImplement == ServersSpec => Implements
  BY Inductive, PTL DEF Implements
=============================================================================
