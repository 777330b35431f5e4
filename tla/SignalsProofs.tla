--------------------------- MODULE SignalsProofs ---------------------------
(***************************************************************************)
(* Proofs about the programs that signal handlers drive (Signals):         *)
(* dg_send_recv() for any number of requests, any history of the network   *)
(* and any values of the timer constants; the ring of sigio/ for every     *)
(* size and any number of datagrams; the heartbeat for every limit and any *)
(* number of late seconds.                                                 *)
(***************************************************************************)
EXTENDS Signals, Sequences, TLAPS

\* The provers of a leaf that names none, in the order they are tried.
USE SMT, Zenon, Z3

-----------------------------------------------------------------------------
(* dg_send_recv. *)

\* The types the argument needs; the estimators' arithmetic plays no part.
Types ==
  /\ sendhdr \in [seq : 0 .. SEQMOD - 1, ts : Nat \X Nat]
  /\ call \in 0 .. MaxRequests /\ base \in Nat /\ nsent \in Nat /\ ntrans \in Nat
  /\ net \subseteq Datagrams

\* The sequence number is the number of the call, which counts from 1.
SeqInv == sendhdr.seq = call /\ (pc # "idle" => call # 0)

\* A datagram of the network carries the number of the call that sent it, and
\* one of the current call carries a timestamp of this call.
NetInv ==
  \A m \in net :
    /\ m.seq = m.req /\ m.req \in 1 .. call
    /\ m.req = call =>
         /\ m.ts[1] = base
         /\ m.ts[2] \in (nsent - ntrans) + 1 .. nsent

\* What dg_send_recv is about to return came from the network and matched.
RecvInv == pc = "stop" => recvd \in net /\ Matches(recvd)

\* The inductive invariant.
CallIInv == Types /\ SeqInv /\ NetInv /\ RecvInv

USE DgAssumption, QSIZEAssumption, ArrivalsAssumption

\* Before the first call,
LEMMA CallInit == Init => CallIInv
BY DEF Init, CallIInv, Types, SeqInv, NetInv, RecvInv, Datagrams

\* and after each step.
LEMMA CallStep == CallIInv /\ [Next]_vars => CallIInv'
<1> SUFFICES ASSUME CallIInv, [Next]_vars PROVE CallIInv'
  OBVIOUS
<1> USE DEF CallIInv
<1>1. CASE dg_echo
  <2>1. PICK m \in net : net' = net \cup {[m EXCEPT !.to = "client"]}
    BY <1>1 DEF dg_echo
  <2>2. m \in Datagrams
    BY DEF Types
  <2> DEFINE r == [m EXCEPT !.to = "client"]
  <2>3. r \in Datagrams /\ r.seq = m.seq /\ r.req = m.req /\ r.ts = m.ts
    BY <2>2 DEF Datagrams
  <2>4. UNCHANGED <<pc, sendhdr, recvd, call, base, nsent, ntrans>>
    BY <1>1 DEF dg_echo
  <2> HIDE DEF r
  <2>5. Types' /\ SeqInv'
    BY <2>1, <2>3, <2>4 DEF Types, SeqInv, r
  <2>6. NetInv'
    <3>1. net' = net \cup {r}
      BY <2>1 DEF r
    <3> QED BY <3>1, <2>3, <2>4, SMTT(30) DEF NetInv
  <2>7. RecvInv'
    BY <2>1, <2>4 DEF RecvInv, Matches
  <2> QED BY <2>5, <2>6, <2>7
<1>2. CASE dg_send_recv
  <2> USE <1>2 DEF dg_send_recv
  <2>1. Types' /\ SeqInv'
    <3>1. call + 1 \in 0 .. MaxRequests /\ (call + 1) % SEQMOD = call + 1
      BY DEF Types
    <3>2. sendhdr' = [sendhdr EXCEPT !.seq = call + 1]
      BY <3>1 DEF SeqInv
    <3>3. sendhdr'.seq = call + 1 /\ sendhdr' \in [seq : 0 .. SEQMOD - 1, ts : Nat \X Nat]
      BY <3>1, <3>2 DEF Types
    <3> QED BY <3>1, <3>3 DEF Types, SeqInv
  <2>2. NetInv'
    BY DEF NetInv, Types
  <2>3. RecvInv'
    BY DEF RecvInv
  <2> QED BY <2>1, <2>2, <2>3
<1>3. CASE SendAgain
  <2> USE <1>3 DEF SendAgain
  <2> DEFINE d == [to |-> "server", seq |-> sendhdr.seq, ts |-> <<base, nsent + 1>>,
                   req |-> call]
  <2>1. call >= 1 /\ call \in Nat
    BY DEF Types, SeqInv
  <2>2. d \in Datagrams /\ d.seq = call /\ d.req = call
        /\ d.ts[1] = base /\ d.ts[2] = nsent + 1
    BY DEF Datagrams, Types, SeqInv
  <2>3. net' = net \cup {d}
    OBVIOUS
  <2> HIDE DEF d
  <2>4. sendhdr' \in [seq : 0 .. SEQMOD - 1, ts : Nat \X Nat]
        /\ sendhdr'.seq = sendhdr.seq
    BY DEF Types
  <2>5. Types' /\ SeqInv'
    BY <2>2, <2>3, <2>4 DEF Types, SeqInv
  <2>6. NetInv'
    BY <2>1, <2>2, <2>3 DEF NetInv, Types
  <2>7. RecvInv'
    BY DEF RecvInv
  <2> QED BY <2>5, <2>6, <2>7
<1>4. CASE Recvmsg
  <2>1. PICK m \in {d \in net : d.to = "client"} \cup {Short} :
          recvd' = m /\ pc' = IF Matches(m) THEN "stop" ELSE "recv"
    BY <1>4 DEF Recvmsg
  <2>2. UNCHANGED <<sendhdr, call, base, nsent, ntrans, net>> /\ pc # "idle"
    BY <1>4 DEF Recvmsg
  <2>3. Types' /\ SeqInv' /\ NetInv'
    BY <2>2 DEF Types, SeqInv, NetInv
  <2>4. RecvInv'
    BY <2>1, <2>2 DEF RecvInv, Matches
  <2> QED BY <2>3, <2>4
<1>5. CASE Alarm \/ Setjmp \/ Return \/ sig_alrm
  <2>1. UNCHANGED <<sendhdr, call, base, nsent, ntrans, net>> /\ pc # "idle" /\ pc' # "stop"
    BY <1>5 DEF Alarm, Setjmp, Return, sig_alrm
  <2> QED BY <2>1 DEF Types, SeqInv, NetInv, RecvInv
<1>6. CASE UNCHANGED vars
  BY <1>6 DEF vars, Types, SeqInv, NetInv, RecvInv, Matches
<1> QED
  BY <1>1, <1>2, <1>3, <1>4, <1>5, <1>6 DEF Next, client

-----------------------------------------------------------------------------
(* The ring of dg_echo and sig_io. *)

\* The main loop is past its test, so a datagram is queued, until nqueue--.
BusyInv ==
  /\ spc \in {"unblock", "send", "advance", "block", "decrement"} => nqueue > 0
  /\ spc = "exit" => ~inhandler

\* The inductive invariant behind EchoInOrder.  RingInv says where each
\* unsent datagram is; BusyInv keeps nqueue-- above zero.
RingIInv == S!TypeOK /\ S!RingInv /\ S!EchoInOrder /\ S!HistogramInBounds /\ BusyInv

\* Two datagrams at different distances from iget are in different slots.
LEMMA WrapInjective ==
  ASSUME NEW g \in S!Slots, NEW a \in S!Slots, NEW b \in S!Slots, a # b
  PROVE  (IF g + a >= QSIZE THEN g + a - QSIZE ELSE g + a)
           # (IF g + b >= QSIZE THEN g + b - QSIZE ELSE g + b)
BY DEF S!Slots

\* A counter of the histogram is incremented.
LEMMA CountType ==
  ASSUME NEW D, NEW f \in [D -> Nat], NEW n \in D
  PROVE  [f EXCEPT ![n] = @ + 1] \in [D -> Nat]
OBVIOUS

\* The empty ring,
LEMMA RingInit == S!Init => RingIInv
<1> SUFFICES ASSUME S!Init PROVE RingIInv
  OBVIOUS
<1>1. S!TypeOK
  BY DEF S!Init, S!TypeOK, S!Slots, S!SetupPCs
<1>2. S!RingInv /\ S!EchoInOrder
  BY DEF S!Init, S!RingInv, S!EchoInOrder, S!Queued, S!Slot, S!Echoed
<1>3. S!HistogramInBounds /\ BusyInv
  BY DEF S!Init, S!HistogramInBounds, BusyInv
<1> QED BY <1>1, <1>2, <1>3 DEF RingIInv

\* and each step of the loop and of the handler.
LEMMA RingStep == RingIInv /\ [S!Next]_servvars => RingIInv'
<1> SUFFICES ASSUME RingIInv, [S!Next]_servvars PROVE RingIInv'
  OBVIOUS
<1> USE DEF RingIInv, S!Slots, S!SetupPCs, S!LoopPCs, S!ring
<1>1. CASE S!Arrive
  <2>1. sigio' \in BOOLEAN
    BY <1>1 DEF S!Arrive
  <2>2. S!TypeOK'
    <3>1. UNCHANGED <<dg, iget, iput, nqueue, cntread, nread, spc, inhandler, nonblocking,
           taken, sent>>
      BY <1>1 DEF S!Arrive
    <3>2. arrived' \in Nat /\ taken' \in 0 .. arrived' /\ early' \in 0 .. arrived'
      BY <1>1 DEF S!Arrive, S!TypeOK
    <3> QED BY <2>1, <3>1, <3>2 DEF S!TypeOK
  <2>3. S!RingInv' /\ S!EchoInOrder' /\ S!HistogramInBounds' /\ BusyInv'
    BY <1>1 DEF S!Arrive, S!RingInv, S!EchoInOrder, S!HistogramInBounds, BusyInv, S!Queued,
                S!Slot, S!Echoed
  <2> QED BY <2>2, <2>3
<1>2. CASE S!Deliver
  <2>0. nread' \in 0 .. QSIZE
    BY <1>2 DEF S!Deliver
  <2>1. S!TypeOK'
    <3>1. sigio' \in BOOLEAN /\ inhandler' \in BOOLEAN /\ nonblocking' \in BOOLEAN
      BY <1>2, Zenon DEF S!Deliver, S!TypeOK
    <3>2. UNCHANGED <<dg, iget, iput, nqueue, cntread, spc, arrived, taken, early, sent>>
      BY <1>2 DEF S!Deliver
    <3> QED BY <2>0, <3>1, <3>2 DEF S!TypeOK
  <2>2. S!RingInv' /\ S!EchoInOrder' 
    BY <1>2 DEF S!Deliver, S!RingInv, S!EchoInOrder, S!Queued, S!Slot, S!Echoed
  <2>3. S!HistogramInBounds' /\ BusyInv'
    BY <1>2 DEF S!Deliver, S!Unblocked, S!TypeOK, S!HistogramInBounds, BusyInv
  <2> QED BY <2>1, <2>2, <2>3
<1>3. CASE S!SigioOverflow
  BY <1>3, Zenon DEF S!SigioOverflow, S!Full, S!TypeOK, S!RingInv, S!EchoInOrder, S!HistogramInBounds,
              BusyInv
<1>4. CASE S!SigioRead
  <2> USE <1>4 DEF S!SigioRead, S!Full
  <2>1. S!TypeOK'
    <3>1. dg' \in [S!Slots -> Nat]
      BY DEF S!TypeOK
    <3>2. iput' \in S!Slots
      BY DEF S!TypeOK, S!Next1
    <3>3. nqueue' \in 0 .. QSIZE /\ nread' \in 0 .. QSIZE /\ taken' \in 0 .. arrived'
      BY DEF S!TypeOK, S!HistogramInBounds
    <3> QED BY <3>1, <3>2, <3>3, SMTT(30) DEF S!TypeOK
  <2>2. S!RingInv'
    <3>1. spc # "exit" /\ spc' = spc
      BY DEF BusyInv
    <3>2. S!Queued' = S!Queued + 1 /\ S!Queued \in 0 .. QSIZE - 1
      BY DEF S!Queued, S!TypeOK, BusyInv
    <3>3. iput = S!Slot(S!Queued)
      BY <3>1 DEF S!RingInv
    <3>4. iput' = S!Slot(S!Queued)'
      BY <3>2, <3>3 DEF S!Next1, S!Slot, S!TypeOK
    <3>5. ASSUME NEW k \in 0 .. S!Queued' - 1
          PROVE  dg'[S!Slot(k)'] = IF k = S!Queued THEN taken + 1 ELSE dg[S!Slot(k)]
      <4>1. S!Slot(k)' = S!Slot(k) /\ S!Slot(k) \in S!Slots
        BY <3>2 DEF S!Slot, S!TypeOK
      <4>2. k # S!Queued => S!Slot(k) # iput
        <5>1. iget \in S!Slots /\ k \in S!Slots /\ S!Queued \in S!Slots
          BY <3>2 DEF S!TypeOK
        <5> QED BY <5>1, <3>3, WrapInjective DEF S!Slot
      <4> QED BY <4>1, <4>2, <3>3, Zenon DEF S!TypeOK
    <3>6. taken = S!Echoed + S!Queued /\ S!Echoed' = S!Echoed /\ S!Echoed \in Int
      BY <3>1 DEF S!RingInv, S!Echoed, S!TypeOK
    <3>7. ASSUME NEW k \in 0 .. S!Queued' - 1
          PROVE  dg'[S!Slot(k)'] = S!Echoed' + k + 1
      <4>1. CASE k = S!Queued
        BY <4>1, <3>5, <3>6, <3>2
      <4>2. CASE k # S!Queued
        <5>1. k \in 0 .. S!Queued - 1
          BY <4>2, <3>2
        <5> QED BY <5>1, <4>2, <3>1, <3>5, <3>6 DEF S!RingInv
      <4> QED BY <4>1, <4>2
    <3> QED BY <3>1, <3>2, <3>4, <3>6, <3>7 DEF S!RingInv, S!TypeOK
  <2>3. S!EchoInOrder' /\ S!HistogramInBounds' /\ BusyInv'
    BY DEF S!TypeOK, S!EchoInOrder, S!HistogramInBounds, BusyInv
  <2> QED BY <2>1, <2>2, <2>3
<1>5. CASE S!SigioDone
  <2> USE <1>5 DEF S!SigioDone, S!Full
  <2>1. cntread' \in [0 .. QSIZE -> Nat]
    <3>1. nread \in 0 .. QSIZE
      BY DEF S!TypeOK, S!HistogramInBounds
    <3>2. cntread \in [0 .. QSIZE -> Nat] /\ cntread' = [cntread EXCEPT ![nread] = @ + 1]
      BY DEF S!TypeOK
    <3> QED BY <3>1, <3>2, CountType
  <2>2. S!TypeOK'
    BY <2>1, Zenon DEF S!TypeOK
  <2>3. S!RingInv' /\ S!EchoInOrder'
    BY DEF S!RingInv, S!EchoInOrder, S!Queued, S!Slot, S!Echoed
  <2>4. S!HistogramInBounds' /\ BusyInv'
    BY DEF S!HistogramInBounds, BusyInv
  <2> QED BY <2>2, <2>3, <2>4
<1>6. CASE S!SigHup
  BY <1>6 DEF S!SigHup, S!TypeOK, S!RingInv, S!EchoInOrder, S!HistogramInBounds, BusyInv,
              S!Queued, S!Slot, S!Echoed
<1>7. CASE S!Fioasync \/ S!Fionbio \/ S!Sigblock \/ S!TestEmpty \/ S!TestFound \/ S!Unblock \/
       S!Block
  <2> USE <1>7 DEF S!Fioasync, S!Fionbio, S!Sigblock, S!TestEmpty, S!TestFound, S!Unblock,
                   S!Block,
                   S!At, S!kernelAndHandler
  <2>1. S!TypeOK'
    BY Zenon DEF S!TypeOK
  <2>2. S!RingInv' /\ S!EchoInOrder'
    BY DEF S!RingInv, S!EchoInOrder, S!Queued, S!Slot, S!Echoed
  <2>3. S!HistogramInBounds'
    BY Zenon DEF S!HistogramInBounds
  <2>4. spc' \in {"unblock", "send", "advance", "block", "decrement"} => nqueue' > 0
    BY DEF S!TypeOK, BusyInv
  <2>5. BusyInv'
    BY <2>4 DEF BusyInv
  <2> QED BY <2>1, <2>2, <2>3, <2>5
<1>8. CASE S!Send
  <2> USE <1>8 DEF S!Send, S!At, S!kernelAndHandler
  <2>1. dg[iget] = Len(sent) + 1
    <3>1. 0 \in 0 .. S!Queued - 1 /\ S!Slot(0) = iget /\ S!Echoed = Len(sent)
      BY DEF S!Queued, S!Slot, S!Echoed, S!TypeOK, BusyInv
    <3>2. dg[S!Slot(0)] = S!Echoed + 0 + 1
      BY <3>1 DEF S!RingInv
    <3> QED BY <3>1, <3>2 DEF S!TypeOK
  <2>2. S!TypeOK'
    <3>1. sent' \in Seq(Nat) /\ spc' = "advance"
      BY DEF S!TypeOK
    <3>2. UNCHANGED <<dg, iget, iput, nqueue, cntread, nread, inhandler, sigio, nonblocking,
           arrived, taken,
                      early>>
      OBVIOUS
    <3> QED BY <3>1, <3>2 DEF S!TypeOK
  <2>3. S!RingInv'
    BY DEF S!RingInv, S!Queued, S!Slot, S!Echoed, S!TypeOK
  <2>4. S!EchoInOrder'
    BY <2>1 DEF S!EchoInOrder, S!TypeOK
  <2>5. S!HistogramInBounds' /\ BusyInv'
    BY DEF S!HistogramInBounds, BusyInv
  <2> QED BY <2>2, <2>3, <2>4, <2>5
<1>9. CASE S!Advance
  <2> USE <1>9 DEF S!Advance, S!At, S!kernelAndHandler
  <2>1. S!TypeOK'
    BY DEF S!TypeOK, S!Next1
  <2>2. S!RingInv'
    <3>1. S!Queued' = nqueue - 1 /\ S!Queued = nqueue /\ nqueue \in 1 .. QSIZE
      BY DEF S!Queued, S!TypeOK, BusyInv
    <3>2. \A k \in 0 .. nqueue - 1 : S!Slot(k)' = S!Slot(k + 1)
      BY <3>1 DEF S!Slot, S!Next1, S!TypeOK
    <3>3. iput' = S!Slot(S!Queued)'
      BY <3>1, <3>2 DEF S!RingInv
    <3>4. S!Echoed' = S!Echoed + 1 /\ S!Echoed \in Int
      BY DEF S!Echoed, S!TypeOK
    <3>5. ASSUME NEW k \in 0 .. S!Queued' - 1
          PROVE  dg'[S!Slot(k)'] = S!Echoed' + k + 1
      <4>1. k + 1 \in 0 .. S!Queued - 1 /\ k \in 0 .. nqueue - 1
        BY <3>1
      <4>2. dg[S!Slot(k + 1)] = S!Echoed + (k + 1) + 1
        BY <4>1 DEF S!RingInv
      <4> QED BY <4>1, <4>2, <3>2, <3>4
    <3> QED BY <3>1, <3>3, <3>4, <3>5 DEF S!RingInv, S!TypeOK
  <2>3. S!EchoInOrder' /\ S!HistogramInBounds' /\ BusyInv'
    BY DEF S!EchoInOrder, S!HistogramInBounds, BusyInv
  <2> QED BY <2>1, <2>2, <2>3
<1>10. CASE S!Decrement
  <2> USE <1>10 DEF S!Decrement, S!At, S!kernelAndHandler
  <2>1. S!TypeOK'
    BY DEF S!TypeOK, BusyInv
  <2>2. S!RingInv' /\ S!EchoInOrder'
    BY DEF S!RingInv, S!EchoInOrder, S!Queued, S!Slot, S!Echoed
  <2>3. S!HistogramInBounds' /\ BusyInv'
    BY DEF S!HistogramInBounds, BusyInv
  <2> QED BY <2>1, <2>2, <2>3
<1>11. CASE UNCHANGED servvars
  BY <1>11, Zenon DEF servvars, S!TypeOK, S!RingInv, S!EchoInOrder, S!HistogramInBounds, BusyInv,
               S!Queued, S!Slot, S!Echoed
<1> QED
  BY <1>1, <1>2, <1>3, <1>4, <1>5, <1>6, <1>7, <1>8, <1>9, <1>10, <1>11
     DEF S!Next, S!sig_io, S!dg_echo

\* What arrives before FIOASYNC is counted as early.
QuietInv == S!NoStrandedDatagram /\ (spc = "fioasync" => arrived = early)

\* Nothing has arrived at first,
LEMMA QuietInit == S!Init => QuietInv
BY DEF S!Init, QuietInv, S!NoStrandedDatagram

\* and each step keeps it.
LEMMA QuietStep == RingIInv /\ QuietInv /\ [S!Next]_servvars => QuietInv'
<1> SUFFICES ASSUME RingIInv, QuietInv, [S!Next]_servvars PROVE QuietInv'
  OBVIOUS
<1> USE DEF QuietInv, S!NoStrandedDatagram
<1>1. CASE S!Arrive
  BY <1>1, Zenon DEF S!Arrive, S!SetupPCs
<1>2. CASE S!Deliver
  BY <1>2 DEF S!Deliver, S!Unblocked
<1>3. CASE S!sig_io
  BY <1>3 DEF S!sig_io, S!SigioOverflow, S!SigioRead, S!SigioDone, RingIInv, S!TypeOK
<1>4. CASE S!SigHup \/ S!dg_echo
  BY <1>4 DEF S!SigHup, S!dg_echo, S!Fioasync, S!Fionbio, S!Sigblock, S!TestEmpty, S!TestFound,
              S!Unblock, S!Send, S!Advance, S!Block, S!Decrement, S!At, S!kernelAndHandler
<1>5. CASE UNCHANGED servvars
  BY <1>5 DEF servvars
<1> QED BY <1>1, <1>2, <1>3, <1>4, <1>5 DEF S!Next

-----------------------------------------------------------------------------
(* The invariant of the heartbeat.                                          *)

\* A frame is on a stack of handlers,
Has(s, frame) == \E j \in 1 .. Len(s) : s[j] = frame

\* a stack holds at most two, and of two exactly one is sig_alrm's, since no
\* handler interrupts itself,
Frames == {"store", "recv", "reset"}
Stacks == {s \in Seq(Frames) : /\ Len(s) <= 2
                               /\ Len(s) >= 2 => (s[1] = "store" <=> s[2] # "store")}

\* and where the handlers of an end stand.
Storing(p) == Has(stack[p], "store")
Receiving(p) == Has(stack[p], "recv")
Resetting(p) == Has(stack[p], "reset")

\* The types of its variables.
BeatTypeOK ==
  /\ timer \in [H!Ends2 -> BOOLEAN] /\ due \in [H!Ends2 -> BOOLEAN]
  /\ urg \in [H!Ends2 -> BOOLEAN] /\ oob \in [H!Ends2 -> BOOLEAN]
  /\ stack \in [H!Ends2 -> Stacks]
  /\ reg \in [H!Ends2 -> Nat] /\ nprobes \in [H!Ends2 -> Nat]
  /\ flight \in [H!Ends2 -> Nat] /\ lost \in [H!Ends2 -> Nat]
  /\ main \in {"loop", "off", "shut"}
  /\ over \in [H!Ends2 -> {"none", "unreachable", "noprobes", "sigpipe", "recv error",
                           "eof", "crashed"}]
  /\ late \in Nat /\ rearmed \in BOOLEAN

\* alarm(1) is called at the end of sig_alrm: none is due while it runs.
AlarmInv == \A p \in H!Ends2 : H!Alive(p) /\ Storing(p) => ~due[p]

\* A probe or its answer is on the way back to the client, or the client is
\* about to clear its count.
Circuit ==
  \/ \E p \in H!Ends2 : flight[p] > 0 \/ urg[p] \/ Receiving(p)
  \/ Resetting("cli")

\* While both ends live the client has counted at most the seconds in which a
\* probe was lost or late, and one more; the count it has loaded is one of those.
CliInv ==
  H!Alive("cli") /\ H!Alive("serv") =>
    /\ ~Circuit => nprobes["cli"] = 0
    /\ nprobes["cli"] <= lost["cli"] + late + 1
    /\ due["cli"] => nprobes["cli"] <= lost["cli"] + late
    /\ Storing("cli") => reg["cli"] <= lost["cli"] + late

\* The server is still to hear of a probe that the client has sent, or will.
Owed ==
  \/ due["cli"] \/ Storing("cli")
  \/ flight["cli"] > 0 \/ urg["serv"] \/ Receiving("serv") \/ Resetting("serv")

\* While the client's heartbeat is on it goes on sending, and the server's count
\* is bounded in the same way, one higher while a probe is owed.
ServInv ==
  H!Alive("cli") /\ H!Alive("serv") /\ main = "loop" =>
    /\ timer["cli"] \/ due["cli"] \/ Storing("cli")
    /\ nprobes["serv"] <= lost["serv"] + late + 2
    /\ due["serv"] => nprobes["serv"] <= lost["serv"] + late + 1
    /\ Storing("serv") => reg["serv"] <= lost["serv"] + late + 1
    /\ ~Owed => nprobes["serv"] <= lost["serv"] + late + 1
    /\ ~Owed /\ (due["serv"] \/ Storing("serv")) => nprobes["serv"] = 0

\* Once it is turned off it stays off, unless a handler that was running armed
\* it again.
OffInv ==
  /\ main # "loop" /\ ~rearmed => ~timer["cli"]
  /\ main = "shut" /\ ~rearmed => ~due["cli"] /\ ~Storing("cli")

\* The inductive invariant.
BeatIInv ==
  BeatTypeOK /\ AlarmInv /\ CliInv /\ ServInv /\ OffInv /\ H!NoFalseAlarm

-----------------------------------------------------------------------------
(* The heartbeat.                                                           *)

\* The handlers on a stack: none, one, or one that interrupted the other.
LEMMA HasIs ==
  ASSUME NEW s \in Seq(Frames), Len(s) <= 2, NEW f
  PROVE  Has(s, f) <=> (Len(s) >= 1 /\ s[1] = f) \/ (Len(s) >= 2 /\ s[2] = f)
<1>1. \A j \in 1 .. Len(s) : j = 1 \/ j = 2
  OBVIOUS
<1>2. 1 \in 1 .. Len(s) <=> Len(s) >= 1
  OBVIOUS
<1>3. 2 \in 1 .. Len(s) <=> Len(s) >= 2
  OBVIOUS
<1> QED BY Zenon, <1>1, <1>2, <1>3 DEF Has

\* A handler is put on a stack,
LEMMA PushIs ==
  ASSUME NEW s \in Seq(Frames), NEW a \in Frames, NEW t, t = <<a>> \o s
  PROVE  /\ t \in Seq(Frames) /\ Len(t) <= Len(s) + 1 /\ Len(t) >= Len(s) + 1 /\ t[1] = a
         /\ Len(s) >= 1 => t[2] = s[1]
<1>1. <<a>> \in Seq(Frames) /\ Len(<<a>>) = 1 /\ <<a>>[1] = a
  OBVIOUS
<1> QED BY <1>1

\* and taken off it.
LEMMA PopIs ==
  ASSUME NEW s \in Seq(Frames), s # << >>, NEW t, t = Tail(s)
  PROVE  /\ t \in Seq(Frames) /\ Len(s) >= 1 /\ Len(t) <= Len(s) - 1 /\ Len(t) >= Len(s) - 1
         /\ Head(s) = s[1]
         /\ Len(s) >= 2 => t[1] = s[2]
OBVIOUS

\* What it is to be a stack.
LEMMA InStacks ==
  ASSUME NEW s
  PROVE  s \in Stacks <=> /\ s \in Seq(Frames) /\ Len(s) <= 2
                          /\ Len(s) >= 2 => (s[1] = "store" <=> s[2] # "store")
BY DEF Stacks

\* sig_alrm starts,
LEMMA StoreStarts ==
  ASSUME NEW s \in Stacks, ~Has(s, "store"), NEW t, t = <<"store">> \o s
  PROVE  /\ t \in Stacks /\ Has(t, "store")
         /\ Has(t, "recv") <=> Has(s, "recv")
         /\ Has(t, "reset") <=> Has(s, "reset")
<1>1. s \in Seq(Frames) /\ Len(s) \in Nat /\ Len(s) <= 2
  BY InStacks
<1>2. Len(s) <= 1 /\ (Len(s) >= 1 => s[1] # "store")
  BY <1>1, HasIs, InStacks
<1>3. /\ t \in Seq(Frames) /\ Len(t) \in Nat /\ Len(t) <= Len(s) + 1 /\ Len(t) >= Len(s) + 1
      /\ t[1] = "store" /\ (Len(s) >= 1 => t[2] = s[1])
  BY <1>1, PushIs DEF Frames
<1>4. Len(t) <= 2 /\ Len(t) >= 1
  BY <1>1, <1>2, <1>3
<1>5. t \in Stacks
  <2>1. t \in Seq(Frames) /\ Len(t) <= 2
    BY <1>1, <1>2, <1>3, <1>4
  <2>2. Len(t) >= 2 => (t[1] = "store" <=> t[2] # "store")
    BY <1>1, <1>2, <1>3, <1>4
  <2> QED BY Zenon, <2>1, <2>2, InStacks
<1>6. /\ \A f : Has(s, f) <=> (Len(s) >= 1 /\ s[1] = f) \/ (Len(s) >= 2 /\ s[2] = f)
      /\ \A f : Has(t, f) <=> (Len(t) >= 1 /\ t[1] = f) \/ (Len(t) >= 2 /\ t[2] = f)
  <2>1. s \in Seq(Frames) /\ Len(s) <= 2 /\ t \in Seq(Frames) /\ Len(t) <= 2
    BY <1>1, <1>2, <1>3, <1>4
  <2> QED BY Zenon, <2>1, HasIs
<1> QED BY <1>1, <1>2, <1>3, <1>4, <1>5, <1>6

\* and returns;
LEMMA StoreReturns ==
  ASSUME NEW s \in Stacks, s # << >>, Head(s) = "store", NEW t, t = Tail(s)
  PROVE  /\ t \in Stacks /\ Has(s, "store") /\ ~Has(t, "store")
         /\ Has(t, "recv") <=> Has(s, "recv")
         /\ Has(t, "reset") <=> Has(s, "reset")
<1>1. /\ s \in Seq(Frames) /\ Len(s) \in Nat /\ Len(s) <= 2
      /\ Len(s) >= 2 => (s[1] = "store" <=> s[2] # "store")
  BY InStacks
<1>2. /\ t \in Seq(Frames) /\ Len(t) \in Nat /\ Len(t) <= Len(s) - 1 /\ Len(t) >= Len(s) - 1
      /\ s[1] = "store" /\ Len(s) >= 1 /\ (Len(s) >= 2 => t[1] = s[2])
  BY <1>1, PopIs
<1>3. Len(t) <= 1 /\ (Len(t) >= 1 <=> Len(s) >= 2)
  BY <1>1, <1>2
<1>4. t \in Stacks
  <2>1. t \in Seq(Frames) /\ Len(t) <= 2
    BY <1>1, <1>2, <1>3
  <2>2. Len(t) >= 2 => (t[1] = "store" <=> t[2] # "store")
    BY <1>1, <1>2, <1>3
  <2> QED BY Zenon, <2>1, <2>2, InStacks
<1>5. /\ \A f : Has(s, f) <=> (Len(s) >= 1 /\ s[1] = f) \/ (Len(s) >= 2 /\ s[2] = f)
      /\ \A f : Has(t, f) <=> (Len(t) >= 1 /\ t[1] = f) \/ (Len(t) >= 2 /\ t[2] = f)
  <2>1. s \in Seq(Frames) /\ Len(s) <= 2 /\ t \in Seq(Frames) /\ Len(t) <= 2
    BY <1>1, <1>2, <1>3
  <2> QED BY Zenon, <2>1, HasIs
<1> QED BY <1>1, <1>2, <1>3, <1>4, <1>5

\* sig_urg starts,
LEMMA RecvStarts ==
  ASSUME NEW s \in Stacks, ~Has(s, "recv"), ~Has(s, "reset"), NEW t, t = <<"recv">> \o s
  PROVE  /\ t \in Stacks /\ Has(t, "recv") /\ ~Has(t, "reset")
         /\ Has(t, "store") <=> Has(s, "store")
<1>1. /\ s \in Seq(Frames) /\ Len(s) \in Nat /\ Len(s) <= 2
      /\ Len(s) >= 2 => (s[1] = "store" <=> s[2] # "store")
  BY InStacks
<1>2. Len(s) >= 2 => s[1] \in Frames /\ s[2] \in Frames
  BY <1>1
<1>3. Len(s) >= 1 => s[1] = "store"
  <2>1. Len(s) >= 1 => s[1] \in Frames
    BY <1>1
  <2> QED BY <1>1, <2>1, HasIs DEF Frames
<1>4. Len(s) <= 1
  BY <1>1, <1>2, HasIs DEF Frames
<1>5. /\ t \in Seq(Frames) /\ Len(t) \in Nat /\ Len(t) <= Len(s) + 1 /\ Len(t) >= Len(s) + 1
      /\ t[1] = "recv" /\ (Len(s) >= 1 => t[2] = s[1])
  BY <1>1, PushIs DEF Frames
<1>6. Len(t) <= 2 /\ Len(t) >= 1 /\ (Len(t) >= 2 <=> Len(s) >= 1)
  BY <1>1, <1>4, <1>5
<1>7. t \in Stacks
  <2>1. t \in Seq(Frames) /\ Len(t) <= 2
    BY <1>1, <1>3, <1>4, <1>5, <1>6
  <2>2. Len(t) >= 2 => (t[1] = "store" <=> t[2] # "store")
    BY <1>1, <1>3, <1>4, <1>5, <1>6
  <2> QED BY Zenon, <2>1, <2>2, InStacks
<1>8. /\ \A f : Has(s, f) <=> (Len(s) >= 1 /\ s[1] = f) \/ (Len(s) >= 2 /\ s[2] = f)
      /\ \A f : Has(t, f) <=> (Len(t) >= 1 /\ t[1] = f) \/ (Len(t) >= 2 /\ t[2] = f)
  <2>1. s \in Seq(Frames) /\ Len(s) <= 2 /\ t \in Seq(Frames) /\ Len(t) <= 2
    BY <1>1, <1>3, <1>4, <1>5, <1>6
  <2> QED BY Zenon, <2>1, HasIs
<1> QED BY <1>1, <1>3, <1>4, <1>5, <1>6, <1>7, <1>8

\* has received,
LEMMA RecvGoesOn ==
  ASSUME NEW s \in Stacks, s # << >>, Head(s) = "recv", NEW t, t = <<"reset">> \o Tail(s)
  PROVE  /\ t \in Stacks /\ Has(s, "recv") /\ ~Has(t, "recv")
         /\ Has(t, "reset") /\ ~Has(s, "reset")
         /\ Has(t, "store") <=> Has(s, "store")
<1> DEFINE r == Tail(s)
<1>1. /\ s \in Seq(Frames) /\ Len(s) \in Nat /\ Len(s) <= 2
      /\ Len(s) >= 2 => (s[1] = "store" <=> s[2] # "store")
  BY InStacks
<1>2. /\ r \in Seq(Frames) /\ Len(r) \in Nat /\ Len(r) <= Len(s) - 1 /\ Len(r) >= Len(s) - 1
      /\ s[1] = "recv" /\ Len(s) >= 1 /\ (Len(s) >= 2 => r[1] = s[2])
  BY <1>1, PopIs
<1>3. t = <<"reset">> \o r
  OBVIOUS
<1> HIDE DEF r
<1>4. /\ t \in Seq(Frames) /\ Len(t) \in Nat /\ Len(t) <= Len(r) + 1 /\ Len(t) >= Len(r) + 1
      /\ t[1] = "reset" /\ (Len(r) >= 1 => t[2] = r[1])
  <2>1. "reset" \in Frames
    BY DEF Frames
  <2>2. \A q \in Seq(Frames) : \A u :
          u = <<"reset">> \o q => /\ u \in Seq(Frames) /\ Len(u) \in Nat
                                /\ Len(u) <= Len(q) + 1 /\ Len(u) >= Len(q) + 1
                                /\ u[1] = "reset" /\ (Len(q) >= 1 => u[2] = q[1])
    BY <2>1, PushIs
  <2> QED BY Zenon, <1>2, <1>3, <2>2
<1>5. Len(t) <= 2 /\ Len(t) >= 1 /\ (Len(t) >= 2 <=> Len(s) >= 2) /\ (Len(r) >= 1 <=> Len(s) >= 2)
  BY <1>1, <1>2, <1>4
<1>6. Len(s) >= 2 => t[2] = s[2] /\ s[2] = "store"
  BY <1>1, <1>2, <1>4, <1>5
<1>7. t \in Stacks
  <2>1. t \in Seq(Frames) /\ Len(t) <= 2
    BY <1>1, <1>2, <1>4, <1>5, <1>6
  <2>2. Len(t) >= 2 => (t[1] = "store" <=> t[2] # "store")
    BY <1>1, <1>2, <1>4, <1>5, <1>6
  <2> QED BY Zenon, <2>1, <2>2, InStacks
<1>8. /\ \A f : Has(s, f) <=> (Len(s) >= 1 /\ s[1] = f) \/ (Len(s) >= 2 /\ s[2] = f)
      /\ \A f : Has(t, f) <=> (Len(t) >= 1 /\ t[1] = f) \/ (Len(t) >= 2 /\ t[2] = f)
  <2>1. s \in Seq(Frames) /\ Len(s) <= 2 /\ t \in Seq(Frames) /\ Len(t) <= 2
    BY <1>1, <1>2, <1>4, <1>5, <1>6
  <2> QED BY Zenon, <2>1, HasIs
<1> QED BY <1>1, <1>2, <1>4, <1>5, <1>6, <1>7, <1>8

\* and returns.
LEMMA ResetReturns ==
  ASSUME NEW s \in Stacks, s # << >>, Head(s) = "reset", NEW t, t = Tail(s)
  PROVE  /\ t \in Stacks /\ Has(s, "reset") /\ ~Has(t, "reset")
         /\ ~Has(t, "recv") /\ ~Has(s, "recv")
         /\ Has(t, "store") <=> Has(s, "store")
<1>1. /\ s \in Seq(Frames) /\ Len(s) \in Nat /\ Len(s) <= 2
      /\ Len(s) >= 2 => (s[1] = "store" <=> s[2] # "store")
  BY InStacks
<1>2. /\ t \in Seq(Frames) /\ Len(t) \in Nat /\ Len(t) <= Len(s) - 1 /\ Len(t) >= Len(s) - 1
      /\ s[1] = "reset" /\ Len(s) >= 1 /\ (Len(s) >= 2 => t[1] = s[2])
  BY <1>1, PopIs
<1>3. Len(t) <= 1 /\ (Len(t) >= 1 <=> Len(s) >= 2)
  BY <1>1, <1>2
<1>4. t \in Stacks
  <2>1. t \in Seq(Frames) /\ Len(t) <= 2
    BY <1>1, <1>2, <1>3
  <2>2. Len(t) >= 2 => (t[1] = "store" <=> t[2] # "store")
    BY <1>1, <1>2, <1>3
  <2> QED BY Zenon, <2>1, <2>2, InStacks
<1>5. /\ \A f : Has(s, f) <=> (Len(s) >= 1 /\ s[1] = f) \/ (Len(s) >= 2 /\ s[2] = f)
      /\ \A f : Has(t, f) <=> (Len(t) >= 1 /\ t[1] = f) \/ (Len(t) >= 2 /\ t[2] = f)
  <2>1. s \in Seq(Frames) /\ Len(s) <= 2 /\ t \in Seq(Frames) /\ Len(t) <= 2
    BY <1>1, <1>2, <1>3
  <2> QED BY Zenon, <2>1, HasIs
<1> QED BY <1>1, <1>2, <1>3, <1>4, <1>5

\* The stacks as the guards of the handlers see them.
LEMMA InHandlerIs ==
  ASSUME NEW p \in H!Ends2
  PROVE  /\ H!InHandler(p, {"store"}) <=> Storing(p)
         /\ H!InHandler(p, {"recv", "reset"}) <=> Receiving(p) \/ Resetting(p)
BY DEF H!InHandler, Storing, Receiving, Resetting, Has

\* An empty stack.
LEMMA NoFrame == ASSUME NEW f PROVE << >> \in Stacks /\ ~Has(<< >>, f)
BY DEF Has, Stacks

USE DEF H!Ends2, H!Alive, H!Peer

\* A counter of one end is set.
LEMMA Updated ==
  ASSUME NEW f \in [H!Ends2 -> Nat], NEW p \in H!Ends2, NEW v \in Nat
  PROVE  [f EXCEPT ![p] = v] \in [H!Ends2 -> Nat]
OBVIOUS

\* The types at one end.
LEMMA BeatTypes ==
  ASSUME BeatTypeOK, NEW p \in H!Ends2
  PROVE  /\ stack[p] \in Stacks /\ reg[p] \in Nat /\ nprobes[p] \in Nat
         /\ flight[p] \in Nat /\ lost[p] \in Nat
BY Zenon DEF BeatTypeOK

\* The limit of heartbeat_cli() and heartbeat_serv() is a number.
LEMMA LimitIs == H!Limit \in Nat
BY ProbesAssumption DEF H!Limit, H!nsec

\* What NoFalseAlarm says of an end that is gone stays true.
LEMMA StillGone ==
  ASSUME BeatTypeOK, H!NoFalseAlarm, over' = over, main # "loop" => main' # "loop",
         rearmed => rearmed', late' \in Nat, late' >= late,
         \A p \in H!Ends2 : ~H!Alive(p) => lost'[p] = lost[p]
  PROVE  H!NoFalseAlarm'
<1>1. lost["cli"] \in Nat /\ lost["serv"] \in Nat /\ late \in Nat /\ H!Limit \in Nat
  BY BeatTypes, LimitIs, Zenon DEF BeatTypeOK
<1>2. \A p \in H!Ends2 : ~H!Alive(p) /\ lost[p] >= H!Limit - 1 - late =>
        lost'[p] >= H!Limit - 1 - late'
  BY <1>1
<1> QED BY <1>2 DEF H!NoFalseAlarm

\* A handler's step changes its own stack only.
LEMMA OtherStack ==
  ASSUME BeatTypeOK, NEW p \in H!Ends2, NEW t, stack' = [stack EXCEPT ![p] = t]
  PROVE  /\ stack'[p] = t
         /\ \A q \in H!Ends2 \ {p} : stack'[q] = stack[q]
         /\ t \in Stacks => stack' \in [H!Ends2 -> Stacks]
BY Zenon DEF BeatTypeOK

\* sig_alrm starts and loads its counter.
LEMMA AlarmLoadKeeps == ASSUME BeatIInv, NEW p \in H!Ends2, H!AlarmLoad(p) PROVE BeatIInv'
<1>0. BeatTypeOK
  BY DEF BeatIInv
<1> DEFINE t == <<"store">> \o stack[p]
<1>1. stack[p] \in Stacks /\ ~Has(stack[p], "store")
  BY <1>0, BeatTypes, InHandlerIs DEF H!AlarmLoad, Storing
<1>2. /\ t \in Stacks /\ Has(t, "store")
      /\ Has(t, "recv") <=> Has(stack[p], "recv")
      /\ Has(t, "reset") <=> Has(stack[p], "reset")
  BY <1>1, StoreStarts, Zenon
<1>3. stack' = [stack EXCEPT ![p] = t]
  BY <1>0 DEF H!AlarmLoad, H!Push
<1> HIDE DEF t
<1>4. /\ stack'[p] = t /\ stack' \in [H!Ends2 -> Stacks]
      /\ \A q \in H!Ends2 \ {p} : stack'[q] = stack[q]
  BY <1>0, <1>2, <1>3, OtherStack, Zenon
<1>5. \A q \in H!Ends2 : /\ Storing(q)' <=> Storing(q) \/ q = p
                         /\ Receiving(q)' <=> Receiving(q)
                         /\ Resetting(q)' <=> Resetting(q)
  BY <1>2, <1>4 DEF Storing, Receiving, Resetting
<1>6. /\ due[p] /\ due' = [due EXCEPT ![p] = FALSE] /\ reg' = [reg EXCEPT ![p] = nprobes[p]]
      /\ UNCHANGED <<timer, urg, nprobes, oob, flight, main, over, late, lost, rearmed>>
  BY DEF H!AlarmLoad
<1>7. BeatTypeOK'
  BY <1>0, <1>4, <1>6, Zenon DEF BeatTypeOK
<1>8. due'[p] = FALSE /\ reg'[p] = nprobes[p]
      /\ \A q \in H!Ends2 \ {p} : due'[q] = due[q] /\ reg'[q] = reg[q]
  BY <1>0, <1>6, Zenon DEF BeatTypeOK
<1>9. AlarmInv'
  BY <1>5, <1>6, <1>8 DEF AlarmInv, BeatIInv
<1>10. Circuit' <=> Circuit
  BY <1>5, <1>6 DEF Circuit
<1>11. CliInv'
  BY <1>5, <1>6, <1>8, <1>10 DEF CliInv, BeatIInv
<1>12. Owed' <=> Owed
  BY <1>5, <1>6, <1>8 DEF Owed
<1>13. ServInv'
  BY <1>5, <1>6, <1>8, <1>12 DEF ServInv, BeatIInv
<1>14. OffInv'
  BY <1>5, <1>6, <1>8 DEF OffInv, BeatIInv
<1>15. H!NoFalseAlarm'
  <2>1. H!NoFalseAlarm /\ late \in Nat
    BY <1>0, Zenon DEF BeatIInv, BeatTypeOK
  <2>2. over' = over /\ main' = main /\ rearmed' = rearmed /\ late' \in Nat /\ late' >= late
    BY <1>6, <2>1
  <2>3. \A q \in H!Ends2 : ~H!Alive(q) => lost'[q] = lost[q]
    BY <1>6
  <2> QED BY <1>0, <2>1, <2>2, <2>3, StillGone
<1> QED BY <1>7, <1>9, <1>11, <1>13, <1>14, <1>15 DEF BeatIInv

\* sig_urg starts.
LEMMA UrgStartKeeps == ASSUME BeatIInv, NEW p \in H!Ends2, H!UrgStart(p) PROVE BeatIInv'
<1>0. BeatTypeOK
  BY DEF BeatIInv
<1> DEFINE t == <<"recv">> \o stack[p]
<1>1. stack[p] \in Stacks /\ ~Has(stack[p], "recv") /\ ~Has(stack[p], "reset")
  BY <1>0, BeatTypes, InHandlerIs DEF H!UrgStart, Receiving, Resetting
<1>2. /\ t \in Stacks /\ Has(t, "recv") /\ ~Has(t, "reset")
      /\ Has(t, "store") <=> Has(stack[p], "store")
  BY <1>1, RecvStarts, Zenon
<1>3. stack' = [stack EXCEPT ![p] = t]
  BY <1>0 DEF H!UrgStart, H!Push
<1> HIDE DEF t
<1>4. /\ stack'[p] = t /\ stack' \in [H!Ends2 -> Stacks]
      /\ \A q \in H!Ends2 \ {p} : stack'[q] = stack[q]
  BY <1>0, <1>2, <1>3, OtherStack, Zenon
<1>5. \A q \in H!Ends2 : /\ Storing(q)' <=> Storing(q)
                         /\ Receiving(q)' <=> Receiving(q) \/ q = p
                         /\ Resetting(q)' <=> Resetting(q)
  BY <1>1, <1>2, <1>4 DEF Storing, Receiving, Resetting
<1>6. /\ urg[p] /\ urg' = [urg EXCEPT ![p] = FALSE]
      /\ UNCHANGED <<timer, due, reg, nprobes, oob, flight, main, over, late, lost, rearmed>>
  BY DEF H!UrgStart
<1>7. BeatTypeOK'
  BY <1>0, <1>4, <1>6, Zenon DEF BeatTypeOK
<1>8. urg'[p] = FALSE /\ \A q \in H!Ends2 \ {p} : urg'[q] = urg[q]
  BY <1>0, <1>6, Zenon DEF BeatTypeOK
<1>9. AlarmInv'
  BY <1>5, <1>6 DEF AlarmInv, BeatIInv
<1>10. Circuit' /\ Circuit
  BY <1>5, <1>6, <1>8 DEF Circuit
<1>11. CliInv'
  BY <1>5, <1>6, <1>10 DEF CliInv, BeatIInv
<1>12. Owed' <=> Owed
  BY <1>5, <1>6, <1>8 DEF Owed
<1>13. ServInv'
  BY <1>5, <1>6, <1>12 DEF ServInv, BeatIInv
<1>14. OffInv'
  BY <1>5, <1>6 DEF OffInv, BeatIInv
<1>15. H!NoFalseAlarm'
  <2>1. H!NoFalseAlarm /\ late \in Nat
    BY <1>0, Zenon DEF BeatIInv, BeatTypeOK
  <2>2. over' = over /\ main' = main /\ rearmed' = rearmed /\ late' \in Nat /\ late' >= late
    BY <1>6, <2>1
  <2>3. \A q \in H!Ends2 : ~H!Alive(q) => lost'[q] = lost[q]
    BY <1>6
  <2> QED BY <1>0, <2>1, <2>2, <2>3, StillGone
<1> QED BY <1>7, <1>9, <1>11, <1>13, <1>14, <1>15 DEF BeatIInv

\* sig_urg clears the counter and returns.
LEMMA UrgResetKeeps == ASSUME BeatIInv, NEW p \in H!Ends2, H!UrgReset(p) PROVE BeatIInv'
<1>0. BeatTypeOK
  BY DEF BeatIInv
<1> DEFINE t == Tail(stack[p])
<1>1. stack[p] \in Stacks /\ stack[p] # << >> /\ Head(stack[p]) = "reset" /\ H!Alive(p)
  BY <1>0, BeatTypes, Zenon DEF H!UrgReset, H!Running
<1>2. /\ t \in Stacks /\ Has(stack[p], "reset") /\ ~Has(t, "reset")
      /\ ~Has(t, "recv") /\ ~Has(stack[p], "recv")
      /\ Has(t, "store") <=> Has(stack[p], "store")
  BY <1>1, ResetReturns, Zenon
<1>3. stack' = [stack EXCEPT ![p] = t]
  BY <1>0 DEF H!UrgReset, H!Return
<1> HIDE DEF t
<1>4. /\ stack'[p] = t /\ stack' \in [H!Ends2 -> Stacks]
      /\ \A q \in H!Ends2 \ {p} : stack'[q] = stack[q]
  BY <1>0, <1>2, <1>3, OtherStack, Zenon
<1>5. \A q \in H!Ends2 : /\ Storing(q)' <=> Storing(q)
                         /\ Receiving(q)' <=> Receiving(q)
                         /\ Resetting(q)' <=> Resetting(q) /\ q # p
  BY <1>1, <1>2, <1>4 DEF Storing, Receiving, Resetting
<1>6. /\ nprobes' = [nprobes EXCEPT ![p] = 0]
      /\ lost' = IF Storing(p) THEN lost ELSE [lost EXCEPT ![p] = 0]
      /\ UNCHANGED <<timer, due, urg, reg, oob, flight, main, over, late, rearmed>>
  BY InHandlerIs DEF H!UrgReset
<1>7. BeatTypeOK'
  BY <1>0, <1>4, <1>6, Zenon DEF BeatTypeOK
<1>8. /\ nprobes'[p] = 0 /\ \A q \in H!Ends2 \ {p} : nprobes'[q] = nprobes[q] /\ lost'[q] = lost[q]
      /\ Storing(p) => lost'[p] = lost[p]
  BY <1>0, <1>6, Zenon DEF BeatTypeOK
<1>9. AlarmInv'
  BY <1>5, <1>6 DEF AlarmInv, BeatIInv
<1>10. p = "serv" => (Circuit' <=> Circuit)
  BY <1>5, <1>6 DEF Circuit
<1>11. CliInv'
  <2>1. late \in Nat /\ lost'["cli"] \in Nat
    BY <1>7, BeatTypes, <1>0, Zenon DEF BeatTypeOK
  <2>2. CASE p = "cli"
    BY <1>5, <1>6, <1>8, <2>1, <2>2 DEF CliInv, BeatIInv
  <2>3. CASE p = "serv"
    BY <1>5, <1>6, <1>8, <1>10, <2>3 DEF CliInv, BeatIInv
  <2> QED BY <2>2, <2>3
<1>12. p = "cli" => (Owed' <=> Owed)
  BY <1>5, <1>6 DEF Owed
<1>13. ServInv'
  <2>1. late \in Nat /\ lost'["serv"] \in Nat
    BY <1>7, BeatTypes, <1>0, Zenon DEF BeatTypeOK
  <2>2. CASE p = "serv"
    BY <1>5, <1>6, <1>8, <2>1, <2>2 DEF ServInv, BeatIInv
  <2>3. CASE p = "cli"
    BY <1>5, <1>6, <1>8, <1>12, <2>3 DEF ServInv, BeatIInv
  <2> QED BY <2>2, <2>3
<1>14. OffInv'
  BY <1>5, <1>6 DEF OffInv, BeatIInv
<1>15. H!NoFalseAlarm'
  <2>1. H!NoFalseAlarm /\ late \in Nat
    BY <1>0, Zenon DEF BeatIInv, BeatTypeOK
  <2>2. over' = over /\ main' = main /\ rearmed' = rearmed /\ late' \in Nat /\ late' >= late
    BY <1>6, <2>1
  <2>3. \A q \in H!Ends2 : ~H!Alive(q) => lost'[q] = lost[q]
    BY <1>1, <1>8
  <2> QED BY <1>0, <2>1, <2>2, <2>3, StillGone
<1> QED BY <1>7, <1>9, <1>11, <1>13, <1>14, <1>15 DEF BeatIInv

\* An end goes.
LEMMA QuitKeeps ==
  ASSUME BeatIInv, NEW p \in H!Ends2, H!Alive(p), NEW how, H!Quit(p, how),
         how \in {"unreachable", "noprobes", "sigpipe", "recv error", "eof", "crashed"},
         how = "unreachable" => p = "cli" /\ (\/ ~H!Alive("serv")
                                              \/ lost["cli"] >= H!Limit - 1 - late),
         how = "noprobes" => p = "serv" /\ (\/ ~H!Alive("cli") \/ main # "loop"
                                            \/ lost["serv"] >= H!Limit - 1 - late),
         how = "sigpipe" => /\ p = "cli" => ~H!Alive("serv") \/ rearmed
                            /\ p = "serv" => ~H!Alive("cli")
  PROVE  BeatIInv'
<1>0. BeatTypeOK
  BY Zenon DEF BeatIInv
<1>1. /\ over' = [over EXCEPT ![p] = how]
      /\ timer' = [timer EXCEPT ![p] = FALSE] /\ due' = [due EXCEPT ![p] = FALSE]
      /\ urg' = [urg EXCEPT ![p] = FALSE] /\ stack' = [stack EXCEPT ![p] = << >>]
      /\ reg' = [reg EXCEPT ![p] = 0] /\ nprobes' = [nprobes EXCEPT ![p] = 0]
      /\ oob' = [oob EXCEPT ![p] = FALSE]
      /\ UNCHANGED <<main, late, lost, rearmed>>
  BY Zenon DEF H!Quit
<1>2. flight' \in [H!Ends2 -> Nat]
  BY <1>0, Zenon DEF BeatTypeOK, H!Quit
<1>3. /\ stack'[p] = << >> /\ stack' \in [H!Ends2 -> Stacks]
      /\ \A q \in H!Ends2 \ {p} : stack'[q] = stack[q]
  BY <1>0, <1>1, OtherStack, NoFrame, Zenon
<1>4. ~Storing(p)' /\ \A q \in H!Ends2 \ {p} : Storing(q)' <=> Storing(q)
  BY <1>3, NoFrame, Zenon DEF Storing
<1>5. BeatTypeOK'
  BY <1>0, <1>1, <1>2, <1>3, Zenon DEF BeatTypeOK
<1>6. /\ over'[p] = how /\ timer'[p] = FALSE /\ due'[p] = FALSE
      /\ \A q \in H!Ends2 \ {p} : over'[q] = over[q] /\ timer'[q] = timer[q] /\ due'[q] = due[q]
  BY <1>0, <1>1, Zenon DEF BeatTypeOK
<1>7. ~H!Alive(p)'
  BY <1>6, Zenon
<1>8. AlarmInv'
  BY <1>4, <1>6, <1>7, Zenon DEF AlarmInv, BeatIInv
<1>9. CliInv' /\ ServInv'
  BY <1>7, Zenon DEF CliInv, ServInv
<1>10. OffInv'
  BY <1>1, <1>4, <1>6, Zenon DEF OffInv, BeatIInv
<1>11. H!NoFalseAlarm'
  <2>1. H!NoFalseAlarm
    BY Zenon DEF BeatIInv
  <2>2. lost' = lost /\ late' = late /\ main' = main /\ rearmed' = rearmed
    BY <1>1, Zenon
  <2>3. CASE p = "cli"
    BY <1>6, <2>1, <2>2, <2>3, Zenon DEF H!NoFalseAlarm
  <2>4. CASE p = "serv"
    BY <1>6, <2>1, <2>2, <2>4, Zenon DEF H!NoFalseAlarm
  <2> QED BY <2>3, <2>4, Zenon
<1> QED BY <1>5, <1>8, <1>9, <1>10, <1>11, Zenon DEF BeatIInv

\* sig_alrm goes on: the server,
LEMMA RearmServ ==
  ASSUME BeatIInv, H!Running("serv", "store"), H!Rearm("serv"),
         UNCHANGED <<flight, main, over, late>>
  PROVE  BeatIInv'
<1>0. BeatTypeOK
  BY DEF BeatIInv
<1> DEFINE t == Tail(stack["serv"])
<1>1. stack["serv"] \in Stacks /\ stack["serv"] # << >> /\ Head(stack["serv"]) = "store"
      /\ H!Alive("serv")
  BY <1>0, BeatTypes, Zenon DEF H!Running
<1>2. /\ t \in Stacks /\ Has(stack["serv"], "store") /\ ~Has(t, "store")
      /\ Has(t, "recv") <=> Has(stack["serv"], "recv")
      /\ Has(t, "reset") <=> Has(stack["serv"], "reset")
  BY <1>1, StoreReturns, Zenon
<1>3. stack' = [stack EXCEPT !["serv"] = t]
  BY <1>0 DEF H!Rearm, H!Return
<1> HIDE DEF t
<1>4. stack'["serv"] = t /\ stack'["cli"] = stack["cli"] /\ stack' \in [H!Ends2 -> Stacks]
  BY <1>0, <1>2, <1>3, OtherStack, Zenon
<1>5. /\ Storing("serv") /\ ~Storing("serv")' /\ (Storing("cli")' <=> Storing("cli"))
      /\ \A q \in H!Ends2 : /\ Receiving(q)' <=> Receiving(q)
                            /\ Resetting(q)' <=> Resetting(q)
  BY <1>2, <1>4 DEF Storing, Receiving, Resetting
<1>6. /\ nprobes' = [nprobes EXCEPT !["serv"] = reg["serv"] + 1]
      /\ lost' = [lost EXCEPT !["serv"] = IF nprobes["serv"] < reg["serv"] THEN @ + 1 ELSE @]
      /\ timer' = [timer EXCEPT !["serv"] = TRUE]
      /\ reg' = [reg EXCEPT !["serv"] = 0]
      /\ UNCHANGED <<due, urg, oob, flight, main, over, late>>
  BY DEF H!Rearm
<1>7. rearmed' = rearmed
  BY <1>0, Zenon DEF H!Rearm, BeatTypeOK
<1>8. BeatTypeOK'
  <2>0. reg["serv"] + 1 \in Nat /\ lost["serv"] \in Nat /\ lost["serv"] + 1 \in Nat
    BY <1>0, BeatTypes
  <2>1. nprobes' \in [H!Ends2 -> Nat]
    BY <1>0, <1>6, <2>0, Updated, Zenon DEF BeatTypeOK
  <2>2. lost' \in [H!Ends2 -> Nat]
    BY <1>0, <1>6, <2>0, Updated, Zenon DEF BeatTypeOK
  <2>4. timer' \in [H!Ends2 -> BOOLEAN] /\ reg' \in [H!Ends2 -> Nat]
    BY <1>0, <1>6, Zenon DEF BeatTypeOK
  <2> QED BY <1>0, <1>4, <1>6, <1>7, <2>1, <2>2, <2>4, Zenon DEF BeatTypeOK
<1>9. /\ nprobes'["serv"] = reg["serv"] + 1 /\ nprobes'["cli"] = nprobes["cli"]
      /\ lost'["serv"] = IF nprobes["serv"] < reg["serv"] THEN lost["serv"] + 1 ELSE lost["serv"]
      /\ lost'["cli"] = lost["cli"] /\ timer'["cli"] = timer["cli"] /\ reg'["cli"] = reg["cli"]
  BY <1>0, <1>6, Zenon DEF BeatTypeOK
<1>10. AlarmInv'
  BY <1>5, <1>6 DEF AlarmInv, BeatIInv
<1>11. Circuit' <=> Circuit
  BY <1>5, <1>6 DEF Circuit
<1>12. CliInv'
  BY <1>5, <1>6, <1>9, <1>11 DEF CliInv, BeatIInv
<1>13. Owed' <=> Owed
  BY <1>5, <1>6 DEF Owed
<1>14. ServInv'
  <2>1. /\ late \in Nat /\ lost["serv"] \in Nat /\ reg["serv"] \in Nat /\ nprobes["serv"] \in Nat
        /\ lost'["serv"] \in Nat
    BY <1>0, <1>8, BeatTypes, Zenon DEF BeatTypeOK
  <2>2. ~due["serv"]
    BY <1>1, <1>5, Zenon DEF AlarmInv, BeatIInv
  <2>3. SUFFICES ASSUME H!Alive("cli"), main = "loop"
                 PROVE  /\ timer["cli"] \/ due["cli"] \/ Storing("cli")
                        /\ nprobes'["serv"] <= lost'["serv"] + late + 2
                        /\ ~Owed => nprobes'["serv"] <= lost'["serv"] + late + 1
    BY <1>5, <1>6, <1>9, <1>13, <2>2, Zenon DEF ServInv, H!Alive
  <2>4. /\ timer["cli"] \/ due["cli"] \/ Storing("cli")
        /\ reg["serv"] <= lost["serv"] + late + 1 /\ (~Owed => nprobes["serv"] = 0)
    BY <1>1, <1>5, <2>3, Zenon DEF ServInv, BeatIInv
  <2> QED BY <1>9, <2>1, <2>4
<1>15. OffInv'
  BY <1>5, <1>6, <1>7, <1>9 DEF OffInv, BeatIInv
<1>16. H!NoFalseAlarm'
  <2>1. H!NoFalseAlarm /\ late \in Nat
    BY <1>0, Zenon DEF BeatIInv, BeatTypeOK
  <2>2. over' = over /\ main' = main /\ rearmed' = rearmed /\ late' \in Nat /\ late' >= late
    BY <1>6, <1>7, <2>1
  <2>3. \A q \in H!Ends2 : ~H!Alive(q) => lost'[q] = lost[q]
    BY <1>1, <1>9
  <2> QED BY <1>0, <2>1, <2>2, <2>3, StillGone
<1> QED BY <1>8, <1>10, <1>12, <1>14, <1>15, <1>16 DEF BeatIInv

\* and the client, which sends a probe.
LEMMA RearmCli ==
  ASSUME BeatIInv, H!Running("cli", "store"), H!Rearm("cli"), UNCHANGED <<main, over, late>>,
         flight' = [flight EXCEPT !["cli"] = IF H!Alive("serv") THEN @ + 1 ELSE 0]
  PROVE  BeatIInv'
<1>0. BeatTypeOK
  BY DEF BeatIInv
<1> DEFINE t == Tail(stack["cli"])
<1>1. stack["cli"] \in Stacks /\ stack["cli"] # << >> /\ Head(stack["cli"]) = "store"
      /\ H!Alive("cli")
  BY <1>0, BeatTypes DEF H!Running
<1>2. /\ t \in Stacks /\ Has(stack["cli"], "store") /\ ~Has(t, "store")
      /\ Has(t, "recv") <=> Has(stack["cli"], "recv")
      /\ Has(t, "reset") <=> Has(stack["cli"], "reset")
  BY <1>1, StoreReturns, Zenon
<1>3. stack' = [stack EXCEPT !["cli"] = t]
  BY <1>0 DEF H!Rearm, H!Return
<1> HIDE DEF t
<1>4. stack'["cli"] = t /\ stack'["serv"] = stack["serv"] /\ stack' \in [H!Ends2 -> Stacks]
  BY <1>0, <1>2, <1>3, OtherStack, Zenon
<1>5. /\ Storing("cli") /\ ~Storing("cli")' /\ (Storing("serv")' <=> Storing("serv"))
      /\ \A q \in H!Ends2 : /\ Receiving(q)' <=> Receiving(q)
                            /\ Resetting(q)' <=> Resetting(q)
  BY <1>2, <1>4 DEF Storing, Receiving, Resetting
<1>6. /\ nprobes' = [nprobes EXCEPT !["cli"] = reg["cli"] + 1]
      /\ lost' = [lost EXCEPT !["cli"] = IF nprobes["cli"] < reg["cli"] THEN @ + 1 ELSE @]
      /\ timer' = [timer EXCEPT !["cli"] = TRUE]
      /\ reg' = [reg EXCEPT !["cli"] = 0]
      /\ UNCHANGED <<due, urg, oob, main, over, late>>
  BY DEF H!Rearm
<1>7. rearmed' \in BOOLEAN /\ (rearmed => rearmed') /\ (main # "loop" => rearmed')
  BY <1>0, Zenon DEF H!Rearm, BeatTypeOK
<1>8. BeatTypeOK'
  <2>0. reg["cli"] + 1 \in Nat /\ lost["cli"] \in Nat /\ lost["cli"] + 1 \in Nat
    BY <1>0, BeatTypes
  <2>1. nprobes' \in [H!Ends2 -> Nat]
    BY <1>0, <1>6, <2>0, Updated, Zenon DEF BeatTypeOK
  <2>2. lost' \in [H!Ends2 -> Nat]
    BY <1>0, <1>6, <2>0, Updated, Zenon DEF BeatTypeOK
  <2>3. flight' \in [H!Ends2 -> Nat]
    <3>1. flight["cli"] + 1 \in Nat /\ 0 \in Nat
      BY <1>0, BeatTypes
    <3> QED BY <1>0, <3>1, Updated, Zenon DEF BeatTypeOK
  <2>4. timer' \in [H!Ends2 -> BOOLEAN] /\ reg' \in [H!Ends2 -> Nat]
    BY <1>0, <1>6, Zenon DEF BeatTypeOK
  <2> QED BY <1>0, <1>4, <1>6, <1>7, <2>1, <2>2, <2>3, <2>4, Zenon DEF BeatTypeOK
<1>9. /\ nprobes'["cli"] = reg["cli"] + 1 /\ nprobes'["serv"] = nprobes["serv"]
      /\ lost'["cli"] = IF nprobes["cli"] < reg["cli"] THEN lost["cli"] + 1 ELSE lost["cli"]
      /\ lost'["serv"] = lost["serv"] /\ timer'["cli"] = TRUE /\ reg'["serv"] = reg["serv"]
  BY <1>0, <1>6, Zenon DEF BeatTypeOK
<1>17. H!Alive("serv") => flight'["cli"] > 0
  <2>1. flight["cli"] \in Nat /\ "cli" \in DOMAIN flight
    BY <1>0, Zenon DEF BeatTypeOK
  <2>2. H!Alive("serv") => flight'["cli"] = flight["cli"] + 1
    BY <2>1
  <2> QED BY <2>1, <2>2
<1>10. AlarmInv'
  BY <1>5, <1>6 DEF AlarmInv, BeatIInv
<1>11. ~due["cli"]
  BY <1>1, <1>5, Zenon DEF AlarmInv, BeatIInv
<1>12. H!Alive("serv") => Circuit' /\ Owed' /\ Owed
  BY <1>5, <1>17 DEF Circuit, Owed
<1>13. CliInv'
  <2>1. /\ late \in Nat /\ lost["cli"] \in Nat /\ reg["cli"] \in Nat /\ nprobes["cli"] \in Nat
        /\ lost'["cli"] \in Nat
    BY <1>0, <1>8, BeatTypes, Zenon DEF BeatTypeOK
  <2> QED BY <1>5, <1>6, <1>9, <1>11, <1>12, <2>1 DEF CliInv, BeatIInv
<1>14. ServInv'
  BY <1>5, <1>6, <1>9, <1>12, Zenon DEF ServInv, BeatIInv
<1>15. OffInv'
  BY <1>6, <1>7 DEF OffInv
<1>16. H!NoFalseAlarm'
  <2>1. H!NoFalseAlarm /\ late \in Nat
    BY <1>0, Zenon DEF BeatIInv, BeatTypeOK
  <2>2. over' = over /\ main' = main /\ late' \in Nat /\ late' >= late
    BY <1>6, <2>1
  <2>3. \A q \in H!Ends2 : ~H!Alive(q) => lost'[q] = lost[q]
    BY <1>1, <1>9
  <2> QED BY <1>0, <1>7, <2>1, <2>2, <2>3, StillGone, Zenon
<1> QED BY <1>8, <1>10, <1>13, <1>14, <1>15, <1>16 DEF BeatIInv

\* sig_alrm gives up, or stores the counter, sends a probe and calls alarm().
LEMMA sig_alrmOfBeatKeeps == ASSUME BeatIInv, NEW p \in H!Ends2, H!sig_alrm(p) PROVE BeatIInv'
<1>0. BeatTypeOK /\ H!Running(p, "store") /\ H!Alive(p)
  BY Zenon DEF BeatIInv, H!sig_alrm, H!Running
<1>1. Storing(p)
  <2>1. stack[p] \in Stacks /\ stack[p] # << >> /\ Head(stack[p]) = "store"
    BY <1>0, BeatTypes DEF H!Running
  <2> QED BY <2>1, StoreReturns, Zenon DEF Storing
<1>2. CASE reg[p] + 1 > H!Limit
  <2>1. /\ reg[p] \in Nat /\ lost["cli"] \in Nat /\ lost["serv"] \in Nat /\ late \in Nat
        /\ H!Limit \in Nat
    BY <1>0, BeatTypes, LimitIs, Zenon DEF BeatTypeOK
  <2>2. CASE p = "cli"
    <3>1. ~H!Alive("serv") \/ reg["cli"] <= lost["cli"] + late
      BY <1>0, <1>1, <2>2 DEF BeatIInv, CliInv
    <3>2. ~H!Alive("serv") \/ lost["cli"] >= H!Limit - 1 - late
      BY <1>2, <2>1, <2>2, <3>1
    <3>3. H!Quit(p, "unreachable")
      BY <1>2, <2>2 DEF H!sig_alrm
    <3> QED BY <1>0, <2>2, <3>2, <3>3, QuitKeeps, Zenon
  <2>3. CASE p = "serv"
    <3>1. ~H!Alive("cli") \/ main # "loop" \/ reg["serv"] <= lost["serv"] + late + 1
      BY <1>0, <1>1, <2>3 DEF BeatIInv, ServInv
    <3>2. ~H!Alive("cli") \/ main # "loop" \/ lost["serv"] >= H!Limit - 1 - late
      BY <1>2, <2>1, <2>3, <3>1
    <3>3. H!Quit(p, "noprobes")
      BY <1>2, <2>3 DEF H!sig_alrm
    <3> QED BY <1>0, <2>3, <3>2, <3>3, QuitKeeps, Zenon
  <2> QED BY <2>2, <2>3
<1>3. CASE ~(reg[p] + 1 > H!Limit) /\ p = "cli"
  <2>1. H!SendOOB("cli", H!Rearm("cli"))
    BY <1>3 DEF H!sig_alrm
  <2>2. CASE H!Quit("cli", "sigpipe") /\ (main = "shut" \/ over["serv"] \notin {"none", "crashed"})
    <3>1. ~H!Alive("serv") \/ rearmed
      BY <1>1, <1>3, <2>2 DEF BeatIInv, OffInv
    <3> QED BY <1>0, <1>3, <2>2, <3>1, QuitKeeps, Zenon
  <2>3. CASE /\ H!Rearm("cli") /\ UNCHANGED <<main, over, late>>
             /\ flight' = [flight EXCEPT !["cli"] = IF H!Alive("serv") THEN @ + 1 ELSE 0]
    BY <1>0, <1>3, <2>3, RearmCli
  <2> QED BY <2>1, <2>2, <2>3 DEF H!SendOOB, H!Deliverable
<1>4. CASE ~(reg[p] + 1 > H!Limit) /\ p = "serv"
  <2>1. H!Rearm("serv") /\ UNCHANGED <<flight, main, over, late>>
    BY <1>4 DEF H!sig_alrm
  <2> QED BY <1>0, <1>4, <2>1, RearmServ
<1> QED BY <1>2, <1>3, <1>4

\* sig_urg has received the byte; the server has sent it back.
LEMMA ReceivedKeeps ==
  ASSUME BeatIInv, NEW p \in H!Ends2, H!Running(p, "recv"), H!Received(p),
         UNCHANGED <<main, over, late>>, flight' \in [H!Ends2 -> Nat],
         p = "serv" /\ H!Alive("cli") => flight'["serv"] > 0,
         flight'["cli"] = flight["cli"]
  PROVE  BeatIInv'
<1>0. BeatTypeOK
  BY DEF BeatIInv
<1> DEFINE t == <<"reset">> \o Tail(stack[p])
<1>1. stack[p] \in Stacks /\ stack[p] # << >> /\ Head(stack[p]) = "recv" /\ H!Alive(p)
  BY <1>0, BeatTypes DEF H!Running
<1>2. /\ t \in Stacks /\ Has(stack[p], "recv") /\ ~Has(t, "recv")
      /\ Has(t, "reset") /\ ~Has(stack[p], "reset")
      /\ Has(t, "store") <=> Has(stack[p], "store")
  BY <1>1, RecvGoesOn, Zenon
<1>3. stack' = [stack EXCEPT ![p] = t]
  BY <1>0 DEF H!Received
<1> HIDE DEF t
<1>4. /\ stack'[p] = t /\ stack' \in [H!Ends2 -> Stacks]
      /\ \A q \in H!Ends2 \ {p} : stack'[q] = stack[q]
  BY <1>0, <1>2, <1>3, OtherStack, Zenon
<1>5. /\ \A q \in H!Ends2 : Storing(q)' <=> Storing(q)
      /\ \A q \in H!Ends2 \ {p} : /\ Receiving(q)' <=> Receiving(q)
                                  /\ Resetting(q)' <=> Resetting(q)
      /\ Receiving(p) /\ Resetting(p)'
  BY <1>2, <1>4 DEF Storing, Receiving, Resetting
<1>6. UNCHANGED <<timer, due, urg, reg, nprobes, lost, rearmed, main, over, late>>
  BY DEF H!Received
<1>7. oob' \in [H!Ends2 -> BOOLEAN]
  BY <1>0, Zenon DEF H!Received, BeatTypeOK
<1>8. BeatTypeOK'
  BY <1>0, <1>4, <1>6, <1>7, Zenon DEF BeatTypeOK
<1>9. AlarmInv'
  BY <1>5, <1>6 DEF AlarmInv, BeatIInv
<1>10. H!Alive("cli") /\ H!Alive("serv") => Circuit'
  BY <1>5 DEF Circuit
<1>11. CliInv'
  BY <1>5, <1>6, <1>10 DEF CliInv, BeatIInv
<1>12. Owed' <=> Owed
  BY <1>5, <1>6 DEF Owed
<1>13. ServInv'
  BY <1>5, <1>6, <1>12 DEF ServInv, BeatIInv
<1>14. OffInv'
  BY <1>5, <1>6 DEF OffInv, BeatIInv
<1>15. H!NoFalseAlarm'
  <2>1. H!NoFalseAlarm /\ late \in Nat
    BY <1>0, Zenon DEF BeatIInv, BeatTypeOK
  <2>2. over' = over /\ main' = main /\ rearmed' = rearmed /\ late' \in Nat /\ late' >= late
    BY <1>6, <2>1
  <2>3. \A q \in H!Ends2 : ~H!Alive(q) => lost'[q] = lost[q]
    BY <1>6
  <2> QED BY <1>0, <2>1, <2>2, <2>3, StillGone
<1> QED BY <1>8, <1>9, <1>11, <1>13, <1>14, <1>15 DEF BeatIInv

\* sig_urg calls recv(), and at the server sends the byte back.
LEMMA sig_urgKeeps == ASSUME BeatIInv, NEW p \in H!Ends2, H!sig_urg(p) PROVE BeatIInv'
<1>0. BeatTypeOK /\ H!Running(p, "recv") /\ H!Alive(p)
  BY Zenon DEF BeatIInv, H!sig_urg, H!Running
<1>1. flight \in [H!Ends2 -> Nat] /\ \A q \in H!Ends2 : flight[q] \in Nat
  BY <1>0, Zenon DEF BeatTypeOK
<1>2. CASE ~oob[p]
  <2>1. H!Quit(p, "recv error")
    BY <1>2, Zenon DEF H!sig_urg
  <2> QED BY <1>0, <2>1, QuitKeeps, Zenon
<1>3. CASE oob[p] /\ p = "serv"
  <2>1. H!SendOOB("serv", H!Received("serv"))
    BY <1>3 DEF H!sig_urg
  <2>2. CASE H!Quit("serv", "sigpipe") /\ over["cli"] \notin {"none", "crashed"}
    BY <1>0, <1>3, <2>2, QuitKeeps, Zenon
  <2>3. CASE /\ H!Received("serv") /\ UNCHANGED <<main, over, late>>
             /\ flight' = [flight EXCEPT !["serv"] = IF H!Alive("cli") THEN @ + 1 ELSE 0]
    <3>1. flight' \in [H!Ends2 -> Nat]
      BY <1>1, <2>3
    <3>2. flight'["serv"] = (IF H!Alive("cli") THEN flight["serv"] + 1 ELSE 0)
          /\ flight'["cli"] = flight["cli"]
      BY <1>1, <2>3
    <3> QED BY <1>0, <1>1, <1>3, <2>3, <3>1, <3>2, ReceivedKeeps
  <2> QED BY <2>1, <2>2, <2>3 DEF H!SendOOB, H!Deliverable
<1>4. CASE oob[p] /\ p = "cli"
  <2>1. H!Received("cli") /\ UNCHANGED <<flight, main, over, late>>
    BY <1>4 DEF H!sig_urg
  <2> QED BY <1>0, <1>1, <1>4, <2>1, ReceivedKeeps
<1> QED BY <1>2, <1>3, <1>4

\* The client turns its heartbeat off (strcliselect02.c:39),
LEMMA HeartbeatOffKeeps == ASSUME BeatIInv, H!HeartbeatOff PROVE BeatIInv'
<1>0. BeatTypeOK
  BY DEF BeatIInv
<1>1. /\ stack["cli"] = << >> /\ main = "loop" /\ main' = "off"
      /\ timer' = [timer EXCEPT !["cli"] = FALSE]
      /\ UNCHANGED <<due, urg, stack, reg, nprobes, oob, flight, over, late, lost, rearmed>>
  BY Zenon DEF H!HeartbeatOff
<1>2. \A q \in H!Ends2 : /\ Storing(q)' <=> Storing(q)
                         /\ Receiving(q)' <=> Receiving(q)
                         /\ Resetting(q)' <=> Resetting(q)
  BY <1>1, Zenon DEF Storing, Receiving, Resetting
<1>3. BeatTypeOK'
  BY <1>0, <1>1, Zenon DEF BeatTypeOK
<1>4. AlarmInv'
  BY <1>1, <1>2 DEF AlarmInv, BeatIInv
<1>5. CliInv'
  <2>1. Circuit' <=> Circuit
    BY <1>1, <1>2, Zenon DEF Circuit
  <2> QED BY <1>1, <1>2, <2>1, Zenon DEF CliInv, BeatIInv
<1>6. ServInv' /\ OffInv'
  <2>1. timer'["cli"] = FALSE
    BY <1>0, <1>1, Zenon DEF BeatTypeOK
  <2> QED BY <1>1, <2>1 DEF ServInv, OffInv
<1>7. H!NoFalseAlarm'
  <2>1. H!NoFalseAlarm /\ late \in Nat
    BY <1>0, Zenon DEF BeatIInv, BeatTypeOK
  <2>2. late' \in Nat /\ late' >= late
    BY <1>1, <2>1
  <2> QED BY <1>0, <1>1, <2>1, <2>2, StillGone, Zenon
<1> QED BY <1>3, <1>4, <1>5, <1>6, <1>7 DEF BeatIInv

\* and shuts its end down.
LEMMA ShutdownKeeps == ASSUME BeatIInv, H!Shutdown PROVE BeatIInv'
<1>0. BeatTypeOK
  BY DEF BeatIInv
<1>1. /\ stack["cli"] = << >> /\ ~due["cli"] /\ main = "off" /\ main' = "shut"
      /\ UNCHANGED <<timer, due, urg, stack, reg, nprobes, oob, flight, over, late, lost, rearmed>>
  BY Zenon DEF H!Shutdown
<1>2. /\ ~Storing("cli")
      /\ \A q \in H!Ends2 : /\ Storing(q)' <=> Storing(q)
                            /\ Receiving(q)' <=> Receiving(q)
                            /\ Resetting(q)' <=> Resetting(q)
  BY <1>1, NoFrame DEF Storing, Receiving, Resetting
<1>3. BeatTypeOK'
  BY <1>0, <1>1, Zenon DEF BeatTypeOK
<1>4. AlarmInv'
  BY <1>1, <1>2 DEF AlarmInv, BeatIInv
<1>5. CliInv'
  <2>1. Circuit' <=> Circuit
    BY <1>1, <1>2, Zenon DEF Circuit
  <2> QED BY <1>1, <1>2, <2>1, Zenon DEF CliInv, BeatIInv
<1>6. ServInv' /\ OffInv'
  BY <1>1, <1>2, Zenon DEF ServInv, OffInv, BeatIInv
<1>7. H!NoFalseAlarm'
  <2>1. H!NoFalseAlarm /\ late \in Nat
    BY <1>0, Zenon DEF BeatIInv, BeatTypeOK
  <2>2. late' \in Nat /\ late' >= late
    BY <1>1, <2>1
  <2> QED BY <1>0, <1>1, <2>1, <2>2, StillGone, Zenon
<1> QED BY <1>3, <1>4, <1>5, <1>6, <1>7 DEF BeatIInv

\* A probe, or its answer, arrives.
LEMMA ArriveKeeps == ASSUME BeatIInv, NEW p \in H!Ends2, H!Arrive(p) PROVE BeatIInv'
<1>0. BeatTypeOK
  BY DEF BeatIInv
<1>1. /\ flight[p] > 0 /\ flight' = [flight EXCEPT ![p] = @ - 1]
      /\ oob' = [oob EXCEPT ![H!Peer(p)] = TRUE]
      /\ urg' = [urg EXCEPT ![H!Peer(p)] = TRUE]
      /\ UNCHANGED <<timer, due, stack, reg, nprobes, main, over, late, lost, rearmed>>
  BY DEF H!Arrive
<1>2. \A q \in H!Ends2 : /\ Storing(q)' <=> Storing(q)
                         /\ Receiving(q)' <=> Receiving(q)
                         /\ Resetting(q)' <=> Resetting(q)
  BY <1>1 DEF Storing, Receiving, Resetting
<1>3. BeatTypeOK'
  <2>1. flight[p] - 1 \in Nat
    BY <1>0, <1>1, BeatTypes
  <2>2. flight' \in [H!Ends2 -> Nat]
    BY <1>0, <1>1, <2>1, Updated, Zenon DEF BeatTypeOK
  <2> QED BY <1>0, <1>1, <2>2, Zenon DEF BeatTypeOK
<1>4. urg'[H!Peer(p)] = TRUE /\ urg'[p] = urg[p] /\ flight'[H!Peer(p)] = flight[H!Peer(p)]
  BY <1>0, <1>1, Zenon DEF BeatTypeOK
<1>5. AlarmInv'
  BY <1>1, <1>2 DEF AlarmInv, BeatIInv
<1>6. CliInv'
  <2>1. Circuit'
    BY <1>4 DEF Circuit
  <2> QED BY <1>1, <1>2, <2>1 DEF CliInv, BeatIInv
<1>7. ServInv'
  <2>1. Owed => Owed'
    <3>1. CASE p = "cli"
      BY <1>4, <3>1, Zenon DEF Owed
    <3>2. CASE p = "serv"
      BY <1>1, <1>2, <1>4, <3>2 DEF Owed
    <3> QED BY <3>1, <3>2
  <2> QED BY <1>1, <1>2, <2>1, Zenon DEF ServInv, BeatIInv
<1>8. OffInv'
  BY <1>1, <1>2 DEF OffInv, BeatIInv
<1>9. H!NoFalseAlarm'
  <2>1. H!NoFalseAlarm /\ late \in Nat
    BY <1>0, Zenon DEF BeatIInv, BeatTypeOK
  <2>2. late' \in Nat /\ late' >= late
    BY <1>1, <2>1
  <2> QED BY <1>0, <1>1, <2>1, <2>2, StillGone
<1> QED BY <1>3, <1>5, <1>6, <1>7, <1>8, <1>9 DEF BeatIInv

\* A second passes: alarms fall due, and what is in flight may be late or lost.
LEMMA SecondKeeps == ASSUME BeatIInv, H!Second PROVE BeatIInv'
<1>0. BeatTypeOK
  BY DEF BeatIInv
<1>1. /\ due' = timer /\ timer' = [p \in H!Ends2 |-> FALSE]
      /\ UNCHANGED <<urg, stack, reg, nprobes, oob, flight, main, over, lost, rearmed>>
  BY DEF H!Second
<1>2. /\ late \in Nat /\ late' \in Nat /\ late' >= late
      /\ \A p \in H!Ends2 : flight[p] > 0 => late' = late + 1
  <2>1. late' = IF \E p \in H!Ends2 : flight[p] > 0 THEN late + 1 ELSE late
    BY DEF H!Second
  <2>2. late \in Nat
    BY <1>0, Zenon DEF BeatTypeOK
  <2>3. late' = late + 1 \/ late' = late
    BY <2>1
  <2> QED BY <2>1, <2>2, <2>3
<1>3. /\ \A q \in H!Ends2 : /\ Storing(q)' <=> Storing(q)
                            /\ Receiving(q)' <=> Receiving(q)
                            /\ Resetting(q)' <=> Resetting(q)
      /\ \A q \in H!Ends2 : H!Alive(q) => /\ ~due[q] /\ ~urg[q]
                                          /\ ~Storing(q) /\ ~Receiving(q) /\ ~Resetting(q)
  BY <1>1, NoFrame, Zenon DEF Storing, Receiving, Resetting, H!Second, H!KeptUp
<1>4. BeatTypeOK'
  BY <1>0, <1>1, <1>2, Zenon DEF BeatTypeOK
<1>5. AlarmInv'
  BY <1>1, <1>3 DEF AlarmInv
<1>6. CliInv'
  <2> SUFFICES ASSUME H!Alive("cli"), H!Alive("serv") PROVE CliInv'
    BY <1>1 DEF CliInv
  <2>1. nprobes["cli"] \in Nat /\ lost["cli"] \in Nat
    BY <1>0, BeatTypes
  <2>2. Circuit' <=> Circuit
    BY <1>1, <1>3 DEF Circuit
  <2>3. Circuit => late' = late + 1
    BY <1>2, <1>3 DEF Circuit
  <2>4. /\ ~Circuit => nprobes["cli"] = 0
        /\ nprobes["cli"] <= lost["cli"] + late + 1
    BY DEF CliInv, BeatIInv
  <2>5. nprobes["cli"] <= lost["cli"] + late'
    BY <1>2, <2>1, <2>3, <2>4
  <2>6. nprobes["cli"] <= lost["cli"] + late' + 1
    BY <1>2, <2>1, <2>5
  <2> QED BY <1>1, <1>3, <2>2, <2>4, <2>5, <2>6 DEF CliInv
<1>7. ServInv'
  <2> SUFFICES ASSUME H!Alive("cli"), H!Alive("serv"), main = "loop" PROVE ServInv'
    BY <1>1 DEF ServInv
  <2>1. nprobes["serv"] \in Nat /\ lost["serv"] \in Nat
    BY <1>0, BeatTypes
  <2>2. timer["cli"]
    BY <1>3 DEF ServInv, BeatIInv
  <2>3. Owed'
    BY <1>1, <2>2 DEF Owed
  <2>4. Owed => late' = late + 1
    BY <1>2, <1>3 DEF Owed
  <2>5. /\ ~Owed => nprobes["serv"] <= lost["serv"] + late + 1
        /\ nprobes["serv"] <= lost["serv"] + late + 2
    BY DEF ServInv, BeatIInv
  <2>6. nprobes["serv"] <= lost["serv"] + late' + 1
    BY <1>2, <2>1, <2>4, <2>5
  <2>7. nprobes["serv"] <= lost["serv"] + late' + 2
    BY <1>2, <2>1, <2>6
  <2> QED BY <1>1, <1>3, <2>2, <2>3, <2>6, <2>7 DEF ServInv
<1>8. OffInv'
  BY <1>0, <1>1, <1>3, Zenon DEF OffInv, BeatIInv, BeatTypeOK
<1>9. H!NoFalseAlarm'
  <2>1. H!NoFalseAlarm
    BY DEF BeatIInv
  <2> QED BY <1>0, <1>1, <1>2, <2>1, StillGone
<1> QED BY <1>4, <1>5, <1>6, <1>7, <1>8, <1>9 DEF BeatIInv

\* The heartbeat starts.
LEMMA BeatStart == ASSUME H!BeatInit PROVE BeatIInv
<1>1. \A q \in H!Ends2 : /\ ~Storing(q) /\ stack[q] \in Stacks
                         /\ nprobes[q] = 0 /\ lost[q] = 0 /\ due[q] = FALSE
                         /\ timer[q] = TRUE /\ over[q] = "none"
  BY NoFrame DEF H!BeatInit, Storing
<1>2. BeatTypeOK
  BY NoFrame, Zenon DEF H!BeatInit, BeatTypeOK
<1>3. AlarmInv /\ OffInv /\ H!NoFalseAlarm
  BY <1>1 DEF H!BeatInit, AlarmInv, OffInv, H!NoFalseAlarm
<1>4. CliInv /\ ServInv
  BY <1>1 DEF H!BeatInit, CliInv, ServInv
<1> QED BY <1>2, <1>3, <1>4 DEF BeatIInv

\* Every step of the two ends and of the kernel keeps the invariant.
LEMMA BeatStep == ASSUME BeatIInv, H!BeatNext PROVE BeatIInv'
<1>1. ASSUME NEW p \in H!Ends2, H!Handlers(p) PROVE BeatIInv'
  BY <1>1, AlarmLoadKeeps, sig_alrmOfBeatKeeps, UrgStartKeeps, sig_urgKeeps, UrgResetKeeps
     DEF H!Handlers
<1>2. ASSUME NEW p \in H!Ends2, H!ReadEof(p) \/ H!Crash(p) PROVE BeatIInv'
  BY <1>2, QuitKeeps, Zenon DEF H!ReadEof, H!Crash
<1>3. CASE H!Kernel
  BY <1>3, ArriveKeeps, SecondKeeps DEF H!Kernel
<1> QED BY <1>1, <1>2, <1>3, HeartbeatOffKeeps, ShutdownKeeps DEF H!BeatNext

\* What the other programs do leaves it alone.
LEMMA BeatSame == ASSUME BeatIInv, UNCHANGED beatvars PROVE BeatIInv'
<1>1. \A p \in H!Ends2 : /\ Storing(p)' <=> Storing(p)
                         /\ Receiving(p)' <=> Receiving(p)
                         /\ Resetting(p)' <=> Resetting(p)
  BY DEF beatvars, Storing, Receiving, Resetting
<1>2. (Circuit' <=> Circuit) /\ (Owed' <=> Owed)
  BY <1>1 DEF beatvars, Circuit, Owed
<1>3. BeatTypeOK' /\ AlarmInv'
  BY <1>1, Zenon DEF beatvars, BeatIInv, BeatTypeOK, AlarmInv
<1>4. CliInv' /\ ServInv'
  BY <1>1, <1>2, Zenon DEF beatvars, BeatIInv, CliInv, ServInv
<1>5. OffInv' /\ H!NoFalseAlarm'
  BY <1>1 DEF beatvars, BeatIInv, OffInv, H!NoFalseAlarm
<1> QED BY <1>3, <1>4, <1>5 DEF BeatIInv

-----------------------------------------------------------------------------
(* The three programs.                                                      *)

\* The invariants of the three.
SignalsIInv == CallIInv /\ RingIInv /\ QuietInv /\ BeatIInv

\* Each program keeps its invariant and leaves the state of the others alone.
LEMMA SignalsInvariant == SignalsSpec => []SignalsIInv
<1>1. SignalsInit => SignalsIInv
  BY CallInit, RingInit, QuietInit, BeatStart DEF SignalsInit, SignalsIInv
<1>2. SignalsIInv /\ [SignalsNext]_allvars => SignalsIInv'
  <2> SUFFICES ASSUME SignalsIInv, [SignalsNext]_allvars PROVE SignalsIInv'
    OBVIOUS
  <2>1. [Next]_vars /\ [S!Next]_servvars /\ (H!BeatNext \/ UNCHANGED beatvars)
    BY DEF SignalsNext, Client, Serv, Beat, allvars
  <2>2. CallIInv' /\ RingIInv' /\ QuietInv'
    BY <2>1, CallStep, RingStep, QuietStep DEF SignalsIInv
  <2>3. BeatIInv'
    BY <2>1, BeatStep, BeatSame DEF SignalsIInv
  <2> QED BY <2>2, <2>3 DEF SignalsIInv
<1> QED BY <1>1, <1>2, PTL DEF SignalsSpec

\* For every number of requests and every behaviour of the network, the reply
\* that dg_send_recv returns is the reply to this call's request.
THEOREM RepliesMatch == SignalsSpec => []ReplyMatchesRequest
<1>1. SignalsIInv => ReplyMatchesRequest
  BY DEF SignalsIInv, CallIInv, SeqInv, NetInv, RecvInv, Matches, ReplyMatchesRequest
<1> QED BY SignalsInvariant, <1>1, PTL

\* The timestamp given to rtt_stop is one this call put into the network.
THEOREM SamplesUnambiguous == SignalsSpec => []SampleOfThisRequest
<1>1. SignalsIInv => SampleOfThisRequest
  <2> SUFFICES ASSUME CallIInv, pc = "stop"
               PROVE  recvd.ts[1] = base /\ recvd.ts[2] \in (nsent - ntrans) + 1 .. nsent
    BY DEF SignalsIInv, SampleOfThisRequest
  <2>1. recvd \in net /\ recvd.req = call
    BY DEF CallIInv, SeqInv, NetInv, RecvInv, Matches
  <2> QED BY <2>1 DEF CallIInv, NetInv
<1> QED BY SignalsInvariant, <1>1, PTL

\* Types of the SIGIO server: in particular iget and iput stay inside the ring,
\* nqueue between 0 and QSIZE, and cntread is never indexed outside its QSIZE+1
\* entries.
THEOREM RingTypes == SignalsSpec => []S!TypeOK
<1>1. SignalsIInv => S!TypeOK
  BY DEF SignalsIInv, RingIInv
<1> QED BY SignalsInvariant, <1>1, PTL

\* The echo order, for every QSIZE: what sig_io reads is echoed once, in order.
THEOREM InOrder == SignalsSpec => []EchoInOrder
<1>1. SignalsIInv => EchoInOrder
  BY DEF SignalsIInv, RingIInv, EchoInOrder
<1> QED BY SignalsInvariant, <1>1, PTL

\* No datagram is left in the socket with nobody to fetch it: arrivals that
\* find SIGIO blocked leave it pending, and sig_io returns only on an empty
\* socket.
THEOREM NoStranded == SignalsSpec => []NoStrandedDatagram
<1>1. SignalsIInv => NoStrandedDatagram
  BY DEF SignalsIInv, QuietInv, NoStrandedDatagram
<1> QED BY SignalsInvariant, <1>1, PTL

\* Neither end of the heartbeat gives its peer up while it is there, and neither
\* dies of SIGPIPE, but for the races that are named: for every limit, and however
\* the handlers, the bytes and the seconds interleave.
THEOREM AlarmsAreTrue == SignalsSpec => []NoFalseAlarm
<1>1. SignalsIInv => NoFalseAlarm
  BY DEF SignalsIInv, BeatIInv, NoFalseAlarm
<1> QED BY SignalsInvariant, <1>1, PTL
=============================================================================
