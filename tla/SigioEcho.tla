----------------------------- MODULE SigioEcho -----------------------------
(***************************************************************************)
(* The signal-driven UDP echo server of sigio/dgecho01.c.                   *)
(*                                                                          *)
(* The SIGIO handler sig_io moves datagrams from the socket into the ring   *)
(* dg[0..QSIZE-1]; the main loop of dg_echo takes them out and echoes them. *)
(* Handler and main loop are one thread: the handler runs to completion     *)
(* between two statements of the main loop, whenever SIGIO is pending and   *)
(* not blocked.  Datagrams arrive at any moment, also while the handler     *)
(* runs.  The kernel keeps at most one SIGIO pending, however many          *)
(* datagrams arrive while it is blocked.                                    *)
(*                                                                          *)
(* A datagram is its number in the order of arrival; the socket buffer      *)
(* holds the datagrams taken+1 .. arrived.                                  *)
(***************************************************************************)
EXTENDS Integers, Sequences

CONSTANTS
  QSIZE,         \* size of the ring, at least 1
  MaxArrivals    \* bound: datagrams the clients send

VARIABLES
  dg, iget, iput, nqueue,  \* the ring and its counters
  cntread,                 \* histogram of datagrams read per signal
  nread,                   \* sig_io's local counter
  pc,                      \* next statement of dg_echo
  inhandler,               \* is sig_io running?
  sigio,                   \* is SIGIO pending?
  nonblocking,             \* FIONBIO done?
  arrived, taken,          \* datagrams accepted by, and read from, the socket
  early,                   \* those that arrived before FIOASYNC
  sent                     \* datagrams echoed, in order

vars == <<dg, iget, iput, nqueue, cntread, nread, pc, inhandler, sigio,
          nonblocking, arrived, taken, early, sent>>

ring == <<dg, iget, iput, nqueue>>

Slots == 0 .. QSIZE - 1

\* The statements of dg_echo, by what the main loop does next.
SetupPCs == {"fioasync", "fionbio", "sigblock"}
LoopPCs  == {"test", "suspend", "unblock", "send", "advance", "block", "decrement"}

\* ++i with the wrap-around test that both sides of the ring use.
Next1(i) == IF i + 1 >= QSIZE THEN 0 ELSE i + 1

Init ==
  /\ dg = [s \in Slots |-> 0]
  /\ iget = 0 /\ iput = 0 /\ nqueue = 0
  /\ cntread = [k \in 0 .. QSIZE |-> 0]
  /\ nread = 0
  /\ pc = "fioasync"
  /\ inhandler = FALSE
  /\ sigio = FALSE
  /\ nonblocking = FALSE
  /\ arrived = 0 /\ taken = 0 /\ early = 0
  /\ sent = << >>

-----------------------------------------------------------------------------
(* The network and the kernel. *)

\* A datagram reaches the socket.  SIGIO is generated only once FIOASYNC is
\* on, and a second SIGIO merges with one already pending.
Arrive ==
  /\ arrived < MaxArrivals
  /\ pc # "exit"
  /\ arrived' = arrived + 1
  /\ early' = IF pc = "fioasync" THEN early + 1 ELSE early
  /\ sigio' = (sigio \/ pc # "fioasync")
  /\ UNCHANGED <<ring, cntread, nread, pc, inhandler, nonblocking, taken, sent>>

\* Mutant: sigsuspend is given newmask, which blocks SIGIO.
UnblockedNotSuspended == pc \in {"fionbio", "sigblock", "send", "advance", "block"}

\* SIGIO is open between FIOASYNC and the first SIG_BLOCK, inside sigsuspend,
\* and from the SIG_SETMASK to the SIG_BLOCK around Sendto.
Unblocked == pc \in {"fionbio", "sigblock", "suspend", "send", "advance", "block"}

\* Delivery starts the handler; while it runs SIGIO is blocked.
Deliver ==
  /\ sigio /\ Unblocked /\ ~inhandler
  /\ sigio' = FALSE
  /\ inhandler' = TRUE
  /\ nread' = 0
  /\ UNCHANGED <<ring, cntread, pc, nonblocking, arrived, taken, early, sent>>

-----------------------------------------------------------------------------
(* The handler: one action per exit or turn of its for loop. *)

\* Mutant: the handler does not test the limit.
FullUntested == FALSE

\* The limit sig_io tests before every recvfrom.
Full == nqueue >= QSIZE

\* The test comes before recvfrom: the server also quits with the ring just full
\* and nothing waiting.
SigioOverflow ==
  /\ inhandler
  /\ Full
  /\ pc' = "exit" /\ inhandler' = FALSE
  /\ UNCHANGED <<ring, cntread, nread, sigio, nonblocking, arrived, taken, early, sent>>

\* Mutant: the handler reads one datagram per signal.
SigioReadOne ==
  /\ inhandler /\ ~Full /\ taken < arrived
  /\ dg' = [dg EXCEPT ![iput] = taken + 1]
  /\ taken' = taken + 1
  /\ nqueue' = nqueue + 1
  /\ iput' = Next1(iput)
  /\ inhandler' = FALSE
  /\ pc' = IF pc = "suspend" THEN "test" ELSE pc
  /\ UNCHANGED <<iget, cntread, nread, sigio, nonblocking, arrived, early, sent>>

SigioRead ==
  /\ inhandler
  /\ ~Full
  /\ taken < arrived
  /\ dg' = [dg EXCEPT ![iput] = taken + 1]
  /\ taken' = taken + 1
  /\ nread' = nread + 1
  /\ nqueue' = nqueue + 1
  /\ iput' = Next1(iput)
  /\ UNCHANGED <<iget, cntread, pc, inhandler, sigio, nonblocking, arrived, early, sent>>

\* recvfrom fails with EWOULDBLOCK, which only a nonblocking socket does.
\* The handler returns, and with it a sigsuspend it interrupted.
SigioDone ==
  /\ inhandler
  /\ ~Full
  /\ taken = arrived /\ nonblocking
  /\ cntread' = [cntread EXCEPT ![nread] = @ + 1]
  /\ inhandler' = FALSE
  /\ pc' = IF pc = "suspend" THEN "test" ELSE pc
  /\ UNCHANGED <<ring, nread, sigio, nonblocking, arrived, taken, early, sent>>

\* sig_hup only prints; delivered in sigsuspend it ends the call.
SigHup ==
  /\ pc = "suspend" /\ ~inhandler
  /\ pc' = "test"
  /\ UNCHANGED <<ring, cntread, nread, inhandler, sigio, nonblocking, arrived,
                 taken, early, sent>>

-----------------------------------------------------------------------------
(* dg_echo: set-up, then the loop. *)

At(from, to) == pc = from /\ ~inhandler /\ pc' = to

kernelAndHandler == <<cntread, nread, inhandler, sigio, arrived, taken, early>>

Fioasync ==
  /\ At("fioasync", "fionbio")
  /\ UNCHANGED <<ring, kernelAndHandler, nonblocking, sent>>

Fionbio ==
  /\ At("fionbio", "sigblock")
  /\ nonblocking' = TRUE
  /\ UNCHANGED <<ring, kernelAndHandler, sent>>

Sigblock ==
  /\ At("sigblock", "test")
  /\ UNCHANGED <<ring, kernelAndHandler, nonblocking, sent>>

TestEmpty ==
  /\ nqueue = 0
  /\ At("test", "suspend")
  /\ UNCHANGED <<ring, kernelAndHandler, nonblocking, sent>>

TestFound ==
  /\ nqueue # 0
  /\ At("test", "unblock")
  /\ UNCHANGED <<ring, kernelAndHandler, nonblocking, sent>>

Unblock ==
  /\ At("unblock", "send")
  /\ UNCHANGED <<ring, kernelAndHandler, nonblocking, sent>>

Send ==
  /\ At("send", "advance")
  /\ sent' = Append(sent, dg[iget])
  /\ UNCHANGED <<ring, kernelAndHandler, nonblocking>>

Advance ==
  /\ At("advance", "block")
  /\ iget' = Next1(iget)
  /\ UNCHANGED <<dg, iput, nqueue, kernelAndHandler, nonblocking, sent>>

Block ==
  /\ At("block", "decrement")
  /\ UNCHANGED <<ring, kernelAndHandler, nonblocking, sent>>

Decrement ==
  /\ At("decrement", "test")
  /\ nqueue' = nqueue - 1
  /\ UNCHANGED <<dg, iget, iput, kernelAndHandler, nonblocking, sent>>

sig_io == SigioOverflow \/ SigioRead \/ SigioDone

dg_echo == \/ Fioasync \/ Fionbio \/ Sigblock
           \/ TestEmpty \/ TestFound \/ Unblock
           \/ Send \/ Advance \/ Block \/ Decrement

Next == Arrive \/ Deliver \/ sig_io \/ SigHup \/ dg_echo

-----------------------------------------------------------------------------
TypeOK ==
  /\ dg \in [Slots -> Nat]
  /\ iget \in Slots /\ iput \in Slots
  /\ nqueue \in 0 .. QSIZE
  /\ nread \in 0 .. QSIZE
  /\ cntread \in [0 .. QSIZE -> Nat]
  /\ pc \in SetupPCs \cup LoopPCs \cup {"exit"}
  /\ inhandler \in BOOLEAN /\ sigio \in BOOLEAN /\ nonblocking \in BOOLEAN
  /\ arrived \in Nat /\ taken \in 0 .. arrived /\ early \in 0 .. arrived
  /\ sent \in Seq(Nat)

\* Between ++iget and nqueue-- the slot just sent is still counted.
Queued == IF pc \in {"block", "decrement"} THEN nqueue - 1 ELSE nqueue

\* The k-th slot from iget on.
Slot(k) == IF iget + k >= QSIZE THEN iget + k - QSIZE ELSE iget + k

\* The datagrams echoed and out of the ring: between Sendto and ++iget the slot
\* at iget is the one just echoed.
Echoed == IF pc = "advance" THEN Len(sent) - 1 ELSE Len(sent)

\* The ring holds exactly the datagrams read and not yet echoed, oldest at
\* iget, so the handler's next slot is free.
RingInv ==
  pc # "exit" =>
    /\ iput = Slot(Queued)
    /\ taken = Echoed + Queued
    /\ \A k \in 0 .. Queued - 1 : dg[Slot(k)] = Echoed + k + 1

\* Every datagram read is echoed once and in the order of arrival: the
\* handler, which may run between any two statements of the loop while SIGIO
\* is open, never overwrites a slot that the main loop has yet to send.
EchoInOrder == \A i \in 1 .. Len(sent) : sent[i] = i

\* A datagram waiting in the socket is never forgotten: SIGIO is pending or the
\* handler is still looping.  Only what came before FIOASYNC, with nothing after
\* it, is left there.
NoStrandedDatagram ==
  taken < arrived /\ pc # "exit" => sigio \/ inhandler \/ arrived = early

\* The histogram cntread[QSIZE+1] is indexed by nread, which counts the turns of
\* one run of the handler: it stays below QSIZE whatever the ring held before.
HistogramInBounds == inhandler => nread <= nqueue

\* Between FIOASYNC and FIONBIO the handler runs on a socket that blocks, and
\* then waits in recvfrom instead of returning.
Blocked == inhandler /\ ~nonblocking

\* Every datagram is echoed once one has come after FIOASYNC, unless the server
\* exits or the handler blocks.
EventuallyEchoed ==
  \A n \in 1 .. MaxArrivals :
    arrived >= n /\ arrived > early ~> (Len(sent) >= n \/ pc = "exit" \/ Blocked)
=============================================================================
