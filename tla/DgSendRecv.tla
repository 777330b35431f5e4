----------------------------- MODULE DgSendRecv -----------------------------
(***************************************************************************)
(* Reliable request/reply over UDP: dg_send_recv of rtt/dg_send_recv.c with *)
(* its caller dg_cli, the server's dg_echo, and a network that loses,       *)
(* duplicates, delays and reorders datagrams.                               *)
(*                                                                          *)
(* A request is the number of the call that made it; that stands for its    *)
(* data.  A header is the sequence number and the timestamp, and a          *)
(* timestamp is <<which rtt_init set rtt_base, transmissions since>>.       *)
(* Datagrams are never removed from net: one may be delivered many times,   *)
(* late, out of order or not at all.  SIGALRM may arrive at any moment once *)
(* the timer is set: no relation between the timer and the network's delay  *)
(* is assumed.                                                              *)
(***************************************************************************)
EXTENDS Rtt, FiniteSets

CONSTANTS
  MaxRequests,   \* bound: calls of dg_send_recv
  SEQMOD,        \* 2^32 in the code
  Samples        \* round-trip times that may be measured, in seconds

ASSUME DgAssumption ==
  /\ SEQMOD \in Nat /\ MaxRequests \in Nat /\ MaxRequests < SEQMOD
  /\ Samples \subseteq Nat

VARIABLES
  pc,          \* next statement of dg_send_recv, or "idle", "exit", "undefined"
  rttinit, rttinfo,
  sendhdr,     \* [seq, ts]
  armed,       \* is SIGALRM scheduled?
  jmpset,      \* has this call executed sigsetjmp?
  recvd,       \* last datagram received, header and data
  call,        \* number of the current call
  base, nsent, \* rtt_inits so far, transmissions since the last of them
  ntrans,      \* transmissions of this call
  net          \* datagrams sent, in either direction

vars == <<pc, rttinit, rttinfo, sendhdr, armed, jmpset, recvd, call, base,
          nsent, ntrans, net>>

Datagrams == [to : {"server", "client"}, seq : 0 .. SEQMOD - 1,
              ts : Nat \X Nat, req : Nat]

\* A datagram too short to hold a header.
Short == [to |-> "client", seq |-> 0, ts |-> <<0, 0>>, req |-> 0]

Init ==
  /\ pc = "idle"
  /\ rttinit = 0 /\ rttinfo = rtt_init
  /\ sendhdr = [seq |-> 0, ts |-> <<0, 0>>]
  /\ armed = FALSE /\ jmpset = FALSE
  /\ recvd = Short
  /\ call = 0 /\ base = 0 /\ nsent = 0 /\ ntrans = 0
  /\ net = {}

-----------------------------------------------------------------------------
(* The server. *)

dg_echo ==
  \E m \in net :
    /\ m.to = "server"
    /\ net' = net \cup {[m EXCEPT !.to = "client"]}
    /\ UNCHANGED <<pc, rttinit, rttinfo, sendhdr, armed, jmpset, recvd, call,
                   base, nsent, ntrans>>

-----------------------------------------------------------------------------
(* The client: one action per step of dg_send_recv that a signal can split. *)

\* Mutant: the sequence number is not advanced.
SendRecvSameSeq ==
  /\ pc = "idle" /\ call < MaxRequests
  /\ call' = call + 1
  /\ base' = IF rttinit = 0 THEN base + 1 ELSE base
  /\ nsent' = IF rttinit = 0 THEN 0 ELSE nsent
  /\ rttinfo' = rtt_newpack(IF rttinit = 0 THEN rtt_init ELSE rttinfo)
  /\ rttinit' = 1
  /\ jmpset' = FALSE /\ ntrans' = 0
  /\ pc' = "send"
  /\ UNCHANGED <<sendhdr, armed, recvd, net>>

dg_send_recv ==
  /\ pc = "idle" /\ call < MaxRequests
  /\ call' = call + 1
  /\ base' = IF rttinit = 0 THEN base + 1 ELSE base
  /\ nsent' = IF rttinit = 0 THEN 0 ELSE nsent
  /\ rttinfo' = rtt_newpack(IF rttinit = 0 THEN rtt_init ELSE rttinfo)
  /\ rttinit' = 1
  /\ sendhdr' = [sendhdr EXCEPT !.seq = (@ + 1) % SEQMOD]
  /\ jmpset' = FALSE /\ ntrans' = 0
  /\ pc' = "send"
  /\ UNCHANGED <<armed, recvd, net>>

SendAgain ==
  /\ pc = "send"
  /\ nsent' = nsent + 1 /\ ntrans' = ntrans + 1
  /\ sendhdr' = [sendhdr EXCEPT !.ts = <<base, nsent + 1>>]
  /\ net' = net \cup {[to |-> "server", seq |-> sendhdr.seq,
                       ts |-> <<base, nsent + 1>>, req |-> call]}
  /\ pc' = "alarm"
  /\ UNCHANGED <<rttinit, rttinfo, armed, jmpset, recvd, call, base>>

\* Mutant: a retransmission does not restart the timer.
AlarmOnce ==
  /\ pc = "alarm"
  /\ armed' = (ntrans = 1)
  /\ pc' = "setjmp"
  /\ UNCHANGED <<rttinit, rttinfo, sendhdr, jmpset, recvd, call, base, nsent,
                 ntrans, net>>

\* alarm(0) would cancel the timer instead of setting it.
Alarm ==
  /\ pc = "alarm"
  /\ armed' = (rtt_start(rttinfo) > 0)
  /\ pc' = "setjmp"
  /\ UNCHANGED <<rttinit, rttinfo, sendhdr, jmpset, recvd, call, base, nsent,
                 ntrans, net>>

Setjmp ==
  /\ pc = "setjmp"
  /\ jmpset' = TRUE
  /\ pc' = "recv"
  /\ UNCHANGED <<rttinit, rttinfo, sendhdr, armed, recvd, call, base, nsent,
                 ntrans, net>>

\* Mutant: any datagram with a header is taken for the reply.
MatchesAny(m) == m # Short

\* The loop's exit: n >= sizeof(struct hdr) and recvhdr.seq == sendhdr.seq.
Matches(m) == m # Short /\ m.seq = sendhdr.seq

\* A datagram, possibly of an earlier call, or one too short for a header.
Recvmsg ==
  /\ pc = "recv"
  /\ \E m \in {d \in net : d.to = "client"} \cup {Short} :
       /\ recvd' = m
       /\ pc' = IF Matches(m) THEN "stop" ELSE "recv"
  /\ UNCHANGED <<rttinit, rttinfo, sendhdr, armed, jmpset, call, base, nsent,
                 ntrans, net>>

\* alarm(0), rtt_stop and the return to dg_cli, which loops.
Return ==
  /\ pc = "stop"
  /\ armed' = FALSE
  /\ \E s \in Samples : rttinfo' = rtt_stop(rttinfo, s * SCALE)
  /\ pc' = "idle"
  /\ UNCHANGED <<rttinit, sendhdr, jmpset, recvd, call, base, nsent, ntrans, net>>

\* sig_alrm: siglongjmp to this call's sigsetjmp, then retransmit or give up.  A
\* caller that gets the error exits (Dg_send_recv) or goes on.  Before this call's
\* sigsetjmp, jmpbuf belongs to no live frame.
sig_alrm ==
  /\ armed /\ pc \in {"setjmp", "recv", "stop"}
  /\ armed' = FALSE
  /\ IF jmpset
     THEN /\ rttinfo' = rtt_timeout(rttinfo)
          /\ IF GivesUp(rttinfo')
             THEN rttinit' = 0 /\ pc' \in {"idle", "exit"}
             ELSE pc' = "send" /\ UNCHANGED rttinit
     ELSE pc' = "undefined" /\ UNCHANGED <<rttinfo, rttinit>>
  /\ UNCHANGED <<sendhdr, jmpset, recvd, call, base, nsent, ntrans, net>>

client == dg_send_recv \/ SendAgain \/ Alarm \/ Setjmp \/ Return

Next == client \/ Recvmsg \/ sig_alrm \/ dg_echo

-----------------------------------------------------------------------------
TypeOK ==
  /\ pc \in {"idle", "send", "alarm", "setjmp", "recv", "stop", "exit", "undefined"}
  /\ rttinit \in {0, 1}
  /\ rttinfo \in [srtt : Int, rttvar : Int, rto : Nat, nrexmt : 0 .. RTT_MAXNREXMT + 1]
  /\ sendhdr \in [seq : 0 .. SEQMOD - 1, ts : Nat \X Nat]
  /\ armed \in BOOLEAN /\ jmpset \in BOOLEAN
  /\ recvd \in Datagrams
  /\ call \in 0 .. MaxRequests /\ base \in Nat /\ nsent \in Nat
  /\ ntrans \in 0 .. 1 + RTT_MAXNREXMT
  /\ net \subseteq Datagrams

\* The reply dg_send_recv returns answers the request of this call, whatever
\* replies of earlier calls are still in the network.
ReplyMatchesRequest == pc = "stop" => recvd.req = call

\* The timestamp that rtt_stop is given was taken in this call and against the
\* rtt_base in force, so the sample is the time of one transmission of this
\* request even after retransmissions and a re-initialisation.
SampleOfThisRequest ==
  pc = "stop" => recvd.ts[1] = base /\ recvd.ts[2] \in (nsent - ntrans) + 1 .. nsent

\* Every call returns a reply or gives up, whatever the network does, unless the
\* timer expires before sigsetjmp.
CallTerminates == pc = "send" ~> pc \in {"idle", "exit", "undefined"}
=============================================================================
