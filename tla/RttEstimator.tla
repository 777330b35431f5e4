---------------------------- MODULE RttEstimator ----------------------------
(***************************************************************************)
(* The estimators of lib/rtt.c under any sequence of packets, time-outs and *)
(* measured round-trip times, in the order the functions are meant to be    *)
(* called: rtt_newpack, then rtt_timeout any number of times until it gives *)
(* up, or rtt_stop.                                                         *)
(***************************************************************************)
EXTENDS Rtt

CONSTANTS
  Samples,      \* round-trip times, in seconds
  MaxSamples    \* bound: calls of rtt_stop

ASSUME EstimatorAssumption == Samples \subseteq Nat /\ MaxSamples \in Nat

VARIABLES
  info,     \* the struct rtt_info
  waiting,  \* between rtt_newpack and rtt_stop or giving up
  last,     \* the last sample, -1 before the first
  peak,     \* the largest sample so far
  nsamples

vars == <<info, waiting, last, peak, nsamples>>

Init ==
  /\ info = rtt_init
  /\ waiting = FALSE
  /\ last = -1 /\ peak = 0 /\ nsamples = 0

NewPacket ==
  /\ ~waiting
  /\ info' = rtt_newpack(info)
  /\ waiting' = TRUE
  /\ UNCHANGED <<last, peak, nsamples>>

Timeout ==
  /\ waiting
  /\ ~GivesUp(rtt_timeout(info))
  /\ info' = rtt_timeout(info)
  /\ UNCHANGED <<waiting, last, peak, nsamples>>

\* The caller gives up and starts over with rtt_init.
GiveUp ==
  /\ waiting
  /\ GivesUp(rtt_timeout(info))
  /\ info' = rtt_init
  /\ waiting' = FALSE
  /\ last' = -1 /\ peak' = 0
  /\ UNCHANGED nsamples

Stop ==
  \E s \in Samples :
    /\ waiting /\ nsamples < MaxSamples
    /\ info' = rtt_stop(info, s * SCALE)
    /\ waiting' = FALSE
    /\ last' = s
    /\ peak' = IF s > peak THEN s ELSE peak
    /\ nsamples' = nsamples + 1

Next == NewPacket \/ Timeout \/ GiveUp \/ Stop

Spec == Init /\ [][Next]_vars

-----------------------------------------------------------------------------
TypeOK ==
  /\ info \in [srtt : Int, rttvar : Int, rto : Nat, nrexmt : 0 .. RTT_MAXNREXMT]
  /\ waiting \in BOOLEAN
  /\ last \in Samples \cup {-1} /\ peak \in Samples \cup {0}
  /\ nsamples \in 0 .. MaxSamples

\* The estimators stay what they estimate: the smoothed RTT between zero and
\* the largest RTT measured, the mean deviation never negative.
EstimatorsBounded == info.srtt \in 0 .. peak * SCALE /\ info.rttvar >= 0

\* Each packet starts with an RTO that covers the RTT measured for the packet
\* before it (up to the limit): the same RTT again causes no retransmission.
RtoCoversLastSample ==
  ~waiting /\ last # -1 =>
    info.rto >= (IF last > RTT_RXTMAX THEN RTT_RXTMAX ELSE last) * SCALE

\* A time-out never shortens the RTO, and between packets it is between the limits
\* (the back-off of one packet is undone by the next rtt_stop).
RtoStep ==
  /\ (waiting /\ waiting' => info'.rto >= info.rto)
  /\ (waiting /\ ~waiting' => info'.rto \in RTT_RXTMIN * SCALE .. RTT_RXTMAX * SCALE)
RtoDiscipline == [][RtoStep]_vars
=============================================================================
