-------------------------------- MODULE Rtt --------------------------------
(***************************************************************************)
(* The retransmission-timer functions of lib/rtt.c, as operators on the     *)
(* struct rtt_info, here a record [srtt, rttvar, rto, nrexmt].              *)
(*                                                                          *)
(* Times are integers in units of 1/SCALE second.  The code uses float; the *)
(* estimators only ever divide by 8 and by 4, so for whole-second samples   *)
(* SCALE = 2^(3k) makes the first k updates exact in both.                  *)
(***************************************************************************)
EXTENDS Integers

CONSTANTS
  SCALE,         \* units per second, a multiple of 4
  RTT_RXTMIN,    \* min retransmit timeout value, in seconds
  RTT_RXTMAX,    \* max retransmit timeout value, in seconds
  RTT_MAXNREXMT  \* max # times to retransmit

ASSUME RttAssumption ==
  /\ SCALE \in Nat \ {0} /\ SCALE % 4 = 0
  /\ RTT_RXTMIN \in Nat \ {0} /\ RTT_RXTMAX \in Nat /\ RTT_RXTMIN <= RTT_RXTMAX
  /\ RTT_MAXNREXMT \in Nat

RTT_RTOCALC(srtt, rttvar) == srtt + 4 * rttvar

\* Mutant: the lower limit is forgotten.
rtt_maxonly(rto) == IF rto > RTT_RXTMAX * SCALE THEN RTT_RXTMAX * SCALE ELSE rto

rtt_minmax(rto) ==
  IF rto < RTT_RXTMIN * SCALE THEN RTT_RXTMIN * SCALE
  ELSE IF rto > RTT_RXTMAX * SCALE THEN RTT_RXTMAX * SCALE
  ELSE rto

rtt_init ==
  LET rttvar == (3 * SCALE) \div 4 IN
  [srtt |-> 0, rttvar |-> rttvar, rto |-> rtt_minmax(RTT_RTOCALC(0, rttvar)),
   nrexmt |-> 0]

rtt_newpack(info) == [info EXCEPT !.nrexmt = 0]

\* Whole seconds for alarm(), rounded to nearest.
rtt_start(info) == (2 * info.rto + SCALE) \div (2 * SCALE)

rtt_stop(info, sample) ==
  LET delta  == sample - info.srtt
      srtt   == info.srtt + delta \div 8
      abs    == IF delta < 0 THEN -delta ELSE delta
      rttvar == info.rttvar + (abs - info.rttvar) \div 4
  IN [info EXCEPT !.srtt = srtt, !.rttvar = rttvar,
                  !.rto = rtt_minmax(RTT_RTOCALC(srtt, rttvar))]

\* Doubles the RTO, without rtt_minmax, and counts the retransmission;
\* the caller gives up when GivesUp holds of the result.
rtt_timeout(info) == [info EXCEPT !.rto = 2 * @, !.nrexmt = @ + 1]

GivesUp(info) == info.nrexmt > RTT_MAXNREXMT
=============================================================================
