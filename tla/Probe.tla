------------------------------- MODULE Probe -------------------------------
(***************************************************************************)
(* Programs that send probes and find the answers in a raw socket, or in a  *)
(* packet capture, which also shows them the answers of other programs:     *)
(*   ping/main.c       one echo request each second, from SIGALRM           *)
(*   ping/bsdping.c    the BSD ping, with -c count, -l preload and -f       *)
(*   traceroute/       three probes for each TTL, three seconds for each    *)
(*   udpcksum/         one DNS query, sent again by siglongjmp()            *)
(* A probe is a number.  The network may lose, delay, reorder and repeat    *)
(* answers.  Signals come between any two steps.                            *)
(***************************************************************************)
EXTENDS Integers, Sequences, FiniteSets

CONSTANTS SeqMod,    \* sequence numbers of ICMP echo, 2^16 in the code
          Count,     \* bsdping -c
          Preloads,  \* values of bsdping -l
          max_ttl, nprobes,
          PathLen,   \* hops to the destination
          RcvBuf,    \* messages that the raw socket holds
          MaxOther,  \* messages for other programs
          MaxDups    \* answers that are repeated

VARIABLES
  pprog,     \* the program and its options
  ppc,
  alrm,      \* the timer runs
  ending,    \* bsdping: SIGALRM leads to onint()
  flag,      \* gotalarm of traceroute, canjump of udpcksum
  sent,      \* probes sent: nsent, ntransmitted, seq
  got,       \* the message last read
  code,      \* what recv_v4() and recv_v6() return
  done,      \* traceroute: answers from the destination; ping: one was shown
  nreceived, nrepeats,
  rcvd_tbl,  \* bits that are set
  reg,       \* rcvd_tbl as it was loaded for SET
  answered,  \* probes of bsdping with an answer that was taken
  raced,     \* a number was used again before its answer was taken, or inside
             \* SET; or the alarm came between udp_read() and canjump = 0
  flight,    \* probes whose answer may come
  rawq,      \* messages in the raw socket
  nother, ndups

counters == <<nreceived, nrepeats, rcvd_tbl, reg, answered, raced>>
pnet == <<flight, rawq, nother, ndups>>
pvars == <<pprog, ppc, alrm, ending, flag, sent, got, code, done, counters, pnet>>

-----------------------------------------------------------------------------
(* The programs.                                                           *)

Prog(kind) ==
  [kind |-> kind, v6 |-> FALSE, libnet |-> FALSE, count |-> 0, preload |-> 0, flood |-> FALSE]

ping(v6) == [Prog("ping") EXCEPT !.v6 = v6]
bsdping(count, preload, flood) ==
  [Prog("bsdping") EXCEPT !.count = count, !.preload = preload, !.flood = flood]
traceroute(v6) == [Prog("traceroute") EXCEPT !.v6 = v6]
udpcksum(libnet) == [Prog("udpcksum") EXCEPT !.libnet = libnet]

Programs ==
  {udpcksum(b) : b \in BOOLEAN} \cup {ping(v) : v \in BOOLEAN} \cup {traceroute(v) : v \in BOOLEAN}
  \cup {bsdping(Count, l, f) : l \in Preloads, f \in BOOLEAN}

Is(kind) == pprog.kind = kind
NoMsg == [own |-> FALSE, n |-> 0, t |-> "none"]
Noresponse == -3   \* timeout
Exceeded == -2     \* an intermediate router
Reached == -1      \* port unreachable: the destination

\* What may come back for probe n: from a router on the way, or from the
\* destination, where the port or something else is unreachable.
ttl(n) == (n - 1) \div nprobes + 1
AnswersTo(n) ==
  IF ~Is("traceroute") THEN {[own |-> TRUE, n |-> n, t |-> "reply"]}
  ELSE IF ttl(n) < PathLen THEN {[own |-> TRUE, n |-> n, t |-> "exceeded"]}
  ELSE {[own |-> TRUE, n |-> n, t |-> t] : t \in {"port", "admin"}}

Send(n) == flight' = flight \cup {n}

Init ==
  /\ pprog \in Programs /\ ppc = "start"
  /\ alrm = FALSE /\ ending = FALSE /\ flag = FALSE
  /\ sent = 0 /\ got = NoMsg /\ code = 0 /\ done = 0
  /\ nreceived = 0 /\ nrepeats = 0 /\ rcvd_tbl = {} /\ reg = {}
  /\ answered = {} /\ raced = FALSE
  /\ flight = {} /\ rawq = << >> /\ nother = 0 /\ ndups = 0

\* recvfrom() or recvmsg() has a message.
Receive(from, to) ==
  /\ ppc = from /\ rawq # << >>
  /\ got' = Head(rawq) /\ rawq' = Tail(rawq) /\ ppc' = to
  /\ UNCHANGED <<pprog, alrm, ending, flag, sent, code, done, counters, flight, nother, ndups>>

-----------------------------------------------------------------------------
(* ping: readloop() and sig_alrm().                                        *)

\* icmp_seq has 16 bits.
send_v4 == sent' = (sent + 1) % SeqMod /\ Send(sent)
send_v6 == sent' = (sent + 1) % SeqMod /\ Send(sent)

sig_alrm ==
  /\ Is("ping") /\ (ppc = "start" \/ alrm)
  /\ IF pprog.v6 THEN send_v6 ELSE send_v4
  /\ alrm' = TRUE
  /\ ppc' = IF ppc = "start" THEN "recvmsg" ELSE ppc
  /\ UNCHANGED <<pprog, ending, flag, got, code, done, counters, rawq, nother, ndups>>

readloop == Is("ping") /\ Receive("recvmsg", "fproc")

\* Only an answer with our identifier is shown.
proc_v4 == got.own
proc_v6 == got.own

fproc ==
  /\ Is("ping") /\ ppc = "fproc" /\ ppc' = "recvmsg" /\ got' = NoMsg
  /\ done' = IF IF pprog.v6 THEN proc_v6 ELSE proc_v4 THEN 1 ELSE done
  /\ UNCHANGED <<pprog, alrm, ending, flag, sent, code, counters, pnet>>

-----------------------------------------------------------------------------
(* bsdping                                                                 *)

\* Mutant: the bit of the number that is used again is not cleared.
pinger_NoClr ==
  /\ sent' = sent + 1 /\ Send(sent)
  /\ UNCHANGED <<rcvd_tbl, raced>>

pinger ==
  /\ sent' = sent + 1 /\ Send(sent)
  /\ rcvd_tbl' = rcvd_tbl \ {sent % SeqMod}
  /\ raced' = (raced \/ (ppc = "set" /\ sent % SeqMod \in reg \cup {got.n % SeqMod}))

\* while (preload--) pinger(); then the timer is set, or -f sends at once.
bsd_preload ==
  /\ Is("bsdping") /\ ppc = "start" /\ sent < pprog.preload /\ pinger
  /\ UNCHANGED <<pprog, ppc, alrm, ending, flag, got, code, done, nreceived, nrepeats, reg,
                 answered, rawq, nother, ndups>>

bsd_start ==
  /\ Is("bsdping") /\ ppc = "start" /\ sent >= pprog.preload
  /\ alrm' = ~pprog.flood /\ ppc' = IF pprog.flood THEN "flood" ELSE "recvfrom"
  /\ UNCHANGED <<pprog, ending, flag, sent, got, code, done, counters, pnet>>

\* pinger(), then select() for 10 ms; the last probe is a bound of the model.
bsd_flood ==
  /\ Is("bsdping") /\ ppc = "flood"
  /\ IF sent <= Count THEN pinger ELSE UNCHANGED <<sent, flight, rcvd_tbl, raced>>
  /\ ppc' = "select"
  /\ UNCHANGED <<pprog, alrm, ending, flag, got, code, done, nreceived, nrepeats, reg,
                 answered, rawq, nother, ndups>>

bsd_select ==
  /\ Is("bsdping") /\ ppc = "select"
  /\ ppc' = IF rawq # << >> THEN "recvfrom" ELSE "flood"
  /\ UNCHANGED <<pprog, alrm, ending, flag, sent, got, code, done, counters, pnet>>

\* Mutant: after the last probe the timer is not changed.
onalrm_NoLastWait ==
  /\ Is("bsdping") /\ alrm /\ ~ending
  /\ IF pprog.count = 0 \/ sent < pprog.count THEN pinger
     ELSE UNCHANGED <<sent, flight, rcvd_tbl, raced>>
  /\ UNCHANGED <<pprog, ppc, alrm, ending, flag, got, code, done, nreceived, nrepeats, reg,
                 answered, rawq, nother, ndups>>

\* onalrm(): another probe, or no more probes and a last wait for answers.
onalrm ==
  /\ Is("bsdping") /\ alrm /\ ~ending
  /\ IF pprog.count = 0 \/ sent < pprog.count
     THEN pinger /\ UNCHANGED ending
     ELSE ending' = TRUE /\ UNCHANGED <<sent, flight, rcvd_tbl, raced>>
  /\ UNCHANGED <<pprog, ppc, alrm, flag, got, code, done, nreceived, nrepeats, reg, answered,
                 rawq, nother, ndups>>

\* onint(): the last wait is over, or the user has typed the interrupt key.
onint ==
  /\ Is("bsdping") /\ ppc \notin {"start", "exit", "killed"}
  /\ ppc' = "killed" /\ alrm' = FALSE
  /\ UNCHANGED <<pprog, ending, flag, sent, got, code, done, counters, pnet>>

bsd_recvfrom == Is("bsdping") /\ Receive("recvfrom", "pack")

\* pr_pack(): an answer with our identifier is counted,
pr_pack ==
  /\ Is("bsdping") /\ ppc = "pack"
  /\ IF got.own THEN nreceived' = nreceived + 1 /\ ppc' = "tst"
     ELSE ppc' = "again" /\ UNCHANGED nreceived
  /\ UNCHANGED <<pprog, alrm, ending, flag, sent, got, code, done, nrepeats, rcvd_tbl, reg,
                 answered, raced, pnet>>

\* and no longer counted if it is the second one.
pr_pack_tst ==
  /\ Is("bsdping") /\ ppc = "tst"
  /\ IF got.n % SeqMod \in rcvd_tbl
     THEN /\ nrepeats' = nrepeats + 1 /\ nreceived' = nreceived - 1 /\ ppc' = "again"
          /\ UNCHANGED reg
     ELSE reg' = rcvd_tbl /\ ppc' = "set" /\ UNCHANGED <<nreceived, nrepeats>>
  /\ answered' = answered \cup {got.n} /\ raced' = (raced \/ got.n + SeqMod < sent)
  /\ UNCHANGED <<pprog, alrm, ending, flag, sent, got, code, done, rcvd_tbl, pnet>>

\* SET loads a byte of the table, changes it and stores it.
pr_pack_set ==
  /\ Is("bsdping") /\ ppc = "set"
  /\ rcvd_tbl' = reg \cup {got.n % SeqMod} /\ reg' = {} /\ ppc' = "again"
  /\ UNCHANGED <<pprog, alrm, ending, flag, sent, got, code, done, nreceived, nrepeats,
                 answered, raced, pnet>>

\* if (npackets && nreceived >= npackets) break;
bsd_again ==
  /\ Is("bsdping") /\ ppc = "again" /\ got' = NoMsg
  /\ IF pprog.count # 0 /\ nreceived >= pprog.count
     THEN ppc' = "exit" /\ alrm' = FALSE
     ELSE ppc' = (IF pprog.flood THEN "flood" ELSE "recvfrom") /\ UNCHANGED alrm
  /\ UNCHANGED <<pprog, ending, flag, sent, code, done, counters, pnet>>

bsdping_step == \/ bsd_preload \/ bsd_start \/ bsd_flood \/ bsd_select \/ bsd_recvfrom
                \/ pr_pack \/ pr_pack_tst \/ pr_pack_set \/ bsd_again

-----------------------------------------------------------------------------
(* traceroute: traceloop(), recv_v4() and recv_v6().                       *)

\* Sendto(); gotalarm = 0; alarm(3).
trace_send ==
  /\ Is("traceroute") /\ ppc \in {"start", "send"}
  /\ sent' = sent + 1 /\ Send(sent + 1)
  /\ flag' = FALSE /\ alrm' = TRUE /\ ppc' = "check"
  /\ UNCHANGED <<pprog, ending, got, code, done, counters, rawq, nother, ndups>>

\* if (gotalarm) return(-3); a signal from here to recvfrom() interrupts nothing.
trace_check ==
  /\ Is("traceroute") /\ ppc = "check"
  /\ IF flag THEN code' = Noresponse /\ ppc' = "result" ELSE ppc' = "call" /\ UNCHANGED code
  /\ UNCHANGED <<pprog, alrm, ending, flag, sent, got, done, counters, pnet>>

trace_call ==
  /\ Is("traceroute") /\ ppc = "call" /\ ppc' = "recvfrom"
  /\ UNCHANGED <<pprog, alrm, ending, flag, sent, got, code, done, counters, pnet>>

trace_recvfrom == Is("traceroute") /\ Receive("recvfrom", "match")

\* The signal sets gotalarm and interrupts recvfrom().
trace_alarm ==
  /\ Is("traceroute") /\ alrm
  /\ alrm' = FALSE /\ flag' = TRUE
  /\ ppc' = IF ppc = "recvfrom" THEN "check" ELSE ppc
  /\ UNCHANGED <<pprog, ending, sent, got, code, done, counters, pnet>>

\* The message quotes our source port and the destination port of this probe.
Ours == got.own /\ got.n = sent

\* The code for a message that ends the loop of recv_v4().
recv_v4 ==
  IF ~Ours THEN {}
  ELSE {CASE got.t = "exceeded" -> Exceeded [] got.t = "port" -> Reached [] OTHER -> 0}

\* In recv_v6() the break belongs to no if: every time exceeded message ends
\* the loop, and ret has no value unless the message is ours.
recv_v6 ==
  IF got.t = "exceeded" /\ ~Ours THEN {Noresponse, Exceeded, Reached, 0} ELSE recv_v4

trace_match ==
  /\ Is("traceroute") /\ ppc = "match"
  /\ LET ret == IF pprog.v6 THEN recv_v6 ELSE recv_v4 IN
     IF ret = {} THEN ppc' = "check" /\ got' = NoMsg /\ UNCHANGED code
     ELSE code' \in ret /\ ppc' = "unarm" /\ UNCHANGED got
  /\ UNCHANGED <<pprog, alrm, ending, flag, sent, done, counters, pnet>>

\* alarm(0); the signal may have come before.
trace_unarm ==
  /\ Is("traceroute") /\ ppc = "unarm" /\ alrm' = FALSE /\ ppc' = "result"
  /\ UNCHANGED <<pprog, ending, flag, sent, got, code, done, counters, pnet>>

\* The next probe, the next TTL, or the end.
traceloop ==
  /\ Is("traceroute") /\ ppc = "result"
  /\ done' = IF code = Reached THEN done + 1 ELSE done
  /\ ppc' = IF sent % nprobes = 0 /\ (done' > 0 \/ sent = max_ttl * nprobes) THEN "exit" ELSE "send"
  /\ got' = NoMsg /\ code' = 0
  /\ UNCHANGED <<pprog, alrm, ending, flag, sent, counters, pnet>>

trace_step == \/ trace_send \/ trace_check \/ trace_call \/ trace_recvfrom \/ trace_match
              \/ trace_unarm \/ traceloop

-----------------------------------------------------------------------------
(* udpcksum: test_udp().                                                   *)

\* The query and its UDP and IP headers, written by hand or by libnet.
udp_write(n) == Send(n)
send_dns_query_raw == udp_write(sent + 1)
send_dns_query_libnet == Send(sent + 1)

\* canjump = 1; send_dns_query(); nsent++.
test_udp_send ==
  /\ Is("udpcksum") /\ ppc = "start"
  /\ flag' = TRUE /\ sent' = sent + 1 /\ ppc' = "alarm"
  /\ IF pprog.libnet THEN send_dns_query_libnet ELSE send_dns_query_raw
  /\ UNCHANGED <<pprog, alrm, ending, got, code, done, counters, rawq, nother, ndups>>

test_udp_alarm ==
  /\ Is("udpcksum") /\ ppc = "alarm" /\ alrm' = TRUE /\ ppc' = "read"
  /\ UNCHANGED <<pprog, ending, flag, sent, got, code, done, counters, pnet>>

\* udp_read(): what passes the filter is taken for the answer.
udp_read == Is("udpcksum") /\ Receive("read", "nojump")

test_udp_nojump ==
  /\ Is("udpcksum") /\ ppc = "nojump" /\ flag' = FALSE /\ ppc' = "noalarm"
  /\ UNCHANGED <<pprog, alrm, ending, sent, got, code, done, counters, pnet>>

test_udp_done ==
  /\ Is("udpcksum") /\ ppc = "noalarm" /\ alrm' = FALSE /\ ppc' = "exit"
  /\ UNCHANGED <<pprog, ending, flag, sent, got, code, done, counters, pnet>>

\* sig_alrm(): siglongjmp() back, to send again or to give up after three.
udpcksum_alrm ==
  /\ Is("udpcksum") /\ alrm /\ alrm' = FALSE
  /\ ppc' = IF ~flag THEN ppc ELSE IF sent >= 3 THEN "noresponse" ELSE "start"
  /\ raced' = (raced \/ ppc = "nojump")
  /\ UNCHANGED <<pprog, ending, flag, sent, got, code, done, nreceived, nrepeats, rcvd_tbl, reg,
                 answered, pnet>>

cksum_step == test_udp_send \/ test_udp_alarm \/ udp_read \/ test_udp_nojump \/ test_udp_done

-----------------------------------------------------------------------------
(* The network.                                                            *)

\* An answer arrives, once or twice; those that stay in flight are lost.
Deliver ==
  /\ Len(rawq) < RcvBuf
  /\ \E n \in flight :
       /\ \E m \in AnswersTo(n) : rawq' = Append(rawq, m)
       /\ \/ flight' = flight \ {n} /\ UNCHANGED ndups
          \/ ndups < MaxDups /\ ndups' = ndups + 1 /\ UNCHANGED flight
  /\ UNCHANGED <<pprog, ppc, alrm, ending, flag, sent, got, code, done, counters, nother>>

\* An answer for another program.
Other ==
  /\ nother < MaxOther /\ Len(rawq) < RcvBuf /\ nother' = nother + 1
  /\ \E t \in {a.t : a \in AnswersTo(1)} :
       rawq' = Append(rawq, [own |-> FALSE, n |-> sent, t |-> t])
  /\ UNCHANGED <<pprog, ppc, alrm, ending, flag, sent, got, code, done, counters, flight, ndups>>

-----------------------------------------------------------------------------
Process == readloop \/ fproc \/ bsdping_step \/ trace_step \/ cksum_step
Clock == sig_alrm \/ onalrm \/ (alrm /\ ending /\ onint) \/ trace_alarm \/ udpcksum_alrm

Next == Process \/ Clock \/ onint \/ Deliver \/ Other

\* The process runs and its timer expires; nothing is assumed of the network.
Spec == Init /\ [][Next]_pvars /\ WF_pvars(Process) /\ WF_pvars(Clock)

-----------------------------------------------------------------------------
(* Properties.                                                             *)

\* The counters that summary() of bsdping prints: between two calls of
\* pr_pack() nreceived is the number of probes with an answer, however often
\* answers are repeated and numbers used again; unless an answer is taken
\* after its number was used again, or onalrm() clears a bit just while
\* pr_pack() sets one.  The interrupt key may come inside pr_pack(), and then
\* one answer too many may be printed.
SummaryExact ==
  Is("bsdping") =>
    /\ ppc \in {"recvfrom", "flood", "select", "exit"} =>
         raced \/ nreceived = Cardinality(answered)
    /\ ppc = "killed" => raced \/ nreceived <= Cardinality(answered) + 1

\* A hop is shown only for an answer to the probe that was sent last, and
\* traceroute ends early only when the destination has answered; not so for
\* IPv6, where any time exceeded message will do (recv_v6.c:49-53).  udpcksum
\* gives up only after three queries, and if it has read an answer then only
\* because the alarm came just before canjump = 0 (udpcksum.c:39).
AnswerMatches ==
  /\ (ppc = "match" /\ ppc' = "unarm") => Ours \/ (pprog.v6 /\ got.t = "exceeded")
  /\ (Is("traceroute") /\ ppc' = "exit" /\ sent < max_ttl * nprobes) =>
       ttl(sent) >= PathLen \/ pprog.v6
  /\ ppc' = "noresponse" => sent' = 3 /\ (raced' \/ got' = NoMsg)

\* Every program with an end comes to it: bsdping after the last wait,
\* traceroute unless its alarm came just before recvfrom() and nothing else
\* arrives (recv_v4.c:25-28), udpcksum with an answer or after three queries.
\* With -f bsdping goes on until all is answered.
ProbeEnds ==
  (\E k \in {"bsdping", "traceroute", "udpcksum"} : Is(k)) ~>
    \/ ppc \in {"exit", "killed", "noresponse"}
    \/ Is("traceroute") /\ ppc = "recvfrom" /\ flag /\ ~alrm
    \/ pprog.flood
=============================================================================
