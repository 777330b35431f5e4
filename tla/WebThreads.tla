----------------------------- MODULE WebThreads -----------------------------
(***************************************************************************)
(* The Web client with one thread per connection: threads/web01.c (main     *)
(* waits with thr_join for any thread), threads/web02.c (main polls ndone)  *)
(* and threads/web03.c (main waits on ndone_cond).  The three share the     *)
(* creating loop and the threads; version says which program this is.       *)
(***************************************************************************)
EXTENDS Integers, FiniteSets

CONSTANTS
  Versions,   \* the programs to consider
  nfiles,     \* files to fetch, numbered from 1
  maxnconn    \* threads allowed at a time

ASSUME VersionAssumption == Versions \subseteq {"web01", "web02", "web03"}
ASSUME nfilesAssumption == nfiles \in Nat \ {0}
ASSUME maxnconnAssumption == maxnconn \in Nat \ {0}

VARIABLES
  version,
  f_flags,                          \* the F_xxx state of each file
  thread,                           \* where the thread of each file is
  nconn, nlefttoconn, nlefttoread,
  ndone, ndone_mutex,               \* the mutex: is it held across steps?
  main, i                           \* main's place and its loop index

counters == <<nconn, nlefttoconn, nlefttoread>>
vars == <<version, f_flags, thread, counters, ndone, ndone_mutex, main, i>>

Files == 1 .. nfiles
Alive == main \notin {"exit", "nothing found", "err_sys"}

Init ==
  /\ version \in Versions
  /\ f_flags = [f \in Files |-> "0"]
  /\ thread = [f \in Files |-> "none"]
  /\ nconn = 0 /\ nlefttoconn = nfiles /\ nlefttoread = nfiles
  /\ ndone = 0 /\ ndone_mutex = FALSE
  /\ main = "home_page" /\ i = 1

-----------------------------------------------------------------------------
(* The main thread. *)

\* One blocking connection, read to its end, before anything else.
home_page ==
  /\ main = "home_page" /\ main' \in {"create", "err_sys"}
  /\ UNCHANGED <<version, f_flags, thread, counters, ndone, ndone_mutex, i>>

MoreToCreate == nlefttoread > 0 /\ nconn < maxnconn /\ nlefttoconn > 0

\* Mutant: the limit on concurrent connections is off by one.
CreateOneMore(f) ==
  /\ main = "create" /\ nlefttoread > 0 /\ nconn <= maxnconn /\ nlefttoconn > 0
  /\ f_flags[f] = "0" /\ \A g \in Files : g < f => f_flags[g] # "0"
  /\ thread' = [thread EXCEPT ![f] = "connect"]
  /\ f_flags' = [f_flags EXCEPT ![f] = "F_CONNECTING"]
  /\ nconn' = nconn + 1 /\ nlefttoconn' = nlefttoconn - 1
  /\ UNCHANGED <<version, nlefttoread, ndone, ndone_mutex, main, i>>

\* Find the first file not started and create its thread.  web02 sets the
\* flag only after pthread_create has returned, in SetFlag.
Create(f) ==
  /\ main = "create" /\ MoreToCreate
  /\ f_flags[f] = "0" /\ \A g \in Files : g < f => f_flags[g] # "0"
  /\ thread' = [thread EXCEPT ![f] = "connect"]
  /\ IF version = "web02"
     THEN main' = "setflag" /\ i' = f /\ UNCHANGED <<f_flags, nconn, nlefttoconn>>
     ELSE /\ f_flags' = [f_flags EXCEPT ![f] = "F_CONNECTING"]
          /\ nconn' = nconn + 1 /\ nlefttoconn' = nlefttoconn - 1
          /\ UNCHANGED <<main, i>>
  /\ UNCHANGED <<version, nlefttoread, ndone, ndone_mutex>>

SetFlag ==
  /\ main = "setflag"
  /\ f_flags' = [f_flags EXCEPT ![i] = "F_CONNECTING"]
  /\ nconn' = nconn + 1 /\ nlefttoconn' = nlefttoconn - 1
  /\ main' = "create"
  /\ UNCHANGED <<version, thread, nlefttoread, ndone, ndone_mutex, i>>

\* The creating loop ends: nothing found, nothing left to read, or on to waiting.
EndCreate ==
  /\ main = "create"
  /\ main' = IF MoreToCreate THEN "nothing found"
             ELSE IF nlefttoread = 0 THEN "exit"
             ELSE IF version = "web01" THEN "thr_join" ELSE "lock"
  /\ MoreToCreate => \A f \in Files : f_flags[f] # "0"
  /\ UNCHANGED <<version, f_flags, thread, counters, ndone, ndone_mutex, i>>

\* web01: thr_join(0, ...) reaps any terminated thread.
Thr_join(f) ==
  /\ main = "thr_join" /\ thread[f] = "terminated"
  /\ thread' = [thread EXCEPT ![f] = "joined"]
  /\ nconn' = nconn - 1 /\ nlefttoread' = nlefttoread - 1
  /\ main' = "create"
  /\ UNCHANGED <<version, f_flags, nlefttoconn, ndone, ndone_mutex, i>>

\* web02 looks at ndone and goes on; web03 sleeps until it is positive.
Lock ==
  /\ main = "lock" /\ ~ndone_mutex
  /\ \/ ndone > 0 /\ main' = "scan" /\ i' = 1 /\ ndone_mutex' = TRUE
     \/ /\ ndone = 0
        /\ main' = IF version = "web02" THEN "create" ELSE "cond_wait"
        /\ UNCHANGED <<i, ndone_mutex>>
  /\ UNCHANGED <<version, f_flags, thread, counters, ndone>>

\* web03: pthread_cond_wait may return for no reason.
Spurious ==
  /\ main = "cond_wait" /\ main' = "lock"
  /\ UNCHANGED <<version, f_flags, thread, counters, ndone, ndone_mutex, i>>

\* The loop over the files, under the mutex, looks at file i ...
Scan ==
  /\ main = "scan" /\ i <= nfiles
  /\ IF f_flags[i] = "F_DONE"
     THEN main' = "join" /\ UNCHANGED i
     ELSE i' = i + 1 /\ UNCHANGED main
  /\ UNCHANGED <<version, f_flags, thread, counters, ndone, ndone_mutex>>

\* Mutant: ndone is not decremented.
JoinUncounted ==
  /\ main = "join" /\ thread[i] = "terminated"
  /\ thread' = [thread EXCEPT ![i] = "joined"]
  /\ f_flags' = [f_flags EXCEPT ![i] = "F_JOINED"]
  /\ nconn' = nconn - 1 /\ nlefttoread' = nlefttoread - 1
  /\ main' = "scan" /\ i' = i + 1
  /\ UNCHANGED <<version, nlefttoconn, ndone, ndone_mutex>>

\* ... and joins its thread: pthread_join blocks until that has terminated.
Join ==
  /\ main = "join" /\ thread[i] = "terminated"
  /\ thread' = [thread EXCEPT ![i] = "joined"]
  /\ f_flags' = [f_flags EXCEPT ![i] = "F_JOINED"]
  /\ ndone' = ndone - 1 /\ nconn' = nconn - 1 /\ nlefttoread' = nlefttoread - 1
  /\ main' = "scan" /\ i' = i + 1
  /\ UNCHANGED <<version, nlefttoconn, ndone_mutex>>

Unlock ==
  /\ main = "scan" /\ i > nfiles
  /\ ndone_mutex' = FALSE /\ main' = "create"
  /\ UNCHANGED <<version, f_flags, thread, counters, ndone, i>>

-----------------------------------------------------------------------------
(* The thread of file f: do_get_read. *)

write_get_cmd(f) == f_flags' = [f_flags EXCEPT ![f] = "F_READING"]

\* Tcp_connect, then write_get_cmd.
Connect(f) ==
  /\ Alive /\ thread[f] = "connect"
  /\ thread' = [thread EXCEPT ![f] = "read"]
  /\ write_get_cmd(f)
  /\ UNCHANGED <<version, counters, ndone, ndone_mutex, main, i>>

\* A connect, write or read error ends the process.
Fail(f) ==
  /\ Alive /\ thread[f] \in {"connect", "read"}
  /\ main' = "err_sys"
  /\ UNCHANGED <<version, f_flags, thread, counters, ndone, ndone_mutex, i>>

\* Read to end-of-file and set F_DONE, outside the mutex.  In web01 the thread
\* then returns.
Read(f) ==
  /\ Alive /\ thread[f] = "read"
  /\ thread' = [thread EXCEPT ![f] = IF version = "web01" THEN "terminated" ELSE "lock"]
  /\ f_flags' = [f_flags EXCEPT ![f] = "F_DONE"]
  /\ UNCHANGED <<version, counters, ndone, ndone_mutex, main, i>>

\* Mutant: no Pthread_cond_signal.
CountUnsignalled(f) ==
  /\ Alive /\ thread[f] = "lock" /\ ~ndone_mutex
  /\ thread' = [thread EXCEPT ![f] = "terminated"]
  /\ ndone' = ndone + 1
  /\ UNCHANGED <<version, f_flags, counters, ndone_mutex, main, i>>

\* Lock, ndone++, signal, unlock, return.
Count(f) ==
  /\ Alive /\ thread[f] = "lock" /\ ~ndone_mutex
  /\ thread' = [thread EXCEPT ![f] = "terminated"]
  /\ ndone' = ndone + 1
  /\ main' = IF main = "cond_wait" THEN "lock" ELSE main
  /\ UNCHANGED <<version, f_flags, counters, ndone_mutex, i>>

MainStep ==
  \/ home_page \/ EndCreate \/ SetFlag \/ Lock \/ Scan \/ Join \/ Unlock
  \/ \E f \in Files : Create(f) \/ Thr_join(f)
ThreadStep(f) == Connect(f) \/ Read(f) \/ Count(f)

Next == MainStep \/ Spurious \/ \E f \in Files : ThreadStep(f) \/ Fail(f)

Spec == Init /\ [][Next]_vars

\* main is scheduled, the servers answer and the threads are scheduled.  Count
\* needs the mutex, which web02's polling main keeps taking and releasing.
FairSpec ==
  /\ Spec /\ WF_vars(MainStep)
  /\ \A f \in Files : WF_vars(Connect(f)) /\ WF_vars(Read(f)) /\ SF_vars(Count(f))

-----------------------------------------------------------------------------
TypeOK ==
  /\ version \in Versions
  /\ f_flags \in [Files -> {"0", "F_CONNECTING", "F_READING", "F_DONE", "F_JOINED"}]
  /\ thread \in [Files -> {"none", "connect", "read", "lock", "terminated", "joined"}]
  /\ nconn \in 0 .. maxnconn /\ nlefttoconn \in 0 .. nfiles /\ nlefttoread \in 0 .. nfiles
  /\ ndone \in 0 .. maxnconn /\ ndone_mutex \in BOOLEAN
  /\ main \in {"home_page", "create", "setflag", "lock", "cond_wait", "scan", "join", "thr_join",
               "nothing found", "err_sys", "exit"}
  /\ i \in 1 .. nfiles + 1

Unjoined == {f \in Files : thread[f] \notin {"none", "joined"}}

\* Never more than maxnconn threads, and err_quit("nlefttoconn = %d but nothing
\* found") is unreachable: the counters agree with the flags they summarise.
ConnLimit == Cardinality(Unjoined) <= maxnconn /\ main # "nothing found"

\* ndone counts the terminated threads main has still to join: main neither
\* waits with one at hand nor takes a thread that has not counted itself.
NdoneExact ==
  version # "web01" => ndone = Cardinality({f \in Files : thread[f] = "terminated"})

\* main, holding ndone_mutex, joins a thread that has set F_DONE and waits for
\* that mutex: from here neither can move.
SelfJoin == main = "join" /\ thread[i] = "lock"

\* web02: main's late F_CONNECTING has overwritten the F_DONE of a thread, which
\* main then never joins.
Overwritten ==
  version = "web02" /\ \E f \in Files : thread[f] = "terminated" /\ f_flags[f] = "F_CONNECTING"

\* Every file is read and main exits, unless an error ends the process: main
\* waits for each thread and each thread terminates.
Exits == <>(main \in {"exit", "err_sys"})
=============================================================================
