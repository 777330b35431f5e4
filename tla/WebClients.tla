----------------------------- MODULE WebClients -----------------------------
(***************************************************************************)
(* The four Web clients side by side: the three with threads, and           *)
(* nonblock/web.c (version "web") with select.  They share the counters and *)
(* flags of struct file; the variables a client does not have stay as they  *)
(* are.                                                                     *)
(***************************************************************************)
EXTENDS WebThreads

VARIABLES f_fd, rset, wset, rs, ws, conn

selectvars == <<f_fd, rset, wset, rs, ws, conn>>
allvars == <<vars, selectvars>>

Select == INSTANCE WebSelect

ClientInit ==
  \/ /\ Init
     /\ f_fd = << >> /\ rset = {} /\ wset = {} /\ rs = {} /\ ws = {} /\ conn = << >>
  \/ /\ version = "web" /\ Select!Init
     /\ thread = [f \in Files |-> "none"] /\ ndone = 0 /\ ndone_mutex = FALSE

ThreadsStep(A) == version # "web" /\ A /\ UNCHANGED selectvars
SelectStep(A) == version = "web" /\ A /\ UNCHANGED <<version, thread, ndone, ndone_mutex>>

ClientNext == ThreadsStep(Next) \/ SelectStep(Select!Next)

ClientSpec ==
  /\ ClientInit /\ [][ClientNext]_allvars
  /\ WF_allvars(ThreadsStep(MainStep)) /\ WF_allvars(SelectStep(Select!MainStep))
  /\ \A f \in Files :
       /\ WF_allvars(ThreadsStep(Connect(f))) /\ WF_allvars(ThreadsStep(Read(f)))
       /\ SF_allvars(ThreadsStep(Count(f))) /\ SF_allvars(SelectStep(Select!Answer(f)))

-----------------------------------------------------------------------------
\* web.c: the descriptor sets and counters agree with the flags at every step,
\* and a file whose connection failed is never counted as read.
SetsExact == version = "web" => Select!SetsExact /\ Select!FailureEnds

\* Every file is read and main exits, or an error ends the process, unless main
\* blocks in SelfJoin or web02 has lost a thread: there is no other way to wait
\* for ever, and web.c has none.
AllEnd == <>(main \in {"exit", "err_sys", "sigpipe"} \/ SelfJoin \/ Overwritten)
=============================================================================
