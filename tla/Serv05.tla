------------------------------- MODULE Serv05 -------------------------------
(***************************************************************************)
(* The preforked server with descriptor passing: server/serv05.c, the       *)
(* parent that accepts connections and hands each to an available child,    *)
(* and server/child05.c, the children.                                      *)
(*                                                                          *)
(* Parent and child i share a stream pipe: down[i] holds the descriptors    *)
(* passed and not yet read, up[i] counts the one-byte "ready again"         *)
(* messages not yet read.  Each child inherits the parent's ends of the     *)
(* pipes made before its own fork, so the parent's end of pipe i stays open *)
(* as long as the parent or any later child lives.                          *)
(***************************************************************************)
EXTENDS ServerConstants, Sequences

VARIABLES
  backlog,       \* the listening socket's queue of connections
  nconns,        \* connections made so far
  child_status,  \* the parent's view: 0 = ready, 1 = busy
  child_count,   \* connections handed to each child
  navail,
  pc,            \* the parent: "select", "accept", "scan" or how it ended
  rset, nsel,    \* pipes that Select reported, descriptors left to deal with
  down, up,      \* the two directions of each pipe
  child,         \* each child: "read_fd", "web_child" or "dead"
  conn           \* the connection a child serves, 0 when it has none

parent == <<child_status, child_count, navail, pc, rset, nsel>>
pipes  == <<down, up>>
kids   == <<child, conn>>
vars   == <<backlog, nconns, parent, pipes, kids>>

Children == 0 .. nchildren - 1
Conns    == 1 .. MaxConns

\* How the parent can end: two err_quits, SIGPIPE in Write_fd, SIGINT.
Ends == {"no available children", "child terminated", "sigpipe", "sigint"}

ParentAlive == pc \notin Ends

\* Is some copy of the parent's end of pipe i still open?
ParentEndOpen(i) == ParentAlive \/ \E j \in Children : j > i /\ child[j] # "dead"

Init ==
  /\ backlog = << >> /\ nconns = 0
  /\ child_status = [i \in Children |-> 0]
  /\ child_count = [i \in Children |-> 0]
  /\ navail = nchildren
  /\ pc = "select" /\ rset = {} /\ nsel = 0
  /\ down = [i \in Children |-> << >>] /\ up = [i \in Children |-> 0]
  /\ child = [i \in Children |-> "read_fd"]
  /\ conn = [i \in Children |-> 0]

-----------------------------------------------------------------------------
(* Clients. *)

Connect ==
  /\ nconns < MaxConns /\ ParentAlive
  /\ nconns' = nconns + 1
  /\ backlog' = Append(backlog, nconns + 1)
  /\ UNCHANGED <<parent, pipes, kids>>

\* A client aborts a connection that the parent has not accepted: it leaves
\* the queue, perhaps after Select reported it.
Abort ==
  /\ \E k \in 1 .. Len(backlog) :
       backlog' = SubSeq(backlog, 1, k - 1) \o SubSeq(backlog, k + 1, Len(backlog))
  /\ UNCHANGED <<nconns, parent, pipes, kids>>

-----------------------------------------------------------------------------
(* The parent. *)

\* A pipe is readable when a byte waits in it or its child is gone.
Readable == {i \in Children : up[i] > 0 \/ child[i] = "dead"}

\* FD_CLR turns the listening descriptor off while no child is available.
ListenReady == navail > 0 /\ backlog # << >>

Select ==
  /\ pc = "select"
  /\ ListenReady \/ Readable # {}
  /\ rset' = Readable
  /\ nsel' = Cardinality(Readable) + (IF ListenReady THEN 1 ELSE 0)
  /\ pc' = IF ListenReady THEN "accept" ELSE "scan"
  /\ UNCHANGED <<backlog, nconns, child_status, child_count, navail, pipes, kids>>

\* The first child whose status is 0.
FirstAvailable(i) ==
  child_status[i] = 0 /\ \A j \in Children : j < i => child_status[j] # 0

\* Mutant: the child chosen is not marked busy.
AcceptUnmarked ==
  \E i \in Children :
    /\ pc = "accept" /\ backlog # << >> /\ FirstAvailable(i)
    /\ backlog' = Tail(backlog)
    /\ child_count' = [child_count EXCEPT ![i] = @ + 1]
    /\ navail' = navail - 1
    /\ nsel' = nsel - 1
    /\ pc' = IF nsel - 1 = 0 THEN "select" ELSE "scan"
    /\ down' = [down EXCEPT ![i] = Append(@, Head(backlog))]
    /\ UNCHANGED <<nconns, child_status, rset, up, kids>>

\* Accept blocks while the queue is empty.  Write_fd to a dead child raises SIGPIPE.
Accept ==
  /\ pc = "accept" /\ backlog # << >>
  /\ backlog' = Tail(backlog)
  /\ IF \A i \in Children : child_status[i] # 0
     THEN /\ pc' = "no available children"
          /\ UNCHANGED <<child_status, child_count, navail, nsel, down>>
     ELSE \E i \in Children :
            /\ FirstAvailable(i)
            /\ child_status' = [child_status EXCEPT ![i] = 1]
            /\ child_count' = [child_count EXCEPT ![i] = @ + 1]
            /\ navail' = navail - 1
            /\ nsel' = nsel - 1
            /\ pc' = IF child[i] = "dead" THEN "sigpipe"
                     ELSE IF nsel - 1 = 0 THEN "select" ELSE "scan"
            /\ down' = IF child[i] = "dead" THEN down
                       ELSE [down EXCEPT ![i] = Append(@, Head(backlog))]
  /\ UNCHANGED <<nconns, rset, up, kids>>

\* Mutant: a ready child is not counted as available again.
ScanUncounted ==
  \E i \in rset :
    /\ pc = "scan" /\ \A j \in rset : i <= j
    /\ up[i] > 0
    /\ up' = [up EXCEPT ![i] = @ - 1]
    /\ child_status' = [child_status EXCEPT ![i] = 0]
    /\ rset' = rset \ {i} /\ nsel' = nsel - 1
    /\ pc' = IF nsel - 1 = 0 THEN "select" ELSE "scan"
    /\ UNCHANGED <<backlog, nconns, child_count, navail, down, kids>>

\* One turn of the loop over the pipes that Select reported.
Scan ==
  \E i \in rset :
    /\ pc = "scan" /\ \A j \in rset : i <= j
    /\ up[i] > 0
    /\ up' = [up EXCEPT ![i] = @ - 1]
    /\ child_status' = [child_status EXCEPT ![i] = 0]
    /\ navail' = navail + 1
    /\ rset' = rset \ {i} /\ nsel' = nsel - 1
    /\ pc' = IF nsel - 1 = 0 THEN "select" ELSE "scan"
    /\ UNCHANGED <<backlog, nconns, child_count, down, kids>>

ScanEof ==
  \E i \in rset :
    /\ pc = "scan" /\ \A j \in rset : i <= j
    /\ up[i] = 0
    /\ pc' = "child terminated"
    /\ UNCHANGED <<backlog, nconns, child_status, child_count, navail, rset, nsel,
                   pipes, kids>>

\* SIGINT: kill every child, wait for all of them, exit.
sig_int ==
  /\ ParentAlive
  /\ pc' = "sigint"
  /\ child' = [i \in Children |-> "dead"]
  /\ conn' = [i \in Children |-> 0]
  /\ UNCHANGED <<backlog, nconns, child_status, child_count, navail, rset, nsel, pipes>>

-----------------------------------------------------------------------------
(* Child i. *)

Read_fd(i) ==
  /\ child[i] = "read_fd" /\ down[i] # << >>
  /\ child' = [child EXCEPT ![i] = "web_child"]
  /\ conn' = [conn EXCEPT ![i] = Head(down[i])]
  /\ down' = [down EXCEPT ![i] = Tail(@)]
  /\ UNCHANGED <<backlog, nconns, parent, up>>

\* "read_fd returned 0"
ReadEof(i) ==
  /\ child[i] = "read_fd" /\ down[i] = << >> /\ ~ParentEndOpen(i)
  /\ child' = [child EXCEPT ![i] = "dead"]
  /\ UNCHANGED <<backlog, nconns, parent, pipes, conn>>

\* The client closes, web_child returns, the child closes the descriptor and
\* tells the parent; with nobody left to read the byte it dies of SIGPIPE.
Finish(i) ==
  /\ child[i] = "web_child"
  /\ IF ParentEndOpen(i)
     THEN child' = [child EXCEPT ![i] = "read_fd"] /\ up' = [up EXCEPT ![i] = @ + 1]
     ELSE child' = [child EXCEPT ![i] = "dead"] /\ UNCHANGED up
  /\ conn' = [conn EXCEPT ![i] = 0]
  /\ UNCHANGED <<backlog, nconns, parent, down>>

\* web_child exits on a request for a bad number of bytes, or on an error.
BadRequest(i) ==
  /\ child[i] = "web_child"
  /\ child' = [child EXCEPT ![i] = "dead"]
  /\ conn' = [conn EXCEPT ![i] = 0]
  /\ UNCHANGED <<backlog, nconns, parent, pipes>>

ParentStep == Select \/ Accept \/ Scan \/ ScanEof
ChildStep(i) == Read_fd(i) \/ ReadEof(i) \/ Finish(i)

Next ==
  \/ Connect \/ Abort
  \/ ParentStep \/ sig_int
  \/ \E i \in Children : ChildStep(i) \/ BadRequest(i)

Spec == Init /\ [][Next]_vars

\* Parent and children are scheduled, and every client closes its connection
\* sooner or later.  No client need connect, abort or send a bad request.
FairSpec == Spec /\ WF_vars(ParentStep) /\ \A i \in Children : WF_vars(ChildStep(i))

-----------------------------------------------------------------------------
TypeOK ==
  /\ backlog \in Seq(Conns) /\ nconns \in 0 .. MaxConns
  /\ child_status \in [Children -> {0, 1}] /\ child_count \in [Children -> Nat]
  /\ navail \in 0 .. nchildren
  /\ pc \in {"select", "accept", "scan"} \cup Ends
  /\ rset \subseteq Children /\ nsel \in 0 .. nchildren + 1
  /\ down \in [Children -> Seq(Conns)] /\ up \in [Children -> Nat]
  /\ child \in [Children -> {"read_fd", "web_child", "dead"}]
  /\ conn \in [Children -> Conns \cup {0}]

\* The children the parent takes to be available.
Available == {i \in Children : child_status[i] = 0}

\* navail, which opens and closes the listening descriptor, counts the
\* children whose status is 0, after any order of accepts and ready messages.
NavailExact == navail = Cardinality(Available)

\* The parent believes a child available only when that child waits in read_fd
\* with nothing in its pipe: a connection is never passed to a busy child.
AvailableMeansWaiting ==
  ParentAlive => \A i \in Children :
    child_status[i] = 0 => child[i] = "read_fd" /\ down[i] = << >> /\ up[i] = 0

\* nsel is the number of reported descriptors not yet dealt with, so the early
\* exits on --nsel == 0 skip none and the loop never runs out of them.
NselExact ==
  /\ pc = "scan" => nsel = Cardinality(rset) /\ rset # {}
  /\ pc = "accept" => nsel = Cardinality(rset) + 1

\* Neither "no available children" nor SIGPIPE ends the parent: the child it
\* picks exists and lives.
AlwaysAChild == pc \notin {"no available children", "sigpipe"}

-----------------------------------------------------------------------------
(* Who has a connection, as ConnService counts it: the child that serves it or *)
(* has it in its pipe.                                                         *)
Has(i, c) ==
  child[i] # "dead" /\ (conn[i] = c \/ \E k \in 1 .. Len(down[i]) : down[i][k] = c)
Holders(c) == {i + 1 : i \in {j \in Children : Has(j, c)}}
=============================================================================
