-------------------------- MODULE ServerStepsProofs --------------------------
(***************************************************************************)
(* serv05 and the servers with a worker for each connection, one after the  *)
(* other: for each the inductive invariant and what a step is of             *)
(* ConnService, for any number of children and connections.  ServersProofs   *)
(* draws the theorems about Servers from these lemmas.                       *)
(***************************************************************************)
EXTENDS ServerConstants, Sequences, TLAPS

\* The provers of a leaf that names none, in the order they are tried.
USE SMT, Zenon, Z3

\* A sequence without its k-th element: what Abort and Drop make of the queue.
Without(s, k) == SubSeq(s, 1, k - 1) \o SubSeq(s, k + 1, Len(s))

\* What is left of a queue when its k-th element is taken out.
LEMMA WithoutFacts ==
  ASSUME NEW S, NEW s \in Seq(S), NEW k \in 1 .. Len(s)
  PROVE  /\ Len(Without(s, k)) = Len(s) - 1
         /\ \A m \in 1 .. Len(s) - 1 : Without(s, k)[m] = s[IF m < k THEN m ELSE m + 1]
<1> DEFINE p == SubSeq(s, 1, k - 1)
           q == SubSeq(s, k + 1, Len(s))
<1>1. /\ Len(p) = k - 1 /\ \A m \in 1 .. k - 1 : p[m] = s[m]
      /\ p \in Seq(S)
  OBVIOUS
<1>2. /\ Len(q) = Len(s) - k /\ \A m \in 1 .. Len(s) - k : q[m] = s[k + m]
      /\ q \in Seq(S)
  OBVIOUS
<1>3. Without(s, k) = p \o q
  BY DEF Without
<1> HIDE DEF p, q
<1>4. /\ Len(p \o q) = Len(p) + Len(q)
      /\ \A m \in 1 .. Len(p) + Len(q) : (p \o q)[m] = IF m <= Len(p) THEN p[m] ELSE q[m - Len(p)]
  <2>1. p \in Seq(S) /\ q \in Seq(S)
    BY <1>1, <1>2
  <2>2. Len(p \o q) = Len(p) + Len(q)
    BY <2>1
  <2>3. ASSUME NEW m \in 1 .. Len(p) + Len(q)
        PROVE  (p \o q)[m] = IF m <= Len(p) THEN p[m] ELSE q[m - Len(p)]
    BY <2>1
  <2> QED
    BY <2>2, <2>3
<1>5. Len(s) \in Nat /\ (k - 1) + (Len(s) - k) = Len(s) - 1
  OBVIOUS
<1>6. ASSUME NEW m \in 1 .. Len(s) - 1, m < k PROVE (p \o q)[m] = s[m]
  BY <1>1, <1>2, <1>4, <1>5, <1>6
<1>7. ASSUME NEW m \in 1 .. Len(s) - 1, ~(m < k) PROVE (p \o q)[m] = s[m + 1]
  <2>1. m - (k - 1) \in 1 .. Len(s) - k /\ k + (m - (k - 1)) = m + 1 /\ ~(m <= k - 1)
    BY <1>5, <1>7
  <2>2. (p \o q)[m] = q[m - (k - 1)]
    BY <1>1, <1>2, <1>4, <1>5, <2>1, Zenon
  <2> QED
    BY <1>2, <2>1, <2>2
<1> QED
  BY <1>1, <1>2, <1>3, <1>4, <1>5, <1>6, <1>7

-----------------------------------------------------------------------------
(* serv05.                                                                     *)
VARIABLES nconns, backlog, child_status, child_count, navail, pc, rset, nsel, down, up, child, conn

S05 == INSTANCE Serv05


\* While the parent lives, a child it takes to be busy has exactly one of: a
\* descriptor on its way, a client, a message on its way back, a death.
S05BusyInv ==
  S05!ParentAlive => \A i \in S05!Children : child_status[i] = 1 =>
    \/ child[i] = "read_fd" /\ Len(down[i]) = 1 /\ up[i] = 0
    \/ child[i] = "web_child" /\ down[i] = << >> /\ up[i] = 0
    \/ child[i] = "read_fd" /\ down[i] = << >> /\ up[i] = 1
    \/ child[i] = "dead" /\ down[i] = << >> /\ up[i] = 0

\* What Select reported of the pipes is still so when the parent acts on it.
S05RsetInv ==
  /\ pc = "accept" => navail > 0
  /\ pc \in {"accept", "scan"} =>
       \A i \in rset : child_status[i] = 1 /\ (up[i] > 0 \/ child[i] = "dead")

S05IInv ==
  /\ S05!TypeOK /\ S05!NavailExact /\ S05!AvailableMeansWaiting /\ S05!NselExact /\ S05!AlwaysAChild
  /\ S05BusyInv /\ S05RsetInv

\* A pipe that holds nothing is the empty sequence.
LEMMA LenZero == ASSUME NEW S, NEW s \in Seq(S), Len(s) = 0 PROVE s = << >>
OBVIOUS

\* Sets of children can be counted.  ServersProofs proves it, from the theorems on
\* finite sets; here it is a hypothesis of the lemmas that count.
S05Counting ==
  /\ S05!Cardinality(S05!Children) = nchildren
  /\ \A S \in SUBSET S05!Children :
       /\ S05!Cardinality(S) \in 0 .. nchildren
       /\ S = {} <=> S05!Cardinality(S) = 0
       /\ \A i \in S05!Children \ S : S05!Cardinality(S \cup {i}) = S05!Cardinality(S) + 1
       /\ \A i \in S : S05!Cardinality(S \ {i}) = S05!Cardinality(S) - 1

\* A set of children has at most nchildren members, and 0 only when it is empty.
LEMMA S05Subset ==
  ASSUME S05Counting, NEW S \in SUBSET S05!Children
  PROVE  S05!Cardinality(S) \in 0 .. nchildren /\ (S = {} <=> S05!Cardinality(S) = 0)
  BY DEF S05Counting

\* The invariant holds when serv05 has made its children.
LEMMA S05InitIInv == ASSUME S05Counting, S05!Init PROVE S05IInv
<1> USE nchildrenAssumption, MaxConnsAssumption
<1>1. S05!TypeOK
  BY DEF S05!Init, S05!TypeOK, S05!Children, S05!Conns
<1>2. S05!Available = S05!Children
  BY DEF S05!Init, S05!Available
<1>3. S05!NavailExact
  BY <1>2 DEF S05Counting, S05!Init, S05!NavailExact
<1> QED
  BY <1>1, <1>3 DEF S05!Init, S05IInv, S05!AvailableMeansWaiting, S05!NselExact,
                    S05!AlwaysAChild, S05BusyInv,
                    S05RsetInv, S05!Ends

\* What an action that leaves the parent alone must preserve.
LEMMA S05ParentIdle ==
  ASSUME S05IInv, UNCHANGED S05!parent
  PROVE  /\ S05!NavailExact' /\ S05!NselExact' /\ S05!AlwaysAChild'
         /\ child_status' \in [S05!Children -> {0, 1}] /\ child_count' \in [S05!Children -> Nat]
         /\ navail' \in 0 .. nchildren /\ pc' \in {"select", "accept", "scan"} \cup S05!Ends
         /\ rset' \subseteq S05!Children /\ nsel' \in 0 .. nchildren + 1
  BY Zenon DEF S05IInv, S05!TypeOK, S05!NavailExact, S05!Available, S05!NselExact, S05!AlwaysAChild,
         S05!parent

\* A client that connects, or gives up in the backlog.
LEMMA S05ClientStep == ASSUME S05IInv, S05!Connect \/ S05!Abort PROVE S05IInv'
<1> USE MaxConnsAssumption
<1>1. backlog' \in Seq(S05!Conns) /\ nconns' \in 0 .. MaxConns
  <2>1. CASE S05!Connect
    BY <2>1 DEF S05IInv, S05!TypeOK, S05!Connect, S05!Conns
  <2>2. CASE S05!Abort
    <3>1. PICK k \in 1 .. Len(backlog) :
          backlog' = SubSeq(backlog, 1, k - 1) \o SubSeq(backlog, k + 1, Len(backlog))
      BY <2>2, Zenon DEF S05!Abort
    <3>2. backlog \in Seq(S05!Conns) /\ nconns' \in 0 .. MaxConns
      BY <2>2 DEF S05IInv, S05!TypeOK, S05!Abort
    <3>3. /\ SubSeq(backlog, 1, k - 1) \in Seq(S05!Conns)
          /\ SubSeq(backlog, k + 1, Len(backlog)) \in Seq(S05!Conns)
      BY <3>1, <3>2
    <3> QED
      BY <3>1, <3>2, <3>3
  <2> QED
    BY <2>1, <2>2
<1>2. UNCHANGED <<S05!parent, S05!pipes, S05!kids>>
  BY Zenon DEF S05!Connect, S05!Abort
<1>3. S05!TypeOK'
  BY <1>1, <1>2, S05ParentIdle DEF S05IInv, S05!TypeOK, S05!parent, S05!pipes, S05!kids
<1>4. S05!AvailableMeansWaiting' /\ S05BusyInv' /\ S05RsetInv'
  BY <1>2 DEF S05IInv, S05!AvailableMeansWaiting, S05BusyInv, S05RsetInv, S05!ParentAlive,
              S05!parent, S05!pipes, S05!kids
<1> QED
  BY <1>2, <1>3, <1>4, S05ParentIdle, SMTT(30) DEF S05IInv

\* select returns: nsel is the number of ready descriptors in its read set.
LEMMA S05SelectStep == ASSUME S05Counting, S05IInv, S05!Select PROVE S05IInv'
<1>1. S05!Readable \in SUBSET S05!Children
  BY DEF S05!Readable
<1>2. /\ S05!Cardinality(S05!Readable) \in 0 .. nchildren
      /\ (S05!Readable = {} <=> S05!Cardinality(S05!Readable) = 0)
  BY <1>1, S05Subset
<1>3. S05!TypeOK'
  BY <1>1, <1>2, nchildrenAssumption DEF S05IInv, S05!TypeOK, S05!Select, S05!pipes, S05!kids
<1>4. S05!NavailExact' /\ S05!AlwaysAChild'
  BY DEF S05IInv, S05!NavailExact, S05!Available, S05!AlwaysAChild, S05!Select
<1>5. S05!NselExact'
  BY <1>1, <1>2 DEF S05!Select, S05!NselExact
<1>6. S05!ParentAlive
  BY DEF S05!Select, S05!ParentAlive, S05!Ends
<1>7. S05!AvailableMeansWaiting' /\ S05BusyInv'
  BY <1>6 DEF S05IInv, S05!AvailableMeansWaiting, S05BusyInv, S05!Select, S05!pipes, S05!kids
<1>8. \A i \in S05!Readable : child_status[i] = 1
  BY <1>6 DEF S05IInv, S05!TypeOK, S05!AvailableMeansWaiting, S05!Readable
<1>9. S05RsetInv'
  BY <1>8 DEF S05!Select, S05RsetInv, S05!Readable, S05!ListenReady, S05!pipes, S05!kids
<1> QED
  BY <1>3, <1>4, <1>5, <1>7, <1>9 DEF S05IInv

\* accept, and the descriptor passed to a child whose status is 0.
LEMMA S05AcceptStep == ASSUME S05Counting, S05IInv, S05!Accept PROVE S05IInv'
<1>1. S05!Available \in SUBSET S05!Children /\ pc = "accept" /\ navail > 0 /\ S05!ParentAlive
  BY Zenon DEF S05!Available, S05!Accept, S05IInv, S05RsetInv, S05!ParentAlive, S05!Ends
<1>2. S05!Available # {}
  BY <1>1, S05Subset DEF S05IInv, S05!NavailExact
<1>3. ~ \A i \in S05!Children : child_status[i] # 0
  BY <1>2 DEF S05!Available
<1>4. PICK i \in S05!Children :
        /\ S05!FirstAvailable(i)
        /\ child_status' = [child_status EXCEPT ![i] = 1]
        /\ child_count' = [child_count EXCEPT ![i] = @ + 1]
        /\ navail' = navail - 1
        /\ nsel' = nsel - 1
        /\ pc' = IF child[i] = "dead" THEN "sigpipe"
                 ELSE IF nsel - 1 = 0 THEN "select" ELSE "scan"
        /\ down' = IF child[i] = "dead" THEN down
                   ELSE [down EXCEPT ![i] = Append(@, Head(backlog))]
  BY <1>3 DEF S05!Accept
<1>5. i \in S05!Available /\ child[i] = "read_fd" /\ down[i] = << >> /\ up[i] = 0
  BY <1>1, <1>4 DEF S05!FirstAvailable, S05!Available, S05IInv, S05!AvailableMeansWaiting
<1>6. /\ pc' = IF nsel - 1 = 0 THEN "select" ELSE "scan"
      /\ down' = [down EXCEPT ![i] = Append(@, Head(backlog))]
  BY <1>4, <1>5
<1>7. /\ S05!Cardinality(rset) \in 0 .. nchildren
      /\ (rset = {} <=> S05!Cardinality(rset) = 0) /\ rset' = rset
      /\ nsel = S05!Cardinality(rset) + 1
  BY <1>1, S05Subset, Zenon DEF S05IInv, S05!TypeOK, S05!NselExact, S05!Accept
<1>8. S05!TypeOK'
  <2>1. backlog \in Seq(S05!Conns) /\ backlog # << >>
    BY Zenon DEF S05!Accept, S05IInv, S05!TypeOK
  <2>2. Tail(backlog) \in Seq(S05!Conns) /\ Head(backlog) \in S05!Conns
    BY <2>1
  <2>3. down' \in [S05!Children -> Seq(S05!Conns)]
    BY <2>2, <1>6 DEF S05IInv, S05!TypeOK
  <2>4. backlog' = Tail(backlog) /\ UNCHANGED <<nconns, up, child, conn>>
    BY Zenon DEF S05!Accept, S05!kids
  <2>5. nsel' \in 0 .. nchildren + 1 /\ navail' \in 0 .. nchildren
    BY <1>1, <1>4, <1>7, nchildrenAssumption, SMTT(30) DEF S05IInv, S05!TypeOK
  <2>6. child_status' \in [S05!Children -> {0, 1}] /\ child_count' \in [S05!Children -> Nat]
    BY <1>4 DEF S05IInv, S05!TypeOK
  <2> QED
    BY <2>2, <2>3, <2>4, <2>5, <2>6, <1>6, <1>7, Zenon DEF S05IInv, S05!TypeOK
<1>9. S05!NavailExact'
  <2>1. S05!Available' = S05!Available \ {i}
    BY <1>4 DEF S05!Available, S05IInv, S05!TypeOK
  <2>2. S05!Cardinality(S05!Available \ {i}) = S05!Cardinality(S05!Available) - 1
    BY <1>1, <1>5 DEF S05Counting
  <2> QED
    BY <2>1, <2>2, <1>4, SMTT(30) DEF S05IInv, S05!NavailExact
<1>10. S05!NselExact'
  BY <1>4, <1>6, <1>7 DEF S05!NselExact
<1>11. S05!AlwaysAChild'
  BY <1>6 DEF S05!AlwaysAChild
<1>12. S05!AvailableMeansWaiting'
  BY <1>1, <1>4, <1>6 DEF S05IInv, S05!TypeOK, S05!AvailableMeansWaiting, S05!Accept, S05!kids
<1>13. S05BusyInv'
  <2>1. Len(down'[i]) = 1 /\ child'[i] = "read_fd" /\ up'[i] = 0
    BY <1>5, <1>6, SMTT(30) DEF S05IInv, S05!TypeOK, S05!Accept, S05!kids
  <2>2. ASSUME NEW j \in S05!Children, j # i
        PROVE  /\ down'[j] = down[j] /\ child'[j] = child[j] /\ up'[j] = up[j]
               /\ child_status'[j] = child_status[j]
    BY <2>2, <1>4, <1>6, SMTT(30) DEF S05IInv, S05!TypeOK, S05!Accept, S05!kids
  <2> QED
    BY <2>1, <2>2, <1>1, SMTT(30) DEF S05IInv, S05BusyInv
<1>14. S05RsetInv'
  BY <1>1, <1>4, <1>6, <1>7, SMTT(30) DEF S05IInv, S05!TypeOK, S05RsetInv, S05!Accept, S05!kids
<1> QED
  BY <1>8, <1>9, <1>10, <1>11, <1>12, <1>13, <1>14, SMTT(30) DEF S05IInv

\* The scan reads a child's byte: the child is available again.
LEMMA S05ScanStep == ASSUME S05Counting, S05IInv, S05!Scan PROVE S05IInv'
<1>1. PICK i \in rset :
        /\ pc = "scan" /\ up[i] > 0
        /\ up' = [up EXCEPT ![i] = @ - 1]
        /\ child_status' = [child_status EXCEPT ![i] = 0]
        /\ navail' = navail + 1
        /\ rset' = rset \ {i} /\ nsel' = nsel - 1
        /\ pc' = IF nsel - 1 = 0 THEN "select" ELSE "scan"
        /\ UNCHANGED <<backlog, nconns, child_count, down, S05!kids>>
  BY Zenon DEF S05!Scan
<1>2. i \in S05!Children /\ S05!ParentAlive /\ child_status[i] = 1
  BY <1>1 DEF S05IInv, S05!TypeOK, S05RsetInv, S05!ParentAlive, S05!Ends
<1>3. child[i] = "read_fd" /\ down[i] = << >> /\ up[i] = 1
  BY <1>1, <1>2 DEF S05IInv, S05BusyInv
<1>4. /\ S05!Cardinality(rset) \in 0 .. nchildren
      /\ nsel = S05!Cardinality(rset)
      /\ (rset \ {i} = {} <=> S05!Cardinality(rset \ {i}) = 0)
  BY <1>1, S05Subset, Zenon DEF S05IInv, S05!TypeOK, S05!NselExact
<1>5. S05!Cardinality(rset \ {i}) = S05!Cardinality(rset) - 1
  BY <1>1, Zenon DEF S05Counting, S05IInv, S05!TypeOK
<1>6. S05!Available \in SUBSET S05!Children /\ S05!Available \cup {i} \in SUBSET S05!Children /\ i \notin S05!Available
  BY <1>2 DEF S05!Available
<1>7. S05!Available' = S05!Available \cup {i}
  BY <1>1, <1>2 DEF S05!Available, S05IInv, S05!TypeOK
<1>8. /\ S05!Cardinality(S05!Available \cup {i}) = S05!Cardinality(S05!Available) + 1
      /\ S05!Cardinality(S05!Available \cup {i}) \in 0 .. nchildren
  BY <1>2, <1>6, S05Subset DEF S05Counting
<1>9. S05!NavailExact' /\ navail' \in 0 .. nchildren
  BY <1>1, <1>7, <1>8, SMTT(30) DEF S05IInv, S05!NavailExact
<1>10. S05!TypeOK'
  <2>1. nsel - 1 \in 0 .. nchildren + 1
    <3>1. rset \ {i} \in SUBSET S05!Children
      BY DEF S05IInv, S05!TypeOK
    <3>2. S05!Cardinality(rset \ {i}) \in 0 .. nchildren
      BY <3>1, S05Subset
    <3> QED
      BY <3>2, <1>4, <1>5, nchildrenAssumption, SMTT(30)
  <2>2. up' \in [S05!Children -> Nat]
    BY <1>1, <1>2, <1>3, SMTT(30) DEF S05IInv, S05!TypeOK
  <2> QED
    BY <2>1, <2>2, <1>1, <1>9 DEF S05IInv, S05!TypeOK, S05!kids
<1>11. S05!NselExact'
  BY <1>1, <1>4, <1>5 DEF S05!NselExact
<1>12. S05!AlwaysAChild'
  BY <1>1 DEF S05!AlwaysAChild
<1>13. ASSUME NEW j \in S05!Children, j # i
       PROVE  /\ down'[j] = down[j] /\ child'[j] = child[j] /\ up'[j] = up[j]
              /\ child_status'[j] = child_status[j]
  BY <1>13, <1>1 DEF S05IInv, S05!TypeOK, S05!kids
<1>14. down'[i] = << >> /\ child'[i] = "read_fd" /\ up'[i] = 0 /\ child_status'[i] = 0
  BY <1>1, <1>2, <1>3 DEF S05IInv, S05!TypeOK, S05!kids
<1>15. S05!AvailableMeansWaiting'
  BY <1>13, <1>14, <1>2, SMTT(30) DEF S05IInv, S05!AvailableMeansWaiting
<1>16. S05BusyInv'
  BY <1>13, <1>14, <1>2, SMTT(30) DEF S05IInv, S05BusyInv
<1>17. S05RsetInv'
  <2>1. \A j \in rset : j \in S05!Children
    BY DEF S05IInv, S05!TypeOK
  <2> QED
    BY <2>1, <1>1, <1>13, SMTT(30) DEF S05IInv, S05RsetInv
<1> QED
  BY <1>9, <1>10, <1>11, <1>12, <1>15, <1>16, <1>17, SMTT(30) DEF S05IInv

\* The parent ends: a child was found dead, or SIGINT came.
LEMMA S05EndStep == ASSUME S05IInv, S05!ScanEof \/ S05!sig_int PROVE S05IInv'
<1>1. pc' \in {"child terminated", "sigint"} /\ UNCHANGED <<backlog, nconns, S05!pipes>>
  BY Zenon DEF S05!ScanEof, S05!sig_int
<1>2. UNCHANGED <<child_status, child_count, navail, rset, nsel>>
  BY Zenon DEF S05!ScanEof, S05!sig_int
<1>3. S05!TypeOK'
  <2>1. /\ child' \in [S05!Children -> {"read_fd", "web_child", "dead"}]
        /\ conn' \in [S05!Children -> S05!Conns \cup {0}]
    BY Zenon DEF S05IInv, S05!TypeOK, S05!ScanEof, S05!sig_int, S05!kids
  <2> QED
    BY <2>1, <1>1, <1>2, Zenon DEF S05IInv, S05!TypeOK, S05!pipes, S05!Ends
<1>4. S05!NavailExact'
  BY <1>2 DEF S05IInv, S05!NavailExact, S05!Available
<1> QED
  BY <1>1, <1>3, <1>4, Zenon DEF S05IInv, S05!AvailableMeansWaiting, S05!NselExact, S05!AlwaysAChild,
                          S05BusyInv,
                          S05RsetInv, S05!ParentAlive, S05!Ends

\* The four steps of a child change only its own pipe and its own state.
LEMMA S05ChildStepInv ==
  ASSUME S05IInv, NEW i \in S05!Children, S05!ChildStep(i) \/ S05!BadRequest(i)
  PROVE  S05IInv'
<1>1. UNCHANGED <<backlog, nconns, S05!parent>>
  BY DEF S05!ChildStep, S05!Read_fd, S05!ReadEof, S05!Finish, S05!BadRequest
<1>2. S05!TypeOK'
  <2>1. /\ down' \in [S05!Children -> Seq(S05!Conns)] /\ up' \in [S05!Children -> Nat]
        /\ child' \in [S05!Children -> {"read_fd", "web_child", "dead"}]
        /\ conn' \in [S05!Children -> S05!Conns \cup {0}]
    <3>1. CASE S05!Read_fd(i)
      <4>1. down[i] \in Seq(S05!Conns) /\ down[i] # << >>
        BY <3>1 DEF S05!Read_fd, S05IInv, S05!TypeOK
      <4>2. Head(down[i]) \in S05!Conns /\ Tail(down[i]) \in Seq(S05!Conns)
        BY <4>1
      <4> QED
        BY <3>1, <4>2 DEF S05!Read_fd, S05IInv, S05!TypeOK
    <3>2. CASE S05!ReadEof(i)
      BY <3>2 DEF S05!ReadEof, S05IInv, S05!TypeOK, S05!pipes
    <3>3. CASE S05!Finish(i)
      <4>1. up' = up \/ up' = [up EXCEPT ![i] = @ + 1]
        BY <3>3 DEF S05!Finish
      <4>2. \E st \in {"read_fd", "dead"} : child' = [child EXCEPT ![i] = st]
        BY <3>3 DEF S05!Finish
      <4>3. up' \in [S05!Children -> Nat]
        BY <4>1 DEF S05IInv, S05!TypeOK
      <4>4. child' \in [S05!Children -> {"read_fd", "web_child", "dead"}]
        BY <4>2 DEF S05IInv, S05!TypeOK
      <4>5. conn' \in [S05!Children -> S05!Conns \cup {0}] /\ down' \in [S05!Children -> Seq(S05!Conns)]
        BY <3>3 DEF S05!Finish, S05IInv, S05!TypeOK
      <4> QED
        BY <4>3, <4>4, <4>5
    <3>4. CASE S05!BadRequest(i)
      BY <3>4 DEF S05!BadRequest, S05IInv, S05!TypeOK, S05!pipes
    <3> QED
      BY <3>1, <3>2, <3>3, <3>4 DEF S05!ChildStep
  <2> QED
    BY <2>1, <1>1, S05ParentIdle, SMTT(30) DEF S05IInv, S05!TypeOK
<1>3. ASSUME NEW j \in S05!Children, j # i
      PROVE  down'[j] = down[j] /\ child'[j] = child[j] /\ up'[j] = up[j]
  BY <1>3 DEF S05!ChildStep, S05!Read_fd, S05!ReadEof, S05!Finish, S05!BadRequest, S05IInv,
              S05!TypeOK, S05!pipes
<1>4. S05!ParentAlive => child_status[i] = 1
  BY DEF S05!ChildStep, S05!Read_fd, S05!ReadEof, S05!Finish, S05!BadRequest, S05IInv, S05!TypeOK,
         S05!AvailableMeansWaiting, S05!ParentEndOpen
<1>5. S05!ParentAlive' = S05!ParentAlive /\ child_status' = child_status /\ rset' = rset /\ pc' = pc
      /\ navail' = navail
  BY <1>1 DEF S05!ParentAlive, S05!parent
<1>6. S05!AvailableMeansWaiting'
  BY <1>3, <1>4, <1>5, SMTT(30) DEF S05IInv, S05!AvailableMeansWaiting
<1>7. S05BusyInv'
  <2> SUFFICES ASSUME S05!ParentAlive
               PROVE  \/ child'[i] = "read_fd" /\ Len(down'[i]) = 1 /\ up'[i] = 0
                      \/ child'[i] = "web_child" /\ down'[i] = << >> /\ up'[i] = 0
                      \/ child'[i] = "read_fd" /\ down'[i] = << >> /\ up'[i] = 1
                      \/ child'[i] = "dead" /\ down'[i] = << >> /\ up'[i] = 0
    BY <1>3, <1>5 DEF S05IInv, S05BusyInv
  <2>1. CASE S05!Read_fd(i)
    <3>1. down[i] \in Seq(S05!Conns) /\ down[i] # << >> /\ child[i] = "read_fd"
      BY <2>1 DEF S05!Read_fd, S05IInv, S05!TypeOK
    <3>2. Len(down[i]) = 1 /\ up[i] = 0
      BY <3>1, <1>4 DEF S05IInv, S05BusyInv
    <3>3. Tail(down[i]) = << >>
      <4>1. Tail(down[i]) \in Seq(S05!Conns) /\ Len(Tail(down[i])) = 0
        BY <3>1, <3>2
      <4> QED
        BY <4>1, LenZero, Zenon
    <3> QED
      BY <2>1, <3>2, <3>3, SMTT(30) DEF S05!Read_fd, S05IInv, S05!TypeOK
  <2>2. CASE S05!ReadEof(i)
    BY <2>2 DEF S05!ReadEof, S05!ParentEndOpen
  <2>3. CASE S05!Finish(i)
    BY <2>3, <1>4, SMTT(30) DEF S05!Finish, S05!ParentEndOpen, S05IInv, S05!TypeOK, S05BusyInv
  <2>4. CASE S05!BadRequest(i)
    BY <2>4, <1>4, SMTT(30) DEF S05!BadRequest, S05!pipes, S05IInv, S05!TypeOK, S05BusyInv
  <2> QED
    BY <2>1, <2>2, <2>3, <2>4, Zenon DEF S05!ChildStep
<1>8. S05RsetInv'
  <2>1. \A j \in rset : j \in S05!Children
    BY DEF S05IInv, S05!TypeOK
  <2>2. ASSUME pc \in {"accept", "scan"}, i \in rset
        PROVE  FALSE
    <3>1. S05!ParentAlive /\ (up[i] > 0 \/ child[i] = "dead")
      BY <2>2, Zenon DEF S05IInv, S05RsetInv, S05!ParentAlive, S05!Ends
    <3>2. child[i] # "web_child" /\ down[i] = << >>
      BY <3>1, <1>4 DEF S05IInv, S05BusyInv
    <3> QED
      BY <3>1, <3>2, SMTT(30) DEF S05!ChildStep, S05!Read_fd, S05!ReadEof, S05!Finish,
                                  S05!BadRequest, S05!ParentEndOpen
  <2> QED
    BY <2>1, <2>2, <1>3, <1>5, SMTT(30) DEF S05IInv, S05RsetInv
<1> QED
  BY <1>1, <1>2, <1>6, <1>7, <1>8, S05ParentIdle, SMTT(30) DEF S05IInv

\* Every step of serv05 keeps the invariant.
LEMMA S05StepIInv == ASSUME S05Counting, S05IInv, [S05!Next]_S05!vars PROVE S05IInv'
<1>1. CASE UNCHANGED S05!vars
  BY <1>1, Zenon DEF S05!vars, S05!parent, S05!pipes, S05!kids, S05IInv, S05!TypeOK, S05!NavailExact,
              S05!Available,
              S05!AvailableMeansWaiting, S05!NselExact, S05!AlwaysAChild, S05BusyInv, S05RsetInv,
              S05!ParentAlive
<1>2. CASE S05!Next
  BY <1>2, S05ClientStep, S05SelectStep, S05AcceptStep, S05ScanStep, S05EndStep, S05ChildStepInv,
     SMTT(30)
     DEF S05!Next, S05!ParentStep
<1> QED
  BY <1>1, <1>2

-----------------------------------------------------------------------------
(* Its refinement of ConnService.                                              *)
S05Holders == [c \in S05!Conns |-> S05!Holders(c)]

S05Service == INSTANCE ConnService WITH
  Workers <- 1 .. nchildren, made <- nconns, queue <- backlog, holders <- S05Holders

\* The connections that wait for accept are different ones, each made; the ones
\* that the children have do not wait, and no two children have the same.
S05HeldInv ==
  /\ \A k \in 1 .. Len(backlog) : backlog[k] <= nconns
  /\ \A j, k \in 1 .. Len(backlog) : j # k => backlog[j] # backlog[k]
  /\ \A i \in S05!Children : child[i] # "web_child" => conn[i] = 0
  /\ \A i \in S05!Children, c \in S05!Conns :
       S05!Has(i, c) => c <= nconns /\ \A k \in 1 .. Len(backlog) : backlog[k] # c
  /\ \A i, j \in S05!Children, c \in S05!Conns : S05!Has(i, c) /\ S05!Has(j, c) => i = j

\* A step after which no child has a connection it did not have.
LEMMA S05HeldFrame ==
  ASSUME S05IInv, S05HeldInv, UNCHANGED <<nconns, backlog>>,
         \A i \in S05!Children, c \in S05!Conns : S05!Has(i, c)' => S05!Has(i, c),
         \A i \in S05!Children : child'[i] # "web_child" => conn'[i] = 0
  PROVE  S05HeldInv'
<1>1. /\ \A k \in 1 .. Len(backlog') : backlog'[k] <= nconns'
      /\ \A j, k \in 1 .. Len(backlog') : j # k => backlog'[j] # backlog'[k]
  BY DEF S05HeldInv
<1>2. \A i \in S05!Children, c \in S05!Conns :
        S05!Has(i, c)' => c <= nconns' /\ \A k \in 1 .. Len(backlog') : backlog'[k] # c
  BY DEF S05HeldInv
<1>3. \A i, j \in S05!Children, c \in S05!Conns : S05!Has(i, c)' /\ S05!Has(j, c)' => i = j
  BY DEF S05HeldInv
<1> QED
  BY <1>1, <1>2, <1>3 DEF S05HeldInv

\* At the start no child has a connection.
LEMMA S05InitHeld == S05!Init => S05HeldInv
<1> SUFFICES ASSUME S05!Init PROVE S05HeldInv
  OBVIOUS
<1>1. \A i \in S05!Children : conn[i] = 0 /\ down[i] = << >>
  BY DEF S05!Init
<1>2. \A i \in S05!Children, c \in S05!Conns : ~S05!Has(i, c)
  BY <1>1 DEF S05!Has, S05!Conns
<1> QED
  BY <1>1, <1>2 DEF S05!Init, S05HeldInv

\* Only Accept gives a child a connection it did not have.
LEMMA S05HasQuiet ==
  ASSUME UNCHANGED <<down, child, conn>>, NEW i \in S05!Children, NEW c
  PROVE  S05!Has(i, c)' = S05!Has(i, c)
  BY DEF S05!Has

\* A step of a child gives no connection to anyone.
LEMMA S05HasChild ==
  ASSUME S05IInv, S05HeldInv, NEW i \in S05!Children, S05!ChildStep(i) \/ S05!BadRequest(i)
  PROVE  /\ \A j \in S05!Children, c \in S05!Conns : S05!Has(j, c)' => S05!Has(j, c)
         /\ \A j \in S05!Children : child'[j] # "web_child" => conn'[j] = 0
<1>1. /\ down \in [S05!Children -> Seq(S05!Conns)] /\ conn \in [S05!Children -> S05!Conns \cup {0}]
      /\ child \in [S05!Children -> {"read_fd", "web_child", "dead"}]
  BY DEF S05IInv, S05!TypeOK
<1>2. ASSUME NEW j \in S05!Children, j # i, NEW c \in S05!Conns
      PROVE  /\ S05!Has(j, c)' => S05!Has(j, c)
             /\ child'[j] # "web_child" => conn'[j] = 0
  <2>1. down'[j] = down[j] /\ child'[j] = child[j] /\ conn'[j] = conn[j]
    BY <1>1, <1>2 DEF S05!ChildStep, S05!Read_fd, S05!ReadEof, S05!Finish, S05!BadRequest,
                      S05!pipes
  <2> QED
    BY <2>1 DEF S05!Has, S05HeldInv
<1>3. \A j \in S05!Children : child'[j] # "web_child" => conn'[j] = 0
  <2>1. \A j \in S05!Children : child[j] # "web_child" => conn[j] = 0
    BY DEF S05HeldInv
  <2> QED
    BY <1>1, <2>1 DEF S05!ChildStep, S05!Read_fd, S05!ReadEof, S05!Finish, S05!BadRequest
<1>4. ASSUME NEW c \in S05!Conns, S05!Has(i, c)' PROVE S05!Has(i, c)
  <2>1. CASE S05!Read_fd(i)
    <3>1. /\ down[i] \in Seq(S05!Conns) /\ down[i] # << >> /\ child[i] # "dead"
          /\ conn'[i] = Head(down[i]) /\ down'[i] = Tail(down[i])
      BY <1>1, <2>1 DEF S05!Read_fd
    <3>2. /\ Head(down[i]) = down[i][1] /\ 1 \in 1 .. Len(down[i])
          /\ \A k \in 1 .. Len(Tail(down[i])) :
               Tail(down[i])[k] = down[i][k + 1] /\ k + 1 \in 1 .. Len(down[i])
      BY <3>1
    <3>3. conn'[i] = c \/ \E k \in 1 .. Len(down'[i]) : down'[i][k] = c
      BY <1>4 DEF S05!Has
    <3>4. \E k \in 1 .. Len(down[i]) : down[i][k] = c
      BY <3>1, <3>2, <3>3, Zenon
    <3> QED
      BY <3>1, <3>4 DEF S05!Has
  <2>2. CASE S05!ReadEof(i) \/ S05!Finish(i) \/ S05!BadRequest(i)
    <3>1. child[i] # "dead" /\ down'[i] = down[i] /\ (conn'[i] = 0 \/ conn'[i] = conn[i])
      BY <1>1, <2>2 DEF S05!ReadEof, S05!Finish, S05!BadRequest, S05!pipes
    <3>2. c # 0
      BY DEF S05!Conns
    <3> QED
      BY <1>4, <3>1, <3>2 DEF S05!Has
  <2> QED
    BY <2>1, <2>2 DEF S05!ChildStep
<1> QED
  BY <1>2, <1>3, <1>4

\* Any step that neither makes, drops nor accepts a connection.
S05Quiet ==
  \/ S05!Select \/ S05!Scan \/ S05!ScanEof \/ S05!sig_int
  \/ \E i \in S05!Children : S05!ChildStep(i) \/ S05!BadRequest(i)

\* No step but Connect, Abort and Accept adds a connection or moves one.
LEMMA S05HasFewer ==
  ASSUME S05IInv, S05HeldInv, S05Quiet
  PROVE  /\ UNCHANGED <<nconns, backlog>>
         /\ \A i \in S05!Children, c \in S05!Conns : S05!Has(i, c)' => S05!Has(i, c)
         /\ \A i \in S05!Children : child'[i] # "web_child" => conn'[i] = 0
<1>1. CASE S05!Select \/ S05!Scan \/ S05!ScanEof
  <2>1. UNCHANGED <<nconns, backlog, down, child, conn>>
    BY <1>1, Zenon DEF S05!Select, S05!Scan, S05!ScanEof, S05!pipes, S05!kids
  <2> QED
    BY <2>1, S05HasQuiet DEF S05HeldInv
<1>2. CASE S05!sig_int
  <2>1. /\ UNCHANGED <<nconns, backlog>>
        /\ \A i \in S05!Children : child'[i] = "dead" /\ conn'[i] = 0
    BY <1>2 DEF S05!sig_int
  <2> QED
    BY <2>1 DEF S05!Has
<1>3. ASSUME NEW i \in S05!Children, S05!ChildStep(i) \/ S05!BadRequest(i)
      PROVE  UNCHANGED <<nconns, backlog>>
  BY <1>3 DEF S05!ChildStep, S05!Read_fd, S05!ReadEof, S05!Finish, S05!BadRequest
<1> QED
  BY <1>1, <1>2, <1>3, S05HasChild DEF S05Quiet

\* The child that Accept picks and what it then has.
LEMMA S05HasAccept ==
  ASSUME S05Counting, S05IInv, S05HeldInv, S05!Accept
  PROVE  \E i \in S05!Children :
           /\ backlog # << >> /\ backlog' = Tail(backlog) /\ UNCHANGED <<nconns, child, conn>>
           /\ \A c \in S05!Conns : ~S05!Has(i, c) /\ (S05!Has(i, c)' <=> c = Head(backlog))
           /\ \A j \in S05!Children, c \in S05!Conns : j # i => (S05!Has(j, c)' <=> S05!Has(j, c))
<1>1. S05!Available \in SUBSET S05!Children /\ navail > 0 /\ S05!ParentAlive
  BY Zenon DEF S05!Available, S05!Accept, S05IInv, S05RsetInv, S05!ParentAlive, S05!Ends
<1>2. S05!Available # {}
  BY <1>1, S05Subset DEF S05IInv, S05!NavailExact
<1>3. ~ \A i \in S05!Children : child_status[i] # 0
  BY <1>2 DEF S05!Available
<1>4. PICK i \in S05!Children :
        /\ S05!FirstAvailable(i)
        /\ down' = IF child[i] = "dead" THEN down
                   ELSE [down EXCEPT ![i] = Append(@, Head(backlog))]
  BY <1>3 DEF S05!Accept
<1>5. /\ backlog # << >> /\ backlog' = Tail(backlog) /\ UNCHANGED <<nconns, child, conn>>
  BY Zenon DEF S05!Accept, S05!kids
<1>6. child[i] = "read_fd" /\ down[i] = << >> /\ conn[i] = 0
  BY <1>1, <1>4 DEF S05!FirstAvailable, S05IInv, S05!AvailableMeansWaiting, S05HeldInv
<1>7. /\ down'[i] = Append(<< >>, Head(backlog))
      /\ \A j \in S05!Children : j # i => down'[j] = down[j]
  BY <1>4, <1>6 DEF S05IInv, S05!TypeOK
<1>8. Len(down'[i]) = 1 /\ down'[i][1] = Head(backlog)
  BY <1>7
<1>9. ASSUME NEW c \in S05!Conns PROVE ~S05!Has(i, c) /\ (S05!Has(i, c)' <=> c = Head(backlog))
  BY <1>5, <1>6, <1>8 DEF S05!Has, S05!Conns
<1>10. \A j \in S05!Children, c \in S05!Conns : j # i => (S05!Has(j, c)' <=> S05!Has(j, c))
  BY <1>5, <1>7 DEF S05!Has
<1> QED
  BY <1>5, <1>9, <1>10

\* The queue without its first connection.
LEMMA S05TailFacts ==
  ASSUME S05IInv, S05HeldInv, backlog # << >>
  PROVE  /\ Head(backlog) \in S05!Conns /\ Head(backlog) <= nconns
         /\ \A i \in S05!Children : ~S05!Has(i, Head(backlog))
         /\ \A k \in 1 .. Len(Tail(backlog)) :
              /\ k + 1 \in 1 .. Len(backlog) /\ Tail(backlog)[k] = backlog[k + 1]
              /\ Tail(backlog)[k] # Head(backlog)
<1>1. backlog \in Seq(S05!Conns)
  BY DEF S05IInv, S05!TypeOK
<1>2. /\ Head(backlog) = backlog[1] /\ 1 \in 1 .. Len(backlog) /\ Head(backlog) \in S05!Conns
      /\ \A k \in 1 .. Len(Tail(backlog)) :
           k + 1 \in 1 .. Len(backlog) /\ k + 1 # 1 /\ Tail(backlog)[k] = backlog[k + 1]
  BY <1>1
<1> QED
  BY <1>2 DEF S05HeldInv

\* After accept the connection is held by the child it was passed to and by no other.
LEMMA S05HeldAccept == ASSUME S05Counting, S05IInv, S05HeldInv, S05!Accept PROVE S05HeldInv'
<1>1. PICK i \in S05!Children :
        /\ backlog # << >> /\ backlog' = Tail(backlog) /\ UNCHANGED <<nconns, child, conn>>
        /\ \A c \in S05!Conns : ~S05!Has(i, c) /\ (S05!Has(i, c)' <=> c = Head(backlog))
        /\ \A j \in S05!Children, c \in S05!Conns : j # i => (S05!Has(j, c)' <=> S05!Has(j, c))
  BY S05HasAccept
<1>2. /\ Head(backlog) \in S05!Conns /\ Head(backlog) <= nconns
      /\ \A j \in S05!Children : ~S05!Has(j, Head(backlog))
      /\ \A k \in 1 .. Len(backlog') :
           /\ k + 1 \in 1 .. Len(backlog) /\ backlog'[k] = backlog[k + 1]
           /\ backlog'[k] # Head(backlog)
  BY <1>1, S05TailFacts
<1>3. \A j, k \in 1 .. Len(backlog') : j # k => j + 1 # k + 1
  OBVIOUS
<1>4. /\ \A k \in 1 .. Len(backlog') : backlog'[k] <= nconns'
      /\ \A j, k \in 1 .. Len(backlog') : j # k => backlog'[j] # backlog'[k]
  BY <1>1, <1>2, <1>3 DEF S05HeldInv
<1>5. ASSUME NEW j \in S05!Children, NEW c \in S05!Conns, S05!Has(j, c)'
      PROVE  c <= nconns' /\ \A k \in 1 .. Len(backlog') : backlog'[k] # c
  BY <1>1, <1>2, <1>5 DEF S05HeldInv
<1>6. \A j, k \in S05!Children, c \in S05!Conns : S05!Has(j, c)' /\ S05!Has(k, c)' => j = k
  BY <1>1, <1>2 DEF S05HeldInv
<1>7. \A j \in S05!Children : child'[j] # "web_child" => conn'[j] = 0
  BY <1>1 DEF S05HeldInv
<1> QED
  BY <1>4, <1>5, <1>6, <1>7 DEF S05HeldInv

\* A client that connects or gives up changes no holder.
LEMMA S05HeldClient == ASSUME S05IInv, S05HeldInv, S05!Connect \/ S05!Abort PROVE S05HeldInv'
<1>1. UNCHANGED <<down, child, conn>> /\ backlog \in Seq(S05!Conns) /\ nconns \in Nat
  <2>1. UNCHANGED <<down, child, conn>>
    BY Zenon DEF S05!Connect, S05!Abort, S05!pipes, S05!kids
  <2>2. backlog \in Seq(S05!Conns) /\ nconns \in 0 .. MaxConns
    BY DEF S05IInv, S05!TypeOK
  <2> QED
    BY <2>1, <2>2, MaxConnsAssumption
<1>2. \A i \in S05!Children, c \in S05!Conns : S05!Has(i, c)' = S05!Has(i, c)
  BY <1>1, S05HasQuiet
<1>3. CASE S05!Connect
  <2>1. nconns' = nconns + 1 /\ backlog' = Append(backlog, nconns + 1)
    BY <1>3 DEF S05!Connect
  <2>2. /\ Len(backlog') = Len(backlog) + 1 /\ Len(backlog) \in Nat
        /\ \A k \in 1 .. Len(backlog) : backlog'[k] = backlog[k] /\ backlog[k] \in Nat
        /\ backlog'[Len(backlog) + 1] = nconns + 1
    <3>1. \A k \in 1 .. Len(backlog) : backlog[k] \in S05!Conns
      BY <1>1
    <3>2. \A c \in S05!Conns : c \in Nat
      BY MaxConnsAssumption DEF S05!Conns
    <3>3. \A k \in 1 .. Len(backlog) : Append(backlog, nconns + 1)[k] = backlog[k]
      BY <1>1
    <3>4. /\ Len(Append(backlog, nconns + 1)) = Len(backlog) + 1 /\ Len(backlog) \in Nat
          /\ Append(backlog, nconns + 1)[Len(backlog) + 1] = nconns + 1
      BY <1>1
    <3> QED
      BY <2>1, <3>1, <3>2, <3>3, <3>4
  <2>3. \A k \in 1 .. Len(backlog') : k \in 1 .. Len(backlog) \/ k = Len(backlog) + 1
    BY <2>2
  <2>4. \A k \in 1 .. Len(backlog) : backlog[k] <= nconns /\ backlog[k] < nconns + 1
    BY <1>1, <2>2 DEF S05HeldInv
  <2>5. \A k \in 1 .. Len(backlog') : backlog'[k] <= nconns'
    BY <1>1, <2>1, <2>2, <2>3, <2>4
  <2>6. \A j, k \in 1 .. Len(backlog') : j # k => backlog'[j] # backlog'[k]
    BY <2>2, <2>3, <2>4 DEF S05HeldInv
  <2>7. ASSUME NEW i \in S05!Children, NEW c \in S05!Conns, S05!Has(i, c)'
        PROVE  c <= nconns' /\ \A k \in 1 .. Len(backlog') : backlog'[k] # c
    <3>1. c <= nconns /\ c \in Nat /\ \A k \in 1 .. Len(backlog) : backlog[k] # c
      BY <1>2, <2>7 DEF S05HeldInv, S05!Conns
    <3>2. c <= nconns + 1 /\ c # nconns + 1
      BY <1>1, <3>1
    <3> QED
      BY <2>1, <2>2, <2>3, <3>1, <3>2
  <2> QED
    BY <1>1, <1>2, <2>5, <2>6, <2>7 DEF S05HeldInv
<1>4. CASE S05!Abort
  <2>1. PICK k \in 1 .. Len(backlog) : backlog' = Without(backlog, k)
    BY <1>4, Zenon DEF S05!Abort, Without
  <2>2. nconns' = nconns
    BY <1>4 DEF S05!Abort
  <2> DEFINE old(m) == IF m < k THEN m ELSE m + 1
  <2>3. /\ Len(backlog') = Len(backlog) - 1 /\ Len(backlog) \in Nat
        /\ \A m \in 1 .. Len(backlog') : backlog'[m] = backlog[old(m)]
    <3>1. /\ Len(Without(backlog, k)) = Len(backlog) - 1
          /\ \A m \in 1 .. Len(backlog) - 1 :
               Without(backlog, k)[m] = backlog[IF m < k THEN m ELSE m + 1]
      BY <1>1, WithoutFacts
    <3>2. Len(backlog) \in Nat
      BY <1>1
    <3> QED
      BY <2>1, <3>1, <3>2
  <2>4. /\ \A m \in 1 .. Len(backlog') : old(m) \in 1 .. Len(backlog)
        /\ \A j, m \in 1 .. Len(backlog') : j # m => old(j) # old(m)
    BY <2>3
  <2> HIDE DEF old
  <2>5. /\ \A m \in 1 .. Len(backlog') : backlog'[m] <= nconns'
        /\ \A j, m \in 1 .. Len(backlog') : j # m => backlog'[j] # backlog'[m]
    <3>1. /\ \A m \in 1 .. Len(backlog) : backlog[m] <= nconns
          /\ \A j, m \in 1 .. Len(backlog) : j # m => backlog[j] # backlog[m]
      BY DEF S05HeldInv
    <3>2. \A m \in 1 .. Len(backlog') : backlog'[m] <= nconns'
      BY <2>2, <2>3, <2>4, <3>1, Zenon
    <3>3. ASSUME NEW j \in 1 .. Len(backlog'), NEW m \in 1 .. Len(backlog'), j # m
          PROVE  backlog'[j] # backlog'[m]
      BY <2>3, <2>4, <3>1, <3>3, Zenon
    <3> QED
      BY <3>2, <3>3
  <2>6. ASSUME NEW i \in S05!Children, NEW c \in S05!Conns, S05!Has(i, c)'
        PROVE  c <= nconns' /\ \A m \in 1 .. Len(backlog') : backlog'[m] # c
    BY <1>2, <2>2, <2>3, <2>4, <2>6 DEF S05HeldInv
  <2> QED
    BY <1>1, <1>2, <2>5, <2>6 DEF S05HeldInv
<1> QED
  BY <1>3, <1>4

\* Every step keeps each connection with one child at most.
LEMMA S05StepHeld == ASSUME S05Counting, S05IInv, S05HeldInv, [S05!Next]_S05!vars PROVE S05HeldInv'
<1>1. CASE UNCHANGED S05!vars
  <2>1. UNCHANGED <<nconns, backlog, down, child, conn>>
    BY <1>1 DEF S05!vars, S05!pipes, S05!kids
  <2> QED
    BY <2>1, S05HasQuiet, S05HeldFrame DEF S05HeldInv
<1>2. CASE S05!Connect \/ S05!Abort \/ S05!Accept
  BY <1>2, S05HeldClient, S05HeldAccept
<1>3. CASE S05Quiet
  BY <1>3, S05HasFewer, S05HeldFrame
<1> QED
  BY <1>1, <1>2, <1>3, Zenon DEF S05!Next, S05!ParentStep, S05Quiet

\* The refinement mapping, before and after a step.
LEMMA S05HoldersAt ==
  /\ S05Holders = [c \in S05!Conns |-> S05!Holders(c)] /\ DOMAIN S05Holders = S05!Conns
  /\ \A c \in S05!Conns : S05Holders[c] = S05!Holders(c)
  /\ S05Holders' = [c \in S05!Conns |-> S05!Holders(c)'] /\ \A c \in S05!Conns : S05Holders'[c] = S05!Holders(c)'
  BY DEF S05Holders

\* Who holds c, in terms of what the children have.
LEMMA S05HoldersAre ==
  ASSUME NEW c
  PROVE  /\ \A i \in S05!Children : i + 1 \in S05!Holders(c) <=> S05!Has(i, c)
         /\ \A h \in S05!Holders(c) : \E i \in S05!Children : h = i + 1 /\ S05!Has(i, c)
  BY nchildrenAssumption DEF S05!Holders, S05!Children

\* The same after a step.
LEMMA S05HoldersAreNext ==
  ASSUME NEW c
  PROVE  /\ \A i \in S05!Children : i + 1 \in S05!Holders(c)' <=> S05!Has(i, c)'
         /\ \A h \in S05!Holders(c)' : \E i \in S05!Children : h = i + 1 /\ S05!Has(i, c)'
  BY nchildrenAssumption DEF S05!Holders, S05!Children

\* serv05 starts as the service does.
LEMMA S05InitImplements == S05!Init => S05Service!Init
<1> SUFFICES ASSUME S05!Init PROVE S05Service!Init
  OBVIOUS
<1>1. \A i \in S05!Children, c \in S05!Conns : ~S05!Has(i, c)
  BY DEF S05!Init, S05!Has, S05!Conns
<1>2. \A c \in S05!Conns : S05!Holders(c) = {}
  BY <1>1, S05HoldersAre
<1>3. S05Holders = [c \in S05!Conns |-> {}]
  BY <1>2, S05HoldersAt
<1> QED
  BY <1>3, S05HoldersAt DEF S05!Init, S05Service!Init, S05Service!Conns

\* A step after which no child has a connection it did not have closes those
\* that nobody has any more.
LEMMA S05FewerImplements ==
  ASSUME S05HeldInv, UNCHANGED <<nconns, backlog>>,
         \A i \in S05!Children, c \in S05!Conns : S05!Has(i, c)' => S05!Has(i, c)
  PROVE  S05Service!Next
<1>1. ASSUME NEW c \in S05!Conns PROVE S05!Holders(c)' = S05!Holders(c) \/ S05!Holders(c)' = {}
  <2>1. CASE \A i \in S05!Children : ~S05!Has(i, c)'
    BY <2>1, S05HoldersAreNext
  <2>2. ASSUME NEW i \in S05!Children, S05!Has(i, c)' PROVE S05!Holders(c)' = S05!Holders(c)
    <3>1. \A j \in S05!Children : (S05!Has(j, c) <=> j = i) /\ (S05!Has(j, c)' <=> j = i)
      BY <2>2 DEF S05HeldInv
    <3>2. S05!Holders(c) = {i + 1}
      BY <3>1, S05HoldersAre
    <3>3. S05!Holders(c)' = {i + 1}
      BY <3>1, S05HoldersAreNext
    <3> QED
      BY <3>2, <3>3
  <2> QED
    BY <2>1, <2>2
<1> DEFINE S == {c \in S05!Conns : S05!Holders(c)' = {}}
<1>2. S05Holders' = [c \in S05!Conns |-> IF c \in S THEN {} ELSE S05Holders[c]]
  BY <1>1, S05HoldersAt
<1>3. S \in SUBSET S05!Conns
  OBVIOUS
<1>4. S05Service!Close
  BY <1>2, <1>3, S05HoldersAt, Zenon DEF S05Service!Close, S05Service!Conns
<1> QED
  BY <1>4 DEF S05Service!Next

\* The mapping is unchanged when pipes and children are.
LEMMA S05HoldersQuiet ==
  ASSUME UNCHANGED <<down, child, conn>>
  PROVE  S05Holders' = S05Holders
<1>1. \A c \in S05!Conns : S05!Holders(c)' = S05!Holders(c)
  BY S05HasQuiet DEF S05!Holders
<1> QED
  BY <1>1, S05HoldersAt

\* Connect and Abort are the service's steps of those names.
LEMMA S05ClientImplements == ASSUME S05IInv, S05!Connect \/ S05!Abort PROVE S05Service!Next
<1>1. S05Holders' = S05Holders
  <2>1. UNCHANGED <<down, child, conn>>
    BY Zenon DEF S05!Connect, S05!Abort, S05!pipes, S05!kids
  <2> QED
    BY <2>1, S05HoldersQuiet
<1>2. CASE S05!Connect
  <2>1. S05Service!Connect
    BY <1>1, <1>2 DEF S05!Connect, S05Service!Connect
  <2> QED
    BY <2>1 DEF S05Service!Next
<1>3. CASE S05!Abort
  <2>1. S05Service!Drop
    BY <1>1, <1>3, Zenon DEF S05!Abort, S05Service!Drop
  <2> QED
    BY <2>1 DEF S05Service!Next
<1> QED
  BY <1>2, <1>3

\* accept together with Write_fd is the service's Accept.
LEMMA S05AcceptImplements == ASSUME S05Counting, S05IInv, S05HeldInv, S05!Accept PROVE S05Service!Next
<1>1. PICK i \in S05!Children :
        /\ backlog # << >> /\ backlog' = Tail(backlog) /\ UNCHANGED <<nconns, child, conn>>
        /\ \A c \in S05!Conns : ~S05!Has(i, c) /\ (S05!Has(i, c)' <=> c = Head(backlog))
        /\ \A j \in S05!Children, c \in S05!Conns : j # i => (S05!Has(j, c)' <=> S05!Has(j, c))
  BY S05HasAccept
<1>2. PICK d \in S05!Conns : d = Head(backlog) /\ \A j \in S05!Children : ~S05!Has(j, d)
  BY <1>1, S05TailFacts
<1>3. S05!Holders(d)' = {i + 1}
  <2>1. \A j \in S05!Children : S05!Has(j, d)' <=> j = i
    BY <1>1, <1>2
  <2> QED
    BY <2>1, S05HoldersAreNext
<1>4. ASSUME NEW c \in S05!Conns, c # d PROVE S05!Holders(c)' = S05!Holders(c)
  <2>1. \A j \in S05!Children : S05!Has(j, c)' <=> S05!Has(j, c)
    BY <1>1, <1>2, <1>4
  <2> QED
    BY <2>1, S05HoldersAre, S05HoldersAreNext
<1>5. S05Holders' = [S05Holders EXCEPT ![d] = {i + 1}]
  <2>1. [S05Holders EXCEPT ![d] = {i + 1}] = [c \in S05!Conns |-> IF c = d THEN {i + 1} ELSE S05Holders[c]]
    BY S05HoldersAt
  <2> QED
    BY <1>3, <1>4, <2>1, S05HoldersAt
<1>6. \A c \in S05!Conns : i + 1 \notin S05Holders[c]
  BY <1>1, S05HoldersAre, S05HoldersAt
<1>7. i + 1 \in 1 .. nchildren
  BY nchildrenAssumption DEF S05!Children
<1>8. S05Service!Take(i + 1)
  BY <1>1, <1>2, <1>5, <1>6, S05HoldersAt DEF S05Service!Take, S05Service!Free, S05Service!Conns
<1> QED
  BY <1>7, <1>8 DEF S05Service!Next

\* Every step of serv05 is a step of the service or a stutter.
LEMMA S05NextImplements ==
  ASSUME S05Counting, S05IInv, S05HeldInv, [S05!Next]_S05!vars
  PROVE  [S05Service!Next]_<<nconns, backlog, S05Holders>>
<1>1. CASE UNCHANGED S05!vars
  BY <1>1, S05HoldersQuiet DEF S05!vars, S05!pipes, S05!kids
<1>2. CASE S05!Connect \/ S05!Abort \/ S05!Accept
  BY <1>2, S05ClientImplements, S05AcceptImplements
<1>3. CASE S05Quiet
  BY <1>3, S05HasFewer, S05FewerImplements
<1> QED
  BY <1>1, <1>2, <1>3, Zenon DEF S05!Next, S05!ParentStep, S05Quiet

-----------------------------------------------------------------------------
(* The servers with a worker for each connection.                              *)
VARIABLES program, queue, main, connfd, restart, aborted, worker, open, sigchld, handler

Frk == INSTANCE ForkServer

FrkPlaces == {"none", "running", "zombie", "reaped"}

\* The connections that wait for accept are different ones, each made and without a
\* worker, and so is the one main has accepted and not yet given to a worker.
FrkQueueInv ==
  /\ \A k \in 1 .. Len(queue) : queue[k] <= nconns /\ worker[queue[k]] = "none"
  /\ \A j, k \in 1 .. Len(queue) : j # k => queue[j] # queue[k]
  /\ \A c \in Frk!Conns : c > nconns => worker[c] = "none"
  /\ main = "fork" => /\ connfd \in Frk!Conns /\ connfd <= nconns /\ worker[connfd] = "none"
                      /\ \A k \in 1 .. Len(queue) : queue[k] # connfd
  /\ main = "close" => Frk!Processes /\ connfd \in Frk!Conns

FrkIInv == Frk!TypeOK /\ FrkQueueInv /\ Frk!DescriptorsExact /\ Frk!NoStrandedZombie

USE NConnsAssumption

\* The invariant holds before the first client connects.
LEMMA FrkInitIInv == Frk!Init => FrkIInv
<1> SUFFICES ASSUME Frk!Init PROVE FrkIInv
  OBVIOUS
<1>1. Frk!TypeOK
  <2>1. /\ program \in Frk!Programs /\ restart \in BOOLEAN /\ aborted \subseteq Frk!Conns
        /\ sigchld \in BOOLEAN /\ handler \in BOOLEAN
    BY Zenon DEF Frk!Init
  <2>2. /\ nconns \in 0 .. NConns /\ queue \in Seq(Frk!Conns) /\ connfd \in 0 .. NConns
        /\ worker \in [Frk!Conns -> FrkPlaces] /\ open \in [Frk!Conns -> SUBSET (0 .. NConns)]
        /\ main = "accept"
    BY DEF Frk!Init, FrkPlaces
  <2> QED
    BY <2>1, <2>2 DEF Frk!TypeOK, FrkPlaces
<1>2. FrkQueueInv
  BY DEF Frk!Init, FrkQueueInv
<1>3. Frk!DescriptorsExact
  BY DEF Frk!Init, Frk!DescriptorsExact, Frk!Holders
<1>4. Frk!NoStrandedZombie
  BY DEF Frk!Init, Frk!NoStrandedZombie
<1> QED
  BY <1>1, <1>2, <1>3, <1>4 DEF FrkIInv

\* What TypeOK says of the data.
LEMMA FrkTypes ==
  ASSUME FrkIInv
  PROVE  /\ nconns \in 0 .. NConns /\ queue \in Seq(Frk!Conns) /\ connfd \in 0 .. NConns
         /\ worker \in [Frk!Conns -> FrkPlaces] /\ open \in [Frk!Conns -> SUBSET (0 .. NConns)]
  BY DEF FrkIInv, Frk!TypeOK, FrkPlaces

\* While main is in accept a connection is open in its worker only.
LEMMA FrkOpenIs ==
  ASSUME FrkIInv, NEW c \in Frk!Conns
  PROVE  /\ c # Frk!Parent
         /\ open[c] = Frk!Holders(c)
  BY DEF FrkIInv, Frk!DescriptorsExact, Frk!Conns, Frk!Parent

\* A client connects.
LEMMA FrkConnectStep == ASSUME FrkIInv, Frk!Connect PROVE FrkIInv'
<1>1. /\ nconns < NConns /\ nconns' = nconns + 1 /\ queue' = Append(queue, nconns + 1)
      /\ UNCHANGED <<program, restart, aborted, main, connfd, worker, open, sigchld, handler>>
  BY DEF Frk!Connect
<1>2. nconns + 1 \in Frk!Conns /\ queue' \in Seq(Frk!Conns) /\ nconns' \in 0 .. NConns
  BY <1>1, FrkTypes DEF Frk!Conns
<1>3. Frk!TypeOK'
  BY <1>1, <1>2 DEF FrkIInv, Frk!TypeOK
<1>4. /\ Len(queue') = Len(queue) + 1 /\ Len(queue) \in Nat
      /\ \A k \in 1 .. Len(queue) : queue'[k] = queue[k] /\ queue[k] \in Frk!Conns
      /\ queue'[Len(queue) + 1] = nconns + 1
  BY <1>1, FrkTypes
<1>5. \A k \in 1 .. Len(queue') : k \in 1 .. Len(queue) \/ k = Len(queue) + 1
  BY <1>4
<1>6. \A k \in 1 .. Len(queue) : queue[k] <= nconns /\ queue[k] # nconns + 1
  BY <1>4, FrkTypes DEF FrkIInv, FrkQueueInv, Frk!Conns
<1>7. FrkQueueInv'
  <2>1. \A k \in 1 .. Len(queue') : queue'[k] <= nconns' /\ worker'[queue'[k]] = "none"
    <3>1. worker[nconns + 1] = "none"
      BY <1>2, FrkTypes DEF FrkIInv, FrkQueueInv
    <3>2. ASSUME NEW k \in 1 .. Len(queue)
          PROVE  queue'[k] <= nconns' /\ worker'[queue'[k]] = "none"
      BY <1>1, <1>4, <1>6, FrkTypes DEF FrkIInv, FrkQueueInv, Frk!Conns
    <3> QED
      BY <1>1, <1>4, <1>5, <3>1, <3>2, FrkTypes
  <2>2. \A j, k \in 1 .. Len(queue') : j # k => queue'[j] # queue'[k]
    BY <1>4, <1>5, <1>6 DEF FrkIInv, FrkQueueInv
  <2>3. \A c \in Frk!Conns : c > nconns' => worker'[c] = "none"
    BY <1>1, FrkTypes DEF FrkIInv, FrkQueueInv, Frk!Conns
  <2>4. main' = "fork" => /\ connfd' \in Frk!Conns /\ connfd' <= nconns' /\ worker'[connfd'] = "none"
                          /\ \A k \in 1 .. Len(queue') : queue'[k] # connfd'
    <3>1. main = "fork" => /\ connfd \in Frk!Conns /\ connfd <= nconns /\ worker[connfd] = "none"
                           /\ \A k \in 1 .. Len(queue) : queue[k] # connfd
      BY DEF FrkIInv, FrkQueueInv
    <3>2. connfd <= nconns => connfd <= nconns + 1 /\ connfd # nconns + 1
      BY FrkTypes
    <3> QED
      BY <1>1, <1>4, <1>5, <3>1, <3>2
  <2>5. main' = "close" => Frk!Processes' /\ connfd' \in Frk!Conns
    BY <1>1 DEF FrkIInv, FrkQueueInv, Frk!Processes
  <2> QED
    BY <2>1, <2>2, <2>3, <2>4, <2>5 DEF FrkQueueInv
<1>8. Frk!DescriptorsExact' /\ Frk!NoStrandedZombie'
  BY <1>1 DEF FrkIInv, Frk!DescriptorsExact, Frk!Holders, Frk!NoStrandedZombie, Frk!Processes
<1> QED
  BY <1>3, <1>7, <1>8 DEF FrkIInv

\* The queue loses its first connection, or stays as it is: what remains of it
\* keeps what QueueInv says of queues.
LEMMA FrkTailFacts ==
  ASSUME FrkIInv, queue # << >>, queue' = Tail(queue)
  PROVE  /\ Head(queue) \in Frk!Conns /\ Head(queue) <= nconns /\ worker[Head(queue)] = "none"
         /\ queue' \in Seq(Frk!Conns)
         /\ \A k \in 1 .. Len(queue') : /\ queue'[k] <= nconns /\ worker[queue'[k]] = "none"
                                        /\ queue'[k] # Head(queue)
         /\ \A j, k \in 1 .. Len(queue') : j # k => queue'[j] # queue'[k]
<1>1. queue \in Seq(Frk!Conns) /\ Len(queue) \in Nat \ {0} /\ Head(queue) = queue[1]
  BY FrkTypes
<1>2. queue' \in Seq(Frk!Conns) /\ Len(queue') = Len(queue) - 1
  BY <1>1, FrkTypes
<1>3. \A k \in 1 .. Len(queue') : k + 1 \in 1 .. Len(queue) /\ queue'[k] = queue[k + 1] /\ k + 1 # 1
  BY <1>1, <1>2, FrkTypes
<1>4. 1 \in 1 .. Len(queue) /\ queue[1] \in Frk!Conns
  BY <1>1
<1>5. /\ \A k \in 1 .. Len(queue) : queue[k] <= nconns /\ worker[queue[k]] = "none"
      /\ \A j, k \in 1 .. Len(queue) : j # k => queue[j] # queue[k]
  BY DEF FrkIInv, FrkQueueInv
<1>6. \A j, k \in 1 .. Len(queue') : j # k => j + 1 # k + 1
  OBVIOUS
<1>7. \A j, k \in 1 .. Len(queue') : j # k => queue'[j] # queue'[k]
  BY <1>3, <1>5, <1>6
<1>8. \A k \in 1 .. Len(queue') : /\ queue'[k] <= nconns /\ worker[queue'[k]] = "none"
                                  /\ queue'[k] # Head(queue)
  BY <1>1, <1>3, <1>4, <1>5
<1> QED
  BY <1>1, <1>2, <1>4, <1>5, <1>7, <1>8

\* accept returns a connection to main.
LEMMA FrkAcceptStep == ASSUME FrkIInv, Frk!Accept PROVE FrkIInv'
<1> DEFINE h == Head(queue)
<1>1. /\ main = "accept" /\ queue # << >> /\ connfd' = h /\ queue' = Tail(queue)
      /\ open' = [open EXCEPT ![h] = {Frk!Parent}] /\ main' = "fork"
      /\ UNCHANGED <<program, restart, nconns, aborted, worker, sigchld, handler>>
  BY DEF Frk!Accept, Frk!At
<1>2. h \in Frk!Conns /\ h <= nconns /\ worker[h] = "none" /\ queue' \in Seq(Frk!Conns)
  BY <1>1, FrkTailFacts
<1>3. Frk!TypeOK'
  <2>1. open' \in [Frk!Conns -> SUBSET (0 .. NConns)] /\ connfd' \in 0 .. NConns
    BY <1>1, <1>2, FrkTypes DEF Frk!Parent, Frk!Conns
  <2> QED
    BY <1>1, <1>2, <2>1 DEF FrkIInv, Frk!TypeOK
<1>4. FrkQueueInv'
  <2>1. \A c \in Frk!Conns : c > nconns => worker[c] = "none"
    BY DEF FrkIInv, FrkQueueInv
  <2> QED
    BY <1>1, <1>2, <2>1, FrkTailFacts DEF FrkQueueInv
<1>5. Frk!DescriptorsExact'
  <2> SUFFICES ASSUME NEW c \in Frk!Conns PROVE open'[c] = Frk!Holders(c)'
    BY DEF Frk!DescriptorsExact
  <2>1. CASE c = h
    BY <1>1, <1>2, <2>1, FrkTypes DEF Frk!Holders
  <2>2. CASE c # h
    <3>1. open'[c] = open[c]
      BY <1>1, <1>2, <2>2, FrkTypes
    <3>2. Frk!Holders(c)' = Frk!Holders(c)
      BY <1>1, <2>2 DEF Frk!Holders, Frk!Processes
    <3> QED
      BY <3>1, <3>2, FrkOpenIs
  <2> QED
    BY <2>1, <2>2
<1>6. Frk!NoStrandedZombie'
  BY <1>1 DEF FrkIInv, Frk!NoStrandedZombie
<1> QED
  BY <1>3, <1>4, <1>5, <1>6 DEF FrkIInv

\* accept fails with EINTR or ECONNABORTED and is called again.
LEMMA FrkAcceptAgainStep == ASSUME FrkIInv, Frk!AcceptAgain PROVE FrkIInv'
<1>1. /\ main = "accept" /\ queue # << >> /\ queue' = Tail(queue)
      /\ UNCHANGED <<program, restart, nconns, aborted, main, connfd, worker, open, sigchld, handler>>
  BY DEF Frk!AcceptAgain, Frk!At
<1>2. Frk!TypeOK'
  BY <1>1, FrkTailFacts DEF FrkIInv, Frk!TypeOK
<1>3. FrkQueueInv'
  <2>1. \A c \in Frk!Conns : c > nconns => worker[c] = "none"
    BY DEF FrkIInv, FrkQueueInv
  <2> QED
    BY <1>1, <2>1, FrkTailFacts DEF FrkQueueInv
<1>4. Frk!DescriptorsExact' /\ Frk!NoStrandedZombie'
  BY <1>1 DEF FrkIInv, Frk!DescriptorsExact, Frk!Holders, Frk!NoStrandedZombie, Frk!Processes
<1> QED
  BY <1>2, <1>3, <1>4 DEF FrkIInv

\* The server ends, by an error or by SIGINT.
LEMMA FrkEndStep ==
  ASSUME FrkIInv, NEW how \in {"exit", "err_sys"}, Frk!End(how)
  PROVE  FrkIInv'
<1>1. /\ main' = how /\ handler' = FALSE /\ sigchld' = FALSE
      /\ open' = [c \in Frk!Conns |-> open[c] \ {Frk!Parent}]
      /\ worker' = [c \in Frk!Conns |->
                      IF worker[c] = "zombie" \/ (~Frk!Processes /\ worker[c] = "running")
                      THEN "reaped" ELSE worker[c]]
      /\ UNCHANGED <<program, restart, nconns, queue, aborted, connfd>>
  BY DEF Frk!End, Frk!network
<1>2. Frk!TypeOK'
  <2>1. open' \in [Frk!Conns -> SUBSET (0 .. NConns)]
    BY <1>1, FrkTypes
  <2>2. worker' \in [Frk!Conns -> FrkPlaces]
    BY <1>1, FrkTypes DEF FrkPlaces
  <2>3. sigchld' \in BOOLEAN /\ handler' \in BOOLEAN
    BY <1>1, Zenon
  <2> QED
    BY <1>1, <2>1, <2>2, <2>3 DEF FrkIInv, Frk!TypeOK, FrkPlaces
<1>3. FrkQueueInv'
  <2>1. \A c \in Frk!Conns : worker[c] = "none" => worker'[c] = "none"
    BY <1>1
  <2>2. \A k \in 1 .. Len(queue) : queue[k] \in Frk!Conns
    BY FrkTypes
  <2> QED
    BY <1>1, <2>1, <2>2 DEF FrkIInv, FrkQueueInv
<1>4. Frk!DescriptorsExact'
  <2> SUFFICES ASSUME NEW c \in Frk!Conns PROVE open'[c] = Frk!Holders(c)'
    BY DEF Frk!DescriptorsExact
  <2>1. Frk!Holders(c)' = IF worker[c] = "running" /\ Frk!Processes THEN {c} ELSE {}
    BY <1>1 DEF Frk!Holders, Frk!Processes
  <2>2. open[c] \ {Frk!Parent} = IF worker[c] = "running" /\ Frk!Processes THEN {c} ELSE {}
    BY FrkOpenIs DEF Frk!Holders
  <2> QED
    BY <1>1, <2>1, <2>2
<1>5. Frk!NoStrandedZombie'
  BY <1>1 DEF Frk!NoStrandedZombie
<1> QED
  BY <1>2, <1>3, <1>4, <1>5 DEF FrkIInv

\* fork or pthread_create: the worker has the connection too.
LEMMA FrkForkStep == ASSUME FrkIInv, Frk!Fork PROVE FrkIInv'
<1>1. /\ main = "fork" /\ worker' = [worker EXCEPT ![connfd] = "running"]
      /\ main' = IF Frk!Processes THEN "close" ELSE "accept"
      /\ open' = [c \in Frk!Conns |->
                    IF Frk!Processes /\ Frk!Parent \in open[c] THEN open[c] \cup {connfd} ELSE open[c]]
      /\ UNCHANGED <<program, restart, nconns, queue, aborted, connfd, sigchld, handler>>
  BY DEF Frk!Fork, Frk!At, Frk!network
<1>2. /\ connfd \in Frk!Conns /\ connfd <= nconns /\ worker[connfd] = "none"
      /\ \A k \in 1 .. Len(queue) : queue[k] # connfd
  BY <1>1 DEF FrkIInv, FrkQueueInv
<1>3. /\ worker'[connfd] = "running"
      /\ \A c \in Frk!Conns : c # connfd => worker'[c] = worker[c]
  BY <1>1, <1>2, FrkTypes
<1>4. Frk!TypeOK'
  <2>1. open' \in [Frk!Conns -> SUBSET (0 .. NConns)]
    BY <1>1, FrkTypes
  <2>2. worker' \in [Frk!Conns -> FrkPlaces]
    BY <1>1, FrkTypes, Zenon DEF FrkPlaces
  <2> QED
    BY <1>1, <2>1, <2>2 DEF FrkIInv, Frk!TypeOK, FrkPlaces
<1>5. FrkQueueInv'
  <2>1. \A k \in 1 .. Len(queue) : queue[k] \in Frk!Conns /\ worker'[queue[k]] = worker[queue[k]]
    BY <1>2, <1>3, FrkTypes
  <2>2. \A c \in Frk!Conns : c > nconns => worker'[c] = "none"
    <3>1. \A c \in Frk!Conns : c > nconns => c # connfd
      BY <1>2, FrkTypes DEF Frk!Conns
    <3> QED
      BY <1>3, <3>1 DEF FrkIInv, FrkQueueInv
  <2>3. main' # "fork" /\ (main' = "close" => Frk!Processes' /\ connfd' \in Frk!Conns)
    BY <1>1, <1>2 DEF Frk!Processes
  <2> QED
    BY <1>1, <2>1, <2>2, <2>3 DEF FrkIInv, FrkQueueInv
<1>6. Frk!DescriptorsExact'
  <2> SUFFICES ASSUME NEW c \in Frk!Conns PROVE open'[c] = Frk!Holders(c)'
    BY DEF Frk!DescriptorsExact
  <2>1. Frk!Processes' = Frk!Processes
    BY <1>1 DEF Frk!Processes
  <2>2. CASE c = connfd
    <3>1. open[c] = {Frk!Parent}
      BY <1>1, <1>2, <2>2, FrkOpenIs DEF Frk!Holders
    <3>2. open'[c] = IF Frk!Processes THEN {Frk!Parent, c} ELSE {Frk!Parent}
      BY <1>1, <2>2, <3>1
    <3>3. Frk!Holders(c)' = IF Frk!Processes THEN {Frk!Parent, c} ELSE {Frk!Parent}
      BY <1>1, <1>3, <2>1, <2>2 DEF Frk!Holders
    <3> QED
      BY <3>2, <3>3
  <2>3. CASE c # connfd
    <3>1. open[c] = IF worker[c] # "running" THEN {} ELSE IF Frk!Processes THEN {c} ELSE {Frk!Parent}
      BY <2>3, FrkOpenIs DEF Frk!Holders
    <3>2. open'[c] = open[c]
      BY <1>1, <3>1, FrkOpenIs
    <3>3. Frk!Holders(c)' = IF worker[c] # "running" THEN {} ELSE IF Frk!Processes THEN {c} ELSE {Frk!Parent}
      BY <1>1, <1>3, <2>1, <2>3 DEF Frk!Holders
    <3> QED
      BY <3>1, <3>2, <3>3
  <2> QED
    BY <2>2, <2>3
<1>7. Frk!NoStrandedZombie'
  <2>1. \A c \in Frk!Conns : worker'[c] = "zombie" => worker[c] = "zombie"
    BY <1>3
  <2> QED
    BY <1>1, <2>1 DEF FrkIInv, Frk!NoStrandedZombie
<1> QED
  BY <1>4, <1>5, <1>6, <1>7 DEF FrkIInv

\* main closes its copy of the connected descriptor.
LEMMA FrkCloseStep == ASSUME FrkIInv, Frk!Close PROVE FrkIInv'
<1>1. /\ main = "close" /\ main' = "accept" /\ open' = [open EXCEPT ![connfd] = @ \ {Frk!Parent}]
      /\ UNCHANGED <<program, restart, nconns, queue, aborted, connfd, worker, sigchld, handler>>
  BY DEF Frk!Close, Frk!At, Frk!network
<1>2. Frk!Processes /\ connfd \in Frk!Conns
  BY <1>1 DEF FrkIInv, FrkQueueInv
<1>3. Frk!TypeOK'
  <2>1. open' \in [Frk!Conns -> SUBSET (0 .. NConns)]
    BY <1>1, FrkTypes, Zenon
  <2> QED
    BY <1>1, <2>1 DEF FrkIInv, Frk!TypeOK
<1>4. FrkQueueInv'
  BY <1>1 DEF FrkIInv, FrkQueueInv
<1>5. Frk!DescriptorsExact'
  <2> SUFFICES ASSUME NEW c \in Frk!Conns PROVE open'[c] = Frk!Holders(c)'
    BY DEF Frk!DescriptorsExact
  <2>1. Frk!Holders(c)' = IF worker[c] # "running" THEN {} ELSE {c}
    BY <1>1, <1>2 DEF Frk!Holders, Frk!Processes
  <2>2. open[c] \ {Frk!Parent} = IF worker[c] # "running" THEN {} ELSE {c}
    BY <1>2, FrkOpenIs DEF Frk!Holders
  <2>3. c # connfd => Frk!Parent \notin open[c]
    BY <1>2, FrkOpenIs DEF Frk!Holders
  <2>4. open'[c] = open[c] \ {Frk!Parent}
    BY <1>1, <1>2, <2>3, FrkTypes
  <2> QED
    BY <2>1, <2>2, <2>4
<1>6. Frk!NoStrandedZombie'
  BY <1>1 DEF FrkIInv, Frk!NoStrandedZombie
<1> QED
  BY <1>3, <1>4, <1>5, <1>6 DEF FrkIInv

\* A worker has served its client and ends.
LEMMA FrkFinishStep == ASSUME FrkIInv, NEW c \in Frk!Conns, Frk!Finish(c) PROVE FrkIInv'
<1>1. /\ worker[c] = "running"
      /\ worker' = [worker EXCEPT ![c] = IF Frk!Processes /\ ~Frk!Ended THEN "zombie" ELSE "reaped"]
      /\ open' = [d \in Frk!Conns |-> IF Frk!Processes THEN open[d] \ {c} ELSE
                                      IF d = c THEN {} ELSE open[d]]
      /\ sigchld' = (sigchld \/ (Frk!Processes /\ program.reap # "none" /\ ~Frk!Ended))
      /\ UNCHANGED <<program, restart, nconns, queue, aborted, main, connfd, handler>>
  BY DEF Frk!Finish, Frk!network
<1>2. /\ worker'[c] = IF Frk!Processes /\ ~Frk!Ended THEN "zombie" ELSE "reaped"
      /\ \A d \in Frk!Conns : d # c => worker'[d] = worker[d]
  BY <1>1, FrkTypes
<1>3. Frk!TypeOK'
  <2>1. open' \in [Frk!Conns -> SUBSET (0 .. NConns)]
    BY <1>1, FrkTypes
  <2>2. worker' \in [Frk!Conns -> FrkPlaces]
    BY <1>1, FrkTypes DEF FrkPlaces
  <2>3. sigchld' \in BOOLEAN
    BY <1>1
  <2> QED
    BY <1>1, <2>1, <2>2, <2>3 DEF FrkIInv, Frk!TypeOK, FrkPlaces
<1>4. FrkQueueInv'
  <2>1. \A d \in Frk!Conns : worker[d] = "none" => worker'[d] = "none"
    BY <1>1, <1>2
  <2>2. \A k \in 1 .. Len(queue) : queue[k] \in Frk!Conns
    BY FrkTypes
  <2>3. Frk!Processes' = Frk!Processes
    BY <1>1 DEF Frk!Processes
  <2> QED
    BY <1>1, <2>1, <2>2, <2>3 DEF FrkIInv, FrkQueueInv
<1>5. Frk!DescriptorsExact'
  <2> SUFFICES ASSUME NEW d \in Frk!Conns PROVE open'[d] = Frk!Holders(d)'
    BY DEF Frk!DescriptorsExact
  <2>1. Frk!Processes' = Frk!Processes /\ worker'[c] # "running"
    BY <1>1, <1>2 DEF Frk!Processes
  <2>2. CASE d = c
    <3>1. main = "fork" => connfd # c
      BY <1>1 DEF FrkIInv, FrkQueueInv
    <3>2. main = "close" => Frk!Processes
      BY DEF FrkIInv, FrkQueueInv
    <3>3. Frk!Holders(c)' = IF main \in {"fork", "close"} /\ connfd = c THEN {Frk!Parent} ELSE {}
      BY <1>1, <2>1 DEF Frk!Holders
    <3>4. CASE Frk!Processes
      <4>1. open[c] = (IF main \in {"fork", "close"} /\ connfd = c THEN {Frk!Parent} ELSE {}) \cup {c}
        BY <1>1, <3>4, FrkOpenIs DEF Frk!Holders
      <4>2. open'[c] = open[c] \ {c}
        BY <1>1, <3>4
      <4> QED
        BY <2>2, <3>3, <4>1, <4>2, FrkOpenIs
    <3>5. CASE ~Frk!Processes
      BY <1>1, <2>2, <3>1, <3>2, <3>3, <3>5
    <3> QED
      BY <3>4, <3>5
  <2>3. CASE d # c
    <3>1. Frk!Holders(d)' = Frk!Holders(d)
      BY <1>1, <1>2, <2>1, <2>3 DEF Frk!Holders
    <3>2. c \notin open[d] \/ ~Frk!Processes
      BY <2>3, FrkOpenIs DEF Frk!Holders
    <3>3. open'[d] = open[d]
      BY <1>1, <2>3, <3>2
    <3> QED
      BY <3>1, <3>3, FrkOpenIs
  <2> QED
    BY <2>2, <2>3
<1>6. Frk!NoStrandedZombie'
  <2>1. CASE worker'[c] = "zombie" /\ program.reap = "waitpid"
    <3>1. Frk!Processes /\ ~Frk!Ended /\ program.reap # "none"
      BY <1>2, <2>1
    <3>2. sigchld'
      BY <1>1, <3>1, Zenon
    <3> QED
      BY <3>2 DEF Frk!NoStrandedZombie
  <2>2. CASE ~(worker'[c] = "zombie" /\ program.reap = "waitpid")
    <3>1. sigchld => sigchld'
      BY <1>1, Zenon
    <3> SUFFICES ASSUME program.reap = "waitpid", NEW d \in Frk!Conns, worker'[d] = "zombie"
                 PROVE  sigchld' \/ handler'
      BY <1>1 DEF Frk!NoStrandedZombie
    <3>2. worker[d] = "zombie"
      BY <1>2, <2>2
    <3>3. sigchld \/ handler
      BY <3>2 DEF FrkIInv, Frk!NoStrandedZombie
    <3> QED
      BY <1>1, <3>1, <3>3
  <2> QED
    BY <2>1, <2>2
<1> QED
  BY <1>3, <1>4, <1>5, <1>6 DEF FrkIInv

\* A step that changes at most a worker from zombie to reaped, the signal and who
\* has aborted.
LEMMA FrkHandlerFrame ==
  ASSUME FrkIInv, UNCHANGED <<program, restart, nconns, queue, main, connfd, open>>,
         aborted' \subseteq Frk!Conns, worker' \in [Frk!Conns -> FrkPlaces],
         \A c \in Frk!Conns : worker'[c] = worker[c] \/ (worker[c] = "zombie" /\ worker'[c] = "reaped"),
         sigchld' \in BOOLEAN, handler' \in BOOLEAN, Frk!NoStrandedZombie'
  PROVE  FrkIInv'
<1>1. Frk!TypeOK'
  BY DEF FrkIInv, Frk!TypeOK, FrkPlaces
<1>2. FrkQueueInv'
  <2>1. \A d \in Frk!Conns : worker[d] = "none" => worker'[d] = "none"
    OBVIOUS
  <2>2. \A k \in 1 .. Len(queue) : queue[k] \in Frk!Conns
    BY FrkTypes
  <2>3. Frk!Processes' = Frk!Processes
    BY DEF Frk!Processes
  <2> QED
    BY <2>1, <2>2, <2>3 DEF FrkIInv, FrkQueueInv
<1>3. Frk!DescriptorsExact'
  <2> SUFFICES ASSUME NEW d \in Frk!Conns PROVE open'[d] = Frk!Holders(d)'
    BY DEF Frk!DescriptorsExact
  <2>1. Frk!Processes' = Frk!Processes /\ (worker'[d] = "running" <=> worker[d] = "running")
    BY DEF Frk!Processes
  <2>2. Frk!Holders(d)' = Frk!Holders(d)
    BY <2>1 DEF Frk!Holders
  <2> QED
    BY <2>2, FrkOpenIs
<1> QED
  BY <1>1, <1>2, <1>3 DEF FrkIInv

\* SIGCHLD is delivered, its handler reaps and returns, or a client gives up.
LEMMA FrkHandlerStep ==
  ASSUME FrkIInv, Frk!Deliver \/ Frk!HandlerReturn \/ \E c \in Frk!Conns : Frk!Reap(c) \/ Frk!Abort(c)
  PROVE  FrkIInv'
<1>1. /\ aborted \subseteq Frk!Conns /\ sigchld \in BOOLEAN /\ handler \in BOOLEAN
      /\ worker \in [Frk!Conns -> FrkPlaces]
  BY DEF FrkIInv, Frk!TypeOK, FrkPlaces
<1>2. CASE Frk!Deliver
  <2>1. Frk!NoStrandedZombie'
    BY <1>2 DEF Frk!Deliver, Frk!NoStrandedZombie
  <2> QED
    BY <1>1, <1>2, <2>1, FrkHandlerFrame, Zenon DEF Frk!Deliver, Frk!network
<1>3. CASE Frk!HandlerReturn
  <2>1. Frk!NoStrandedZombie'
    BY <1>3 DEF Frk!HandlerReturn, Frk!NothingToReap, Frk!NoStrandedZombie
  <2> QED
    BY <1>1, <1>3, <2>1, FrkHandlerFrame, Zenon DEF Frk!HandlerReturn, Frk!network
<1>4. ASSUME NEW c \in Frk!Conns, Frk!Reap(c) PROVE FrkIInv'
  <2>1. /\ worker[c] = "zombie" /\ worker' = [worker EXCEPT ![c] = "reaped"]
        /\ UNCHANGED <<program, restart, nconns, queue, aborted, main, connfd, open, sigchld>>
    BY <1>4 DEF Frk!Reap, Frk!network
  <2>2. worker' \in [Frk!Conns -> FrkPlaces]
    BY <1>1, <2>1 DEF FrkPlaces
  <2>3. \A d \in Frk!Conns : worker'[d] = worker[d] \/ (worker[d] = "zombie" /\ worker'[d] = "reaped")
    BY <1>1, <2>1
  <2>4. handler' = Frk!Loops /\ Frk!Loops \in BOOLEAN
    BY <1>4 DEF Frk!Reap, Frk!Loops
  <2>5. handler' \in BOOLEAN
    BY <2>4
  <2>6. program.reap = "waitpid" => handler'
    BY <2>4, Zenon DEF Frk!Loops
  <2>7. Frk!NoStrandedZombie'
    BY <2>1, <2>6 DEF Frk!NoStrandedZombie
  <2> QED
    BY <1>1, <2>1, <2>2, <2>3, <2>5, <2>7, FrkHandlerFrame
<1>5. ASSUME NEW c \in Frk!Conns, Frk!Abort(c) PROVE FrkIInv'
  <2>1. aborted' \subseteq Frk!Conns /\ UNCHANGED <<program, restart, nconns, queue, main, connfd, open>>
    BY <1>1, <1>5 DEF Frk!Abort
  <2>2. UNCHANGED <<worker, sigchld, handler>>
    BY <1>5 DEF Frk!Abort
  <2>3. Frk!NoStrandedZombie'
    BY <2>1, <2>2 DEF FrkIInv, Frk!NoStrandedZombie
  <2> QED
    BY <1>1, <2>1, <2>2, <2>3, FrkHandlerFrame
<1> QED
  BY <1>2, <1>3, <1>4, <1>5

\* Every step of the fork servers keeps the invariant.
LEMMA FrkNextIInv == FrkIInv /\ [Frk!Next]_Frk!vars => FrkIInv'
<1> SUFFICES ASSUME FrkIInv, [Frk!Next]_Frk!vars PROVE FrkIInv'
  OBVIOUS
<1>1. CASE Frk!Accept \/ Frk!AcceptAgain \/ Frk!Fork \/ Frk!Close \/ Frk!Connect
  BY <1>1, FrkAcceptStep, FrkAcceptAgainStep, FrkForkStep, FrkCloseStep, FrkConnectStep
<1>2. CASE Frk!AcceptError \/ Frk!ForkError \/ Frk!sig_int
  BY <1>2, FrkEndStep DEF Frk!AcceptError, Frk!ForkError, Frk!sig_int
<1>3. ASSUME NEW c \in Frk!Conns, Frk!ThreadError(c) \/ Frk!Interrupted(c) PROVE FrkIInv'
  BY <1>3, FrkEndStep DEF Frk!ThreadError, Frk!Interrupted
<1>4. ASSUME NEW c \in Frk!Conns, Frk!Finish(c) PROVE FrkIInv'
  BY <1>4, FrkFinishStep
<1>5. CASE Frk!Deliver \/ Frk!HandlerReturn \/ \E c \in Frk!Conns : Frk!Reap(c) \/ Frk!Abort(c)
  BY <1>5, FrkHandlerStep
<1>6. CASE UNCHANGED Frk!vars
  <2>1. Frk!TypeOK' /\ FrkQueueInv'
    BY <1>6 DEF FrkIInv, Frk!TypeOK, FrkQueueInv, Frk!Processes, Frk!vars, Frk!network
  <2>2. Frk!DescriptorsExact' /\ Frk!NoStrandedZombie'
    BY <1>6 DEF FrkIInv, Frk!DescriptorsExact, Frk!Holders, Frk!NoStrandedZombie, Frk!Processes,
                Frk!vars
  <2> QED
    BY <2>1, <2>2 DEF FrkIInv
<1> QED
  BY <1>1, <1>2, <1>3, <1>4, <1>5, <1>6 DEF Frk!Next, Frk!MainStep

-----------------------------------------------------------------------------
(* Its refinement of ConnService.                                              *)
FrkHolders == [c \in Frk!Conns |-> Frk!ServedBy(c)]

FrkService == INSTANCE ConnService WITH
  Acceptor <- Frk!Parent, Workers <- Frk!Conns, made <- nconns, holders <- FrkHolders

\* The refinement mapping.
LEMMA FrkHoldersAt == /\ FrkHolders = [c \in Frk!Conns |-> Frk!ServedBy(c)]
                      /\ DOMAIN FrkHolders = Frk!Conns
                      /\ \A c \in Frk!Conns : FrkHolders[c] = Frk!ServedBy(c)
  BY DEF FrkHolders

\* The refinement mapping after a step.
LEMMA FrkHoldersAtNext == /\ FrkHolders' = [c \in Frk!Conns |-> Frk!ServedBy(c)']
                          /\ \A c \in Frk!Conns : FrkHolders'[c] = Frk!ServedBy(c)'
  BY DEF FrkHolders

\* The mapping is unchanged when every connection is served by the same.
LEMMA FrkHoldersSame ==
  ASSUME \A c \in Frk!Conns : Frk!ServedBy(c)' = Frk!ServedBy(c)
  PROVE  FrkHolders' = FrkHolders
  BY FrkHoldersAt, FrkHoldersAtNext

\* The mapping when one connection changes hands.
LEMMA FrkHoldersChange ==
  ASSUME NEW h \in Frk!Conns, NEW v, Frk!ServedBy(h)' = v,
         \A c \in Frk!Conns : c # h => Frk!ServedBy(c)' = Frk!ServedBy(c)
  PROVE  FrkHolders' = [FrkHolders EXCEPT ![h] = v]
<1>1. \A c \in Frk!Conns : FrkHolders'[c] = IF c = h THEN v ELSE FrkHolders[c]
  BY FrkHoldersAt, FrkHoldersAtNext
<1>2. [FrkHolders EXCEPT ![h] = v] = [c \in Frk!Conns |-> IF c = h THEN v ELSE FrkHolders[c]]
  BY FrkHoldersAt
<1> QED
  BY <1>1, <1>2, FrkHoldersAtNext

\* A fork server starts as the service does.
LEMMA FrkInitImplements == Frk!Init => FrkService!Init
<1> SUFFICES ASSUME Frk!Init PROVE FrkService!Init
  OBVIOUS
<1>1. \A c \in Frk!Conns : Frk!ServedBy(c) = {}
  BY DEF Frk!Init, Frk!ServedBy
<1>2. FrkHolders = [c \in Frk!Conns |-> {}]
  BY <1>1, FrkHoldersAt
<1> QED
  BY <1>2, FrkHoldersAt DEF Frk!Init, FrkService!Init, FrkService!Conns

\* Some connections are closed, none changes hands otherwise.
LEMMA FrkCloseImplements ==
  ASSUME UNCHANGED <<nconns, queue>>,
         \A c \in Frk!Conns : Frk!ServedBy(c)' = Frk!ServedBy(c) \/ Frk!ServedBy(c)' = {}
  PROVE  FrkService!Next
<1> DEFINE S == {c \in Frk!Conns : Frk!ServedBy(c)' = {}}
<1>1. FrkHolders' = [c \in Frk!Conns |-> IF c \in S THEN {} ELSE FrkHolders[c]]
  BY FrkHoldersAt, FrkHoldersAtNext
<1>2. S \in SUBSET Frk!Conns
  OBVIOUS
<1>3. FrkService!Close
  BY <1>1, <1>2, FrkHoldersAt, Zenon DEF FrkService!Close, FrkService!Conns
<1> QED
  BY <1>3 DEF FrkService!Next

\* Connect is the service's.
LEMMA FrkConnectImplements == ASSUME Frk!Connect PROVE FrkService!Next
<1>1. \A c \in Frk!Conns : Frk!ServedBy(c)' = Frk!ServedBy(c)
  BY DEF Frk!Connect, Frk!ServedBy
<1>2. FrkHolders' = FrkHolders
  BY <1>1, FrkHoldersSame
<1> QED
  BY <1>2 DEF Frk!Connect, FrkService!Connect, FrkService!Next

\* accept is the service's Accept: main holds the connection.
LEMMA FrkAcceptImplements == ASSUME FrkIInv, Frk!Accept PROVE FrkService!Next
<1>1. /\ main = "accept" /\ queue # << >> /\ connfd' = Head(queue) /\ queue' = Tail(queue)
      /\ main' = "fork" /\ UNCHANGED <<nconns, worker>>
  BY DEF Frk!Accept, Frk!At
<1>2. Head(queue) \in Frk!Conns /\ worker[Head(queue)] = "none"
  BY <1>1, FrkTailFacts
<1>3. PICK h \in Frk!Conns : h = Head(queue)
  BY <1>2
<1>4. Frk!ServedBy(h)' = {Frk!Parent}
  BY <1>1, <1>2, <1>3 DEF Frk!ServedBy, Frk!Parent
<1>5. \A c \in Frk!Conns : c # h => Frk!ServedBy(c)' = Frk!ServedBy(c)
  BY <1>1, <1>3 DEF Frk!ServedBy, Frk!Parent
<1>6. FrkHolders' = [FrkHolders EXCEPT ![h] = {Frk!Parent}]
  BY <1>4, <1>5, FrkHoldersChange
<1>7. FrkService!Take(Frk!Parent)
  BY <1>1, <1>3, <1>6 DEF FrkService!Take, FrkService!Free
<1> QED
  BY <1>7 DEF FrkService!Next

\* An accept that fails drops at most an aborted connection.
LEMMA FrkAcceptAgainImplements == ASSUME FrkIInv, Frk!AcceptAgain PROVE FrkService!Next
<1>1. queue # << >> /\ queue' = Tail(queue) /\ UNCHANGED <<nconns, main, connfd, worker>>
  BY DEF Frk!AcceptAgain
<1>2. queue \in Seq(Frk!Conns) /\ Len(queue) \in Nat \ {0}
  BY <1>1, FrkTypes
<1>3. Tail(queue) = SubSeq(queue, 1, 1 - 1) \o SubSeq(queue, 1 + 1, Len(queue))
  <2>1. SubSeq(queue, 1, 0) = << >> /\ SubSeq(queue, 2, Len(queue)) = Tail(queue)
    BY <1>2
  <2> QED
    BY <1>2, <2>1
<1>4. \A c \in Frk!Conns : Frk!ServedBy(c)' = Frk!ServedBy(c)
  BY <1>1 DEF Frk!ServedBy
<1>5. \E k \in 1 .. Len(queue) :
        queue' = SubSeq(queue, 1, k - 1) \o SubSeq(queue, k + 1, Len(queue))
  <2>1. 1 \in 1 .. Len(queue)
    BY <1>2
  <2> QED
    BY <1>1, <1>3, <2>1, Zenon
<1>6. FrkService!Drop
  BY <1>1, <1>4, <1>5, FrkHoldersSame, Zenon DEF FrkService!Drop
<1> QED
  BY <1>6 DEF FrkService!Next

\* fork moves the connection from main to its worker, one step of the service.
LEMMA FrkForkImplements == ASSUME FrkIInv, Frk!Fork PROVE FrkService!Next
<1>1. /\ main = "fork" /\ worker' = [worker EXCEPT ![connfd] = "running"]
      /\ main' # "fork" /\ UNCHANGED <<nconns, queue, connfd>>
  BY DEF Frk!Fork, Frk!At, Frk!network
<1>2. connfd \in Frk!Conns /\ worker[connfd] = "none"
  BY <1>1 DEF FrkIInv, FrkQueueInv
<1>3. PICK h \in Frk!Conns : h = connfd
  BY <1>2
<1>4. /\ worker'[h] = "running"
      /\ \A c \in Frk!Conns : c # h => worker'[c] = worker[c]
  BY <1>1, <1>3, FrkTypes
<1>5. Frk!ServedBy(h) = {Frk!Parent} /\ Frk!ServedBy(h)' = {h}
  BY <1>1, <1>2, <1>3, <1>4 DEF Frk!ServedBy, Frk!Parent
<1>6. \A c \in Frk!Conns : c # h => Frk!ServedBy(c)' = Frk!ServedBy(c) /\ h \notin Frk!ServedBy(c)
  BY <1>1, <1>3, <1>4 DEF Frk!ServedBy, Frk!Parent
<1>7. FrkHolders' = [FrkHolders EXCEPT ![h] = {h}]
  BY <1>5, <1>6, FrkHoldersChange
<1>8. h # Frk!Parent
  BY <1>3 DEF Frk!Conns, Frk!Parent
<1>9. FrkService!Pass(h, h)
  BY <1>1, <1>5, <1>6, <1>7, <1>8, FrkHoldersAt DEF FrkService!Pass, FrkService!Free,
       FrkService!Conns
<1> QED
  BY <1>9, FrkHoldersAt DEF FrkService!Next, FrkService!Conns

\* The end of main lets go of what only main held.
LEMMA FrkEndImplements ==
  ASSUME FrkIInv, NEW how \in {"exit", "err_sys"}, Frk!End(how)
  PROVE  FrkService!Next
<1>1. /\ main' # "fork" /\ UNCHANGED <<nconns, queue>>
      /\ \A c \in Frk!Conns : worker'[c] = "running" => worker[c] = "running"
  BY DEF Frk!End, Frk!network
<1>2. main = "fork" => worker[connfd] = "none"
  BY DEF FrkIInv, FrkQueueInv
<1>3. \A c \in Frk!Conns : Frk!ServedBy(c)' = Frk!ServedBy(c) \/ Frk!ServedBy(c)' = {}
  BY <1>1, <1>2 DEF Frk!ServedBy
<1> QED
  BY <1>1, <1>3, FrkCloseImplements

\* The end of a worker lets go of its connection.
LEMMA FrkFinishImplements == ASSUME FrkIInv, NEW d \in Frk!Conns, Frk!Finish(d) PROVE FrkService!Next
<1>1. /\ worker[d] = "running" /\ UNCHANGED <<nconns, queue, main, connfd>>
      /\ worker' = [worker EXCEPT ![d] = IF Frk!Processes /\ ~Frk!Ended THEN "zombie" ELSE "reaped"]
  BY DEF Frk!Finish, Frk!network
<1>2. /\ worker'[d] # "running"
      /\ \A c \in Frk!Conns : c # d => worker'[c] = worker[c]
  BY <1>1, FrkTypes
<1>3. main = "fork" => connfd # d
  BY <1>1 DEF FrkIInv, FrkQueueInv
<1>4. \A c \in Frk!Conns : Frk!ServedBy(c)' = Frk!ServedBy(c) \/ Frk!ServedBy(c)' = {}
  BY <1>1, <1>2, <1>3 DEF Frk!ServedBy
<1> QED
  BY <1>1, <1>4, FrkCloseImplements

\* Steps that the abstract service does not see.
LEMMA FrkQuietImplements ==
  ASSUME FrkIInv, Frk!Close \/ Frk!Deliver \/ Frk!HandlerReturn \/ \E c \in Frk!Conns : Frk!Reap(c) \/ Frk!Abort(c)
  PROVE  UNCHANGED <<nconns, queue, FrkHolders>>
<1>1. UNCHANGED <<nconns, queue, connfd>> /\ (main' = "fork" <=> main = "fork")
  BY DEF Frk!Close, Frk!At, Frk!Deliver, Frk!HandlerReturn, Frk!Reap, Frk!Abort, Frk!network
<1>2. \A c \in Frk!Conns : worker'[c] = "running" <=> worker[c] = "running"
  BY FrkTypes DEF Frk!Close, Frk!Deliver, Frk!HandlerReturn, Frk!Reap, Frk!Abort
<1>3. \A c \in Frk!Conns : Frk!ServedBy(c)' = Frk!ServedBy(c)
  BY <1>1, <1>2 DEF Frk!ServedBy
<1> QED
  BY <1>1, <1>3, FrkHoldersSame

\* Every step of a fork server is a step of the service or a stutter.
LEMMA FrkNextImplements == FrkIInv /\ [Frk!Next]_Frk!vars => [FrkService!Next]_<<nconns, queue, FrkHolders>>
<1> SUFFICES ASSUME FrkIInv, [Frk!Next]_Frk!vars PROVE [FrkService!Next]_<<nconns, queue, FrkHolders>>
  OBVIOUS
<1>1. CASE Frk!Accept \/ Frk!AcceptAgain \/ Frk!Fork \/ Frk!Connect
  BY <1>1, FrkAcceptImplements, FrkAcceptAgainImplements, FrkForkImplements, FrkConnectImplements
<1>2. CASE Frk!AcceptError \/ Frk!ForkError \/ Frk!sig_int
  BY <1>2, FrkEndImplements DEF Frk!AcceptError, Frk!ForkError, Frk!sig_int
<1>3. ASSUME NEW c \in Frk!Conns, Frk!ThreadError(c) \/ Frk!Interrupted(c) PROVE FrkService!Next
  BY <1>3, FrkEndImplements DEF Frk!ThreadError, Frk!Interrupted
<1>4. ASSUME NEW c \in Frk!Conns, Frk!Finish(c) PROVE FrkService!Next
  BY <1>4, FrkFinishImplements
<1>5. CASE Frk!Close \/ Frk!Deliver \/ Frk!HandlerReturn \/ \E c \in Frk!Conns : Frk!Reap(c) \/ Frk!Abort(c)
  BY <1>5, FrkQuietImplements
<1>6. CASE UNCHANGED Frk!vars
  <2>1. \A c \in Frk!Conns : Frk!ServedBy(c)' = Frk!ServedBy(c)
    BY <1>6 DEF Frk!vars, Frk!ServedBy
  <2> QED
    BY <1>6, <2>1, FrkHoldersSame DEF Frk!vars, Frk!network
<1> QED
  BY <1>1, <1>2, <1>3, <1>4, <1>5, <1>6, Zenon DEF Frk!Next, Frk!MainStep

\* Init, for the composition.
LEMMA FrkInitRefines == Frk!Init => FrkIInv /\ FrkService!Init
  BY FrkInitIInv, FrkInitImplements

\* Next, for the composition.
LEMMA FrkNextRefines ==
  FrkIInv /\ [Frk!Next]_Frk!vars => FrkIInv' /\ [FrkService!Next]_<<nconns, queue, FrkHolders>>
  BY FrkNextIInv, FrkNextImplements

\* Init, for the composition.
LEMMA S05InitRefines == ASSUME S05Counting, S05!Init PROVE S05IInv /\ S05HeldInv /\ S05Service!Init
  BY S05InitIInv, S05InitHeld, S05InitImplements

\* Next, for the composition.
LEMMA S05NextRefines ==
  ASSUME S05Counting, S05IInv, S05HeldInv, [S05!Next]_S05!vars
  PROVE  /\ S05IInv' /\ S05HeldInv'
         /\ [S05Service!Next]_<<nconns, backlog, S05Holders>>
  BY S05StepIInv, S05StepHeld, S05NextImplements
=============================================================================
