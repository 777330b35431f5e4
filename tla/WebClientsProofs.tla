-------------------------- MODULE WebClientsProofs --------------------------
(***************************************************************************)
(* Proofs about the Web clients (WebClients) for any number of files and    *)
(* any limit on connections.                                                *)
(***************************************************************************)
EXTENDS WebClients, FiniteSetTheorems, TLAPS

\* The provers of a leaf that names none, in the order they are tried.
USE SMT, Zenon, Z3

USE nfilesAssumption, maxnconnAssumption

\* How the number of elements of a set of files changes.
LEMMA OneMore ==
  ASSUME NEW S \in SUBSET Files, NEW f \in Files
  PROVE  /\ Cardinality(S) \in Nat
         /\ f \notin S => Cardinality(S \cup {f}) = Cardinality(S) + 1
         /\ f \in S => Cardinality(S \ {f}) = Cardinality(S) - 1
<1>1. IsFiniteSet(Files)
  BY FS_Interval DEF Files
<1>2. IsFiniteSet(S)
  BY <1>1, FS_Subset
<1> QED
  BY <1>2, FS_CardinalityType, FS_AddElement, FS_RemoveElement

-----------------------------------------------------------------------------
(* web01, web02 and web03. *)

NotStarted == {f \in Files : thread[f] = "none"}
Terminated == {f \in Files : thread[f] = "terminated"}

\* web02 counts a connection only after pthread_create has returned.
Late == IF main = "setflag" THEN 1 ELSE 0

ThreadTypes ==
  /\ f_flags \in [Files -> {"0", "F_CONNECTING", "F_READING", "F_DONE", "F_JOINED"}]
  /\ thread \in [Files -> {"none", "connect", "read", "lock", "terminated", "joined"}]
  /\ nconn \in Int /\ nlefttoconn \in Int /\ ndone \in Int /\ i \in Nat \ {0}

\* Which program goes where, and what main's index is good for there.
Places ==
  /\ main = "setflag" => version = "web02" /\ i \in Files /\ thread[i] \notin {"none", "joined"}
  /\ main = "thr_join" => version = "web01"
  /\ main \in {"lock", "cond_wait", "scan", "join"} => version # "web01"
  /\ main = "join" => i \in Files

\* The counters and the flags follow the threads, until an error ends the process.
Counts ==
  /\ nconn + Late = Cardinality(Unjoined)
  /\ nlefttoconn - Late = Cardinality(NotStarted)
  /\ \A f \in Files : thread[f] = "none" => f_flags[f] = "0"
  /\ \A f \in Files : f_flags[f] = "0" => thread[f] = "none" \/ (main = "setflag" /\ f = i)

ThreadInv ==
  /\ ThreadTypes /\ Places /\ (Alive => Counts)
  /\ ConnLimit /\ NdoneExact

\* A thread is created: home_page, the creating loop and SetFlag.
LEMMA CreateInv ==
  ASSUME ThreadInv, version # "web", NEW f \in Files, Create(f)
  PROVE  ThreadInv'
<1> DEFINE U == Unjoined
           N == NotStarted
<1>1. /\ ThreadTypes /\ Places /\ Counts /\ ConnLimit /\ NdoneExact
      /\ main = "create" /\ Late = 0 /\ nconn < maxnconn
  BY DEF ThreadInv, Create, Alive, Late, MoreToCreate
<1>2. thread[f] = "none" /\ f_flags[f] = "0"
  BY <1>1 DEF Create, Counts
<1>3. ThreadTypes'
  BY <1>1 DEF ThreadTypes, Create, Files
<1>4. Places'
  BY <1>1 DEF Places, Create, ThreadTypes
<1>5. U \in SUBSET Files /\ N \in SUBSET Files /\ f \notin U /\ f \in N
  BY <1>2 DEF Unjoined, NotStarted
<1>6. Unjoined' = U \cup {f} /\ NotStarted' = N \ {f} /\ Terminated' = Terminated
  BY <1>1, <1>2 DEF Create, ThreadTypes, Unjoined, NotStarted, Terminated
<1>7. nconn = Cardinality(U) /\ nlefttoconn = Cardinality(N)
  BY <1>1 DEF Counts, ThreadTypes
<1> HIDE DEF U, N
<1>8. /\ Cardinality(Unjoined') = nconn + 1
      /\ Cardinality(NotStarted') = nlefttoconn - 1
  BY <1>5, <1>6, <1>7, OneMore
<1>9. Late' = (IF version = "web02" THEN 1 ELSE 0)
  BY <1>1 DEF Create, Late
<1>10. Counts'
  <2>1. (nconn + Late)' = nconn + 1 /\ (nlefttoconn - Late)' = nlefttoconn - 1
    BY <1>1, <1>9 DEF Create, ThreadTypes
  <2>2. /\ \A g \in Files : thread'[g] = "none" => f_flags'[g] = "0"
        /\ \A g \in Files : f_flags'[g] = "0" => thread'[g] = "none" \/ (main' = "setflag" /\ g = i')
    BY <1>1, <1>2 DEF Create, ThreadTypes, Counts
  <2> QED
    BY <2>1, <2>2, <1>8 DEF Counts
<1>11. ConnLimit'
  <2>1. nconn + 1 <= maxnconn
    BY <1>1 DEF ThreadTypes
  <2>2. main' # "nothing found"
    BY <1>1, Zenon DEF Create
  <2> QED
    BY <1>8, <2>1, <2>2, Zenon DEF ConnLimit
<1>12. NdoneExact'
  BY <1>1, <1>6 DEF NdoneExact, Create, Terminated
<1> QED
  BY <1>3, <1>4, <1>10, <1>11, <1>12 DEF ThreadInv

\* The threads stay where they are: home_page, SetFlag, EndCreate, Lock, Spurious,
\* Scan, Unlock and Fail.
LEMMA StayInv ==
  ASSUME ThreadInv, version # "web", UNCHANGED <<version, thread, ndone>>,
         home_page \/ SetFlag \/ EndCreate \/ Lock \/ Spurious \/ Scan \/ Unlock
           \/ \E f \in Files : Fail(f)
  PROVE  ThreadInv'
<1>1. /\ ThreadTypes /\ Places /\ (Alive => Counts) /\ ConnLimit /\ NdoneExact
  BY DEF ThreadInv
<1>2. Unjoined' = Unjoined /\ NotStarted' = NotStarted /\ Terminated' = Terminated
  BY DEF Unjoined, NotStarted, Terminated
<1>3. ThreadTypes'
  <2>1. i' = i \/ i' = 1 \/ i' = i + 1
    BY Zenon DEF home_page, SetFlag, EndCreate, Lock, Spurious, Scan, Unlock, Fail
  <2>2. UNCHANGED <<f_flags, nconn, nlefttoconn>> \/ SetFlag
    BY Zenon DEF home_page, EndCreate, Lock, Spurious, Scan, Unlock, Fail, counters
  <2> QED
    BY <1>1, <2>1, <2>2 DEF ThreadTypes, SetFlag
<1>4. Places'
  <2>1. CASE Scan
    BY <1>1, <2>1 DEF Places, ThreadTypes, Files, Scan
  <2>2. CASE ~ Scan
    <3>1. /\ main' \notin {"setflag", "join"}
          /\ main' = "thr_join" => version = "web01"
          /\ main' \in {"lock", "cond_wait", "scan"} => version # "web01"
      BY <1>1, <2>2, Zenon DEF Places, home_page, SetFlag, EndCreate, Lock, Spurious, Unlock, Fail
    <3> QED
      BY <3>1 DEF Places
  <2> QED
    BY <2>1, <2>2
<1>5. Alive' => Counts'
  <2>1. CASE SetFlag
    <3>1. Counts /\ Late = 1 /\ Late' = 0
      BY <1>1, <2>1 DEF SetFlag, Alive, Late
    <3>2. /\ \A g \in Files : thread'[g] = "none" => f_flags'[g] = "0"
          /\ \A g \in Files : f_flags'[g] = "0" => thread'[g] = "none" \/ (main' = "setflag" /\ g = i')
      BY <1>1, <2>1, <3>1 DEF SetFlag, Counts, ThreadTypes, Places
    <3> QED
      BY <1>1, <1>2, <2>1, <3>1, <3>2 DEF SetFlag, Counts, ThreadTypes
  <2>2. CASE ~ SetFlag
    <3>1. Alive' => Alive /\ main # "setflag" /\ main' # "setflag" /\ UNCHANGED <<nconn, nlefttoconn, f_flags>>
      BY <2>2, Zenon DEF home_page, EndCreate, Lock, Spurious, Scan, Unlock, Fail, Alive, counters
    <3> QED
      BY <1>1, <1>2, <3>1 DEF Counts, Late
  <2> QED
    BY <2>1, <2>2
<1>6. main' # "nothing found"
  <2>1. CASE EndCreate /\ MoreToCreate
    <3>1. Counts /\ Late = 0 /\ \A f \in Files : f_flags[f] # "0"
      BY <1>1, <2>1, Zenon DEF EndCreate, Alive, Late
    <3>2. NotStarted = {}
      BY <3>1 DEF Counts, NotStarted
    <3>3. Cardinality(NotStarted) = 0
      BY <3>2, FS_EmptySet
    <3>4. nlefttoconn = 0
      BY <1>1, <3>1, <3>3 DEF Counts, ThreadTypes
    <3>5. nlefttoconn > 0
      BY <2>1 DEF MoreToCreate
    <3>6. FALSE
      BY <3>4, <3>5
    <3> QED
      BY <3>6, Zenon
  <2>2. CASE ~ (EndCreate /\ MoreToCreate)
    BY <1>1, <2>2, Zenon DEF ConnLimit, home_page, SetFlag, EndCreate, Lock, Spurious, Scan, Unlock, Fail
  <2> QED
    BY <2>1, <2>2, Zenon
<1>7. ConnLimit' /\ NdoneExact'
  BY <1>1, <1>2, <1>6, Zenon DEF ConnLimit, NdoneExact, Terminated
<1> QED
  BY <1>3, <1>4, <1>5, <1>7 DEF ThreadInv

\* A thread is joined: by web01's thr_join, or by the loop over the files.
LEMMA JoinInv ==
  ASSUME ThreadInv, version # "web", NEW f \in Files, Thr_join(f) \/ (Join /\ f = i)
  PROVE  ThreadInv'
<1> DEFINE U == Unjoined
           T == Terminated
<1>1. /\ ThreadTypes /\ Places /\ Counts /\ ConnLimit /\ NdoneExact
      /\ main \in {"thr_join", "join"} /\ Late = 0 /\ Late' = 0 /\ thread[f] = "terminated"
  BY Zenon DEF ThreadInv, Thr_join, Join, Alive, Late
<1>2. /\ thread' = [thread EXCEPT ![f] = "joined"]
      /\ nconn' = nconn - 1 /\ UNCHANGED <<version, nlefttoconn>>
      /\ f_flags' = f_flags \/ f_flags' = [f_flags EXCEPT ![f] = "F_JOINED"]
      /\ main' \in {"create", "scan"} /\ (main' = "scan" => version # "web01")
  BY <1>1 DEF Thr_join, Join, Places
<1>3. version # "web01" => ndone' = ndone - 1
  BY <1>1 DEF Thr_join, Join, Places
<1>4. ThreadTypes'
  <2>1. i' \in Nat \ {0} /\ ndone' \in Int
    BY <1>1 DEF ThreadTypes, Thr_join, Join
  <2> QED
    BY <1>1, <1>2, <2>1 DEF ThreadTypes
<1>5. Places'
  BY <1>2 DEF Places
<1>6. U \in SUBSET Files /\ T \in SUBSET Files /\ f \in U /\ f \in T
  BY <1>1 DEF Unjoined, Terminated
<1>7. Unjoined' = U \ {f} /\ NotStarted' = NotStarted /\ Terminated' = T \ {f}
  BY <1>1, <1>2 DEF ThreadTypes, Unjoined, NotStarted, Terminated
<1>8. /\ nconn = Cardinality(U) /\ nlefttoconn = Cardinality(NotStarted)
      /\ version # "web01" => ndone = Cardinality(T)
  BY <1>1 DEF Counts, ThreadTypes, NdoneExact, Terminated
<1>13. nconn <= maxnconn
  BY <1>1, <1>8, Zenon DEF ConnLimit
<1> HIDE DEF U, T
<1>9. /\ Cardinality(Unjoined') = nconn - 1 /\ nconn \in Nat
      /\ Cardinality(Terminated') = Cardinality(T) - 1
  BY <1>6, <1>7, <1>8, OneMore
<1>10. Counts'
  <2>1. (nconn + Late)' = nconn - 1 /\ (nlefttoconn - Late)' = nlefttoconn
    BY <1>1, <1>2, <1>9 DEF ThreadTypes
  <2>2. /\ \A g \in Files : thread'[g] = "none" => f_flags'[g] = "0"
        /\ \A g \in Files : f_flags'[g] = "0" => thread'[g] = "none" \/ (main' = "setflag" /\ g = i')
    BY <1>1, <1>2 DEF ThreadTypes, Counts
  <2> QED
    BY <2>1, <2>2, <1>7, <1>8, <1>9 DEF Counts
<1>11. ConnLimit'
  <2>1. nconn - 1 <= maxnconn
    BY <1>9, <1>13
  <2> QED
    BY <1>2, <1>9, <2>1, Zenon DEF ConnLimit
<1>12. NdoneExact'
  BY <1>2, <1>3, <1>8, <1>9 DEF NdoneExact, Terminated
<1> QED
  BY <1>4, <1>5, <1>10, <1>11, <1>12 DEF ThreadInv

\* A thread connects, reads to the end of its file or counts itself.
LEMMA RunInv ==
  ASSUME ThreadInv, version # "web", NEW f \in Files, ThreadStep(f)
  PROVE  ThreadInv'
<1> DEFINE T == Terminated
<1>1. /\ ThreadTypes /\ Places /\ Counts /\ ConnLimit /\ NdoneExact
      /\ thread[f] \in {"connect", "read", "lock"}
  BY DEF ThreadInv, ThreadStep, Connect, Read, Count
<1>2. /\ \E v \in {"read", "lock", "terminated"} : thread' = [thread EXCEPT ![f] = v]
      /\ UNCHANGED <<version, nconn, nlefttoconn, i>>
      /\ f_flags' = f_flags \/ \E v \in {"F_READING", "F_DONE"} : f_flags' = [f_flags EXCEPT ![f] = v]
      /\ main' = main \/ (main = "cond_wait" /\ main' = "lock")
  BY DEF ThreadStep, Connect, Read, Count, write_get_cmd, counters
<1>3. /\ T \in SUBSET Files /\ f \notin T
  BY <1>1 DEF Terminated
<1>4. Unjoined' = Unjoined /\ NotStarted' = NotStarted
  BY <1>1, <1>2 DEF ThreadTypes, Unjoined, NotStarted
<1>5. \/ version = "web01"
      \/ Terminated' = T /\ ndone' = ndone
      \/ Terminated' = T \cup {f} /\ ndone' = ndone + 1
  <2>1. CASE Connect(f) \/ Read(f)
    BY <1>1, <2>1 DEF ThreadTypes, Terminated, Connect, Read
  <2>2. CASE Count(f)
    BY <1>1, <2>2 DEF ThreadTypes, Terminated, Count
  <2> QED
    BY <2>1, <2>2 DEF ThreadStep
<1>6. ndone' \in Int
  BY <1>1 DEF ThreadTypes, ThreadStep, Connect, Read, Count
<1>7. ThreadTypes'
  BY <1>1, <1>2, <1>6 DEF ThreadTypes
<1>8. Places'
  BY <1>1, <1>2 DEF Places, ThreadTypes
<1>9. Counts'
  <2>1. Late' = Late
    BY <1>2 DEF Late
  <2>2. /\ \A g \in Files : thread'[g] = "none" => f_flags'[g] = "0"
        /\ \A g \in Files : f_flags'[g] = "0" => thread'[g] = "none" \/ (main' = "setflag" /\ g = i')
    BY <1>1, <1>2 DEF ThreadTypes, Counts
  <2> QED
    BY <1>1, <1>2, <1>4, <2>1, <2>2 DEF Counts
<1>10. ConnLimit'
  BY <1>1, <1>2, <1>4, Zenon DEF ConnLimit
<1>11. version # "web01" => ndone = Cardinality(T)
  BY <1>1 DEF NdoneExact, Terminated
<1> HIDE DEF T
<1>12. Cardinality(T \cup {f}) = Cardinality(T) + 1
  BY <1>3, OneMore
<1>13. NdoneExact'
  BY <1>2, <1>5, <1>11, <1>12 DEF NdoneExact, Terminated
<1> QED
  BY <1>7, <1>8, <1>9, <1>10, <1>13 DEF ThreadInv

\* Every step of the clients with threads preserves their invariant.
LEMMA ThreadsKeep ==
  ASSUME ThreadInv, version # "web", Next
  PROVE  ThreadInv'
<1>1. CASE \E f \in Files : Create(f)
  BY <1>1, CreateInv
<1>2. CASE \E f \in Files : Thr_join(f)
  BY <1>2, JoinInv
<1>3. CASE Join
  <2>1. i \in Files
    BY <1>3 DEF ThreadInv, Places, Join
  <2> QED
    BY <1>3, <2>1, JoinInv
<1>4. CASE \E f \in Files : ThreadStep(f)
  BY <1>4, RunInv
<1>5. CASE home_page \/ SetFlag \/ EndCreate \/ Lock \/ Spurious \/ Scan \/ Unlock
             \/ \E f \in Files : Fail(f)
  <2>1. UNCHANGED <<version, thread, ndone>>
    BY <1>5, Zenon DEF home_page, SetFlag, EndCreate, Lock, Spurious, Scan, Unlock, Fail
  <2> QED
    BY <1>5, <2>1, StayInv
<1> QED
  BY <1>1, <1>2, <1>3, <1>4, <1>5, Zenon DEF Next, MainStep

-----------------------------------------------------------------------------
(* web.c with select. *)

SelectTypes ==
  /\ f_flags \in [Files -> {"0", "F_CONNECTING", "F_READING", "F_DONE"}]
  /\ f_fd \in [Files -> 0 .. nfiles]
  /\ conn \in [Files -> {"none", "syn", "up", "refused", "data", "fin", "rst"}]
  /\ nconn \in Int /\ nlefttoconn \in Int /\ nlefttoread \in Int /\ i \in Nat \ {0}

\* No two connections have the same descriptor, and what select reported in ws or
\* rs of a file that is connecting, its connect has completed or failed.
FdsInv ==
  /\ \A f, g \in Select!Active : f_fd[f] = f_fd[g] => f = g
  /\ Select!Open \subseteq Files
  /\ \A f \in Files : f_flags[f] = "F_CONNECTING" => conn[f] \in {"syn", "up", "refused"}
  /\ \A f \in Files : main = "scan" /\ f_flags[f] = "F_CONNECTING" /\ f_fd[f] \in rs \cup ws
                        => conn[f] # "syn"

\* Select!SetsExact, which is as inductive as it stands.
SetsInv ==
  /\ rset = Select!Open /\ wset = {f_fd[f] : f \in Select!Having({"F_CONNECTING"})}
  /\ Cardinality(Select!Open) = Cardinality(Select!Active)
  /\ main # "err_sys" => /\ nconn = Cardinality(Select!Open) /\ Select!Open \subseteq Select!Fds
                         /\ nlefttoconn = Cardinality(Select!Having({"0"}))
  /\ nlefttoread = nfiles - Cardinality(Select!Having({"F_DONE"}))
  /\ main # "nothing found"

SelectInv ==
  /\ SelectTypes /\ FdsInv /\ SetsInv /\ Select!FailureEnds
  /\ thread = [f \in Files |-> "none"] /\ ndone = 0

\* The invariant's account of the descriptor sets is the property SetsExact.
LEMMA SetsInvIs == SetsInv <=> Select!SetsExact
<1>1. \A S : Select!Cardinality(S) = Cardinality(S)
  BY DEF Select!Cardinality, Cardinality
<1> QED
  BY <1>1, Zenon DEF SetsInv, Select!SetsExact

\* A set of numbers has a least element.
LEMMA Least ==
  ASSUME NEW S \in SUBSET Nat, S # {}
  PROVE  \E x \in S : \A y \in S : x <= y
<1> DEFINE R == OpToRel(<, Nat)
<1>1. \A x, y \in Nat : <<x, y>> \in R <=> x < y
  BY DEF OpToRel
<1>2. IsWellFoundedOn(R, Nat)
  BY NatLessThanWellFounded, Zenon
<1> HIDE DEF R
<1>3. PICK x \in S : \A y \in S : ~ (<<y, x>> \in R)
  BY <1>2, WFMin, Zenon
<1>4. \A y \in S : ~ (y < x)
  BY <1>1, <1>3, Zenon
<1>5. \A y \in S : x <= y
  BY <1>4
<1> QED
  BY <1>5

\* While not every file has a descriptor one is free, and all below the lowest
\* free one are in use.
LEMMA LowestFree ==
  ASSUME Select!Open \subseteq Files, Cardinality(Select!Open) < nfiles
  PROVE  /\ Select!NewFd \in Files \ Select!Open
         /\ Select!NewFd <= Cardinality(Select!Open) + 1
<1> DEFINE O == Select!Open
           fd == Select!NewFd
<1>1. IsFiniteSet(Files) /\ Cardinality(Files) = nfiles
  BY FS_Interval DEF Files
<1>2. IsFiniteSet(O) /\ Cardinality(O) \in Nat
  BY <1>1, FS_Subset, FS_CardinalityType
<1>3. Files \ O # {}
  <2>1. SUFFICES ASSUME Files \subseteq O PROVE FALSE
    OBVIOUS
  <2> QED
    BY <1>1, <1>2, <2>1, FS_Subset
<1>4. Files \ O \in SUBSET Nat
  BY DEF Files
<1>5. \E x \in Files \ O : \A y \in Files \ O : x <= y
  BY <1>3, <1>4, Least, Zenon
<1>6. fd \in Files \ O /\ \A y \in Files \ O : fd <= y
  BY <1>5, Zenon DEF Select!NewFd, Select!Files, Files
<1> HIDE DEF fd, O
<1>7. 1 .. fd - 1 \subseteq O
  BY <1>6 DEF Files
<1>8. Cardinality(1 .. fd - 1) = fd - 1 /\ fd \in Nat
  BY <1>6, FS_Interval DEF Files
<1>9. fd - 1 <= Cardinality(O)
  BY <1>2, <1>7, <1>8, FS_Subset
<1> QED
  BY <1>2, <1>6, <1>8, <1>9 DEF fd, O

\* A connect is started: the file gets the lowest free descriptor.
LEMMA StartInv ==
  ASSUME SelectInv, NEW f \in Files, Select!start_connect(f),
         UNCHANGED <<version, thread, ndone>>
  PROVE  SelectInv'
<1> DEFINE A == Select!Active
           O == Select!Open
           Z == Select!Having({"0"})
           fd == Select!NewFd
<1>1. /\ SelectTypes /\ FdsInv /\ SetsInv /\ Select!FailureEnds
      /\ main = "create" /\ f_flags[f] = "0"
      /\ f_fd' = [f_fd EXCEPT ![f] = fd]
      /\ UNCHANGED <<nlefttoread, rs, ws, i>>
  BY DEF SelectInv, Select!start_connect
<1>2. nconn < maxnconn /\ nconn' = nconn + 1 /\ nlefttoconn' = nlefttoconn - 1
  BY DEF Select!start_connect, Select!MoreToConnect
<1>3. /\ A \in SUBSET Files /\ O \in SUBSET Files /\ Z \in SUBSET Files
      /\ f \notin A /\ f \in Z
  BY <1>1 DEF FdsInv, Select!Active, Select!Having, Select!Files, Files
<1>4. /\ rset = O /\ Cardinality(O) = Cardinality(A) /\ nconn = Cardinality(O)
      /\ O \subseteq 1 .. maxnconn /\ nlefttoconn = Cardinality(Z)
  BY <1>1 DEF SetsInv, Select!Fds
<1> HIDE DEF A, Z
<1>5. Cardinality(A) < nfiles
  <2>1. IsFiniteSet(Files) /\ Cardinality(Files) = nfiles
    BY FS_Interval DEF Files
  <2>2. A \cup {f} \subseteq Files
    BY <1>3
  <2>3. Cardinality(A \cup {f}) <= nfiles
    BY <2>1, <2>2, FS_Subset
  <2> QED
    BY <1>3, <2>3, OneMore
<1>6. fd \in Files \ O /\ fd <= Cardinality(O) + 1
  BY <1>3, <1>4, <1>5, LowestFree
<1> HIDE DEF O, fd
<1>7. fd \in 1 .. maxnconn
  <2>1. nconn \in Nat
    BY <1>3, <1>4, OneMore, Zenon
  <2> QED
    BY <1>2, <1>4, <1>6, <2>1 DEF Files
<1>8. /\ Cardinality(A \cup {f}) = Cardinality(A) + 1
      /\ Cardinality(O \cup {fd}) = Cardinality(O) + 1
      /\ Cardinality(Z \ {f}) = Cardinality(Z) - 1
  BY <1>3, <1>6, OneMore
<1>9. CASE main' = "err_sys" /\ UNCHANGED <<f_flags, rset, wset, conn>>
  <2>1. SelectTypes'
    BY <1>1, <1>2, <1>6, <1>9 DEF SelectTypes, Files
  <2>2. /\ Select!Active' = Select!Active
        /\ \A flags : Select!Having(flags)' = Select!Having(flags)
    BY <1>9 DEF Select!Active, Select!Having
  <2>3. \A g \in Files : g # f => f_fd'[g] = f_fd[g]
    BY <1>1 DEF SelectTypes
  <2>4. Select!Open' = Select!Open
    BY <1>1, <2>2, <2>3 DEF Select!Open, Select!Active, Select!Files, Files
  <2>5. {f_fd'[g] : g \in Select!Having({"F_CONNECTING"})} = {f_fd[g] : g \in Select!Having({"F_CONNECTING"})}
    BY <1>1, <2>3 DEF Select!Having, Select!Files, Files
  <2>6. FdsInv'
    BY <1>1, <1>9, <2>2, <2>3, <2>4 DEF FdsInv, Select!Active, Select!Files, Files
  <2>7. SetsInv'
    BY <1>1, <1>9, <2>2, <2>4, <2>5 DEF SetsInv
  <2>8. Select!FailureEnds'
    BY <1>1, <1>9 DEF Select!FailureEnds
  <2> QED
    BY <2>1, <2>6, <2>7, <2>8 DEF SelectInv
<1>10. ASSUME NEW v \in {"F_CONNECTING", "F_READING"}, NEW c \in {"syn", "up"},
              v = "F_READING" => c = "up",
              f_flags' = [f_flags EXCEPT ![f] = v], conn' = [conn EXCEPT ![f] = c],
              rset' = rset \cup {fd}, main' = main,
              wset' = IF v = "F_CONNECTING" THEN wset \cup {fd} ELSE wset
       PROVE  SelectInv'
  <2>1. SelectTypes'
    BY <1>1, <1>2, <1>6, <1>10 DEF SelectTypes, Files
  <2>2. /\ Select!Active' = A \cup {f}
        /\ Select!Having({"0"})' = Z \ {f}
        /\ Select!Having({"F_DONE"})' = Select!Having({"F_DONE"})
        /\ Select!Having({"F_CONNECTING"})' = Select!Having({"F_CONNECTING"}) \cup
             (IF v = "F_CONNECTING" THEN {f} ELSE {})
    BY <1>1, <1>10 DEF SelectTypes, Select!Active, Select!Having, Select!Files, Files, A, Z
  <2>3. /\ \A g \in Files : g # f => f_fd'[g] = f_fd[g]
        /\ f_fd'[f] = fd
    BY <1>1 DEF SelectTypes
  <2>4. Select!Open' = O \cup {fd}
    BY <1>3, <2>2, <2>3 DEF Select!Open, O, A
  <2>5. f \notin Select!Having({"F_CONNECTING"}) /\ Select!Having({"F_CONNECTING"}) \subseteq Files
    BY <1>1 DEF Select!Having, Select!Files, Files
  <2>6. wset' = {f_fd'[g] : g \in Select!Having({"F_CONNECTING"})'}
    <3>1. wset = {f_fd[g] : g \in Select!Having({"F_CONNECTING"})}
      BY <1>1 DEF SetsInv
    <3> QED
      BY <1>10, <2>2, <2>3, <2>5, <3>1
  <2>7. FdsInv'
    <3>1. \A g \in A : f_fd[g] \in O
      BY DEF A, O, Select!Open
    <3>2. \A g, h \in A \cup {f} : f_fd'[g] = f_fd'[h] => g = h
      BY <1>1, <1>3, <1>6, <2>3, <3>1 DEF FdsInv, A
    <3>3. /\ \A g \in Files : f_flags'[g] = "F_CONNECTING" => conn'[g] \in {"syn", "up", "refused"}
          /\ main' # "scan"
      BY <1>1, <1>10 DEF FdsInv, SelectTypes
    <3>4. O \cup {fd} \subseteq Files
      BY <1>3, <1>6
    <3> QED
      BY <2>2, <2>4, <3>2, <3>3, <3>4 DEF FdsInv
  <2>8. SetsInv'
    <3>1. rset' = Select!Open' /\ main' = "create" /\ Select!Open' \subseteq 1 .. maxnconn
      BY <1>1, <1>4, <1>7, <1>10, <2>4
    <3>2. /\ Cardinality(Select!Open') = Cardinality(Select!Active')
          /\ nconn' = Cardinality(Select!Open')
          /\ nlefttoconn' = Cardinality(Select!Having({"0"})')
      BY <1>2, <1>4, <1>8, <2>2, <2>4, Zenon
    <3>3. nlefttoread' = nfiles - Cardinality(Select!Having({"F_DONE"})')
      BY <1>1, <2>2 DEF SetsInv
    <3> QED
      BY <2>6, <3>1, <3>2, <3>3 DEF SetsInv, Select!Fds
  <2>9. Select!FailureEnds'
    BY <1>1, <1>10 DEF Select!FailureEnds, SelectTypes, Select!Files, Files
  <2> QED
    BY <2>1, <2>7, <2>8, <2>9 DEF SelectInv
<1> QED
  <2>1. \/ /\ f_flags' = [f_flags EXCEPT ![f] = "F_CONNECTING"]
           /\ rset' = rset \cup {fd} /\ wset' = wset \cup {fd}
           /\ conn' = [conn EXCEPT ![f] = "syn"] /\ main' = main
        \/ /\ f_flags' = [f_flags EXCEPT ![f] = "F_READING"] /\ rset' = rset \cup {fd}
           /\ conn' = [conn EXCEPT ![f] = "up"] /\ wset' = wset /\ main' = main
        \/ main' = "err_sys" /\ UNCHANGED <<f_flags, rset, wset, conn>>
    BY Zenon DEF Select!start_connect, Select!write_get_cmd, fd
  <2> QED
    BY <2>1, <1>9, <1>10

\* A step that leaves the flags, the descriptors and the sets as they are.
LEMMA SameFlags ==
  ASSUME SelectInv, UNCHANGED <<thread, ndone, f_flags, f_fd, nconn, nlefttoconn, nlefttoread, rset, wset>>,
         i' \in Nat \ {0}, conn' \in [Files -> {"none", "syn", "up", "refused", "data", "fin", "rst"}],
         main' # "nothing found", main = "err_sys" => main' = "err_sys",
         \A f \in Files :
           /\ f_flags[f] = "F_CONNECTING" =>
                /\ conn'[f] \in {"syn", "up", "refused"}
                /\ main' = "scan" /\ f_fd[f] \in rs' \cup ws' => conn'[f] # "syn"
           /\ f_flags[f] = "F_READING" => conn'[f] \in {"up", "data", "fin", "rst"}
           /\ f_flags[f] = "F_DONE" => conn'[f] = "fin"
  PROVE  SelectInv'
<1>1. SelectTypes /\ FdsInv /\ SetsInv /\ thread = [f \in Files |-> "none"] /\ ndone = 0
  BY Zenon DEF SelectInv
<1>2. /\ Select!Active' = Select!Active /\ Select!Open' = Select!Open
      /\ \A flags : Select!Having(flags)' = Select!Having(flags)
  BY Zenon DEF Select!Active, Select!Open, Select!Having
<1>3. SelectTypes'
  BY <1>1, Zenon DEF SelectTypes
<1>4. FdsInv'
  BY <1>1, <1>2, Zenon DEF FdsInv
<1>5. SetsInv'
  <2>1. main' # "err_sys" => main # "err_sys"
    BY Zenon
  <2> QED
    BY <1>1, <1>2, <2>1, Zenon DEF SetsInv
<1>6. Select!FailureEnds'
  BY Zenon DEF Select!FailureEnds, Select!Files, Files
<1> QED
  BY <1>1, <1>3, <1>4, <1>5, <1>6, Zenon DEF SelectInv

\* What SelectInv says of each file's connection.
LEMMA ConnFacts ==
  ASSUME SelectInv, NEW f \in Files
  PROVE  /\ f_flags[f] = "F_CONNECTING" =>
              /\ conn[f] \in {"syn", "up", "refused"}
              /\ main = "scan" /\ f_fd[f] \in rs \cup ws => conn[f] # "syn"
         /\ f_flags[f] = "F_READING" => conn[f] \in {"up", "data", "fin", "rst"}
         /\ f_flags[f] = "F_DONE" => conn[f] = "fin"
  BY DEF SelectInv, FdsInv, Select!FailureEnds, Select!Files, Files

\* home_page, the end of the creating loop, select and the end of the loop over the
\* files.
LEMMA MainInv ==
  ASSUME SelectInv, UNCHANGED <<version, thread, ndone>>,
         Select!home_page \/ Select!EndCreate \/ Select!Select \/ Select!EndScan
  PROVE  SelectInv'
<1>1. SelectTypes /\ FdsInv /\ SetsInv
  BY DEF SelectInv
<1>2. /\ UNCHANGED <<f_flags, f_fd, nconn, nlefttoconn, nlefttoread, rset, wset, conn>>
      /\ main # "err_sys" /\ (i' = i \/ i' = 1)
  BY Zenon DEF Select!home_page, Select!EndCreate, Select!Select, Select!EndScan, Select!wcounters
<1>3. main' # "nothing found"
  <2>1. CASE Select!EndCreate /\ Select!MoreToConnect
    <3>1. \A f \in Files : f_flags[f] # "0"
      BY <2>1, Zenon DEF Select!EndCreate, Select!Files, Files
    <3>2. Select!Having({"0"}) = {}
      BY <3>1 DEF Select!Having, Select!Files, Files
    <3>3. Cardinality(Select!Having({"0"})) = 0
      BY <3>2, FS_EmptySet
    <3>4. nlefttoconn = 0
      BY <1>1, <1>2, <3>3, Zenon DEF SetsInv
    <3>5. nlefttoconn > 0
      BY <2>1 DEF Select!MoreToConnect
    <3>6. FALSE
      BY <3>4, <3>5
    <3> QED
      BY <3>6, Zenon
  <2>2. CASE ~ (Select!EndCreate /\ Select!MoreToConnect)
    BY <1>1, <2>2, Zenon DEF Select!home_page, Select!EndCreate, Select!Select, Select!EndScan
  <2> QED
    BY <2>1, <2>2, Zenon
<1>4. ASSUME NEW f \in Files, f_flags[f] = "F_CONNECTING", main' = "scan", f_fd[f] \in rs' \cup ws'
      PROVE  conn[f] # "syn"
  <2>1. Select!Select
    BY <1>4 DEF Select!home_page, Select!EndCreate, Select!EndScan
  <2>2. rs' \subseteq Select!Readable /\ ws' \subseteq Select!Writable
    BY <2>1 DEF Select!Select
  <2>3. PICK g \in Select!Active : f_fd[g] = f_fd[f] /\ conn[g] # "syn"
    BY <1>4, <2>2 DEF Select!Readable, Select!Writable
  <2>4. f \in Select!Active
    BY <1>4 DEF Select!Active, Select!Files, Files
  <2> QED
    BY <1>1, <2>3, <2>4 DEF FdsInv
<1>5. \A f \in Files :
        /\ f_flags[f] = "F_CONNECTING" =>
             /\ conn'[f] \in {"syn", "up", "refused"}
             /\ main' = "scan" /\ f_fd[f] \in rs' \cup ws' => conn'[f] # "syn"
        /\ f_flags[f] = "F_READING" => conn'[f] \in {"up", "data", "fin", "rst"}
        /\ f_flags[f] = "F_DONE" => conn'[f] = "fin"
  BY <1>2, <1>4, ConnFacts, Zenon
<1>6. i' \in Nat \ {0} /\ conn' \in [Files -> {"none", "syn", "up", "refused", "data", "fin", "rst"}]
  BY <1>1, <1>2 DEF SelectTypes
<1> QED
  BY <1>2, <1>3, <1>5, <1>6, SameFlags, Zenon

\* The servers and the network: only the connection of a file changes.
LEMMA NetInv ==
  ASSUME SelectInv, UNCHANGED <<version, thread, ndone>>, NEW f \in Files,
         Select!Answer(f) \/ Select!Data(f) \/ Select!Refuse(f)
  PROVE  SelectInv'
<1>1. SelectTypes /\ SetsInv
  BY DEF SelectInv
<1>2. /\ UNCHANGED <<f_flags, f_fd, nconn, nlefttoconn, nlefttoread, rset, wset, rs, ws, main, i>>
      /\ main # "err_sys" /\ main # "nothing found"
  BY Zenon DEF Select!Answer, Select!Data, Select!Refuse, Select!wcounters, Select!Ends
<1>3. \/ conn[f] = "syn" /\ \E c \in {"up", "refused"} : conn' = [conn EXCEPT ![f] = c]
      \/ conn[f] = "up" /\ f_flags[f] = "F_READING"
           /\ \E c \in {"data", "fin", "rst"} : conn' = [conn EXCEPT ![f] = c]
  BY DEF Select!Answer, Select!Data, Select!Refuse
<1>4. conn' \in [Files -> {"none", "syn", "up", "refused", "data", "fin", "rst"}]
  BY <1>1, <1>3 DEF SelectTypes
<1>5. \A g \in Files :
        /\ f_flags[g] = "F_CONNECTING" =>
             /\ conn[g] \in {"syn", "up", "refused"}
             /\ main = "scan" /\ f_fd[g] \in rs \cup ws => conn[g] # "syn"
        /\ f_flags[g] = "F_READING" => conn[g] \in {"up", "data", "fin", "rst"}
        /\ f_flags[g] = "F_DONE" => conn[g] = "fin"
  BY ConnFacts, Zenon
<1>6. \A g \in Files :
        /\ f_flags[g] = "F_CONNECTING" =>
             /\ conn'[g] \in {"syn", "up", "refused"}
             /\ main' = "scan" /\ f_fd[g] \in rs' \cup ws' => conn'[g] # "syn"
        /\ f_flags[g] = "F_READING" => conn'[g] \in {"up", "data", "fin", "rst"}
        /\ f_flags[g] = "F_DONE" => conn'[g] = "fin"
  BY <1>1, <1>2, <1>3, <1>5, Zenon DEF SelectTypes
<1>7. i' \in Nat \ {0}
  BY <1>1, <1>2, Zenon DEF SelectTypes
<1> QED
  BY <1>2, <1>4, <1>6, <1>7, SameFlags, Zenon

\* One turn of the loop over the files: a connection is found complete, a file is
\* read to its end and its descriptor closed, or the sets stay as they are.
LEMMA ScanInv ==
  ASSUME SelectInv, UNCHANGED <<version, thread, ndone>>, Select!Scan
  PROVE  SelectInv'
<1> DEFINE A == Select!Active
           O == Select!Open
           D == Select!Having({"F_DONE"})
           C == Select!Having({"F_CONNECTING"})
<1>1. /\ SelectTypes /\ FdsInv /\ SetsInv /\ main = "scan"
      /\ UNCHANGED <<f_fd, nlefttoconn, rs, ws>> /\ i' = i + 1 /\ i <= nfiles
  BY DEF SelectInv, Select!Scan
<1>2. i \in Files /\ i' \in Nat \ {0}
  BY <1>1 DEF SelectTypes, Files
<1>3. \A g \in Files :
        /\ f_flags[g] = "F_CONNECTING" =>
             /\ conn[g] \in {"syn", "up", "refused"}
             /\ main = "scan" /\ f_fd[g] \in rs \cup ws => conn[g] # "syn"
        /\ f_flags[g] = "F_READING" => conn[g] \in {"up", "data", "fin", "rst"}
        /\ f_flags[g] = "F_DONE" => conn[g] = "fin"
  BY ConnFacts, Zenon
<1>4. /\ A \in SUBSET Files /\ O \in SUBSET Files /\ D \in SUBSET Files /\ C \in SUBSET A
      /\ \A g, h \in A : f_fd[g] = f_fd[h] => g = h
      /\ rset = O /\ wset = {f_fd[g] : g \in C} /\ Cardinality(O) = Cardinality(A)
      /\ nconn = Cardinality(O) /\ O \subseteq Select!Fds
      /\ nlefttoconn = Cardinality(Select!Having({"0"}))
      /\ nlefttoread = nfiles - Cardinality(D)
  BY <1>1 DEF FdsInv, SetsInv, Select!Active, Select!Having, Select!Files, Files
<1>5. CASE /\ f_flags[i] = "F_CONNECTING" /\ f_fd[i] \in rs \cup ws /\ conn[i] # "refused"
           /\ f_flags' = [f_flags EXCEPT ![i] = "F_READING"] /\ rset' = rset \cup {f_fd[i]}
           /\ wset' = wset \ {f_fd[i]} /\ UNCHANGED <<main, nconn, nlefttoread, conn>>
  <2>1. conn[i] = "up"
    BY <1>1, <1>2, <1>3, <1>5
  <2>2. /\ Select!Active' = A
        /\ Select!Having({"0"})' = Select!Having({"0"})
        /\ Select!Having({"F_DONE"})' = D
        /\ Select!Having({"F_CONNECTING"})' = C \ {i}
        /\ i \in A /\ i \in C
    BY <1>1, <1>2, <1>5 DEF SelectTypes, Select!Active, Select!Having, Select!Files, Files
  <2>3. Select!Open' = O /\ f_fd[i] \in O
    BY <1>1, <2>2 DEF Select!Open
  <2>4. SelectTypes'
    BY <1>1, <1>2, <1>5 DEF SelectTypes
  <2>5. FdsInv'
    BY <1>1, <1>4, <1>5, <2>2, <2>3 DEF FdsInv, SelectTypes
  <2>6. wset' = {f_fd'[g] : g \in C \ {i}}
    BY <1>1, <1>4, <1>5, <2>2
  <2>7. rset' = O
    BY <1>4, <1>5, <2>3
  <2>8. SetsInv'
    <3> HIDE DEF A, O, D, C
    <3> QED
      BY <1>1, <1>4, <1>5, <2>2, <2>3, <2>6, <2>7 DEF SetsInv, Select!Fds
  <2>9. Select!FailureEnds'
    BY <1>1, <1>2, <1>3, <1>5, <2>1 DEF Select!FailureEnds, SelectTypes, Select!Files, Files
  <2> QED
    BY <2>4, <2>5, <2>8, <2>9 DEF SelectInv
<1>6. CASE /\ f_flags[i] = "F_READING" /\ conn[i] = "fin"
           /\ f_flags' = [f_flags EXCEPT ![i] = "F_DONE"] /\ rset' = rset \ {f_fd[i]}
           /\ nconn' = nconn - 1 /\ nlefttoread' = nlefttoread - 1 /\ UNCHANGED <<conn, main, wset>>
  <2>1. /\ Select!Active' = A \ {i}
        /\ Select!Having({"0"})' = Select!Having({"0"})
        /\ Select!Having({"F_DONE"})' = D \cup {i}
        /\ Select!Having({"F_CONNECTING"})' = C
        /\ i \in A /\ i \notin D
    BY <1>1, <1>2, <1>6 DEF SelectTypes, Select!Active, Select!Having, Select!Files, Files
  <2>2. Select!Open' = {f_fd[g] : g \in A \ {i}} /\ f_fd[i] \in O
    BY <1>1, <2>1 DEF Select!Open
  <2>3. O = {f_fd[g] : g \in A}
    BY DEF Select!Open
  <2> HIDE DEF A, O, D, C
  <2>4. Select!Open' = O \ {f_fd[i]}
    BY <1>4, <2>1, <2>2, <2>3
  <2>5. SelectTypes'
    BY <1>1, <1>2, <1>6 DEF SelectTypes
  <2>6. FdsInv'
    <3>1. \A g \in Files : f_flags'[g] = "F_CONNECTING" => f_flags[g] = "F_CONNECTING"
      BY <1>1, <1>2, <1>6 DEF SelectTypes
    <3> QED
      BY <1>1, <1>4, <1>6, <2>1, <2>4, <3>1 DEF FdsInv
  <2>7. /\ Cardinality(A \ {i}) = Cardinality(A) - 1
        /\ Cardinality(O \ {f_fd[i]}) = Cardinality(O) - 1
        /\ Cardinality(D \cup {i}) = Cardinality(D) + 1
        /\ Cardinality(D) \in Nat
    BY <1>2, <1>4, <2>1, <2>2, OneMore, Zenon
  <2>8. SetsInv'
    <3>1. rset' = Select!Open' /\ Select!Open' \subseteq Select!Fds'
      BY <1>4, <1>6, <2>4 DEF Select!Fds
    <3>2. wset' = {f_fd'[g] : g \in C}
      BY <1>1, <1>4, <1>6
    <3>3. /\ Cardinality(Select!Open') = Cardinality(Select!Active')
          /\ nconn' = Cardinality(Select!Open')
      BY <1>4, <1>6, <2>1, <2>4, <2>7
    <3>4. nlefttoread' = nfiles - Cardinality(D \cup {i})
      BY <1>4, <1>6, <2>7
    <3> QED
      BY <1>1, <1>4, <1>6, <2>1, <3>1, <3>2, <3>3, <3>4 DEF SetsInv
  <2>9. Select!FailureEnds'
    BY <1>1, <1>2, <1>3, <1>6 DEF Select!FailureEnds, SelectTypes, Select!Files, Files
  <2> QED
    BY <2>5, <2>6, <2>8, <2>9 DEF SelectInv
<1>7. CASE /\ UNCHANGED <<f_flags, nconn, nlefttoread, rset, wset>>
           /\ main' \in {main, "sigpipe", "err_sys"}
           /\ \/ conn' = conn
              \/ f_flags[i] = "F_READING" /\ conn' = [conn EXCEPT ![i] = "up"]
  <2>1. conn' \in [Files -> {"none", "syn", "up", "refused", "data", "fin", "rst"}]
    BY <1>1, <1>7 DEF SelectTypes
  <2>2. \A g \in Files :
          /\ f_flags[g] = "F_CONNECTING" =>
               /\ conn'[g] \in {"syn", "up", "refused"}
               /\ main' = "scan" /\ f_fd[g] \in rs' \cup ws' => conn'[g] # "syn"
          /\ f_flags[g] = "F_READING" => conn'[g] \in {"up", "data", "fin", "rst"}
          /\ f_flags[g] = "F_DONE" => conn'[g] = "fin"
    BY <1>1, <1>3, <1>7 DEF SelectTypes
  <2>3. main' # "nothing found" /\ main # "err_sys"
    BY <1>1, <1>7, Zenon
  <2> QED
    BY <1>1, <1>2, <1>7, <2>1, <2>2, <2>3, SameFlags, Zenon
<1>8. \/ /\ f_flags[i] = "F_CONNECTING" /\ f_fd[i] \in rs \cup ws
         /\ Select!Connected /\ UNCHANGED <<nconn, nlefttoread, conn>>
      \/ f_flags[i] = "F_READING" /\ Select!ReadFile /\ UNCHANGED wset
      \/ UNCHANGED <<f_flags, nconn, nlefttoread, rset, wset, main, conn>>
  BY Zenon DEF Select!Scan
<1>9. CASE f_flags[i] = "F_CONNECTING" /\ f_fd[i] \in rs \cup ws
             /\ Select!Connected /\ UNCHANGED <<nconn, nlefttoread, conn>>
  BY <1>5, <1>7, <1>9 DEF Select!Connected, Select!write_get_cmd
<1>10. CASE f_flags[i] = "F_READING" /\ Select!ReadFile /\ UNCHANGED wset
  BY <1>6, <1>7, <1>10 DEF Select!ReadFile
<1>11. CASE UNCHANGED <<f_flags, nconn, nlefttoread, rset, wset, main, conn>>
  BY <1>7, <1>11
<1> QED
  BY <1>8, <1>9, <1>10, <1>11

\* Every step of web.c preserves its invariant.
LEMMA SelectKeeps ==
  ASSUME SelectInv, UNCHANGED <<version, thread, ndone>>, Select!Next
  PROVE  SelectInv'
<1>1. CASE Select!home_page \/ Select!EndCreate \/ Select!Select \/ Select!EndScan
  BY <1>1, MainInv
<1>2. CASE Select!Scan
  BY <1>2, ScanInv
<1>3. CASE \E f \in Files : Select!start_connect(f)
  BY <1>3, StartInv
<1>4. CASE \E f \in Files : Select!Answer(f) \/ Select!Data(f) \/ Select!Refuse(f)
  BY <1>4, NetInv
<1> QED
  BY <1>1, <1>2, <1>3, <1>4, Zenon DEF Select!Next, Select!MainStep, Select!Files, Files

-----------------------------------------------------------------------------
(* The clients together. *)

\* The inductive invariant.
ClientInv == IF version = "web" THEN SelectInv ELSE ThreadInv

\* The first states satisfy it.
LEMMA InitInv == ClientInit => ClientInv
<1> SUFFICES ASSUME ClientInit PROVE ClientInv
  OBVIOUS
<1>1. IsFiniteSet(Files) /\ Cardinality(Files) = nfiles /\ Cardinality({}) = 0
  BY FS_Interval, FS_EmptySet DEF Files
<1>2. CASE Init
  <2>1. version # "web"
    BY <1>2, VersionAssumption DEF Init
  <2>2. Unjoined = {} /\ NotStarted = Files /\ Terminated = {}
    BY <1>2 DEF Init, Unjoined, NotStarted, Terminated
  <2>3. ThreadTypes /\ Places /\ Late = 0
    BY <1>2 DEF Init, ThreadTypes, Places, Late
  <2>4. Counts
    BY <1>1, <1>2, <2>2, <2>3 DEF Init, Counts
  <2>5. ConnLimit /\ NdoneExact
    BY <1>1, <1>2, <2>2 DEF Init, ConnLimit, NdoneExact, Terminated
  <2> QED
    BY <2>1, <2>3, <2>4, <2>5 DEF ClientInv, ThreadInv
<1>3. CASE /\ version = "web" /\ Select!Init
           /\ thread = [f \in Files |-> "none"] /\ ndone = 0
  <2>1. /\ Select!Active = {} /\ Select!Open = {}
        /\ Select!Having({"0"}) = Files /\ Select!Having({"F_DONE"}) = {}
        /\ Select!Having({"F_CONNECTING"}) = {}
    BY <1>3 DEF Select!Init, Select!Active, Select!Open, Select!Having, Select!Files, Files
  <2>2. SelectTypes /\ Select!FailureEnds
    BY <1>3 DEF Select!Init, SelectTypes, Select!FailureEnds, Select!Files, Files
  <2>3. FdsInv
    BY <1>3, <2>1 DEF Select!Init, FdsInv, Select!Files, Files
  <2>4. SetsInv
    BY <1>1, <1>3, <2>1 DEF Select!Init, SetsInv
  <2> QED
    BY <1>3, <2>2, <2>3, <2>4 DEF ClientInv, SelectInv
<1> QED
  BY <1>2, <1>3 DEF ClientInit

\* Every step preserves it.
LEMMA StepInv == ClientInv /\ [ClientNext]_allvars => ClientInv'
<1> SUFFICES ASSUME ClientInv, [ClientNext]_allvars PROVE ClientInv'
  OBVIOUS
<1>1. CASE ThreadsStep(Next)
  <2>1. version # "web" /\ Next /\ ThreadInv
    BY <1>1 DEF ThreadsStep, ClientInv
  <2>2. version' = version
    BY <2>1, Zenon DEF Next, MainStep, ThreadStep, home_page, Create, SetFlag, EndCreate, Thr_join, Lock,
                Spurious, Scan, Join, Unlock, Connect, Read, Count, Fail
  <2> QED
    BY <2>1, <2>2, ThreadsKeep DEF ClientInv
<1>2. CASE SelectStep(Select!Next)
  BY <1>2, SelectKeeps DEF SelectStep, ClientInv
<1>3. CASE UNCHANGED allvars
  <2>1. /\ UNCHANGED <<version, f_flags, thread, nconn, nlefttoconn, nlefttoread, ndone, main, i>>
        /\ UNCHANGED <<f_fd, rset, wset, rs, ws, conn>>
    BY <1>3 DEF allvars, vars, counters, selectvars
  <2>2. CASE version = "web"
    <3>1. SelectInv
      BY <2>2 DEF ClientInv
    <3>2. /\ i' \in Nat \ {0} /\ main' # "nothing found"
          /\ conn' \in [Files -> {"none", "syn", "up", "refused", "data", "fin", "rst"}]
      BY <2>1, <3>1, Zenon DEF SelectInv, SelectTypes, SetsInv
    <3>3. SelectInv'
      BY <2>1, <3>1, <3>2, ConnFacts, SameFlags, Zenon
    <3> QED
      BY <2>1, <2>2, <3>3 DEF ClientInv
  <2>3. CASE version # "web"
    <3>1. ThreadInv
      BY <2>3 DEF ClientInv
    <3>2. ThreadInv'
      BY <2>1, <3>1, Zenon DEF ThreadInv, ThreadTypes, Places, Alive, Counts, Late, ConnLimit, NdoneExact,
                        Unjoined, NotStarted
    <3> QED
      BY <2>1, <2>3, <3>2 DEF ClientInv
  <2> QED
    BY <2>2, <2>3
<1> QED
  BY <1>1, <1>2, <1>3 DEF ClientNext

\* The invariant holds in every state.
LEMMA Inductive == ClientSpec => []ClientInv
  BY InitInv, StepInv, PTL DEF ClientSpec

\* Never more than maxnconn threads at a time, and "nothing found" is unreachable
\* in any of the four clients, whatever the number of files and the limit.
THEOREM LimitKept == ClientSpec => []ConnLimit
<1>1. ClientInv => ConnLimit
  <2> SUFFICES ASSUME SelectInv PROVE ConnLimit
    BY DEF ClientInv, ThreadInv
  <2>1. Unjoined = {} /\ main # "nothing found"
    BY Zenon DEF SelectInv, SetsInv, Unjoined
  <2>2. Cardinality(Unjoined) = 0
    BY <2>1, FS_EmptySet, Zenon
  <2>3. 0 <= maxnconn
    OBVIOUS
  <2> QED
    BY <2>1, <2>2, <2>3, Zenon DEF ConnLimit
<1> QED
  BY <1>1, Inductive, PTL

\* web02 and web03: ndone is at every step the number of threads that have
\* terminated and main has not joined.
THEOREM NdoneCounts == ClientSpec => []NdoneExact
<1>1. ClientInv => NdoneExact
  <2> SUFFICES ASSUME SelectInv PROVE NdoneExact
    BY DEF ClientInv, ThreadInv
  <2>1. Terminated = {} /\ ndone = 0
    BY DEF SelectInv, Terminated
  <2> QED
    BY <2>1, FS_EmptySet DEF NdoneExact, Terminated
<1> QED
  BY <1>1, Inductive, PTL

\* web.c: rset, wset, nconn, nlefttoconn and nlefttoread agree with the flags of the
\* files at every step though descriptors are reused, the descriptors stay within
\* maxnconn, and a file whose connection failed is never marked as read.
THEOREM SetsKept == ClientSpec => []SetsExact
<1>1. ClientInv => SetsExact
  BY SetsInvIs DEF ClientInv, SelectInv, SetsExact
<1> QED
  BY <1>1, Inductive, PTL
=============================================================================
