------------------------- MODULE EventServersProofs -------------------------
(***************************************************************************)
(* Proofs about the servers that wait for events (EventServers) for tables, *)
(* clients, pieces of input and descriptors of any number.                  *)
(***************************************************************************)
EXTENDS EventServers, FiniteSetTheorems, TLAPS

\* The provers of a leaf that names none, in the order they are tried.
USE SMT, Zenon, Z3

USE BoundsAssumption

\* A set of numbers has a least element.
LEMMA Least ==
  ASSUME NEW S \in SUBSET Nat, S # {}
  PROVE  \E x \in S : \A y \in S : x <= y
<1> DEFINE R == OpToRel(<, Nat)
<1>1. \A x, y \in Nat : <<x, y>> \in R <=> x < y
  BY DEF OpToRel
<1>2. IsWellFoundedOn(R, Nat)
  BY NatLessThanWellFounded, Zenon
<1> HIDE DEF R
<1>3. PICK x \in S : \A y \in S : ~ (<<y, x>> \in R)
  BY <1>2, WFMin, Zenon
<1>4. \A y \in S : ~ (y < x)
  BY <1>1, <1>3, Zenon
<1>5. \A y \in S : x <= y
  BY <1>4
<1> QED
  BY <1>5

\* How the number of elements of a set of table entries changes.
LEMMA Counting ==
  ASSUME NEW S \in SUBSET Entries
  PROVE  /\ IsFiniteSet(S) /\ Cardinality(S) \in Nat
         /\ \A e \in S : Cardinality(S \ {e}) = Cardinality(S) - 1
         /\ Cardinality(S) <= 0 => S = {}
<1>1. IsFiniteSet(Entries)
  BY FS_Interval DEF Entries
<1>2. IsFiniteSet(S) /\ Cardinality(S) \in Nat
  BY <1>1, FS_Subset, FS_CardinalityType
<1>3. \A e \in S : Cardinality(S \ {e}) = Cardinality(S) - 1
  BY <1>2, FS_RemoveElement, Zenon
<1>4. ASSUME Cardinality(S) <= 0 PROVE S = {}
  <2>1. Cardinality(S) = 0
    BY <1>2, <1>4
  <2> QED
    BY <1>2, <2>1, FS_EmptySet
<1> QED
  BY <1>2, <1>3, <1>4

-----------------------------------------------------------------------------
(* The servers with a table of clients. *)

TableTypes ==
  /\ nconns \in 0 .. MaxConns /\ backlog \in Seq(Conns)
  /\ owner \in [Fds -> 0 .. MaxConns]
  /\ inq \in [Conns -> Seq({"part", "line"})] /\ hup \in [Conns -> {"no", "fin", "rst"}]
  /\ client \in [Entries -> Fds \cup {-1}]
  /\ maxi \in Int /\ maxfd \in Int /\ nready \in Int /\ i \in Nat /\ ready \subseteq Nat

\* A connection is in the backlog or behind one descriptor, and only once.
OwnersInv ==
  /\ \A k \in 1 .. Len(backlog) : backlog[k] <= nconns
  /\ \A j, k \in 1 .. Len(backlog) : j # k => backlog[j] # backlog[k]
  /\ \A fd \in Fds : owner[fd] <= nconns
  /\ \A fd \in Fds, k \in 1 .. Len(backlog) : owner[fd] # backlog[k]
  /\ \A fd, g \in Fds : owner[fd] # 0 /\ owner[fd] = owner[g] => fd = g

\* The entries reported that the loop has still to deal with.
Remaining == {e \in Used : i <= e /\ IsReady(e)}

\* Before accept nothing has been dealt with, and nothing is reported but what is open.
AcceptInv ==
  pc = "accept" =>
    /\ i = 0
    /\ IF version = "poll01"
       THEN (\A e \in ready : e <= maxi => e \in Used) /\ nready - 1 <= Cardinality(Remaining)
       ELSE (\A fd \in ready : owner[fd] # 0) /\ Cardinality(Remaining) <= nready - 1
    /\ \A e \in Remaining : Readable(client[e])

\* In the loop each entry reported is readable.  The one exception is the entry that
\* accept has just added beyond what poll was given: nready is used up before it.
LoopInv ==
  pc \in {"scan", "read"} =>
    /\ nready > 0
    /\ IF version = "poll01"
       THEN \A e \in Remaining :
              Readable(client[e]) \/ (e = maxi /\ nready <= Cardinality(Remaining \ {e}))
       ELSE Cardinality(Remaining) <= nready /\ \A e \in Remaining : Readable(client[e])
    /\ pc = "read" => i \in Remaining

\* The entries reported that come after the one being dealt with.
After == {e \in Used : i + 1 <= e /\ IsReady(e)}

\* While entry i is dealt with, the same is true of the entries after it, with i
\* taken off nready: Readline and Writen may take any number of steps, and the
\* clients of those entries with them.
Dealing ==
  /\ i \in Used
  /\ IF version = "poll01"
     THEN \A e \in After :
            Readable(client[e]) \/ (e = maxi /\ nready - 1 <= Cardinality(After \ {e}))
     ELSE Cardinality(After) <= nready - 1 /\ \A e \in After : Readable(client[e])

BusyInv == pc \in {"line", "writen"} => Dealing

TableInv ==
  /\ version \in {"select01", "poll01", "select03"}
  /\ TableTypes /\ OwnersInv /\ TableExact /\ AcceptInv /\ LoopInv /\ BusyInv /\ NoneSkipped

\* A read is of a descriptor that is readable: the entry that poll did not see is
\* reached only when nready is used up.
LEMMA ReadIsReady == TableInv => ReadNeverBlocks
<1> SUFFICES ASSUME TableInv, pc = "read" PROVE Readable(client[i])
  BY DEF ReadNeverBlocks
<1>1. TableTypes /\ TableExact /\ LoopInv
  BY DEF TableInv
<1>2. i \in Remaining /\ nready > 0 /\ nready \in Int
  BY <1>1 DEF LoopInv, TableTypes
<1>3. CASE i = maxi /\ nready <= Cardinality(Remaining \ {i})
  <2>1. \A e \in Remaining : e \in Nat /\ i <= e /\ e <= maxi
    BY <1>1 DEF Remaining, Used, TableExact, Entries
  <2>2. Remaining \ {i} = {}
    BY <1>1, <1>3, <2>1 DEF TableTypes
  <2>3. Cardinality(Remaining \ {i}) = 0
    BY <2>2, FS_EmptySet
  <2>4. FALSE
    BY <1>2, <1>3, <2>3
  <2> QED
    BY <2>4
<1> QED
  BY <1>1, <1>2, <1>3 DEF LoopInv

\* Nothing changes but what the clients of other entries may read, which stays so.
LEMMA DealingFrame ==
  ASSUME Dealing, TableTypes, UNCHANGED <<version, client, maxi, ready, nready, i>>,
         \A e \in Used \ {i} : Readable(client[e]) => Readable(client[e])'
  PROVE  Dealing'
<1>1. Used' = Used
  BY DEF Used
<1>2. After' = After
  BY <1>1 DEF After, IsReady
<1>3. After \subseteq Used \ {i}
  BY DEF After, TableTypes, Used, Entries
<1>4. \A e \in After : Readable(client[e]) => Readable(client[e])'
  BY <1>3
<1>5. \A e \in After : client'[e] = client[e]
  OBVIOUS
<1> QED
  BY <1>1, <1>2, <1>4, <1>5 DEF Dealing

\* The clients change neither the table nor what was reported, and what is
\* readable stays so.
LEMMA ClientsFrame ==
  ASSUME TableInv, TableTypes', OwnersInv',
         UNCHANGED <<version, owner, client, maxi, maxfd, allset, ready, nready, pc, i>>,
         \A fd \in Fds : Readable(fd) => Readable(fd)'
  PROVE  TableInv'
<1>1. /\ TableTypes /\ TableExact /\ AcceptInv /\ LoopInv /\ NoneSkipped
      /\ version \in {"select01", "poll01", "select03"}
  BY DEF TableInv
<1>2. Used' = Used /\ Remaining' = Remaining
  BY DEF Used, Remaining, IsReady
<1>3. \A e \in Remaining : Readable(client[e]) => Readable(client[e])'
  BY <1>1 DEF Remaining, Used, TableTypes
<1>4. TableExact'
  BY <1>1, <1>2 DEF TableExact
<1>5. AcceptInv'
  BY <1>1, <1>2, <1>3 DEF AcceptInv
<1>6. LoopInv'
  BY <1>1, <1>2, <1>3 DEF LoopInv
<1>7. NoneSkipped'
  BY <1>1, <1>2 DEF NoneSkipped, IsReady
<1>8. BusyInv'
  <2>1. \A e \in Used : Readable(client[e]) => Readable(client[e])'
    BY <1>1 DEF Used, TableTypes
  <2>2. BusyInv
    BY DEF TableInv
  <2> QED
    BY <1>1, <2>1, <2>2, DealingFrame DEF BusyInv
<1> QED
  BY <1>1, <1>4, <1>5, <1>6, <1>7, <1>8 DEF TableInv

\* The loop comes to entry i: those after it are one fewer.
LEMMA TakeInv ==
  ASSUME TableInv, pc = "read"
  PROVE  Dealing
<1> DEFINE R == Remaining
<1>1. /\ TableTypes /\ LoopInv /\ version \in {"select01", "poll01", "select03"}
  BY DEF TableInv
<1>2. i \in R /\ R \in SUBSET Entries /\ nready \in Int /\ i \in Used
  BY <1>1 DEF LoopInv, Remaining, Used, TableTypes
<1>3. After = R \ {i}
  BY <1>1 DEF TableTypes, After, Remaining, Used, Entries
<1>4. Cardinality(R) \in Nat /\ Cardinality(R \ {i}) = Cardinality(R) - 1
  BY <1>2, Counting
<1> HIDE DEF R
<1>5. CASE version = "poll01"
  <2>1. \A e \in R : Readable(client[e]) \/ (e = maxi /\ nready <= Cardinality(R \ {e}))
    BY <1>1, <1>5 DEF LoopInv, R
  <2>2. ASSUME NEW e \in R \ {i}, nready <= Cardinality(R \ {e})
        PROVE  nready - 1 <= Cardinality((R \ {i}) \ {e})
    <3>1. R \ {e} \in SUBSET Entries /\ i \in R \ {e} /\ (R \ {i}) \ {e} = (R \ {e}) \ {i}
      BY <1>2, <2>2
    <3>2. Cardinality((R \ {e}) \ {i}) = Cardinality(R \ {e}) - 1 /\ Cardinality(R \ {e}) \in Nat
      BY <3>1, Counting
    <3> QED
      BY <1>2, <2>2, <3>1, <3>2
  <2>3. \A e \in R \ {i} : Readable(client[e]) \/ (e = maxi /\ nready - 1 <= Cardinality((R \ {i}) \ {e}))
    BY <2>1, <2>2, Zenon
  <2> QED
    BY <1>2, <1>3, <1>5, <2>3, Zenon DEF Dealing
<1>6. CASE version # "poll01"
  <2>1. Cardinality(R) <= nready /\ \A e \in R : Readable(client[e])
    BY <1>1, <1>6 DEF LoopInv, R
  <2>2. Cardinality(R \ {i}) <= nready - 1
    BY <1>2, <1>4, <2>1
  <2> QED
    BY <1>2, <1>3, <1>6, <2>1, <2>2, Zenon DEF Dealing
<1> QED
  BY <1>5, <1>6

\* The loop's entry i has been dealt with: the next entry is looked for, or the loop
\* ends when nready is used up.
LEMMA NextInv ==
  ASSUME TableInv, Dealing, NextEntry, TableTypes', OwnersInv', TableExact',
         UNCHANGED <<version, maxi>>, Used \ {i} \subseteq Used', Used' \subseteq Used,
         \A e \in Used \ {i} : client'[e] = client[e] /\ (Readable(client[e]) => Readable(client[e])')
  PROVE  TableInv'
<1> DEFINE A == After
<1>1. TableTypes /\ version \in {"select01", "poll01", "select03"}
  BY DEF TableInv
<1>2. A \in SUBSET Entries /\ nready \in Int
  BY <1>1 DEF After, Used, TableTypes
<1>3. /\ nready' = nready - 1 /\ i' = i + 1 /\ ready' = ready
      /\ pc' = IF nready - 1 <= 0 THEN "wait" ELSE "scan"
  BY DEF NextEntry
<1>4. \A e \in Used : e \in Nat /\ i \in Nat /\ (i + 1 <= e => e # i)
  BY <1>1 DEF TableTypes, Used, Entries
<1>5. \A e \in Used \ {i} : IsReady(e)' <=> IsReady(e)
  BY <1>3 DEF IsReady
<1>6. Remaining' = A /\ A \subseteq Used \ {i}
  BY <1>3, <1>4, <1>5 DEF Remaining, After
<1>7. \A e \in A : client'[e] = client[e] /\ (Readable(client[e]) => Readable(client[e])')
  BY <1>6
<1>8. Cardinality(A) \in Nat /\ (Cardinality(A) <= 0 => A = {})
  BY <1>2, Counting
<1>9. BusyInv' /\ AcceptInv'
  BY <1>3 DEF BusyInv, AcceptInv
<1>10. CASE version = "poll01"
  <2>1. \A e \in A : Readable(client[e])' \/ (e = maxi /\ nready - 1 <= Cardinality(A \ {e}))
    BY <1>7, <1>10, Zenon DEF Dealing
  <2> HIDE DEF A
  <2>2. LoopInv'
    BY <1>2, <1>3, <1>6, <1>10, <2>1 DEF LoopInv
  <2>3. NoneSkipped'
    BY <1>10 DEF NoneSkipped
  <2> QED
    BY <1>1, <1>9, <2>2, <2>3 DEF TableInv
<1>11. CASE version # "poll01"
  <2>1. Cardinality(A) <= nready - 1 /\ \A e \in A : Readable(client[e])'
    BY <1>7, <1>11, Zenon DEF Dealing
  <2> HIDE DEF A
  <2>2. LoopInv'
    BY <1>2, <1>3, <1>6, <1>11, <2>1 DEF LoopInv
  <2>3. pc' = "wait" => A = {}
    BY <1>2, <1>3, <1>8, <2>1
  <2>4. NoneSkipped'
    BY <1>6, <2>3 DEF NoneSkipped, Remaining
  <2> QED
    BY <1>1, <1>9, <2>2, <2>4 DEF TableInv
<1> QED
  BY <1>10, <1>11

\* Select or Poll reports what is readable.
LEMMA WaitInv ==
  ASSUME TableInv, Wait
  PROVE  TableInv'
<1> DEFINE fds     == {fd \in allset : fd <= maxfd /\ Readable(fd)}
           entries == {e \in Entries : e <= maxi /\ client[e] # -1 /\ Readable(client[e])}
           more    == IF lready' THEN 1 ELSE 0
<1>1. /\ TableTypes /\ OwnersInv /\ TableExact /\ version \in {"select01", "poll01", "select03"}
      /\ UNCHANGED <<version, nconns, backlog, owner, inq, hup, client, maxi, maxfd, allset>>
      /\ i' = 0
  BY DEF TableInv, Wait, network, table
<1>2. /\ ready' = IF version = "poll01" THEN entries \cup {e \in ready : e > maxi} ELSE fds
      /\ nready' = (IF version = "poll01" THEN Cardinality(entries) ELSE Cardinality(fds)) + more
      /\ nready' > 0 /\ lready' \in BOOLEAN
      /\ pc' = IF lready' THEN "accept" ELSE "scan"
  BY DEF Wait
<1>3. Used' = Used /\ \A fd : Readable(fd)' <=> Readable(fd)
  BY <1>1 DEF Used, Readable
<1>4. \A e \in Used : e \in Nat /\ e <= maxi
  BY <1>1 DEF Used, Entries, TableExact
<1>5. TableExact'
  BY <1>1, <1>3 DEF TableExact
<1>6. /\ Cardinality(entries) \in Nat /\ Cardinality(fds) \in Nat /\ IsFiniteSet(fds)
  <2>1. entries \in SUBSET Entries
    OBVIOUS
  <2>2. fds \subseteq Fds
    BY <1>1 DEF TableExact
  <2>3. IsFiniteSet(Fds)
    BY FS_Interval DEF Fds
  <2> HIDE DEF fds, entries
  <2> QED
    BY <2>1, <2>2, <2>3, Counting, FS_Subset, FS_CardinalityType
<1>7. TableTypes' /\ OwnersInv'
  <2>1. nready' \in Int
    <3> HIDE DEF fds, entries
    <3> QED
      BY <1>2, <1>6
  <2>2. entries \subseteq Nat /\ fds \subseteq Nat
    BY <1>1 DEF Entries, Fds, TableExact
  <2>3. ready' \subseteq Nat
    <3> HIDE DEF fds, entries
    <3> QED
      BY <1>1, <1>2, <2>2, Zenon DEF TableTypes
  <2> QED
    BY <1>1, <2>1, <2>3 DEF TableTypes, OwnersInv
<1>8. /\ \A e \in Remaining' : Readable(client[e])'
      /\ version = "poll01" => Remaining' = entries /\ \A e \in ready' : e <= maxi => e \in Used
      /\ version # "poll01" => /\ Remaining' = {e \in Used : client[e] \in fds}
                               /\ \A fd \in ready' : owner[fd] # 0
  <2>1. CASE version = "poll01"
    <3>1. Remaining' = {e \in Used : e \in ready'}
      BY <1>1, <1>3, <1>4, <2>1 DEF Remaining, IsReady
    <3>2. \A e \in ready' : e <= maxi => e \in entries
      <4>1. maxi \in Int /\ ready \subseteq Nat
        BY <1>1 DEF TableTypes
      <4>2. \A e \in ready : e > maxi => ~ (e <= maxi)
        BY <4>1
      <4> QED
        BY <1>2, <2>1, <4>2
    <3>3. entries \subseteq Used /\ entries \subseteq ready'
      BY <1>2, <2>1 DEF Used
    <3>4. Remaining' = entries
      BY <1>4, <3>1, <3>2, <3>3
    <3> QED
      BY <1>1, <1>3, <2>1, <3>2, <3>3, <3>4
  <2>2. CASE version # "poll01"
    <3>1. Remaining' = {e \in Used : client[e] \in fds}
      BY <1>1, <1>2, <1>3, <1>4, <2>2 DEF Remaining, IsReady
    <3> QED
      BY <1>1, <1>2, <1>3, <2>2, <3>1 DEF Readable
  <2> QED
    BY <2>1, <2>2
<1>9. version # "poll01" => Cardinality(Remaining') <= Cardinality(fds)
  <2>1. SUFFICES ASSUME version # "poll01" PROVE Cardinality(Remaining') <= Cardinality(fds)
    OBVIOUS
  <2> DEFINE R == {e \in Used : client[e] \in fds}
             f == [e \in R |-> client[e]]
  <2>2. \A e, d \in R : client[e] = client[d] => e = d
    BY <1>1 DEF TableExact
  <2>3. f \in Injection(R, fds)
    BY <2>2 DEF Injection, IsInjective
  <2> HIDE DEF R, f, fds
  <2>4. Cardinality(R) <= Cardinality(fds)
    BY <1>6, <2>3, FS_Injection
  <2> QED
    BY <1>8, <2>1, <2>4 DEF R
<1> HIDE DEF fds, entries
<1>10. AcceptInv'
  <2>1. SUFFICES ASSUME pc' = "accept" PROVE AcceptInv'
    BY DEF AcceptInv
  <2>2. more = 1
    BY <1>2, <2>1
  <2>3. CASE version = "poll01"
    BY <1>1, <1>2, <1>3, <1>6, <1>8, <2>2, <2>3 DEF AcceptInv
  <2>4. CASE version # "poll01"
    BY <1>1, <1>2, <1>3, <1>6, <1>8, <1>9, <2>2, <2>4 DEF AcceptInv
  <2> QED
    BY <2>3, <2>4
<1>11. LoopInv'
  <2>1. SUFFICES ASSUME pc' = "scan" PROVE LoopInv'
    BY <1>2 DEF LoopInv
  <2>2. more = 0
    BY <1>2, <2>1
  <2>3. CASE version = "poll01"
    BY <1>1, <1>2, <1>8, <2>1, <2>3 DEF LoopInv
  <2>4. CASE version # "poll01"
    BY <1>1, <1>2, <1>6, <1>8, <1>9, <2>1, <2>2, <2>4 DEF LoopInv
  <2> QED
    BY <2>3, <2>4
<1>12. NoneSkipped' /\ BusyInv'
  BY <1>2 DEF NoneSkipped, BusyInv
<1> QED
  BY <1>1, <1>5, <1>7, <1>10, <1>11, <1>12 DEF TableInv

\* The loop goes on to the first entry reported, or ends when none is left.
LEMMA ScanInv ==
  ASSUME TableInv, Scan
  PROVE  TableInv'
<1> DEFINE R == Remaining
<1>1. /\ TableTypes /\ OwnersInv /\ TableExact /\ LoopInv /\ pc = "scan"
      /\ version \in {"select01", "poll01", "select03"}
      /\ UNCHANGED <<version, nconns, backlog, owner, inq, hup, client, maxi, maxfd, allset, ready, nready>>
  BY DEF TableInv, Scan, network, table
<1>2. \A e \in Used : e \in Entries /\ e \in Nat /\ e <= maxi /\ client[e] # -1
  BY <1>1 DEF Used, Entries, TableExact
<1>3. R = {e \in Entries : i <= e /\ e <= maxi /\ client[e] # -1 /\ IsReady(e)}
  BY <1>2 DEF Remaining, Used
<1>4. \/ R = {} /\ pc' = "wait" /\ i' = i
      \/ R # {} /\ pc' = "read" /\ i' = CHOOSE e \in R : \A d \in R : e <= d
  BY <1>3, Zenon DEF Scan
<1>5. R # {} => i' \in R /\ \A d \in R : i' <= d
  <2>1. R \in SUBSET Nat
    BY <1>2 DEF Remaining
  <2>2. R # {} => \E e \in R : \A d \in R : e <= d
    BY <2>1, Least
  <2> QED
    BY <1>4, <2>2, Zenon
<1>6. Used' = Used /\ (\A fd : Readable(fd)' <=> Readable(fd)) /\ \A e : IsReady(e)' <=> IsReady(e)
  BY <1>1 DEF Used, Readable, IsReady
<1>7. TableExact' /\ OwnersInv'
  BY <1>1, <1>6 DEF TableExact, OwnersInv
<1>8. i' \in Nat
  BY <1>1, <1>2, <1>4, <1>5 DEF TableTypes, Remaining
<1>9. TableTypes'
  BY <1>1, <1>8 DEF TableTypes
<1>10. Remaining' = R
  <2>1. i \in Nat
    BY <1>1 DEF TableTypes
  <2>2. R # {} => i <= i'
    BY <1>5 DEF Remaining
  <2>3. \A e \in Used : IsReady(e) => (i' <= e <=> i <= e)
    <3>1. ASSUME NEW e \in Used, IsReady(e), i <= e PROVE i' <= e
      BY <1>4, <1>5, <3>1 DEF Remaining
    <3>2. ASSUME NEW e \in Used, i' <= e PROVE i <= e
      BY <1>2, <1>4, <1>8, <2>1, <2>2, <3>2
    <3> QED
      BY <3>1, <3>2
  <2> QED
    BY <1>6, <2>3 DEF Remaining
<1>11. LoopInv'
  BY <1>1, <1>4, <1>5, <1>6, <1>10 DEF LoopInv
<1>12. NoneSkipped'
  BY <1>1, <1>4, <1>6, <1>10 DEF NoneSkipped, Remaining
<1>13. AcceptInv' /\ BusyInv'
  BY <1>4 DEF AcceptInv, BusyInv
<1> QED
  BY <1>1, <1>7, <1>9, <1>11, <1>12, <1>13 DEF TableInv

\* While a connection waits in the backlog, a descriptor is free.
LEMMA FreeFdFacts ==
  ASSUME TableInv, backlog # << >>
  PROVE  FreeFd \in Fds /\ owner[FreeFd] = 0
<1> DEFINE h == backlog[1]
           free == {fd \in Fds : owner[fd] = 0}
<1>1. TableTypes /\ OwnersInv
  BY DEF TableInv
<1>2. 1 \in 1 .. Len(backlog) /\ h \in Conns
  BY <1>1 DEF TableTypes
<1>3. free # {}
  <2>1. SUFFICES ASSUME \A fd \in Fds : owner[fd] # 0 PROVE FALSE
    OBVIOUS
  <2>2. owner \in [Fds -> Conns \ {h}]
    BY <1>1, <1>2, <2>1 DEF TableTypes, OwnersInv, Conns
  <2>3. owner \in Injection(Fds, Conns \ {h})
    BY <1>1, <2>1, <2>2 DEF Injection, IsInjective, OwnersInv
  <2>4. /\ IsFiniteSet(Conns) /\ Cardinality(Conns) = MaxConns
        /\ Cardinality(Fds) = MaxConns
    BY FS_Interval DEF Conns, Fds
  <2> HIDE DEF h
  <2>5. IsFiniteSet(Conns \ {h}) /\ Cardinality(Conns \ {h}) = MaxConns - 1
    BY <1>2, <2>4, FS_RemoveElement
  <2>6. Cardinality(Fds) <= Cardinality(Conns \ {h})
    BY <2>3, <2>5, FS_Injection
  <2> QED
    BY <2>4, <2>5, <2>6
<1>4. free \in SUBSET Nat
  BY DEF Fds
<1> HIDE DEF free
<1>5. PICK x \in free : \A y \in free : x <= y
  BY <1>3, <1>4, Least
<1>6. \E fd \in Fds : owner[fd] = 0 /\ \A g \in Fds : owner[g] = 0 => fd <= g
  BY <1>5 DEF free
<1> QED
  BY <1>6, Zenon DEF FreeFd

\* A connection is accepted into the first free entry.
LEMMA AcceptStepInv ==
  ASSUME TableInv, NEW x \in Entries, Accept(x)
  PROVE  TableInv'
<1> DEFINE fd == FreeFd
           R == Remaining
<1>1. /\ TableTypes /\ OwnersInv /\ TableExact /\ AcceptInv /\ pc = "accept" /\ backlog # << >>
      /\ version \in {"select01", "poll01", "select03"} /\ client[x] = -1
      /\ UNCHANGED <<version, nconns, inq, hup, ready, i>>
  BY DEF TableInv, Accept
<1>2. /\ backlog' = Tail(backlog)
      /\ owner' = [owner EXCEPT ![fd] = Head(backlog)]
      /\ client' = [client EXCEPT ![x] = fd]
      /\ allset' = allset \cup {fd}
      /\ maxfd' = (IF fd > maxfd THEN fd ELSE maxfd)
      /\ maxi' = (IF x > maxi THEN x ELSE maxi)
      /\ nready' = nready - 1
      /\ pc' = (IF nready - 1 <= 0 THEN "wait" ELSE "scan")
  BY DEF Accept
<1>3. fd \in Fds /\ owner[fd] = 0
  BY <1>1, FreeFdFacts
<1> HIDE DEF fd
<1>4. /\ Head(backlog) = backlog[1] /\ 1 \in 1 .. Len(backlog) /\ backlog[1] \in Conns
      /\ Tail(backlog) \in Seq(Conns)
      /\ Len(Tail(backlog)) = Len(backlog) - 1 /\ Len(backlog) \in Nat
      /\ \A k \in 1 .. Len(backlog) - 1 : Tail(backlog)[k] = backlog[k + 1]
  BY <1>1 DEF TableTypes
<1>5. x \in Nat /\ fd \in Nat /\ fd # -1 /\ x \notin Used
  BY <1>1, <1>3 DEF Entries, Fds, Used
<1>6. TableTypes'
  <2>1. owner' \in [Fds -> 0 .. MaxConns]
    BY <1>1, <1>2, <1>3, <1>4 DEF TableTypes, Conns
  <2>2. client' \in [Entries -> Fds \cup {-1}]
    BY <1>1, <1>2, <1>3 DEF TableTypes
  <2>3. maxi' \in Int /\ maxfd' \in Int /\ nready' \in Int
    BY <1>1, <1>2, <1>5 DEF TableTypes
  <2> QED
    BY <1>1, <1>2, <1>4, <2>1, <2>2, <2>3 DEF TableTypes
<1>7. OwnersInv'
  <2>1. \A k \in 1 .. Len(backlog') : k + 1 \in 1 .. Len(backlog) /\ k + 1 # 1 /\ backlog'[k] = backlog[k + 1]
    BY <1>2, <1>4
  <2>2. \A j, k \in 1 .. Len(backlog') : j # k => j + 1 # k + 1
    BY <1>2, <1>4
  <2>3. /\ \A g \in Fds : owner'[g] = IF g = fd THEN backlog[1] ELSE owner[g]
    BY <1>1, <1>2, <1>3, <1>4 DEF TableTypes
  <2>4. /\ \A k \in 1 .. Len(backlog') : backlog'[k] <= nconns'
        /\ \A j, k \in 1 .. Len(backlog') : j # k => backlog'[j] # backlog'[k]
    BY <1>1, <2>1, <2>2 DEF OwnersInv
  <2>5. /\ \A g \in Fds : owner'[g] <= nconns'
        /\ \A g \in Fds, k \in 1 .. Len(backlog') : owner'[g] # backlog'[k]
    BY <1>1, <1>4, <2>1, <2>3 DEF OwnersInv
  <2>6. \A g, k \in Fds : owner'[g] # 0 /\ owner'[g] = owner'[k] => g = k
    <3>1. \A g \in Fds : owner[g] # backlog[1]
      BY <1>1, <1>4, Zenon DEF OwnersInv
    <3>2. \A g, k \in Fds : owner[g] # 0 /\ owner[g] = owner[k] => g = k
      BY <1>1, Zenon DEF OwnersInv
    <3>3. TAKE g, k \in Fds
    <3>4. CASE g = fd /\ k # fd
      BY <2>3, <3>1, <3>3, <3>4, Zenon
    <3>5. CASE g # fd /\ k = fd
      BY <2>3, <3>1, <3>3, <3>5, Zenon
    <3>6. CASE g # fd /\ k # fd
      BY <2>3, <3>2, <3>3, <3>6, Zenon
    <3> QED
      BY <3>4, <3>5, <3>6, Zenon
  <2> QED
    BY <2>4, <2>5, <2>6 DEF OwnersInv
<1>8. /\ Used' = Used \cup {x}
      /\ \A e \in Used : client'[e] = client[e] /\ client[e] \in Fds
      /\ client'[x] = fd
  BY <1>1, <1>2, <1>5 DEF Used, TableTypes
<1>9. \A e \in Used : client[e] # fd /\ owner[client[e]] # 0
  BY <1>1, <1>3 DEF TableExact
<1>10. TableExact'
  <2>1. \A g \in Fds : owner'[g] # 0 <=> g = fd \/ owner[g] # 0
    BY <1>1, <1>2, <1>3, <1>4 DEF TableTypes, Conns
  <2>2. {client'[e] : e \in Used'} = {client[e] : e \in Used} \cup {fd}
    BY <1>8
  <2>3. {g \in Fds : owner'[g] # 0} = {g \in Fds : owner[g] # 0} \cup {fd}
    BY <1>3, <2>1
  <2>4. \A d, e \in Used' : d # e => client'[d] # client'[e]
    <3>1. \A d, e \in Used : d # e => client[d] # client[e]
      BY <1>1, Zenon DEF TableExact
    <3>2. TAKE d, e \in Used'
    <3>3. (d \in Used \/ d = x) /\ (e \in Used \/ e = x)
      BY <1>8, <3>2, Zenon
    <3>4. CASE d \in Used /\ e \in Used
      BY <1>8, <3>1, <3>4, Zenon
    <3>5. CASE d \in Used /\ e = x
      BY <1>8, <1>9, <3>5, Zenon
    <3>6. CASE d = x /\ e \in Used
      BY <1>8, <1>9, <3>6, Zenon
    <3> QED
      BY <3>3, <3>4, <3>5, <3>6, Zenon
  <2>5. \A e \in Used' : e <= maxi' /\ client'[e] <= maxfd'
    <3>1. \A e \in Used : e \in Nat /\ client[e] \in Nat /\ e <= maxi /\ client[e] <= maxfd
      BY <1>1, <1>8 DEF TableExact, Used, Entries, Fds
    <3>2. maxi \in Int /\ maxfd \in Int
      BY <1>1 DEF TableTypes
    <3>3. x <= maxi' /\ fd <= maxfd' /\ maxi <= maxi' /\ maxfd <= maxfd' /\ maxi' \in Int /\ maxfd' \in Int
      BY <1>2, <1>5, <3>2
    <3> QED
      BY <1>5, <1>8, <3>1, <3>2, <3>3
  <2> QED
    BY <1>1, <1>2, <2>2, <2>3, <2>4, <2>5, Zenon DEF TableExact
<1>11. \A e \in Used : Readable(client[e]) => Readable(client[e])'
  <2>1. \A e \in Used : owner'[client[e]] = owner[client[e]]
    BY <1>1, <1>2, <1>8, <1>9 DEF TableTypes
  <2> QED
    BY <1>1, <1>8, <2>1, Zenon DEF Readable
<1>12. \A e \in Used : IsReady(e)' <=> IsReady(e)
  BY <1>1, <1>8 DEF IsReady
<1>13. i = 0 /\ (\A e \in R : Readable(client[e])') /\ R \in SUBSET Entries
  BY <1>1, <1>11 DEF AcceptInv, Remaining, Used
<1>14. Remaining' = R \/ (Remaining' = R \cup {x} /\ IsReady(x)')
  BY <1>1, <1>8, <1>12 DEF Remaining
<1>15. nready \in Int /\ Cardinality(R) \in Nat /\ (Cardinality(R) <= 0 => R = {})
  BY <1>1, <1>13, Counting DEF TableTypes
<1>16. x \notin R
  BY <1>5 DEF Remaining
<1> HIDE DEF R
<1>19. BusyInv'
  BY <1>2 DEF BusyInv
<1>17. CASE version = "poll01"
  <2>1. nready - 1 <= Cardinality(R)
    BY <1>1, <1>17 DEF AcceptInv, R
  <2>2. IsReady(x)' => x = maxi'
    BY <1>1, <1>2, <1>5, <1>17 DEF AcceptInv, IsReady, TableTypes
  <2>3. LoopInv'
    <3>1. SUFFICES ASSUME pc' = "scan" PROVE LoopInv'
      BY <1>2 DEF LoopInv
    <3>2. nready' > 0
      BY <1>2, <1>15, <3>1
    <3>3. (R \cup {x}) \ {x} = R
      BY <1>16
    <3>4. ASSUME NEW e \in Remaining'
          PROVE  Readable(client[e])' \/ (e = maxi' /\ nready' <= Cardinality(Remaining' \ {e}))
      <4>1. CASE e \in R
        BY <1>13, <4>1
      <4>2. CASE e \notin R
        BY <1>2, <1>14, <2>1, <2>2, <3>3, <4>2, Zenon
      <4> QED
        BY <4>1, <4>2
    <3> QED
      BY <1>1, <1>17, <3>1, <3>2, <3>4 DEF LoopInv
  <2>4. NoneSkipped' /\ AcceptInv'
    BY <1>1, <1>2, <1>17 DEF NoneSkipped, AcceptInv
  <2> QED
    BY <1>1, <1>6, <1>7, <1>10, <1>19, <2>3, <2>4 DEF TableInv
<1>18. CASE version # "poll01"
  <2>1. Cardinality(R) <= nready - 1 /\ fd \notin ready
    BY <1>1, <1>3, <1>18 DEF AcceptInv, R
  <2>2. Remaining' = R
    BY <1>1, <1>8, <1>14, <1>18, <2>1 DEF IsReady
  <2>3. LoopInv'
    BY <1>1, <1>2, <1>13, <1>15, <1>18, <2>1, <2>2 DEF LoopInv
  <2>4. pc' = "wait" => R = {}
    BY <1>2, <1>15, <2>1
  <2>5. NoneSkipped'
    BY <2>2, <2>4 DEF NoneSkipped, Remaining
  <2>6. AcceptInv'
    BY <1>2 DEF AcceptInv
  <2> QED
    BY <1>1, <1>6, <1>7, <1>10, <1>19, <2>3, <2>5, <2>6 DEF TableInv
<1> QED
  BY <1>17, <1>18

\* The server ends: the table is full, or a read or a write fails.
LEMMA EndsInv ==
  ASSUME TableInv, TooMany \/ ReadError
  PROVE  TableInv'
<1>1. /\ TableTypes /\ OwnersInv /\ TableExact /\ LoopInv
      /\ version \in {"select01", "poll01", "select03"}
  BY DEF TableInv
<1>2. /\ UNCHANGED <<version, nconns, backlog, owner, inq, hup, client, maxi, maxfd, allset, ready, nready, i>>
      /\ pc' \in Ends
  BY Zenon DEF TooMany, ReadError, network, table, Ends
<1>3. TableTypes'
  BY <1>1, <1>2 DEF TableTypes
<1>4. OwnersInv' /\ TableExact'
  BY <1>1, <1>2 DEF OwnersInv, TableExact, Used
<1>5. AcceptInv' /\ LoopInv' /\ BusyInv' /\ NoneSkipped'
  BY <1>2, Zenon DEF AcceptInv, LoopInv, BusyInv, NoneSkipped, Ends
<1> QED
  BY <1>1, <1>2, <1>3, <1>4, <1>5 DEF TableInv

\* What is known of the descriptor that the server deals with, and of the other entries.
LEMMA ReadFacts ==
  ASSUME TableInv, i \in Used
  PROVE  /\ client[i] \in Fds /\ conn \in Conns /\ owner[client[i]] # 0
         /\ \A e \in Used \ {i} : /\ client[e] \in Fds /\ client[e] # client[i]
                                  /\ owner[client[e]] \in Conns /\ owner[client[e]] # conn
<1>1. TableTypes /\ OwnersInv /\ TableExact
  BY DEF TableInv
<1>2. \A e \in Used : client[e] \in Fds /\ owner[client[e]] # 0 /\ owner[client[e]] \in Conns
  BY <1>1 DEF Used, TableTypes, TableExact, Conns
<1>3. \A e \in Used \ {i} : client[e] # client[i]
  BY <1>1 DEF TableExact
<1> QED
  BY <1>1, <1>2, <1>3 DEF OwnersInv, conn

\* What there is is read; there is a line to echo, or Readline reads again.
LEMMA DataInv ==
  ASSUME TableInv, ReadData \/ ReadLine
  PROVE  TableInv'
<1>1. /\ TableTypes /\ OwnersInv /\ TableExact /\ BusyInv /\ pc \in {"read", "line"}
      /\ version \in {"select01", "poll01", "select03"}
  BY DEF TableInv, ReadData, ReadLine
<1>2. /\ UNCHANGED <<version, nconns, backlog, owner, hup, client, maxi, maxfd, allset>>
      /\ inq' = inq \/ inq' = [inq EXCEPT ![conn] = << >>]
  BY DEF ReadData, ReadLine, table
<1>3. UNCHANGED <<ready, nready, i>> /\ pc' \in {"line", "writen"}
  <2>1. CASE ReadData
    BY <2>1 DEF ReadData, Echo
  <2>2. CASE ReadLine
    <3> DEFINE buf == IF LineEnds(read_buf) # {} THEN read_buf ELSE read_buf \o inq[conn]
    <3>1. \/ Echo(1)
          \/ pc' = "line" /\ UNCHANGED <<ready, lready, nready, i, nleft>>
      BY <2>2, Zenon DEF ReadLine
    <3> QED
      BY <3>1 DEF Echo
  <2> QED
    BY <2>1, <2>2
<1>4. Dealing /\ i \in Used
  BY <1>1, TakeInv DEF BusyInv, Dealing
<1>5. /\ conn \in Conns
      /\ \A e \in Used \ {i} : owner[client[e]] \in Conns /\ owner[client[e]] # conn
  BY <1>4, ReadFacts
<1>6. TableTypes'
  <2>1. inq \in [Conns -> Seq({"part", "line"})]
    BY <1>1 DEF TableTypes
  <2>2. << >> \in Seq({"part", "line"})
    OBVIOUS
  <2>3. inq' \in [Conns -> Seq({"part", "line"})]
    BY <1>2, <2>1, <2>2, Zenon
  <2> QED
    BY <1>1, <1>2, <1>3, <2>3 DEF TableTypes
<1>7. OwnersInv' /\ TableExact'
  BY <1>1, <1>2 DEF OwnersInv, TableExact, Used
<1>8. \A e \in Used \ {i} : Readable(client[e]) => Readable(client[e])'
  <2>1. \A e \in Used \ {i} : inq'[owner[client[e]]] = inq[owner[client[e]]]
    BY <1>1, <1>2, <1>5 DEF TableTypes
  <2> QED
    BY <1>2, <2>1 DEF Readable
<1>9. Dealing'
  BY <1>1, <1>2, <1>3, <1>4, <1>8, DealingFrame
<1>10. AcceptInv' /\ LoopInv' /\ BusyInv' /\ NoneSkipped'
  BY <1>3, <1>9, Zenon DEF AcceptInv, LoopInv, BusyInv, NoneSkipped
<1> QED
  BY <1>1, <1>2, <1>6, <1>7, <1>10 DEF TableInv

\* A write of Writen: the last one ends the entry.
LEMMA WritenInv ==
  ASSUME TableInv, Writen
  PROVE  TableInv'
<1>1. /\ TableTypes /\ OwnersInv /\ TableExact /\ BusyInv /\ pc = "writen"
      /\ UNCHANGED <<version, nconns, backlog, owner, inq, hup, client, maxi, maxfd, allset>>
      /\ NextEntry \/ UNCHANGED loop
  BY DEF TableInv, Writen, table
<1>2. Used' = Used /\ \A fd : Readable(fd) => Readable(fd)'
  BY <1>1 DEF Used, Readable
<1>3. OwnersInv' /\ TableExact'
  BY <1>1, <1>2 DEF OwnersInv, TableExact
<1>4. CASE NextEntry
  <2>1. Dealing
    BY <1>1 DEF BusyInv
  <2>2. nready' \in Int /\ i' \in Nat /\ ready' = ready
    BY <1>1, <1>4 DEF TableTypes, NextEntry
  <2>3. TableTypes'
    BY <1>1, <2>2 DEF TableTypes
  <2> QED
    BY <1>1, <1>2, <1>3, <1>4, <2>1, <2>3, NextInv
<1>5. CASE UNCHANGED loop
  <2>1. UNCHANGED <<ready, nready, pc, i>>
    BY <1>5 DEF loop
  <2>2. TableTypes'
    BY <1>1, <2>1 DEF TableTypes
  <2> QED
    BY <1>1, <1>2, <1>3, <2>1, <2>2, ClientsFrame
<1> QED
  BY <1>1, <1>4, <1>5

\* End-of-file, or a reset: the descriptor is closed and its entry freed.
LEMMA CloseInv ==
  ASSUME TableInv, Close
  PROVE  TableInv'
<1>1. /\ TableTypes /\ OwnersInv /\ TableExact /\ pc = "read" /\ NextEntry
      /\ UNCHANGED <<version, nconns, backlog, inq, hup, maxi, maxfd>>
      /\ owner' = [owner EXCEPT ![client[i]] = 0]
      /\ allset' = allset \ {client[i]}
      /\ client' = [client EXCEPT ![i] = -1]
  BY DEF TableInv, Close
<1>2. /\ Dealing /\ i \in Used /\ client[i] \in Fds
      /\ \A e \in Used \ {i} : client[e] \in Fds /\ client[e] # client[i]
  <2>1. Dealing /\ i \in Used
    BY <1>1, TakeInv DEF Dealing
  <2> QED
    BY <2>1, ReadFacts
<1>3. TableTypes'
  <2>1. nready' \in Int /\ i' \in Nat /\ ready' = ready
    BY <1>1 DEF TableTypes, NextEntry
  <2>2. owner \in [Fds -> 0 .. MaxConns] /\ client \in [Entries -> Fds \cup {-1}]
    BY <1>1 DEF TableTypes
  <2>3. owner' \in [Fds -> 0 .. MaxConns]
    <3>1. 0 \in 0 .. MaxConns
      OBVIOUS
    <3>2. owner' = [owner EXCEPT ![client[i]] = 0]
      BY <1>1
    <3> QED
      BY <2>2, <3>1, <3>2, Zenon
  <2>4. client' \in [Entries -> Fds \cup {-1}]
    BY <1>1, <2>2, Zenon
  <2> QED
    BY <1>1, <2>1, <2>3, <2>4 DEF TableTypes
<1>4. \A g \in Fds : owner'[g] = IF g = client[i] THEN 0 ELSE owner[g]
  BY <1>1 DEF TableTypes
<1>5. OwnersInv'
  <2>1. \A k \in 1 .. Len(backlog) : backlog[k] # 0
    BY <1>1 DEF TableTypes, Conns
  <2>2. nconns \in Nat
    BY <1>1 DEF TableTypes
  <2> QED
    BY <1>1, <1>4, <2>1, <2>2 DEF OwnersInv
<1>6. Used' = Used \ {i} /\ \A e \in Used \ {i} : client'[e] = client[e]
  BY <1>1, <1>2 DEF TableTypes, Used
<1>7. TableExact'
  <2>1. {client'[e] : e \in Used'} = {client[e] : e \in Used} \ {client[i]}
    BY <1>2, <1>6
  <2>2. {g \in Fds : owner'[g] # 0} = {g \in Fds : owner[g] # 0} \ {client[i]}
    BY <1>4
  <2>3. \A d, e \in Used' : d # e => client'[d] # client'[e]
    BY <1>1, <1>6 DEF TableExact
  <2>4. \A e \in Used' : e <= maxi' /\ client'[e] <= maxfd'
    BY <1>1, <1>6 DEF TableExact
  <2> QED
    BY <1>1, <2>1, <2>2, <2>3, <2>4 DEF TableExact
<1>8. \A e \in Used \ {i} : Readable(client[e]) => Readable(client[e])'
  <2>1. \A e \in Used \ {i} : owner'[client[e]] = owner[client[e]]
    BY <1>2, <1>4
  <2> QED
    BY <1>1, <1>6, <2>1 DEF Readable
<1> QED
  BY <1>1, <1>2, <1>3, <1>5, <1>6, <1>7, <1>8, NextInv

\* A sequence without its k-th element: what Abort and Drop make of the queue.
Without(s, k) == SubSeq(s, 1, k - 1) \o SubSeq(s, k + 1, Len(s))

\* What is left of a queue when its k-th element is taken out.
LEMMA WithoutFacts ==
  ASSUME NEW S, NEW s \in Seq(S), NEW k \in 1 .. Len(s)
  PROVE  /\ Len(Without(s, k)) = Len(s) - 1
         /\ \A m \in 1 .. Len(s) - 1 : Without(s, k)[m] = s[IF m < k THEN m ELSE m + 1]
<1> DEFINE p == SubSeq(s, 1, k - 1)
           q == SubSeq(s, k + 1, Len(s))
<1>1. /\ Len(p) = k - 1 /\ \A m \in 1 .. k - 1 : p[m] = s[m]
      /\ p \in Seq(S)
  OBVIOUS
<1>2. /\ Len(q) = Len(s) - k /\ \A m \in 1 .. Len(s) - k : q[m] = s[k + m]
      /\ q \in Seq(S)
  OBVIOUS
<1>3. Without(s, k) = p \o q
  BY DEF Without
<1> HIDE DEF p, q
<1>4. /\ Len(p \o q) = Len(p) + Len(q)
      /\ \A m \in 1 .. Len(p) + Len(q) : (p \o q)[m] = IF m <= Len(p) THEN p[m] ELSE q[m - Len(p)]
  <2>1. p \in Seq(S) /\ q \in Seq(S)
    BY <1>1, <1>2
  <2>2. Len(p \o q) = Len(p) + Len(q)
    BY <2>1
  <2>3. ASSUME NEW m \in 1 .. Len(p) + Len(q)
        PROVE  (p \o q)[m] = IF m <= Len(p) THEN p[m] ELSE q[m - Len(p)]
    BY <2>1
  <2> QED
    BY <2>2, <2>3
<1>5. Len(s) \in Nat /\ (k - 1) + (Len(s) - k) = Len(s) - 1
  OBVIOUS
<1>6. ASSUME NEW m \in 1 .. Len(s) - 1, m < k PROVE (p \o q)[m] = s[m]
  BY <1>1, <1>2, <1>4, <1>5, <1>6
<1>7. ASSUME NEW m \in 1 .. Len(s) - 1, ~(m < k) PROVE (p \o q)[m] = s[m + 1]
  <2>1. m - (k - 1) \in 1 .. Len(s) - k /\ k + (m - (k - 1)) = m + 1 /\ ~(m <= k - 1)
    BY <1>5, <1>7
  <2>2. (p \o q)[m] = q[m - (k - 1)]
    BY <1>1, <1>2, <1>4, <1>5, <2>1, Zenon
  <2> QED
    BY <1>2, <2>1, <2>2
<1> QED
  BY <1>1, <1>2, <1>3, <1>4, <1>5, <1>6, <1>7

\* A client connects, or a connection that waits in the backlog is aborted.
LEMMA BacklogInv ==
  ASSUME TableInv, Connect \/ Abort
  PROVE  TableInv'
<1>1. /\ TableTypes /\ OwnersInv
      /\ UNCHANGED <<version, owner, client, maxi, maxfd, allset, ready, nready, pc, i>>
  BY Zenon DEF TableInv, Connect, Abort, table, loop
<1>3. CASE Connect
  <2>1. /\ nconns < MaxConns /\ nconns' = nconns + 1 /\ backlog' = Append(backlog, nconns + 1)
        /\ inq' = inq /\ hup' = hup
    BY <1>3, Zenon DEF Connect
  <2>0. \A fd \in Fds : Readable(fd) => Readable(fd)'
    BY <1>1, <2>1 DEF Readable
  <2>2. /\ nconns + 1 \in Conns /\ nconns' \in 0 .. MaxConns /\ nconns \in Nat
    BY <1>1, <2>1 DEF TableTypes, Conns
  <2>3. /\ backlog' \in Seq(Conns) /\ Len(backlog') = Len(backlog) + 1 /\ Len(backlog) \in Nat
        /\ \A k \in 1 .. Len(backlog) : backlog'[k] = backlog[k] /\ backlog[k] \in Nat
        /\ backlog'[Len(backlog) + 1] = nconns + 1
    <3>1. backlog \in Seq(Conns) /\ \A k \in Conns : k \in Nat
      BY <1>1 DEF TableTypes, Conns
    <3>2. \A k \in 1 .. Len(backlog) : backlog[k] \in Conns
      BY <3>1
    <3> QED
      BY <2>1, <2>2, <3>1, <3>2
  <2>4. TableTypes'
    BY <1>1, <2>1, <2>2, <2>3 DEF TableTypes
  <2>5. /\ \A k \in 1 .. Len(backlog') : backlog'[k] <= nconns'
        /\ \A j, k \in 1 .. Len(backlog') : j # k => backlog'[j] # backlog'[k]
    BY <1>1, <2>1, <2>2, <2>3 DEF OwnersInv
  <2>6. /\ \A fd \in Fds : owner'[fd] <= nconns'
        /\ \A fd \in Fds, k \in 1 .. Len(backlog') : owner'[fd] # backlog'[k]
        /\ \A fd, g \in Fds : owner'[fd] # 0 /\ owner'[fd] = owner'[g] => fd = g
    BY <1>1, <2>1, <2>2, <2>3 DEF OwnersInv, TableTypes
  <2>7. OwnersInv'
    BY <2>5, <2>6 DEF OwnersInv
  <2> QED
    BY <1>1, <2>0, <2>4, <2>7, ClientsFrame
<1>4. CASE Abort
  <2>1. PICK k \in 1 .. Len(backlog) :
          /\ backlog' = Without(backlog, k)
          /\ inq' = [inq EXCEPT ![backlog[k]] = << >>]
          /\ hup' = [hup EXCEPT ![backlog[k]] = "rst"]
    BY <1>4, Zenon DEF Abort, Without
  <2>0. /\ inq' \in [Conns -> Seq({"part", "line"})] /\ hup' \in [Conns -> {"no", "fin", "rst"}]
        /\ \A d \in Conns : inq[d] # << >> \/ hup[d] # "no" => inq'[d] # << >> \/ hup'[d] # "no"
    <3>1. inq \in [Conns -> Seq({"part", "line"})] /\ hup \in [Conns -> {"no", "fin", "rst"}]
      BY <1>1 DEF TableTypes
    <3>2. PICK d \in Conns : d = backlog[k]
      BY <1>1 DEF TableTypes
    <3>3. inq' = [inq EXCEPT ![d] = << >>] /\ hup' = [hup EXCEPT ![d] = "rst"]
      BY <2>1, <3>2, Zenon
    <3> QED
      BY <3>1, <3>3
  <2>7. ASSUME NEW fd \in Fds, Readable(fd) PROVE Readable(fd)'
    <3>1. owner[fd] \in Conns /\ (inq[owner[fd]] # << >> \/ hup[owner[fd]] # "no")
      BY <1>1, <2>7 DEF TableTypes, Readable, Conns
    <3>2. inq'[owner[fd]] # << >> \/ hup'[owner[fd]] # "no"
      BY <2>0, <3>1, Zenon
    <3>3. owner' = owner /\ owner[fd] # 0
      BY <1>1, <2>7 DEF Readable
    <3> QED
      BY <3>2, <3>3, Zenon DEF Readable
  <2>2. nconns' = nconns
    BY <1>4 DEF Abort
  <2> DEFINE old(m) == IF m < k THEN m ELSE m + 1
  <2>3. /\ Len(backlog') = Len(backlog) - 1 /\ Len(backlog) \in Nat
        /\ \A m \in 1 .. Len(backlog') : backlog'[m] = backlog[old(m)]
        /\ backlog' \in Seq(Conns)
    <3>1. backlog \in Seq(Conns)
      BY <1>1 DEF TableTypes
    <3>2. /\ Len(Without(backlog, k)) = Len(backlog) - 1
          /\ \A m \in 1 .. Len(backlog) - 1 : Without(backlog, k)[m] = backlog[IF m < k THEN m ELSE m + 1]
      BY <3>1, WithoutFacts
    <3>3. Without(backlog, k) \in Seq(Conns)
      <4>1. SubSeq(backlog, 1, k - 1) \in Seq(Conns) /\ SubSeq(backlog, k + 1, Len(backlog)) \in Seq(Conns)
        BY <3>1
      <4> QED
        BY <4>1 DEF Without
    <3>4. Len(backlog) \in Nat
      BY <3>1
    <3> QED
      BY <2>1, <3>2, <3>3, <3>4
  <2>4. /\ \A m \in 1 .. Len(backlog') : old(m) \in 1 .. Len(backlog)
        /\ \A j, m \in 1 .. Len(backlog') : j # m => old(j) # old(m)
    BY <2>3
  <2> HIDE DEF old
  <2>5. OwnersInv'
    BY <1>1, <2>2, <2>3, <2>4 DEF OwnersInv
  <2>6. TableTypes'
    BY <1>1, <2>0, <2>2, <2>3 DEF TableTypes
  <2> QED
    BY <1>1, <2>5, <2>6, <2>7, ClientsFrame
<1> QED
  BY <1>3, <1>4

\* A client sends, reads, closes or resets its connection.
LEMMA TrafficInv ==
  ASSUME TableInv, NEW c \in Conns, Send(c) \/ Receive(c) \/ Hangup(c) \/ Reset(c)
  PROVE  TableInv'
<1>1. /\ TableTypes /\ OwnersInv /\ version \in {"select01", "poll01", "select03"}
      /\ UNCHANGED <<version, nconns, backlog, owner, client, maxi, maxfd, allset, ready, nready, pc, i>>
  BY DEF TableInv, Send, Receive, Hangup, Reset, table, loop
<1>2. \/ (\E p \in {"part", "line"} : inq' = [inq EXCEPT ![c] = Append(@, p)]) /\ hup' = hup
      \/ inq' = inq /\ hup' = hup
      \/ inq' = inq /\ hup' = [hup EXCEPT ![c] = "fin"]
      \/ inq' = [inq EXCEPT ![c] = << >>] /\ hup' = [hup EXCEPT ![c] = "rst"]
  BY DEF Send, Receive, Hangup, Reset, Pieces
<1>3. /\ inq' \in [Conns -> Seq({"part", "line"})] /\ hup' \in [Conns -> {"no", "fin", "rst"}]
      /\ \A d \in Conns : inq[d] # << >> \/ hup[d] # "no" => inq'[d] # << >> \/ hup'[d] # "no"
  <2>1. /\ inq \in [Conns -> Seq({"part", "line"})] /\ hup \in [Conns -> {"no", "fin", "rst"}]
        /\ inq[c] \in Seq({"part", "line"})
    BY <1>1 DEF TableTypes
  <2>2. CASE \E p \in {"part", "line"} : inq' = [inq EXCEPT ![c] = Append(@, p)] /\ hup' = hup
    <3>1. PICK p \in {"part", "line"} : inq' = [inq EXCEPT ![c] = Append(@, p)] /\ hup' = hup
      BY <2>2
    <3>2. Append(inq[c], p) \in Seq({"part", "line"}) /\ Append(inq[c], p) # << >>
      BY <2>1
    <3> QED
      BY <2>1, <3>1, <3>2
  <2>3. CASE inq' = inq /\ (hup' = hup \/ hup' = [hup EXCEPT ![c] = "fin"])
    BY <2>1, <2>3
  <2>4. CASE inq' = [inq EXCEPT ![c] = << >>] /\ hup' = [hup EXCEPT ![c] = "rst"]
    BY <2>1, <2>4
  <2> QED
    BY <1>2, <2>2, <2>3, <2>4
<1>4. TableTypes' /\ OwnersInv'
  BY <1>1, <1>3 DEF TableTypes, OwnersInv
<1>5. \A fd \in Fds : Readable(fd) => Readable(fd)'
  BY <1>1, <1>3 DEF TableTypes, Readable, Conns
<1> QED
  BY <1>1, <1>4, <1>5, ClientsFrame

\* Every step of these servers and their clients preserves the invariant.
LEMMA TableKeeps ==
  ASSUME TableInv, Next
  PROVE  TableInv'
<1>1. CASE Wait
  BY <1>1, WaitInv
<1>2. CASE TooMany \/ ReadError
  BY <1>2, EndsInv
<1>3. CASE \E e \in Entries : Accept(e)
  BY <1>3, AcceptStepInv
<1>4. CASE Scan
  BY <1>4, ScanInv
<1>5. CASE ReadData \/ ReadLine
  BY <1>5, DataInv
<1>6. CASE Close
  BY <1>6, CloseInv
<1>7. CASE Connect \/ Abort
  BY <1>7, BacklogInv
<1>8. CASE \E c \in Conns : Send(c) \/ Receive(c) \/ Hangup(c) \/ Reset(c)
  BY <1>8, TrafficInv
<1>9. CASE Writen
  BY <1>9, WritenInv
<1> QED
  BY <1>1, <1>2, <1>3, <1>4, <1>5, <1>6, <1>7, <1>8, <1>9, Zenon DEF Next, ServerStep

-----------------------------------------------------------------------------
(* src/epoll.cpp. *)

EpollTypes ==
  /\ status \in [Clients -> {"none", "pending", "open", "closed"}]
  /\ pending \in Seq(Clients)
  /\ inq \in [Clients -> Nat] /\ hup \in [Clients -> {"no", "fin", "rst"}]
  /\ curfds \in Int /\ pc \in {"epoll_wait", "loop", "write", "sigpipe"}

\* The queue of listenfd holds the pending connections once each, an event of listenfd
\* means that one is there, and an event of a connection that it is readable.
PendingInv ==
  /\ \A k \in 1 .. Len(pending) : status[pending[k]] = "pending"
  /\ \A j, k \in 1 .. Len(pending) : j # k => pending[j] # pending[k]
  /\ "listenfd" \in events => pending # << >>
  /\ ready \ {"listenfd"} \subseteq Epoll!Open
  /\ \A c \in events \ {"listenfd"} : inq[c] > 0 \/ hup[c] # "no" \/ (pc = "write" /\ c = cur)

EpollInv ==
  /\ EpollTypes /\ PendingInv
  /\ curfds = 1 + Cardinality(Epoll!Open) /\ Epoll!EventsOpen /\ Epoll!ClosesOnlyHungUp

\* The number of open connections.
LEMMA OpenCount ==
  ASSUME NEW c \in Clients
  PROVE  /\ Cardinality(Epoll!Open) \in Nat
         /\ c \notin Epoll!Open => Cardinality(Epoll!Open \cup {c}) = Cardinality(Epoll!Open) + 1
         /\ c \in Epoll!Open => Cardinality(Epoll!Open \ {c}) = Cardinality(Epoll!Open) - 1
<1>1. IsFiniteSet(Clients)
  BY EpollAssumption
<1>2. IsFiniteSet(Epoll!Open)
  BY <1>1, FS_Subset DEF Epoll!Open
<1> QED
  BY <1>2, FS_CardinalityType, FS_AddElement, FS_RemoveElement

\* The two instances count alike.
LEMMA SameCardinality == \A S : Epoll!Cardinality(S) = Cardinality(S)
  BY DEF Epoll!Cardinality, Cardinality

\* A client connects.
LEMMA EpollConnectInv ==
  ASSUME EpollInv, NEW c \in Clients, Epoll!Connect(c)
  PROVE  EpollInv'
<1>1. /\ EpollTypes /\ PendingInv /\ Epoll!EventsOpen /\ Epoll!ClosesOnlyHungUp
      /\ curfds = 1 + Cardinality(Epoll!Open)
      /\ UNCHANGED <<inq, hup, events, pc, cur, curfds>>
      /\ status[c] = "none" /\ status' = [status EXCEPT ![c] = "pending"]
      /\ pending' = Append(pending, c) /\ ready' = ready \cup {"listenfd"}
  BY DEF EpollInv, Epoll!Connect, Epoll!server
<1>2. /\ pending' \in Seq(Clients) /\ Len(pending') = Len(pending) + 1 /\ Len(pending) \in Nat
      /\ pending' # << >> /\ pending'[Len(pending) + 1] = c
      /\ \A k \in 1 .. Len(pending) : pending'[k] = pending[k] /\ pending[k] \in Clients
  BY <1>1 DEF EpollTypes
<1>3. \A d \in Clients : status'[d] = IF d = c THEN "pending" ELSE status[d]
  BY <1>1 DEF EpollTypes
<1>4. Epoll!Open' = Epoll!Open
  BY <1>1, <1>3 DEF Epoll!Open
<1>5. EpollTypes'
  BY <1>1, <1>2 DEF EpollTypes
<1>6. PendingInv'
  <2>1. /\ \A k \in 1 .. Len(pending) : status[pending[k]] = "pending" /\ pending[k] # c
        /\ \A j, k \in 1 .. Len(pending) : j # k => pending[j] # pending[k]
    BY <1>1 DEF PendingInv
  <2>2. \A k \in 1 .. Len(pending') : status'[pending'[k]] = "pending"
    BY <1>2, <1>3, <2>1
  <2>3. \A j, k \in 1 .. Len(pending') : j # k => pending'[j] # pending'[k]
    BY <1>2, <2>1
  <2>4. /\ ready' \ {"listenfd"} \subseteq Epoll!Open'
        /\ \A d \in events' \ {"listenfd"} : inq'[d] > 0 \/ hup'[d] # "no" \/ (pc' = "write" /\ d = cur')
    BY <1>1, <1>4 DEF PendingInv
  <2> QED
    BY <1>2, <2>2, <2>3, <2>4 DEF PendingInv
<1>7. Epoll!EventsOpen' /\ Epoll!ClosesOnlyHungUp'
  BY <1>1, <1>3, <1>4 DEF Epoll!EventsOpen, Epoll!ClosesOnlyHungUp
<1> QED
  BY <1>1, <1>4, <1>5, <1>6, <1>7 DEF EpollInv

\* A client sends, closes or resets.
LEMMA EpollTrafficInv ==
  ASSUME EpollInv, NEW c \in Clients, Epoll!Send(c) \/ Epoll!Hangup(c)
  PROVE  EpollInv'
<1>1. /\ EpollTypes /\ PendingInv /\ Epoll!EventsOpen /\ Epoll!ClosesOnlyHungUp
      /\ curfds = 1 + Cardinality(Epoll!Open)
  BY DEF EpollInv
<1>2. /\ UNCHANGED <<status, pending, events, pc, cur, curfds>>
      /\ status[c] \in {"pending", "open"}
      /\ ready' = (IF status[c] = "open" THEN ready \cup {c} ELSE ready)
  BY DEF Epoll!Send, Epoll!Hangup, Epoll!server, Epoll!Notify
<1>3. \/ inq' = [inq EXCEPT ![c] = @ + 1] /\ hup' = hup
      \/ inq' = inq /\ hup' = [hup EXCEPT ![c] = "fin"]
      \/ inq' = [inq EXCEPT ![c] = 0] /\ hup' = [hup EXCEPT ![c] = "rst"]
  BY DEF Epoll!Send, Epoll!Hangup
<1>4. inq \in [Clients -> Nat] /\ hup \in [Clients -> {"no", "fin", "rst"}]
  BY <1>1 DEF EpollTypes
<1>5. inq' \in [Clients -> Nat] /\ hup' \in [Clients -> {"no", "fin", "rst"}]
  BY <1>3, <1>4
<1>6. /\ \A d \in Clients : inq[d] > 0 \/ hup[d] # "no" => inq'[d] > 0 \/ hup'[d] # "no"
      /\ \A d \in Clients : d # c => inq'[d] = inq[d] /\ hup'[d] = hup[d]
  BY <1>3, <1>4
<1>7. Epoll!Open' = Epoll!Open /\ Epoll!Open \subseteq Clients
  BY <1>2 DEF Epoll!Open
<1>8. EpollTypes'
  BY <1>1, <1>2, <1>5 DEF EpollTypes
<1>9. events \ {"listenfd"} \subseteq Clients
  BY <1>1, <1>7 DEF Epoll!EventsOpen
<1>10. ready' \ {"listenfd"} \subseteq Epoll!Open'
  BY <1>1, <1>2, <1>7 DEF PendingInv, Epoll!Open
<1>11. PendingInv'
  BY <1>1, <1>2, <1>6, <1>9, <1>10 DEF PendingInv
<1>12. Epoll!EventsOpen' /\ Epoll!ClosesOnlyHungUp'
  BY <1>1, <1>2, <1>6, <1>7 DEF Epoll!EventsOpen, Epoll!ClosesOnlyHungUp
<1> QED
  BY <1>1, <1>2, <1>7, <1>8, <1>11, <1>12 DEF EpollInv

\* epoll_wait, an accept that fails and the write: no connection changes.
LEMMA EpollEventsInv ==
  ASSUME EpollInv, Epoll!epoll_wait \/ Epoll!AcceptEmfile \/ Epoll!handle_write
  PROVE  EpollInv'
<1>1. /\ EpollTypes /\ PendingInv /\ Epoll!EventsOpen /\ Epoll!ClosesOnlyHungUp
      /\ curfds = 1 + Cardinality(Epoll!Open)
  BY DEF EpollInv
<1>2. UNCHANGED <<status, pending, inq, hup, curfds, cur>>
  BY DEF Epoll!epoll_wait, Epoll!AcceptEmfile, Epoll!handle_write, Epoll!kernel
<1>3. Epoll!Open' = Epoll!Open
  BY <1>2 DEF Epoll!Open
<1>4. /\ ready' \subseteq ready
      /\ events' \ {"listenfd"} \subseteq Epoll!Open
      /\ "listenfd" \in events' => pending # << >>
      /\ \A c \in events' \ {"listenfd"} : inq[c] > 0 \/ hup[c] # "no"
  <2>1. CASE Epoll!epoll_wait
    <3>1. PICK S \in SUBSET {f \in ready : Epoll!Readable(f)} :
            events' = S /\ ready' = {f \in ready \ S : Epoll!Readable(f)}
      BY <2>1 DEF Epoll!epoll_wait
    <3> QED
      BY <1>1, <3>1 DEF PendingInv, Epoll!Readable
  <2>2. CASE Epoll!AcceptEmfile
    BY <1>1, <2>2 DEF Epoll!AcceptEmfile, Epoll!Handled, PendingInv, Epoll!EventsOpen
  <2>3. CASE Epoll!handle_write
    <3>1. ready' = ready /\ (events' = events \ {cur} \/ (events' = events /\ hup[cur] = "rst"))
      BY <2>3 DEF Epoll!handle_write, Epoll!Handled
    <3> QED
      BY <1>1, <3>1 DEF PendingInv, Epoll!EventsOpen
  <2> QED
    BY <2>1, <2>2, <2>3
<1>5. EpollTypes'
  <2>1. pc' \in {"epoll_wait", "loop", "write", "sigpipe"}
    BY DEF Epoll!epoll_wait, Epoll!AcceptEmfile, Epoll!handle_write, Epoll!Handled
  <2> QED
    BY <1>1, <1>2, <2>1 DEF EpollTypes
<1>6. PendingInv'
  BY <1>1, <1>2, <1>3, <1>4 DEF PendingInv
<1>7. Epoll!EventsOpen' /\ Epoll!ClosesOnlyHungUp'
  BY <1>1, <1>2, <1>3, <1>4 DEF Epoll!EventsOpen, Epoll!ClosesOnlyHungUp
<1> QED
  BY <1>1, <1>2, <1>3, <1>5, <1>6, <1>7 DEF EpollInv

\* A connection is accepted.  accept has found a descriptor below MAXEPOLLSIZE, so
\* curfds is below it too and the connection is not closed again.
LEMMA EpollAcceptInv ==
  ASSUME EpollInv, Epoll!Accept
  PROVE  EpollInv'
<1> DEFINE c == Head(pending)
<1>1. /\ EpollTypes /\ PendingInv /\ Epoll!EventsOpen /\ Epoll!ClosesOnlyHungUp
      /\ curfds = 1 + Cardinality(Epoll!Open)
      /\ pc = "loop" /\ "listenfd" \in events
  BY DEF EpollInv, Epoll!Accept
<1>2. /\ pending # << >> /\ c = pending[1] /\ 1 \in 1 .. Len(pending) /\ c \in Clients
      /\ Tail(pending) \in Seq(Clients) /\ Len(Tail(pending)) = Len(pending) - 1 /\ Len(pending) \in Nat
      /\ \A k \in 1 .. Len(pending) - 1 : Tail(pending)[k] = pending[k + 1]
  BY <1>1 DEF PendingInv, EpollTypes
<1>3. Cardinality(Epoll!Open) \in Nat
  BY <1>2, OpenCount, Zenon
<1>4. ~ (curfds >= MAXEPOLLSIZE)
  <2>1. Epoll!OpenDescriptors < MAXEPOLLSIZE
    BY DEF Epoll!Accept
  <2>2. 5 + Cardinality(Epoll!Open) < MAXEPOLLSIZE
    BY <2>1, SameCardinality DEF Epoll!OpenDescriptors
  <2> QED
    BY <1>1, <1>3, <2>2, EpollAssumption
<1>5. /\ pending' = Tail(pending) /\ status' = [status EXCEPT ![c] = "open"]
      /\ ready' = (IF Epoll!Readable(c) THEN ready \cup {c} ELSE ready)
      /\ curfds' = curfds + 1 /\ events' = events \ {"listenfd"}
      /\ UNCHANGED <<inq, hup, cur>>
      /\ pc' = IF events = {"listenfd"} THEN "epoll_wait" ELSE "loop"
  BY <1>4, Zenon DEF Epoll!Accept, Epoll!Handled
<1> HIDE DEF c
<1>6. \A d \in Clients : status'[d] = IF d = c THEN "open" ELSE status[d]
  BY <1>1, <1>2, <1>5 DEF EpollTypes
<1>7. status[c] = "pending"
  BY <1>1, <1>2 DEF PendingInv
<1>8. Epoll!Open' = Epoll!Open \cup {c} /\ c \notin Epoll!Open
  BY <1>2, <1>6, <1>7 DEF Epoll!Open
<1>9. curfds' = 1 + Cardinality(Epoll!Open')
  BY <1>1, <1>2, <1>3, <1>5, <1>8, OpenCount
<1>10. EpollTypes'
  <2>1. curfds' \in Int
    BY <1>1, <1>3, <1>5
  <2> QED
    BY <1>1, <1>2, <1>5, <2>1 DEF EpollTypes
<1>11. PendingInv'
  <2>1. \A k \in 1 .. Len(pending') :
          k + 1 \in 1 .. Len(pending) /\ k + 1 # 1 /\ pending'[k] = pending[k + 1] /\ pending[k + 1] \in Clients
    BY <1>1, <1>2, <1>5 DEF EpollTypes
  <2>2. \A j, k \in 1 .. Len(pending') : j # k => j + 1 # k + 1
    BY <1>2, <1>5
  <2>3. \A k \in 1 .. Len(pending') : status'[pending'[k]] = "pending"
    BY <1>1, <1>2, <1>6, <2>1 DEF PendingInv
  <2>4. \A j, k \in 1 .. Len(pending') : j # k => pending'[j] # pending'[k]
    BY <1>1, <2>1, <2>2 DEF PendingInv
  <2>5. /\ ready' \ {"listenfd"} \subseteq Epoll!Open'
        /\ \A d \in events' \ {"listenfd"} : inq'[d] > 0 \/ hup'[d] # "no"
        /\ "listenfd" \notin events'
    BY <1>1, <1>5, <1>8 DEF PendingInv
  <2> QED
    BY <2>3, <2>4, <2>5 DEF PendingInv
<1>12. Epoll!EventsOpen' /\ Epoll!ClosesOnlyHungUp'
  <2>1. events \ {"listenfd"} \subseteq Epoll!Open
    BY <1>1, Zenon DEF Epoll!EventsOpen
  <2>2. Epoll!EventsOpen'
    BY <1>5, <1>8, <2>1, Zenon DEF Epoll!EventsOpen
  <2>3. \A d \in Clients : status'[d] = "closed" => status[d] = "closed"
    BY <1>6
  <2>4. \A d \in Clients : status[d] = "closed" => hup[d] # "no" /\ inq[d] = 0
    BY <1>1, Zenon DEF Epoll!ClosesOnlyHungUp
  <2>5. Epoll!ClosesOnlyHungUp'
    BY <1>5, <2>3, <2>4, Zenon DEF Epoll!ClosesOnlyHungUp
  <2> QED
    BY <2>2, <2>5
<1> QED
  BY <1>9, <1>10, <1>11, <1>12 DEF EpollInv

\* handle() reads, and closes the connection when there is nothing to read: then its
\* client has hung up.
LEMMA EpollReadInv ==
  ASSUME EpollInv, NEW c \in Clients, Epoll!handle_read(c)
  PROVE  EpollInv'
<1> DEFINE n == IF inq[c] < MAXLINE THEN inq[c] ELSE MAXLINE
<1>1. /\ EpollTypes /\ PendingInv /\ Epoll!EventsOpen /\ Epoll!ClosesOnlyHungUp
      /\ curfds = 1 + Cardinality(Epoll!Open)
      /\ pc = "loop" /\ c \in events \ {"listenfd"} /\ UNCHANGED <<pending, hup>> /\ cur' = c
      /\ inq' = [inq EXCEPT ![c] = @ - n]
  BY DEF EpollInv, Epoll!handle_read
<1>2. inq[c] \in Nat /\ n \in Nat /\ n <= inq[c] /\ (n > 0 <=> inq[c] > 0)
  BY <1>1, EpollAssumption DEF EpollTypes
<1>3. \/ n > 0 /\ pc' = "write" /\ UNCHANGED <<status, events, ready, curfds>>
      \/ /\ ~ (n > 0) /\ status' = [status EXCEPT ![c] = "closed"] /\ ready' = ready \ {c}
         /\ curfds' = curfds - 1 /\ events' = events \ {c}
         /\ pc' = IF events = {c} THEN "epoll_wait" ELSE "loop"
  BY Zenon DEF Epoll!handle_read, Epoll!Handled
<1> HIDE DEF n
<1>4. inq' \in [Clients -> Nat] /\ \A d \in Clients : d # c => inq'[d] = inq[d]
  <2>1. inq \in [Clients -> Nat] /\ inq[c] - n \in Nat
    BY <1>1, <1>2 DEF EpollTypes
  <2> QED
    BY <1>1, <2>1
<1>5. Epoll!Open \subseteq Clients /\ c \in Epoll!Open /\ status[c] = "open"
  BY <1>1 DEF Epoll!EventsOpen, Epoll!Open
<1>6. CASE n > 0
  <2>1. pc' = "write" /\ UNCHANGED <<status, events, ready, curfds>>
    BY <1>3, <1>6
  <2>2. Epoll!Open' = Epoll!Open
    BY <2>1 DEF Epoll!Open
  <2>3. EpollTypes'
    BY <1>1, <1>4, <2>1 DEF EpollTypes
  <2>4. PendingInv'
    BY <1>1, <1>4, <1>5, <2>1, <2>2 DEF PendingInv, Epoll!EventsOpen
  <2>5. Epoll!EventsOpen' /\ Epoll!ClosesOnlyHungUp'
    BY <1>1, <1>4, <1>5, <2>1, <2>2 DEF Epoll!EventsOpen, Epoll!ClosesOnlyHungUp
  <2> QED
    BY <1>1, <2>1, <2>2, <2>3, <2>4, <2>5 DEF EpollInv
<1>7. CASE ~ (n > 0)
  <2>1. /\ status' = [status EXCEPT ![c] = "closed"] /\ ready' = ready \ {c}
        /\ curfds' = curfds - 1 /\ events' = events \ {c}
        /\ pc' = IF events = {c} THEN "epoll_wait" ELSE "loop"
    BY <1>3, <1>7
  <2>2. \A d \in Clients : status'[d] = IF d = c THEN "closed" ELSE status[d]
    BY <1>1, <2>1 DEF EpollTypes
  <2>3. Epoll!Open' = Epoll!Open \ {c}
    BY <1>5, <2>2 DEF Epoll!Open
  <2>4. inq[c] = 0 /\ inq'[c] = 0 /\ hup[c] # "no"
    <3>1. n = 0 /\ inq[c] = 0
      BY <1>2, <1>7
    <3>2. inq'[c] = 0
      BY <1>1, <3>1 DEF EpollTypes
    <3>3. inq[c] > 0 \/ hup[c] # "no"
      BY <1>1 DEF PendingInv
    <3> QED
      BY <3>1, <3>2, <3>3
  <2>5. EpollTypes'
    BY <1>1, <1>4, <2>1 DEF EpollTypes
  <2>6. PendingInv'
    <3>1. \A k \in 1 .. Len(pending) : pending[k] \in Clients /\ pending[k] # c
      BY <1>1, <1>5 DEF PendingInv, EpollTypes
    <3>2. \A d \in events' \ {"listenfd"} : inq'[d] > 0 \/ hup'[d] # "no"
      BY <1>1, <1>4, <1>5, <2>1 DEF PendingInv, Epoll!EventsOpen
    <3>3. ready' \ {"listenfd"} \subseteq Epoll!Open'
      BY <1>1, <2>1, <2>3 DEF PendingInv
    <3> QED
      BY <1>1, <2>1, <2>2, <3>1, <3>2, <3>3 DEF PendingInv
  <2>7. Epoll!EventsOpen' /\ Epoll!ClosesOnlyHungUp'
    BY <1>1, <1>4, <2>1, <2>2, <2>3, <2>4 DEF Epoll!EventsOpen, Epoll!ClosesOnlyHungUp
  <2>8. curfds' = 1 + Cardinality(Epoll!Open')
    BY <1>1, <1>5, <2>1, <2>3, OpenCount
  <2> QED
    BY <2>5, <2>6, <2>7, <2>8 DEF EpollInv
<1> QED
  BY <1>6, <1>7

\* Every step of src/epoll.cpp and its clients preserves the invariant.
LEMMA EpollKeeps ==
  ASSUME EpollInv, Epoll!Next
  PROVE  EpollInv'
<1>1. CASE Epoll!epoll_wait \/ Epoll!AcceptEmfile \/ Epoll!handle_write
  BY <1>1, EpollEventsInv
<1>2. CASE Epoll!Accept
  BY <1>2, EpollAcceptInv
<1>3. CASE \E c \in Clients : Epoll!handle_read(c)
  BY <1>3, EpollReadInv
<1>4. CASE \E c \in Clients : Epoll!Connect(c)
  BY <1>4, EpollConnectInv
<1>5. CASE \E c \in Clients : Epoll!Send(c) \/ Epoll!Hangup(c)
  BY <1>5, EpollTrafficInv
<1> QED
  BY <1>1, <1>2, <1>3, <1>4, <1>5, Zenon DEF Epoll!Next, Epoll!ServerStep

-----------------------------------------------------------------------------
(* The servers together. *)

\* The inductive invariant.
EventInv == IF version = "epoll" THEN EpollInv ELSE TableInv

\* The first states satisfy it, whatever poll01's uninitialized revents hold.
LEMMA InitInv == EventInit => EventInv
<1> SUFFICES ASSUME EventInit PROVE EventInv
  OBVIOUS
<1>1. CASE Init
  <2>1. version # "epoll" /\ version \in {"select01", "poll01", "select03"}
    BY <1>1, VersionAssumption DEF Init
  <2>2. Used = {} /\ pc = "wait"
    BY <1>1 DEF Init, Used
  <2>3. ready \subseteq Nat
    BY <1>1 DEF Init, Entries
  <2>4. TableTypes
    BY <1>1, <2>3 DEF Init, TableTypes, listenfd
  <2>5. OwnersInv
    BY <1>1 DEF Init, OwnersInv
  <2>6. TableExact
    BY <1>1, <2>2 DEF Init, TableExact
  <2>7. AcceptInv /\ LoopInv /\ BusyInv /\ NoneSkipped
    BY <2>2 DEF AcceptInv, LoopInv, BusyInv, NoneSkipped
  <2> QED
    BY <2>1, <2>4, <2>5, <2>6, <2>7 DEF EventInv, TableInv
<1>2. CASE version = "epoll" /\ Epoll!Init
  <2>1. Epoll!Open = {} /\ EpollTypes /\ Epoll!EventsOpen /\ Epoll!ClosesOnlyHungUp
    BY <1>2 DEF Epoll!Init, Epoll!Open, EpollTypes, Epoll!EventsOpen, Epoll!ClosesOnlyHungUp
  <2>2. Cardinality(Epoll!Open) = 0
    BY <2>1, FS_EmptySet
  <2>3. PendingInv
    BY <1>2 DEF Epoll!Init, PendingInv
  <2>4. curfds = 1 + Cardinality(Epoll!Open)
    BY <1>2, <2>2 DEF Epoll!Init
  <2> QED
    BY <1>2, <2>1, <2>3, <2>4 DEF EventInv, EpollInv
<1> QED
  BY <1>1, <1>2 DEF EventInit

\* Every step preserves it.
LEMMA StepInv == EventInv /\ [EventNext]_allvars => EventInv'
<1> SUFFICES ASSUME EventInv, [EventNext]_allvars PROVE EventInv'
  OBVIOUS
<1>1. CASE SelectStep(Next)
  <2>1. version # "epoll" /\ TableInv /\ Next
    BY <1>1 DEF SelectStep, EventInv
  <2>2. version' = version
    BY <2>1, Zenon DEF Next, ServerStep, Wait, TooMany, Accept, Scan, ReadData, ReadLine, Writen, Close, ReadError,
                Connect, Abort, Send, Receive, Hangup, Reset
  <2> QED
    BY <2>1, <2>2, TableKeeps DEF EventInv
<1>2. CASE EpollStep(Epoll!Next)
  <2>1. version = "epoll" /\ version' = version /\ EpollInv /\ Epoll!Next
    BY <1>2 DEF EpollStep, selectonly, EventInv
  <2> QED
    BY <2>1, EpollKeeps DEF EventInv
<1>3. CASE UNCHANGED allvars
  <2>1. /\ UNCHANGED <<version, nconns, backlog, owner, inq, hup, client, maxi, maxfd, allset>>
        /\ UNCHANGED <<ready, nready, pc, i, status, pending, events, cur, curfds>>
    BY <1>3 DEF allvars, vars, network, table, loop, epollonly
  <2>2. CASE version = "epoll"
    <3>1. EpollInv
      BY <2>2 DEF EventInv
    <3>2. EpollTypes' /\ PendingInv' /\ Epoll!Open' = Epoll!Open
      BY <2>1, <3>1 DEF EpollInv, EpollTypes, PendingInv, Epoll!Open
    <3>3. EpollInv'
      BY <2>1, <3>1, <3>2, Zenon DEF EpollInv, Epoll!EventsOpen, Epoll!ClosesOnlyHungUp
    <3> QED
      BY <2>1, <2>2, <3>3 DEF EventInv
  <2>3. CASE version # "epoll"
    <3>1. TableInv
      BY <2>3 DEF EventInv
    <3>2. TableTypes' /\ OwnersInv' /\ \A fd \in Fds : Readable(fd) => Readable(fd)'
      BY <2>1, <3>1 DEF TableInv, TableTypes, OwnersInv, Readable
    <3>3. TableInv'
      BY <2>1, <3>1, <3>2, ClientsFrame
    <3> QED
      BY <2>1, <2>3, <3>3 DEF EventInv
  <2> QED
    BY <2>2, <2>3
<1> QED
  BY <1>1, <1>2, <1>3 DEF EventNext

\* The invariant holds in every state.
LEMMA Inductive == EventSpec => []EventInv
  BY InitInv, StepInv, PTL DEF EventSpec

\* The record each server keeps of its clients is exact through any history of
\* accepts and closes: client[], allset, maxi and maxfd, or curfds of src/epoll.cpp.
THEOREM TablesKept == EventSpec => []TablesExact
<1>1. EventInv => TablesExact
  BY SameCardinality DEF EventInv, EpollInv, TableInv, TablesExact, Epoll!CurfdsExact
<1> QED
  BY <1>1, Inductive, PTL

\* The servers read only descriptors that are readable, in spite of descriptor
\* numbers that come back and of poll01's uninitialized revents; epoll's events name
\* open connections, and handle() closes only those whose client has hung up.
THEOREM ReadyServed == EventSpec => []ServesReady
<1>1. EventInv => ServesReady
  BY ReadIsReady DEF EventInv, EpollInv, ServesReady
<1> QED
  BY <1>1, Inductive, PTL

\* tcpservselect01.c and tcpservselect03.c: --nready <= 0 leaves the loop with no
\* reported client still to be served.
THEOREM SkipsNone == EventSpec => []NoneSkipped
<1>1. EventInv => NoneSkipped
  BY DEF EventInv, TableInv, EpollInv, EpollTypes, NoneSkipped
<1> QED
  BY <1>1, Inductive, PTL
=============================================================================
