---------------------------- MODULE PreforkProofs ----------------------------
(***************************************************************************)
(* Proofs about the preforked and prethreaded servers (Prefork) for any     *)
(* number of children and connections.                                      *)
(***************************************************************************)
EXTENDS Prefork, TLAPS

\* The provers of a leaf that names none, in the order they are tried.
USE SMT, Zenon, Z3

States == {"none", "lock", "select", "accept", "unlock", "web_child", "zombie", "reaped"}

\* Only the programs with a lock come to the places where it is taken and released;
\* its holder has been started; the workers from i on have not.
PlaceInv ==
  /\ \A p \in Workers : /\ pc[p] \in {"lock", "unlock"} => Locked
                        /\ pc[p] = "select" => ~Locked
  /\ lock # 0 => Locked /\ pc[lock] # "none"
  /\ main = "make" => \A p \in Workers : p >= i => pc[p] = "none"
  /\ main = "kill" \/ doomed # {} => Processes

IInv == TypeOK /\ LockExact /\ ExitLeavesNoChild /\ PlaceInv

USE nchildrenAssumption, NConnsAssumption

\* Every program has at most nchildren workers, and of those with child processes
\* only serv04 has a lock other than fcntl's.
LEMMA ProgramFacts ==
  ASSUME program \in Programs
  PROVE  /\ program.n \in 1 .. nchildren
         /\ Processes /\ Locked /\ program.lock # "fcntl" => program = serv04
  BY DEF Programs, Program, Processes, Locked, serv00, serv02, serv02l, serv02m, serv03,
         serv03m, serv04, serv07, serv09

\* Where a worker's loop begins: at the lock when the program has one.
LEMMA TopFacts == Top \in {"lock", "select", "accept"} /\ (Top = "lock" <=> Locked)
  BY DEF Top

\* The invariant holds before the first worker is made.
LEMMA InitIInv == Init => IInv
<1> SUFFICES ASSUME Init PROVE IInv
  OBVIOUS
<1>1. TypeOK
  BY DEF Init, TypeOK, Workers
<1>2. LockExact /\ ExitLeavesNoChild /\ PlaceInv
  BY DEF Init, LockExact, ExitLeavesNoChild, PlaceInv
<1> QED
  BY <1>1, <1>2 DEF IInv

\* A step that leaves the workers, the lock and main's part alone.
LEMMA ClientStep == ASSUME IInv, Connect \/ Abort PROVE IInv'
<1>1. UNCHANGED <<program, pc, connfd, lock, doomed, main, i>>
  BY Zenon DEF Connect, Abort
<1>2. nconns' \in 0 .. NConns /\ queue' \in Seq(Conns)
  <2>1. nconns \in 0 .. NConns /\ queue \in Seq(Conns)
    BY DEF IInv, TypeOK
  <2>2. CASE Connect
    <3>1. nconns + 1 \in Conns
      BY <2>1, <2>2 DEF Connect, Conns
    <3> QED
      BY <2>1, <2>2, <3>1 DEF Connect, Conns
  <2>3. CASE Abort
    <3>1. PICK k \in 1 .. Len(queue) :
          queue' = SubSeq(queue, 1, k - 1) \o SubSeq(queue, k + 1, Len(queue))
      BY <2>3, Zenon DEF Abort
    <3>2. queue' \in Seq(Conns)
      BY <2>1, <3>1
    <3> QED
      BY <2>1, <2>3, <3>2 DEF Abort
  <2> QED
    BY <2>2, <2>3
<1>3. TypeOK'
  BY <1>1, <1>2 DEF IInv, TypeOK
<1>4. LockExact' /\ ExitLeavesNoChild' /\ PlaceInv'
  BY <1>1 DEF IInv, LockExact, ExitLeavesNoChild, PlaceInv, Locked, Processes, Alive
<1> QED
  BY <1>3, <1>4 DEF IInv

\* The invariant, spelled out for a worker and for the lock's holder.
LEMMA Facts ==
  ASSUME IInv, NEW p \in Workers
  PROVE  /\ pc \in [Workers -> States] /\ connfd \in [Workers -> 0 .. NConns]
         /\ lock \in 0 .. nchildren
         /\ p # 0 /\ p \in 1 .. nchildren
         /\ Locked /\ pc[p] \in {"accept", "unlock"} => lock = p
         /\ pc[p] \in {"lock", "unlock"} => Locked
         /\ pc[p] = "select" => ~Locked
<1>1. /\ pc \in [Workers -> States] /\ connfd \in [Workers -> 0 .. NConns]
      /\ lock \in 0 .. nchildren /\ p # 0 /\ p \in 1 .. nchildren
  BY DEF IInv, TypeOK, States, Workers
<1>2. Locked /\ pc[p] \in {"accept", "unlock"} => lock = p
  BY DEF IInv, LockExact
<1>3. /\ pc[p] \in {"lock", "unlock"} => Locked
      /\ pc[p] = "select" => ~Locked
  <2>1. PlaceInv
    BY DEF IInv
  <2> QED
    BY <2>1 DEF PlaceInv
<1> QED
  BY <1>1, <1>2, <1>3

\* What remains to be shown of a worker's step that changes only pc, connfd, lock
\* and the queue.
LEMMA WorkerFrame ==
  ASSUME IInv, NEW p \in Workers, NEW st \in States \ {"none"}, Alive(p),
         pc' = [pc EXCEPT ![p] = st],
         UNCHANGED <<program, nconns, doomed, main, i>>,
         connfd' \in [Workers -> 0 .. NConns], queue' \in Seq(Conns),
         lock' \in 0 .. nchildren, st = "lock" \/ st = "unlock" => Locked,
         st = "select" => ~Locked,
         lock' # 0 => Locked /\ (lock' = lock \/ lock' = p), LockExact'
  PROVE  IInv'
<1>1. pc' \in [Workers -> States] /\ \A q \in Workers : q # p => pc'[q] = pc[q]
  BY Facts
<1>2. pc'[p] = st
  BY Facts
<1>3. TypeOK'
  BY <1>1 DEF IInv, TypeOK, States
<1>4. ExitLeavesNoChild'
  BY DEF IInv, ExitLeavesNoChild
<1>5. PlaceInv'
  <2>1. Locked' = Locked /\ Processes' = Processes
    BY DEF Locked, Processes
  <2>2. \A q \in Workers : /\ pc'[q] \in {"lock", "unlock"} => Locked'
                           /\ pc'[q] = "select" => ~Locked'
    <3> SUFFICES ASSUME NEW q \in Workers
                 PROVE  /\ pc'[q] \in {"lock", "unlock"} => Locked'
                        /\ pc'[q] = "select" => ~Locked'
      OBVIOUS
    <3>1. CASE q = p
      BY <1>2, <2>1, <3>1
    <3>2. CASE q # p
      BY <1>1, <2>1, <3>2, Facts
    <3> QED
      BY <3>1, <3>2
  <2>3. lock' # 0 => Locked' /\ pc'[lock'] # "none"
    <3>1. lock' # 0 => lock' \in Workers
      BY DEF Workers
    <3>2. lock # 0 => pc[lock] # "none"
      BY DEF IInv, PlaceInv
    <3> QED
      BY <1>1, <1>2, <2>1, <3>1, <3>2
  <2>4. main' = "make" => \A q \in Workers : q >= i' => pc'[q] = "none"
    <3>1. main = "make" => ~(p >= i)
      BY DEF IInv, PlaceInv, Alive
    <3> QED
      BY <1>1, <3>1 DEF IInv, PlaceInv
  <2>5. main' = "kill" \/ doomed' # {} => Processes'
    BY <2>1 DEF IInv, PlaceInv
  <2> QED
    BY <2>2, <2>3, <2>4, <2>5 DEF PlaceInv
<1> QED
  BY <1>3, <1>4, <1>5 DEF IInv

\* A worker takes the lock, selects, accepts, releases the lock, or closes.
LEMMA LoopStep ==
  ASSUME IInv, NEW p \in Workers, WorkerStep(p) \/ Close(p)
  PROVE  IInv'
<1>1. queue \in Seq(Conns) /\ nconns \in 0 .. NConns
  BY DEF IInv, TypeOK
<1>2. \A q \in Workers : Locked /\ pc[q] \in {"accept", "unlock"} => lock = q
  BY DEF IInv, LockExact
<1>3. lock # 0 => /\ Locked /\ lock \in Workers
                  /\ pc[lock] \in {"accept", "unlock"} \/ (program = serv04 /\ ~Alive(lock))
  BY DEF IInv, LockExact, PlaceInv, TypeOK, Workers
<1>4. CASE my_lock_wait(p)
  <2>1. Alive(p) /\ Locked
    BY <1>4, Facts DEF my_lock_wait, Alive
  <2>2. LockExact'
    BY <1>2, <1>4, Facts DEF my_lock_wait, LockExact, Locked
  <2>3. /\ UNCHANGED <<program, nconns, doomed, main, i>> /\ lock' = p
        /\ queue' = queue /\ connfd' = connfd /\ pc' = [pc EXCEPT ![p] = "accept"]
    BY <1>4 DEF my_lock_wait
  <2>4. lock' \in 0 .. nchildren /\ connfd' \in [Workers -> 0 .. NConns] /\ queue' \in Seq(Conns)
    BY <1>1, <2>3, Facts
  <2> QED
    BY <2>1, <2>2, <2>3, <2>4, WorkerFrame, Zenon DEF States
<1>5. CASE Select(p)
  <2>1. Alive(p) /\ ~Locked
    BY <1>5, Facts DEF Select, Alive
  <2>2. lock = 0
    BY <1>3, <2>1
  <2>3. /\ UNCHANGED <<program, nconns, doomed, main, i>> /\ lock' = lock
        /\ queue' = queue /\ connfd' = connfd /\ pc' = [pc EXCEPT ![p] = "accept"]
    BY <1>5 DEF Select
  <2>4. LockExact'
    BY <2>1, <2>2, <2>3 DEF LockExact, Locked
  <2>5. lock' \in 0 .. nchildren /\ connfd' \in [Workers -> 0 .. NConns] /\ queue' \in Seq(Conns)
    BY <1>1, <2>3, Facts
  <2> QED
    BY <2>1, <2>2, <2>3, <2>4, <2>5, WorkerFrame, Zenon DEF States
<1>6. CASE Accept(p)
  <2> DEFINE st == IF Locked THEN "unlock" ELSE "web_child"
  <2>1. Alive(p) /\ (Locked => lock = p)
    BY <1>6, Facts DEF Accept, Alive
  <2>2. /\ UNCHANGED <<program, nconns, doomed, main, i>> /\ lock' = lock
        /\ pc' = [pc EXCEPT ![p] = st]
    BY <1>6 DEF Accept
  <2>3. connfd' \in [Workers -> 0 .. NConns] /\ queue' \in Seq(Conns)
    <3>1. Head(queue) \in Conns /\ Tail(queue) \in Seq(Conns)
      BY <1>1, <1>6 DEF Accept
    <3> QED
      BY <1>6, <3>1, Facts DEF Accept, Conns
  <2>4. LockExact'
    <3>1. \A q \in Workers : q # p => pc'[q] = pc[q]
      BY <2>2, Facts
    <3>2. pc'[p] = st
      BY <2>2, Facts
    <3>3. \A q \in Workers : Locked' /\ pc'[q] \in {"accept", "unlock"} => lock' = q
      BY <1>2, <2>1, <2>2, <3>1, <3>2 DEF Locked
    <3>4. lock' # 0 => pc'[lock'] \in {"accept", "unlock"}
      BY <1>3, <2>1, <2>2, <3>2
    <3> QED
      BY <3>3, <3>4 DEF LockExact
  <2>5. st \in States \ {"none"} /\ (st = "lock" \/ st = "unlock" => Locked) /\ st # "select"
    BY DEF States
  <2>6. lock' \in 0 .. nchildren /\ (lock' # 0 => Locked /\ lock' = lock)
    BY <1>3, <2>2, Facts
  <2> QED
    BY <2>1, <2>2, <2>3, <2>4, <2>5, <2>6, WorkerFrame, Zenon
<1>7. CASE my_lock_release(p)
  <2>1. Alive(p) /\ Locked /\ lock = p
    BY <1>7, Facts DEF my_lock_release, Alive
  <2>2. /\ UNCHANGED <<program, nconns, doomed, main, i>> /\ lock' = 0
        /\ queue' = queue /\ connfd' = connfd /\ pc' = [pc EXCEPT ![p] = "web_child"]
    BY <1>7 DEF my_lock_release
  <2>3. LockExact'
    BY <1>2, <2>1, <2>2, Facts DEF LockExact, Locked
  <2>4. lock' \in 0 .. nchildren /\ connfd' \in [Workers -> 0 .. NConns] /\ queue' \in Seq(Conns)
    BY <1>1, <2>2, Facts
  <2> QED
    BY <2>1, <2>2, <2>3, <2>4, WorkerFrame, Zenon DEF States
<1>8. CASE Close(p)
  <2>1. Alive(p)
    BY <1>8, Facts DEF Close, Alive
  <2>2. /\ UNCHANGED <<program, nconns, doomed, main, i>> /\ lock' = lock
        /\ queue' = queue /\ pc' = [pc EXCEPT ![p] = Top]
        /\ connfd' = [connfd EXCEPT ![p] = 0] /\ pc[p] = "web_child"
    BY <1>8 DEF Close
  <2>3. LockExact'
    <3>1. \A q \in Workers : q # p => pc'[q] = pc[q]
      BY <2>2, Facts
    <3>2. pc'[p] = Top
      BY <2>2, Facts
    <3>3. \A q \in Workers : Locked' /\ pc'[q] \in {"accept", "unlock"} => lock' = q
      BY <1>2, <2>2, <3>1, <3>2, TopFacts DEF Locked
    <3>4. lock # 0 => lock # p
      BY <1>3, <2>1, <2>2
    <3>5. lock # 0 => pc'[lock] = pc[lock]
      BY <1>3, <3>1, <3>4
    <3>6. lock' # 0 => pc'[lock'] \in {"accept", "unlock"} \/ (program' = serv04 /\ ~Alive(lock)')
      BY <1>3, <2>2, <3>5 DEF Alive
    <3> QED
      BY <3>3, <3>6 DEF LockExact
  <2>4. /\ lock' \in 0 .. nchildren /\ connfd' \in [Workers -> 0 .. NConns]
        /\ queue' \in Seq(Conns) /\ Top \in States \ {"none"}
        /\ (Top = "lock" \/ Top = "unlock" => Locked) /\ (Top = "select" => ~Locked)
    BY <1>1, <2>2, Facts, TopFacts DEF States
  <2> QED
    BY <1>3, <2>1, <2>2, <2>3, <2>4, WorkerFrame, Zenon
<1> QED
  BY <1>4, <1>5, <1>6, <1>7, <1>8 DEF WorkerStep

\* A child process ends.
LEMMA ExitStep ==
  ASSUME IInv, NEW p \in Workers, Processes, Alive(p), Exit(p)
  PROVE  IInv'
<1> DEFINE st == IF Ended THEN "reaped" ELSE "zombie"
<1>1. /\ UNCHANGED <<program, nconns, doomed, main, i>> /\ queue' = queue
      /\ pc' = [pc EXCEPT ![p] = st] /\ connfd' = [connfd EXCEPT ![p] = 0]
      /\ lock' = IF lock = p /\ program.lock = "fcntl" THEN 0 ELSE lock
  BY DEF Exit
<1>2. \A q \in Workers : Locked /\ pc[q] \in {"accept", "unlock"} => lock = q
  BY DEF IInv, LockExact
<1>3. lock # 0 => /\ Locked /\ lock \in Workers
                  /\ pc[lock] \in {"accept", "unlock"} \/ (program = serv04 /\ ~Alive(lock))
  BY DEF IInv, LockExact, PlaceInv, TypeOK, Workers
<1>4. \A q \in Workers : q # p => pc'[q] = pc[q]
  BY <1>1, Facts
<1>5. pc'[p] = st /\ st \in {"reaped", "zombie"}
  BY <1>1, Facts
<1>6. LockExact'
  <2>1. \A q \in Workers : Locked' /\ pc'[q] \in {"accept", "unlock"} => lock' = q
    BY <1>1, <1>2, <1>4, <1>5 DEF Locked
  <2>2. CASE lock = p
    <3>1. lock' # 0 => program = serv04
      BY <1>1, <1>3, <2>2, Facts, ProgramFacts DEF IInv, TypeOK
    <3>2. lock' # 0 => program' = serv04 /\ ~Alive(lock)'
      BY <1>1, <1>5, <2>2, <3>1 DEF Alive
    <3> QED
      BY <2>1, <3>2 DEF LockExact
  <2>3. CASE lock # p
    <3>1. lock' = lock /\ (lock # 0 => pc'[lock] = pc[lock])
      BY <1>1, <1>3, <1>4, <2>3
    <3>2. lock' # 0 => pc'[lock'] \in {"accept", "unlock"} \/ (program' = serv04 /\ ~Alive(lock)')
      BY <1>1, <1>3, <3>1 DEF Alive
    <3> QED
      BY <2>1, <3>2 DEF LockExact
  <2> QED
    BY <2>2, <2>3
<1>7. /\ lock' \in 0 .. nchildren /\ connfd' \in [Workers -> 0 .. NConns]
      /\ queue' \in Seq(Conns) /\ st \in States \ {"none"}
  BY <1>1, Facts DEF IInv, TypeOK, States
<1>8. lock' # 0 => Locked /\ lock' = lock
  BY <1>1, <1>3
<1> QED
  BY <1>1, <1>5, <1>6, <1>7, <1>8, WorkerFrame, Zenon

\* The process that the threads belong to ends.
LEMMA ExitAllStep ==
  ASSUME IInv, ~Processes, ExitAll
  PROVE  IInv'
<1>1. /\ UNCHANGED <<program, nconns, queue, doomed, i>> /\ lock' = 0 /\ main' = "exit"
      /\ pc' = [p \in Workers |-> "reaped"] /\ connfd' = [p \in Workers |-> 0]
  BY DEF ExitAll
<1>2. TypeOK'
  BY <1>1 DEF IInv, TypeOK
<1>3. LockExact' /\ ExitLeavesNoChild'
  BY <1>1 DEF LockExact, ExitLeavesNoChild, Alive
<1>4. PlaceInv'
  <2>1. doomed = {}
    BY DEF IInv, PlaceInv
  <2> QED
    BY <1>1, <2>1 DEF PlaceInv
<1> QED
  BY <1>2, <1>3, <1>4 DEF IInv

\* A worker ends by an error or by SIGTERM.
LEMMA EndStep ==
  ASSUME IInv, NEW p \in Workers, Error(p) \/ Terminate(p)
  PROVE  IInv'
<1>1. CASE Error(p)
  BY <1>1, ExitStep, ExitAllStep DEF Error, Alive
<1>2. CASE Terminate(p)
  <2>1. Processes
    BY <1>2 DEF Terminate, IInv, PlaceInv
  <2> QED
    BY <1>2, <2>1, ExitStep DEF Terminate
<1> QED
  BY <1>1, <1>2

\* A step of main that changes no worker, or takes one from zombie to reaped.
LEMMA MainFrame ==
  ASSUME IInv, UNCHANGED <<program, nconns, queue, connfd, lock>>,
         pc' \in [Workers -> States],
         \A q \in Workers : pc'[q] = pc[q] \/ (pc[q] = "zombie" /\ pc'[q] = "reaped"),
         doomed' \subseteq Workers, i' \in 1 .. nchildren + 1,
         main' \in {"pause", "kill", "exit", "killed"},
         main' = "kill" \/ doomed' # {} => Processes,
         ExitLeavesNoChild'
  PROVE  IInv'
<1>1. TypeOK'
  BY DEF IInv, TypeOK, States
<1>2. lock # 0 => lock \in Workers
  BY DEF IInv, TypeOK, Workers
<1>3. LockExact'
  <2>1. \A q \in Workers : Locked' /\ pc'[q] \in {"accept", "unlock"} => lock' = q
    BY DEF IInv, LockExact, Locked
  <2>2. lock' # 0 => pc'[lock'] \in {"accept", "unlock"} \/ (program' = serv04 /\ ~Alive(lock)')
    BY <1>2 DEF IInv, LockExact, Alive
  <2> QED
    BY <2>1, <2>2 DEF LockExact
<1>4. PlaceInv'
  <2>1. Locked' = Locked /\ Processes' = Processes
    BY DEF Locked, Processes
  <2>2. ASSUME NEW q \in Workers
        PROVE  /\ pc'[q] \in {"lock", "unlock"} => Locked'
               /\ pc'[q] = "select" => ~Locked'
    BY <2>1, Facts
  <2>3. lock' # 0 => Locked' /\ pc'[lock'] # "none"
    BY <1>2, <2>1 DEF IInv, PlaceInv
  <2> QED
    BY <2>1, <2>2, <2>3 DEF PlaceInv
<1> QED
  BY <1>1, <1>3, <1>4 DEF IInv

\* child_make or thread_make: one more worker.
LEMMA MakeStep == ASSUME IInv, Make PROVE IInv'
<1>1. /\ UNCHANGED <<program, nconns, queue, connfd, lock, doomed, main>>
      /\ main = "make" /\ i <= program.n /\ i' = i + 1 /\ pc' = [pc EXCEPT ![i] = Top]
  BY DEF Make
<1>2. i \in Workers /\ i' \in 1 .. nchildren + 1 /\ program.n \in 1 .. nchildren
  BY <1>1, ProgramFacts DEF IInv, TypeOK, Workers
<1>3. pc[i] = "none"
  BY <1>1, <1>2 DEF IInv, PlaceInv, Workers
<1>4. \A q \in Workers : q # i => pc'[q] = pc[q]
  BY <1>1, <1>2, Facts
<1>5. pc'[i] = Top
  BY <1>1, <1>2, Facts
<1>6. TypeOK'
  <2>1. pc' \in [Workers -> States]
    BY <1>1, <1>2, Facts, TopFacts DEF States
  <2> QED
    BY <1>1, <1>2, <2>1 DEF IInv, TypeOK, States
<1>7. lock # 0 => lock \in Workers /\ lock # i /\ pc'[lock] = pc[lock]
  BY <1>2, <1>3, <1>4 DEF IInv, TypeOK, PlaceInv, Workers
<1>8. LockExact'
  <2>1. \A q \in Workers : Locked' /\ pc'[q] \in {"accept", "unlock"} => lock' = q
    BY <1>1, <1>4, <1>5, TopFacts DEF IInv, LockExact, Locked
  <2>2. lock' # 0 => pc'[lock'] \in {"accept", "unlock"} \/ (program' = serv04 /\ ~Alive(lock)')
    BY <1>1, <1>7 DEF IInv, LockExact, Alive
  <2> QED
    BY <2>1, <2>2 DEF LockExact
<1>9. PlaceInv'
  <2>1. Locked' = Locked /\ Processes' = Processes
    BY <1>1 DEF Locked, Processes
  <2>2. ASSUME NEW q \in Workers
        PROVE  /\ pc'[q] \in {"lock", "unlock"} => Locked'
               /\ pc'[q] = "select" => ~Locked'
    <3>1. CASE q = i
      BY <1>5, <2>1, <3>1, TopFacts
    <3>2. CASE q # i
      BY <1>4, <2>1, <3>2, Facts
    <3> QED
      BY <3>1, <3>2
  <2>3. lock' # 0 => Locked' /\ pc'[lock'] # "none"
    BY <1>1, <1>7, <2>1 DEF IInv, PlaceInv
  <2>4. \A q \in Workers : q >= i' => pc'[q] = "none"
    BY <1>1, <1>2, <1>4 DEF IInv, PlaceInv, Workers
  <2>5. doomed' # {} => Processes'
    BY <1>1, <2>1 DEF IInv, PlaceInv
  <2> QED
    BY <1>1, <2>2, <2>3, <2>4, <2>5 DEF PlaceInv
<1>10. ExitLeavesNoChild'
  BY <1>1 DEF ExitLeavesNoChild
<1> QED
  BY <1>6, <1>8, <1>9, <1>10 DEF IInv

\* Pause, sig_int in a parent process, Kill, Wait and WaitEnds.
LEMMA ParentStep ==
  ASSUME IInv, \/ Pause \/ Kill \/ WaitEnds \/ \E p \in Workers : Wait(p)
               \/ Processes /\ sig_int
  PROVE  IInv'
<1>1. /\ pc \in [Workers -> States] /\ doomed \subseteq Workers
      /\ i \in 1 .. nchildren + 1 /\ program \in Programs
      /\ main = "kill" \/ doomed # {} => Processes
  BY DEF IInv, TypeOK, States, PlaceInv
<1>2. CASE Pause
  <2>1. ExitLeavesNoChild'
    BY <1>2 DEF Pause, ExitLeavesNoChild
  <2> QED
    BY <1>1, <1>2, <2>1, MainFrame DEF Pause
<1>3. CASE Kill
  <2>1. i \in Workers /\ i' \in 1 .. nchildren + 1
    BY <1>1, <1>3, ProgramFacts DEF Kill, Workers
  <2>2. ExitLeavesNoChild' /\ Processes /\ doomed' \subseteq Workers /\ main' = "kill"
    BY <1>1, <1>3, <2>1 DEF Kill, ExitLeavesNoChild
  <2> QED
    BY <1>1, <1>3, <2>1, <2>2, MainFrame DEF Kill
<1>4. CASE WaitEnds
  <2>1. ExitLeavesNoChild'
    BY <1>4 DEF WaitEnds, NoChild, ExitLeavesNoChild, Alive
  <2> QED
    BY <1>1, <1>4, <2>1, MainFrame DEF WaitEnds
<1>5. CASE \E p \in Workers : Wait(p)
  <2>1. PICK p \in Workers : Wait(p)
    BY <1>5
  <2>2. /\ pc[p] = "zombie" /\ pc' = [pc EXCEPT ![p] = "reaped"] /\ main = "kill"
        /\ UNCHANGED <<program, nconns, queue, connfd, lock, doomed, main, i>>
    BY <2>1 DEF Wait
  <2>3. pc' \in [Workers -> States] /\ ExitLeavesNoChild'
    BY <1>1, <2>2 DEF States, ExitLeavesNoChild
  <2>4. \A q \in Workers : pc'[q] = pc[q] \/ (pc[q] = "zombie" /\ pc'[q] = "reaped")
    BY <1>1, <2>2
  <2> QED
    BY <1>1, <2>2, <2>3, <2>4, MainFrame
<1>6. CASE Processes /\ sig_int
  <2>1. CASE /\ main = "make" /\ main' = "killed" /\ doomed' \in {doomed, Workers}
             /\ pc' = [p \in Workers |-> IF pc[p] = "zombie" THEN "reaped" ELSE pc[p]]
             /\ UNCHANGED <<program, nconns, queue, connfd, lock, i>>
    <3>1. pc' \in [Workers -> States] /\ ExitLeavesNoChild'
      BY <1>1, <2>1 DEF States, ExitLeavesNoChild
    <3>2. \A q \in Workers : pc'[q] = pc[q] \/ (pc[q] = "zombie" /\ pc'[q] = "reaped")
      BY <2>1
    <3> QED
      BY <1>1, <1>6, <2>1, <3>1, <3>2, MainFrame
  <2>2. CASE /\ main = "pause" /\ main' = "kill" /\ i' = 1 /\ doomed' \in {doomed, Workers}
             /\ UNCHANGED <<program, nconns, queue, pc, connfd, lock>>
    <3>1. ExitLeavesNoChild' /\ i' \in 1 .. nchildren + 1
      BY <2>2 DEF ExitLeavesNoChild
    <3> QED
      BY <1>1, <1>6, <2>2, <3>1, MainFrame
  <2> QED
    BY <1>6, <2>1, <2>2 DEF sig_int
<1> QED
  BY <1>2, <1>3, <1>4, <1>5, <1>6

\* Every step keeps the invariant.
LEMMA NextIInv == IInv /\ [Next]_vars => IInv'
<1> SUFFICES ASSUME IInv, [Next]_vars PROVE IInv'
  OBVIOUS
<1>1. CASE MainStep
  BY <1>1, MakeStep, ParentStep DEF MainStep
<1>2. CASE sig_int
  <2>1. CASE Processes
    BY <1>2, <2>1, ParentStep
  <2>2. CASE ~Processes
    BY <1>2, <2>2, ExitAllStep DEF sig_int
  <2> QED
    BY <2>1, <2>2
<1>3. CASE Connect \/ Abort
  BY <1>3, ClientStep
<1>4. ASSUME NEW p \in Workers, WorkerStep(p) \/ Close(p) \/ Error(p) \/ Terminate(p)
      PROVE  IInv'
  BY <1>4, LoopStep, EndStep
<1>5. CASE UNCHANGED vars
  <2>1. TypeOK' /\ PlaceInv'
    BY <1>5 DEF IInv, TypeOK, PlaceInv, Locked, Processes, vars
  <2>2. LockExact' /\ ExitLeavesNoChild'
    BY <1>5 DEF IInv, LockExact, ExitLeavesNoChild, Locked, Alive, vars
  <2> QED
    BY <2>1, <2>2 DEF IInv
<1> QED
  BY <1>1, <1>2, <1>3, <1>4, <1>5 DEF Next

\* my_lock_wait and my_lock_release around accept: for any number of children the
\* lock is held exactly by the worker in accept, a child that dies there gives it
\* back, and only serv04's mutex can stay locked.
THEOREM LockHeld == Spec => []LockExact
<1>1. IInv => LockExact
  BY DEF IInv
<1> QED
  BY InitIInv, NextIInv, <1>1, PTL DEF Spec

\* sig_int of the preforked servers: for any number of children the parent has no
\* living child when it exits, whichever of them died before or during sig_int.
THEOREM NoChildLeft == Spec => []ExitLeavesNoChild
<1>1. IInv => ExitLeavesNoChild
  BY DEF IInv
<1> QED
  BY InitIInv, NextIInv, <1>1, PTL DEF Spec

-----------------------------------------------------------------------------
(* The refinement of ConnService.                                              *)
holders == [c \in Conns |-> Holders(c)]

Service == INSTANCE ConnService WITH made <- nconns

\* Whichever worker accepts, connections are taken in order of arrival, and each
\* is one worker's, which has no other, until it is closed for good.
Implements == Service!Spec

\* The connections that wait for accept are different ones, each made; a worker
\* that has one is past accept, and neither the queue nor another worker has it.
HeldInv ==
  /\ \A k \in 1 .. Len(queue) : queue[k] <= nconns
  /\ \A j, k \in 1 .. Len(queue) : j # k => queue[j] # queue[k]
  /\ \A p \in Workers : connfd[p] # 0 =>
       /\ pc[p] \in {"unlock", "web_child"} /\ connfd[p] <= nconns
       /\ \A k \in 1 .. Len(queue) : queue[k] # connfd[p]
       /\ \A q \in Workers : connfd[q] = connfd[p] => q = p

\* The types the refinement uses.
LEMMA Types ==
  ASSUME IInv
  PROVE  /\ pc \in [Workers -> States] /\ connfd \in [Workers -> 0 .. NConns]
         /\ queue \in Seq(Conns) /\ nconns \in Nat
         /\ \A c \in Conns : c \in Nat /\ c # 0
  BY DEF IInv, TypeOK, States, Conns

\* At the start nobody has a connection.
LEMMA InitHeld == Init => HeldInv
  BY DEF Init, HeldInv

\* A step after which no worker has a connection it did not have, and none that has
\* one moves, except from unlock to web_child.
LEMMA HeldFrame ==
  ASSUME HeldInv, UNCHANGED <<nconns, queue>>,
         \A p \in Workers : connfd'[p] # 0 =>
           connfd'[p] = connfd[p] /\ (pc'[p] = pc[p] \/ pc'[p] = "web_child")
  PROVE  HeldInv'
<1>1. /\ \A k \in 1 .. Len(queue') : queue'[k] <= nconns'
      /\ \A j, k \in 1 .. Len(queue') : j # k => queue'[j] # queue'[k]
  BY DEF HeldInv
<1>2. ASSUME NEW p \in Workers, connfd'[p] # 0
      PROVE  /\ pc'[p] \in {"unlock", "web_child"} /\ connfd'[p] <= nconns'
             /\ \A k \in 1 .. Len(queue') : queue'[k] # connfd'[p]
             /\ \A q \in Workers : connfd'[q] = connfd'[p] => q = p
  BY <1>2 DEF HeldInv
<1> QED
  BY <1>1, <1>2 DEF HeldInv

\* The steps that neither make, drop nor accept a connection.
Quiet ==
  \/ MainStep \/ sig_int
  \/ \E p \in Workers : \/ my_lock_wait(p) \/ Select(p) \/ my_lock_release(p)
                        \/ Close(p) \/ Error(p) \/ Terminate(p)

\* No step but Connect, Abort and Accept adds a connection or moves one.
LEMMA QuietFewer ==
  ASSUME IInv, HeldInv, Quiet
  PROVE  /\ UNCHANGED <<nconns, queue>>
         /\ \A p \in Workers : connfd'[p] # 0 =>
              connfd'[p] = connfd[p] /\ (pc'[p] = pc[p] \/ pc'[p] = "web_child")
<1>1. /\ pc \in [Workers -> States] /\ connfd \in [Workers -> 0 .. NConns]
      /\ \A p \in Workers : connfd[p] # 0 => pc[p] \in {"unlock", "web_child"}
  BY Types DEF HeldInv
<1>2. CASE ExitAll
  BY <1>2 DEF ExitAll
<1>3. ASSUME NEW p \in Workers, Exit(p)
      PROVE  /\ UNCHANGED <<nconns, queue>>
             /\ \A q \in Workers : connfd'[q] # 0 => connfd'[q] = connfd[q] /\ pc'[q] = pc[q]
  BY <1>1, <1>3 DEF Exit
<1>4. ASSUME NEW p \in Workers, my_lock_wait(p) \/ Select(p) \/ my_lock_release(p) \/ Close(p)
      PROVE  /\ UNCHANGED <<nconns, queue>>
             /\ \A q \in Workers : connfd'[q] # 0 =>
                  connfd'[q] = connfd[q] /\ (pc'[q] = pc[q] \/ pc'[q] = "web_child")
  <2>1. CASE my_lock_wait(p) \/ Select(p)
    BY <1>1, <2>1 DEF my_lock_wait, Select
  <2>2. CASE my_lock_release(p)
    BY <1>1, <2>2 DEF my_lock_release
  <2>3. CASE Close(p)
    BY <1>1, <2>3 DEF Close
  <2> QED
    BY <1>4, <2>1, <2>2, <2>3
<1>5. CASE MainStep
  <2>1. CASE Make
    <3>1. /\ UNCHANGED <<nconns, queue, connfd>> /\ pc' = [pc EXCEPT ![i] = Top]
          /\ main = "make"
      BY <2>1 DEF Make
    <3>2. i \in Workers => pc[i] = "none"
      BY <3>1 DEF IInv, PlaceInv, TypeOK
    <3> QED
      BY <1>1, <3>1, <3>2
  <2>2. CASE Pause \/ Kill \/ WaitEnds
    BY <2>2 DEF Pause, Kill, WaitEnds
  <2>3. ASSUME NEW p \in Workers, Wait(p)
        PROVE  /\ UNCHANGED <<nconns, queue, connfd>>
               /\ \A q \in Workers : connfd'[q] # 0 => pc'[q] = pc[q]
    BY <1>1, <2>3 DEF Wait
  <2> QED
    BY <1>5, <2>1, <2>2, <2>3 DEF MainStep
<1>6. CASE sig_int
  BY <1>1, <1>2, <1>6 DEF sig_int
<1>7. ASSUME NEW p \in Workers, Error(p) \/ Terminate(p)
      PROVE  ExitAll \/ Exit(p)
  BY <1>7 DEF Error, Terminate
<1> QED
  BY <1>2, <1>3, <1>4, <1>5, <1>6, <1>7 DEF Quiet

\* A sequence without its k-th element: what Abort and Drop make of the queue.
Without(s, k) == SubSeq(s, 1, k - 1) \o SubSeq(s, k + 1, Len(s))

\* What is left of a queue when its k-th element is taken out.
LEMMA WithoutFacts ==
  ASSUME NEW S, NEW s \in Seq(S), NEW k \in 1 .. Len(s)
  PROVE  /\ Len(Without(s, k)) = Len(s) - 1
         /\ \A m \in 1 .. Len(s) - 1 : Without(s, k)[m] = s[IF m < k THEN m ELSE m + 1]
<1> DEFINE p == SubSeq(s, 1, k - 1)
           q == SubSeq(s, k + 1, Len(s))
<1>1. /\ Len(p) = k - 1 /\ \A m \in 1 .. k - 1 : p[m] = s[m]
      /\ p \in Seq(S)
  OBVIOUS
<1>2. /\ Len(q) = Len(s) - k /\ \A m \in 1 .. Len(s) - k : q[m] = s[k + m]
      /\ q \in Seq(S)
  OBVIOUS
<1>3. Without(s, k) = p \o q
  BY DEF Without
<1> HIDE DEF p, q
<1>4. /\ Len(p \o q) = Len(p) + Len(q)
      /\ \A m \in 1 .. Len(p) + Len(q) : (p \o q)[m] = IF m <= Len(p) THEN p[m] ELSE q[m - Len(p)]
  <2>1. p \in Seq(S) /\ q \in Seq(S)
    BY <1>1, <1>2
  <2>2. Len(p \o q) = Len(p) + Len(q)
    BY <2>1
  <2>3. ASSUME NEW m \in 1 .. Len(p) + Len(q)
        PROVE  (p \o q)[m] = IF m <= Len(p) THEN p[m] ELSE q[m - Len(p)]
    BY <2>1
  <2> QED
    BY <2>2, <2>3
<1>5. Len(s) \in Nat /\ (k - 1) + (Len(s) - k) = Len(s) - 1
  OBVIOUS
<1>6. ASSUME NEW m \in 1 .. Len(s) - 1, m < k PROVE (p \o q)[m] = s[m]
  BY <1>1, <1>2, <1>4, <1>5, <1>6
<1>7. ASSUME NEW m \in 1 .. Len(s) - 1, ~(m < k) PROVE (p \o q)[m] = s[m + 1]
  <2>1. m - (k - 1) \in 1 .. Len(s) - k /\ k + (m - (k - 1)) = m + 1 /\ ~(m <= k - 1)
    BY <1>5, <1>7
  <2>2. (p \o q)[m] = q[m - (k - 1)]
    BY <1>1, <1>2, <1>4, <1>5, <2>1, Zenon
  <2> QED
    BY <1>2, <2>1, <2>2
<1> QED
  BY <1>1, <1>2, <1>3, <1>4, <1>5, <1>6, <1>7

\* The queue without its first connection.
LEMMA TailFacts ==
  ASSUME IInv, HeldInv, queue # << >>
  PROVE  /\ Head(queue) \in Conns /\ Head(queue) <= nconns
         /\ \A p \in Workers : connfd[p] # Head(queue)
         /\ \A k \in 1 .. Len(Tail(queue)) :
              /\ k + 1 \in 1 .. Len(queue) /\ Tail(queue)[k] = queue[k + 1]
              /\ Tail(queue)[k] # Head(queue)
<1>1. queue \in Seq(Conns) /\ \A c \in Conns : c # 0
  BY Types
<1>2. /\ Head(queue) = queue[1] /\ 1 \in 1 .. Len(queue) /\ Head(queue) \in Conns
      /\ \A k \in 1 .. Len(Tail(queue)) :
           k + 1 \in 1 .. Len(queue) /\ k + 1 # 1 /\ Tail(queue)[k] = queue[k + 1]
  BY <1>1
<1> QED
  BY <1>1, <1>2 DEF HeldInv

\* accept takes the head of the queue.
LEMMA AcceptFacts ==
  ASSUME IInv, HeldInv, NEW p \in Workers, Accept(p)
  PROVE  /\ queue # << >> /\ queue' = Tail(queue) /\ nconns' = nconns
         /\ connfd[p] = 0 /\ connfd'[p] = Head(queue) /\ pc'[p] \in {"unlock", "web_child"}
         /\ \A q \in Workers : q # p => connfd'[q] = connfd[q] /\ pc'[q] = pc[q]
<1>1. pc[p] = "accept"
  BY DEF Accept
<1>2. connfd[p] = 0
  BY <1>1 DEF HeldInv
<1> QED
  BY <1>2, Types DEF Accept

\* After accept the connection is held by that worker and by no other.
LEMMA HeldAccept == ASSUME IInv, HeldInv, NEW p \in Workers, Accept(p) PROVE HeldInv'
<1>1. /\ Head(queue) \in Conns /\ Head(queue) <= nconns
      /\ \A q \in Workers : connfd[q] # Head(queue)
      /\ \A k \in 1 .. Len(queue') :
           /\ k + 1 \in 1 .. Len(queue) /\ queue'[k] = queue[k + 1] /\ queue'[k] # Head(queue)
  BY AcceptFacts, TailFacts
<1>2. \A j, k \in 1 .. Len(queue') : j # k => j + 1 # k + 1
  OBVIOUS
<1>3. /\ \A k \in 1 .. Len(queue') : queue'[k] <= nconns'
      /\ \A j, k \in 1 .. Len(queue') : j # k => queue'[j] # queue'[k]
  BY <1>1, <1>2, AcceptFacts DEF HeldInv
<1>4. ASSUME NEW q \in Workers, connfd'[q] # 0
      PROVE  /\ pc'[q] \in {"unlock", "web_child"} /\ connfd'[q] <= nconns'
             /\ \A k \in 1 .. Len(queue') : queue'[k] # connfd'[q]
             /\ \A r \in Workers : connfd'[r] = connfd'[q] => r = q
  <2>1. CASE q = p
    BY <1>1, <2>1, AcceptFacts
  <2>2. CASE q # p
    BY <1>1, <1>4, <2>2, AcceptFacts DEF HeldInv
  <2> QED
    BY <2>1, <2>2
<1> QED
  BY <1>3, <1>4 DEF HeldInv

\* A new connection is held by nobody.
LEMMA HeldConnect == ASSUME IInv, HeldInv, Connect PROVE HeldInv'
<1>1. nconns' = nconns + 1 /\ queue' = Append(queue, nconns + 1) /\ UNCHANGED <<pc, connfd>>
  BY DEF Connect
<1>2. queue \in Seq(Conns) /\ nconns \in Nat /\ connfd \in [Workers -> 0 .. NConns]
  BY Types
<1>3. /\ Len(queue') = Len(queue) + 1 /\ Len(queue) \in Nat
      /\ queue'[Len(queue) + 1] = nconns + 1
      /\ \A k \in 1 .. Len(queue) : queue'[k] = queue[k] /\ queue[k] \in Conns
  BY <1>1, <1>2
<1>4. \A k \in 1 .. Len(queue') : k \in 1 .. Len(queue) \/ k = Len(queue) + 1
  BY <1>3
<1>5. \A k \in 1 .. Len(queue) : queue[k] <= nconns /\ queue[k] <= nconns + 1 /\ queue[k] # nconns + 1
  BY <1>2, <1>3, Types DEF HeldInv
<1>6. \A k \in 1 .. Len(queue') : queue'[k] <= nconns'
  BY <1>1, <1>2, <1>3, <1>4, <1>5
<1>7. \A j, k \in 1 .. Len(queue') : j # k => queue'[j] # queue'[k]
  BY <1>3, <1>4, <1>5 DEF HeldInv
<1>8. ASSUME NEW p \in Workers, connfd[p] # 0
      PROVE  connfd[p] <= nconns + 1 /\ \A k \in 1 .. Len(queue') : queue'[k] # connfd[p]
  <2>1. connfd[p] \in Nat /\ connfd[p] <= nconns /\ \A k \in 1 .. Len(queue) : queue[k] # connfd[p]
    BY <1>2, <1>8 DEF HeldInv
  <2>2. connfd[p] <= nconns + 1 /\ connfd[p] # nconns + 1
    BY <1>2, <2>1
  <2> QED
    BY <1>3, <1>4, <2>1, <2>2
<1> QED
  BY <1>1, <1>6, <1>7, <1>8 DEF HeldInv

\* A client that gives up changes no holder.
LEMMA HeldAbort == ASSUME IInv, HeldInv, Abort PROVE HeldInv'
<1>1. PICK k \in 1 .. Len(queue) : queue' = Without(queue, k)
  BY Zenon DEF Abort, Without
<1>2. UNCHANGED <<nconns, pc, connfd>> /\ queue \in Seq(Conns)
  BY Types DEF Abort
<1> DEFINE old(m) == IF m < k THEN m ELSE m + 1
<1>3. /\ Len(queue') = Len(queue) - 1 /\ Len(queue) \in Nat
      /\ \A m \in 1 .. Len(queue') : queue'[m] = queue[old(m)]
  <2>1. /\ Len(Without(queue, k)) = Len(queue) - 1
        /\ \A m \in 1 .. Len(queue) - 1 : Without(queue, k)[m] = queue[IF m < k THEN m ELSE m + 1]
    BY <1>2, WithoutFacts
  <2>2. Len(queue) \in Nat
    BY <1>2
  <2> QED
    BY <1>1, <2>1, <2>2
<1>4. /\ \A m \in 1 .. Len(queue') : old(m) \in 1 .. Len(queue)
      /\ \A j, m \in 1 .. Len(queue') : j # m => old(j) # old(m)
  BY <1>3
<1> HIDE DEF old
<1>5. /\ \A m \in 1 .. Len(queue) : queue[m] <= nconns
      /\ \A j, m \in 1 .. Len(queue) : j # m => queue[j] # queue[m]
  BY DEF HeldInv
<1>6. \A m \in 1 .. Len(queue') : queue'[m] <= nconns'
  BY <1>2, <1>3, <1>4, <1>5, Zenon
<1>7. ASSUME NEW j \in 1 .. Len(queue'), NEW m \in 1 .. Len(queue'), j # m
      PROVE  queue'[j] # queue'[m]
  BY <1>3, <1>4, <1>5, <1>7, Zenon
<1>8. ASSUME NEW p \in Workers, connfd[p] # 0
      PROVE  \A m \in 1 .. Len(queue') : queue'[m] # connfd[p]
  <2>1. \A m \in 1 .. Len(queue) : queue[m] # connfd[p]
    BY <1>8 DEF HeldInv
  <2> QED
    BY <1>3, <1>4, <2>1, Zenon
<1> QED
  BY <1>2, <1>6, <1>7, <1>8 DEF HeldInv

\* Every step keeps each connection with one worker at most.
LEMMA StepHeld == IInv /\ HeldInv /\ [Next]_vars => HeldInv'
<1> SUFFICES ASSUME IInv, HeldInv, [Next]_vars PROVE HeldInv'
  OBVIOUS
<1>1. CASE UNCHANGED vars
  BY <1>1, HeldFrame DEF vars
<1>2. CASE Connect \/ Abort \/ \E p \in Workers : Accept(p)
  BY <1>2, HeldConnect, HeldAbort, HeldAccept
<1>3. CASE Quiet
  BY <1>3, QuietFewer, HeldFrame
<1> QED
  BY <1>1, <1>2, <1>3, Zenon DEF Next, WorkerStep, Quiet

\* The refinement mapping, before and after a step.
LEMMA HoldersAt ==
  /\ holders = [c \in Conns |-> Holders(c)] /\ DOMAIN holders = Conns
  /\ \A c \in Conns : holders[c] = Holders(c)
  /\ holders' = [c \in Conns |-> Holders(c)'] /\ \A c \in Conns : holders'[c] = Holders(c)'
  BY DEF holders

\* The server starts as the service does.
LEMMA InitImplements == Init => Service!Init
<1> SUFFICES ASSUME Init PROVE Service!Init
  OBVIOUS
<1>1. \A c \in Conns : Holders(c) = {}
  BY DEF Init, Holders, Conns
<1>2. holders = [c \in Conns |-> {}]
  BY <1>1, HoldersAt
<1> QED
  BY <1>2, HoldersAt DEF Init, Service!Init, Service!Conns

\* The connections that nobody has any more have been closed.
LEMMA FewerImplements ==
  ASSUME IInv, HeldInv, UNCHANGED <<nconns, queue>>,
         \A p \in Workers : connfd'[p] # 0 => connfd'[p] = connfd[p]
  PROVE  Service!Next
<1>1. ASSUME NEW c \in Conns PROVE Holders(c)' = Holders(c) \/ Holders(c)' = {}
  <2>1. c # 0
    BY Types
  <2>2. CASE \A p \in Workers : connfd'[p] # c
    BY <2>2 DEF Holders
  <2>3. ASSUME NEW p \in Workers, connfd'[p] = c PROVE Holders(c)' = Holders(c)
    <3>1. \A q \in Workers : connfd[q] = c <=> q = p
      BY <2>1, <2>3 DEF HeldInv
    <3>2. \A q \in Workers : connfd'[q] = c <=> q = p
      BY <2>1, <2>3, <3>1
    <3> QED
      BY <3>1, <3>2 DEF Holders
  <2> QED
    BY <2>2, <2>3
<1> DEFINE S == {c \in Conns : Holders(c)' = {}}
<1>2. holders' = [c \in Conns |-> IF c \in S THEN {} ELSE holders[c]]
  BY <1>1, HoldersAt
<1>3. S \in SUBSET Conns
  OBVIOUS
<1>4. Service!Close
  BY <1>2, <1>3, HoldersAt, Zenon DEF Service!Close, Service!Conns
<1> QED
  BY <1>4 DEF Service!Next

\* The mapping is unchanged when the workers' connections are.
LEMMA HoldersQuiet == ASSUME UNCHANGED connfd PROVE holders' = holders
<1>1. \A c \in Conns : Holders(c)' = Holders(c)
  BY DEF Holders
<1> QED
  BY <1>1, HoldersAt

\* Connect and Abort are the service's steps of those names.
LEMMA ClientImplements == ASSUME Connect \/ Abort PROVE Service!Next
<1>1. holders' = holders
  BY HoldersQuiet, Zenon DEF Connect, Abort
<1>2. CASE Connect
  <2>1. Service!Connect
    BY <1>1, <1>2 DEF Connect, Service!Connect
  <2> QED
    BY <2>1 DEF Service!Next
<1>3. CASE Abort
  <2>1. Service!Drop
    BY <1>1, <1>3, Zenon DEF Abort, Service!Drop
  <2> QED
    BY <2>1 DEF Service!Next
<1> QED
  BY <1>2, <1>3

\* accept is the service's Accept.
LEMMA AcceptImplements ==
  ASSUME IInv, HeldInv, NEW p \in Workers, Accept(p)
  PROVE  Service!Next
<1>1. PICK d \in Conns : d = Head(queue) /\ \A q \in Workers : connfd[q] # d
  BY AcceptFacts, TailFacts
<1>2. Holders(d)' = {p}
  BY <1>1, AcceptFacts DEF Holders
<1>3. ASSUME NEW c \in Conns, c # d PROVE Holders(c)' = Holders(c)
  <2>1. c # 0
    BY Types
  <2>2. \A q \in Workers : connfd'[q] = c <=> connfd[q] = c
    BY <1>1, <1>3, <2>1, AcceptFacts
  <2> QED
    BY <2>2 DEF Holders
<1>4. holders' = [holders EXCEPT ![d] = {p}]
  <2>1. [holders EXCEPT ![d] = {p}] = [c \in Conns |-> IF c = d THEN {p} ELSE holders[c]]
    BY HoldersAt
  <2> QED
    BY <1>2, <1>3, <2>1, HoldersAt
<1>5. \A c \in Conns : p \notin holders[c]
  BY AcceptFacts, Types, HoldersAt DEF Holders
<1>6. Service!Take(p)
  BY <1>1, <1>4, <1>5, AcceptFacts, HoldersAt DEF Service!Take, Service!Free, Service!Conns
<1> QED
  BY <1>6 DEF Service!Next

\* Every step is a step of the service or a stutter.
LEMMA NextImplements ==
  IInv /\ HeldInv /\ [Next]_vars => [Service!Next]_<<nconns, queue, holders>>
<1> SUFFICES ASSUME IInv, HeldInv, [Next]_vars PROVE [Service!Next]_<<nconns, queue, holders>>
  OBVIOUS
<1>1. CASE UNCHANGED vars
  BY <1>1, HoldersQuiet DEF vars
<1>2. CASE Connect \/ Abort \/ \E p \in Workers : Accept(p)
  BY <1>2, ClientImplements, AcceptImplements
<1>3. CASE Quiet
  BY <1>3, QuietFewer, FewerImplements
<1> QED
  BY <1>1, <1>2, <1>3, Zenon DEF Next, WorkerStep, Quiet

\* Init, for the composition.
LEMMA InitRefines == Init => IInv /\ HeldInv /\ Service!Init
  BY InitIInv, InitHeld, InitImplements

\* Next, for the composition.
LEMMA NextRefines ==
  IInv /\ HeldInv /\ [Next]_vars => IInv' /\ HeldInv' /\ [Service!Next]_<<nconns, queue, holders>>
  BY NextIInv, StepHeld, NextImplements

\* The workers that all accept on one socket, with or without a lock around it, take
\* each connection once and one at a time, for any number of workers.
THEOREM PreforkImplements == Spec => Implements
  BY InitRefines, NextRefines, PTL DEF Spec, Implements, Service!Spec
=============================================================================
