---------------------------- MODULE StrCliProofs ----------------------------
(***************************************************************************)
(* The other steps of the stream clients and of their servers keep the     *)
(* invariant of StrCliInputProofs.  For every program, every str_echo(),   *)
(* any number of lines and buffers of any size: what a client says by its  *)
(* way of ending is true, and every client is an echo.                     *)
(***************************************************************************)
EXTENDS StrCliInputProofs

\* The provers of a leaf that names none, in the order they are tried.
USE SMT, Zenon, Z3

\* The groups of variables and the shorthands of StrCli are read as what they stand for.
USE DEF cli, Running, Threaded, stdin, input, output, toServer, toClient, server, flags,
        client, vars

-----------------------------------------------------------------------------
(* The steps that read the socket and write to standard output.             *)

\* readline(): one piece of its buffer, or a read() that fills it.
LEMMA ReadlineKeeps == ASSUME StrIInv, Readline PROVE StrIInv'
<1>1. pc = "readline" /\ Running /\ cli.readline /\ fro = 0 /\ cli.style # "nonb"
  BY DEF StrIInv, Readline, ControlInv, ProgOK
<1>2. UNCHANGED <<prog, wpc, stdin, input, fro, shown, undrained, flags, c2s, sfin, rst, server>>
  BY DEF Readline
<1>3. ProgOK' /\ InputInv'
  BY <1>2, Zenon DEF StrIInv, ProgOK, InputInv
<1>0. /\ fr \in Seq(Nat) /\ rl \in Seq(Nat) /\ taken \in Seq(Nat) /\ shown \in Seq(Nat)
      /\ s2c \in Seq(Nat)
  BY DEF StrIInv, StrTypeOK
<1>4. CASE /\ rl # << >> /\ fr' = Append(fr, Head(rl)) /\ rl' = Tail(rl)
           /\ pc' = (IF EndOfLine(Head(rl)) THEN "fputs" ELSE pc) /\ UNCHANGED <<exit, cfin, s2c>>
  <2>1. Head(rl) \in Nat /\ Len(rl) > 0
    BY <1>0, <1>4
  <2>2. /\ fr' \in Seq(Nat) /\ Len(fr') = Len(fr) + 1 /\ rl' \in Seq(Nat)
        /\ Len(rl') = Len(rl) - 1 /\ fr'[Len(fr) + 1] = Head(rl)
        /\ \A j \in 1 .. Len(fr) : fr'[j] = fr[j]
    BY <1>0, <1>4, <2>1
  <2>3. pc' \in {"readline", "fputs"} /\ (pc' = "fputs" <=> EndOfLine(Head(rl)))
    BY <1>1, <1>4
  <2>4. FlowInv'
    <3> DEFINE k == Len(shown) - fro
    <3>1. Cut(shown, 0, taken) /\ Cut(fr, k, taken) /\ Cut(rl, k + Len(fr), taken)
          /\ Cut(s2c, AfterRl, taken)
      BY DEF StrIInv, FlowInv, AfterFr
    <3>2. k \in Nat
      BY <3>1 DEF Cut
    <3>3. Cut(fr', k, taken) /\ Cut(rl', k + Len(fr) + 1, taken)
      BY <1>0, <1>4, <3>1, CutMove
    <3>6. Len(fr') = Len(fr) + 1 /\ Len(rl') = Len(rl) - 1 /\ Len(shown)' - fro' = k
      BY <1>2, <2>2
    <3>7. Len(fr) \in Nat /\ Len(rl) \in Nat
      BY <1>0
    <3>4. AfterFr' = k + Len(fr) + 1 /\ AfterRl' = AfterRl
      <4> HIDE DEF k
      <4>1. /\ AfterFr' = k + Len(fr') /\ AfterRl' = AfterFr' + Len(rl')
            /\ AfterRl = k + Len(fr) + Len(rl)
        BY <3>6 DEF AfterFr, AfterRl, k
      <4> QED BY <3>2, <3>6, <3>7, <4>1
    <3>5. AfterS2c' = AfterS2c
      BY <1>4, <3>4 DEF AfterS2c
    <3> QED BY <1>2, <1>4, <3>1, <3>3, <3>4, <3>5, FlowFront DEF StrIInv
  <2>5. StrTypeOK'
    BY <1>2, <1>4, <2>2, <2>3 DEF StrIInv, StrTypeOK
  <2>6. fr' # << >> /\ fro' < Len(fr')
    BY <1>0, <1>1, <1>2, <2>2, SMTT(20)
  <2>7. BufferInv'
    BY <1>2, <2>6 DEF StrIInv, BufferInv
  <2>8. ControlInv'
    BY <1>1, <1>2, <1>4, <2>3, <2>6, Zenon DEF StrIInv, ControlInv
  <2>9. EndInv' /\ NothingLost' /\ PrematureIsReal'
    BY <1>1, <1>2, <1>4, Zenon DEF StrIInv, EndInv, InputRead, NothingLost, PrematureIsReal
  <2>10. LineInv'
    <3>1. SUFFICES ASSUME cli.style = "lockstep", srv = "run" PROVE LineInv'
      BY <1>2, Zenon DEF LineInv
    <3>2. /\ \A j \in Len(shown) + 1 .. Len(taken) : EndOfLine(taken[j]) <=> j = Len(taken)
          /\ \A j \in 1 .. Len(fr) : ~EndOfLine(fr[j])
      BY <1>1, <3>1 DEF StrIInv, LineInv
    <3>3. CASE pc' = "fputs"
      <4>1. EndOfLine(fr'[Len(fr')])
        BY <2>2, <2>3, <3>3
      <4> QED BY <1>2, <3>2, <3>3, <4>1 DEF LineInv
    <3>4. CASE pc' = "readline"
      <4>1. ~EndOfLine(fr'[Len(fr) + 1])
        BY <2>2, <2>3, <3>4
      <4>2. ASSUME NEW j \in 1 .. Len(fr') PROVE ~EndOfLine(fr'[j])
        <5>1. CASE j \in 1 .. Len(fr)
          BY <2>2, <3>2, <5>1
        <5>2. CASE j = Len(fr) + 1
          BY <4>1, <5>2
        <5> QED BY <1>0, <2>2, <5>1, <5>2
      <4> QED BY <1>2, <3>2, <3>4, <4>2 DEF LineInv
    <3> QED BY <2>3, <3>3, <3>4
  <2> QED BY <1>3, <2>4, <2>5, <2>7, <2>8, <2>9, <2>10 DEF StrIInv
<1>5. ASSUME rl = << >>, NEW r \in ReadSock(K), rl' = r[2], s2c' = Drop(s2c, Len(r[2])), fr' = fr,
             CASE r[1] = "data" -> UNCHANGED <<pc, exit, cfin>>
               [] r[1] = "error" -> SocketError
               [] r[1] = "eof" -> IF fr # << >> THEN pc' = "fputs" /\ UNCHANGED <<exit, cfin>>
                                  ELSE Exit(SocketEof)
      PROVE  StrIInv'
  <2>0. K \in Int
    BY Bounds
  <2>1. /\ r[2] \in Seq(Nat) /\ Len(r[2]) \in 0 .. Len(s2c)
        /\ \/ r[1] = "data" /\ Len(r[2]) > 0
           \/ r[1] = "eof" /\ r[2] = << >> /\ s2c = << >> /\ sfin
           \/ r[1] = "error" /\ r[2] = << >> /\ s2c = << >> /\ rst
    BY <1>0, <2>0, ReadSockFacts
  <2>2. r[2] = << >> => UNCHANGED <<fr, rl, s2c, output, toClient>>
    BY <1>0, <1>2, <1>5, DropNone
  <2>3. CASE r[1] = "error"
    <3>1. SocketError
      BY Zenon, <1>5, <2>3
    <3>2. r[2] = << >> /\ rst
      BY <2>1, <2>3
    <3> QED BY <1>1, <1>2, <2>2, <3>1, <3>2, ErrorKeeps, Zenon
  <2>4. CASE r[1] = "eof" /\ fr = << >>
    <3>1. Exit(SocketEof)
      BY Zenon, <1>5, <2>4
    <3>2. r[2] = << >> /\ s2c = << >> /\ sfin
      BY <2>1, <2>4
    <3> QED BY <1>1, <1>2, <1>5, <2>2, <2>4, <3>1, <3>2, EofKeeps
  <2>5. CASE r[1] = "data" \/ (r[1] = "eof" /\ fr # << >>)
    <3>1. /\ UNCHANGED <<exit, cfin>> /\ (r[1] = "data" => pc' = pc)
          /\ r[1] = "eof" => pc' = "fputs" /\ fr # << >>
      BY Zenon, <1>5, <2>5
    <3>2. FlowInv' /\ rl' \in Seq(Nat) /\ fr' \in Seq(Nat) /\ s2c' \in Seq(Nat)
      BY <1>2, <1>5, <2>0, <3>1, ReadMoves DEF StrIInv
    <3>3. pc' \in {"readline", "fputs"} /\ (pc' = "fputs" => fr # << >> /\ sfin)
      BY <1>1, <2>1, <2>5, <3>1
    <3>4. StrTypeOK'
      BY <1>2, <3>1, <3>2, <3>3 DEF StrIInv, StrTypeOK
    <3>5. BufferInv' /\ EndInv' /\ NothingLost' /\ PrematureIsReal'
      BY <1>1, <1>2, <1>5, <3>1 DEF StrIInv, BufferInv, EndInv, InputRead, NothingLost,
                                    PrematureIsReal
    <3>6. ControlInv'
      BY <1>1, <1>2, <1>5, <3>1, <3>3 DEF StrIInv, ControlInv
    <3>7. LineInv'
      <4>1. pc' = "fputs" => srv # "run"
        BY <3>3 DEF StrIInv, EndInv
      <4> QED BY <1>1, <1>2, <1>5, <3>3, <4>1 DEF StrIInv, LineInv
    <3> QED BY <1>3, <3>2, <3>4, <3>5, <3>6, <3>7 DEF StrIInv
  <2> QED BY <2>1, <2>3, <2>4, <2>5
<1> QED BY <1>4, <1>5, Zenon DEF Readline

\* read() of the socket where there is no readline().
LEMMA ReadSocketKeeps == ASSUME StrIInv, ReadSocket PROVE StrIInv'
<1> pc = "read" /\ Running /\ ~cli.readline /\ cli.style = "select"
  BY DEF StrIInv, ReadSocket, ControlInv, ProgOK
<1> rl = << >> /\ fr = << >>
  BY DEF StrIInv, ControlInv
<1> fro = 0 /\ s2c \in Seq(Nat) /\ K \in Int
  BY Bounds DEF StrIInv, BufferInv, StrTypeOK
<1> UNCHANGED <<prog, wpc, stdin, input, fro, rl, shown, undrained, flags, c2s, sfin, rst, server>>
  BY DEF ReadSocket
<1>5. PICK r \in ReadSock(K) :
        /\ fr' = r[2] /\ s2c' = Drop(s2c, Len(r[2]))
        /\ CASE r[1] = "data" -> pc' = "fputs" /\ UNCHANGED <<exit, cfin>>
             [] r[1] = "error" -> SocketError
             [] r[1] = "eof" -> Exit(SocketEof)
  BY Zenon DEF ReadSocket
<1> /\ r[2] \in Seq(Nat) /\ Len(r[2]) \in 0 .. Len(s2c)
    /\ \/ r[1] = "data" /\ Len(r[2]) > 0
       \/ r[1] = "eof" /\ r[2] = << >> /\ s2c = << >> /\ sfin
       \/ r[1] = "error" /\ r[2] = << >> /\ s2c = << >> /\ rst
  BY ReadSockFacts
<1>7. r[2] = << >> => UNCHANGED <<fr, rl, s2c, output, toClient>>
  BY <1>5, DropNone
<1>8. CASE r[1] = "error"
  <2>1. SocketError
    BY Zenon, <1>5, <1>8
  <2>2. r[2] = << >> /\ rst
    BY <1>8
  <2> QED BY <1>7, <2>1, <2>2, ErrorKeeps, Zenon
<1>9. CASE r[1] = "eof"
  <2>1. Exit(SocketEof)
    BY Zenon, <1>5, <1>9
  <2>2. r[2] = << >> /\ s2c = << >> /\ sfin
    BY <1>9, Zenon
  <2> QED BY <1>7, <2>1, <2>2, EofKeeps, Zenon
<1>10. CASE r[1] = "data"
  <2> pc' = "fputs" /\ UNCHANGED <<exit, cfin>>
    BY Zenon, <1>5, <1>10
  <2>2. Len(fr') > 0 /\ fr' # << >>
    BY <1>5, <1>10
  <2>3. fr' = fr \o r[2]
    BY <1>5
  <2>4. FlowInv' /\ rl' \in Seq(Nat) /\ fr' \in Seq(Nat) /\ s2c' \in Seq(Nat)
    BY <1>5, <2>3, ReadMoves DEF StrIInv
  <2>5. StrTypeOK'
    BY <2>4, SMTT(20) DEF StrIInv, StrTypeOK
  <2>6. BufferInv'
    BY <2>2, Zenon DEF StrIInv, BufferInv
  <2>7. ProgOK' /\ InputInv' /\ EndInv'
    BY Zenon DEF StrIInv, ProgOK, InputInv, EndInv, InputRead
  <2>8. NothingLost' /\ PrematureIsReal' /\ LineInv'
    BY Zenon DEF NothingLost, PrematureIsReal, LineInv
  <2>9. ControlInv'
    BY <2>2, Zenon DEF StrIInv, ControlInv
  <2> QED BY <2>4, <2>5, <2>6, <2>7, <2>8, <2>9, Zenon DEF StrIInv
<1> QED BY <1>8, <1>9, <1>10, Zenon

\* read() of the socket in a pass of strclinonb.c.
LEMMA NonbSockKeeps == ASSUME StrIInv, NonbSock PROVE StrIInv'
<1> pc = "pass" /\ Running /\ ~cli.readline /\ cli.style = "nonb" /\ wpc # "dead"
  BY DEF StrIInv, NonbSock, ControlInv, ProgOK
<1> rl = << >>
  BY DEF StrIInv, ControlInv
<1> s2c \in Seq(Nat) /\ fr \in Seq(Nat) /\ K - Len(fr) \in Int
  BY Bounds DEF StrIInv, StrTypeOK
<1> UNCHANGED <<prog, wpc, stdin, input, fro, rl, shown, undrained, flags, c2s, sfin, rst, server>>
  BY DEF NonbSock
<1>5. PICK r \in ReadSock(K - Len(fr)) :
        /\ fr' = fr \o r[2] /\ s2c' = Drop(s2c, Len(r[2]))
        /\ CASE r[1] = "data" -> /\ ready' = (ready \ {"sock"}) \cup {"out"}
                                 /\ UNCHANGED <<pc, exit, cfin>>
             [] r[1] = "error" -> SocketError /\ UNCHANGED ready
             [] r[1] = "eof" -> Exit(SocketEof) /\ UNCHANGED ready
  BY Zenon DEF NonbSock
<1> /\ r[2] \in Seq(Nat) /\ Len(r[2]) \in 0 .. Len(s2c)
    /\ \/ r[1] = "data" /\ Len(r[2]) > 0
       \/ r[1] = "eof" /\ r[2] = << >> /\ s2c = << >> /\ sfin
       \/ r[1] = "error" /\ r[2] = << >> /\ s2c = << >> /\ rst
  BY ReadSockFacts
<1>7. r[2] = << >> => UNCHANGED <<fr, rl, s2c, output, toClient>>
  BY <1>5, DropNone
<1>8. CASE r[1] = "error"
  <2>1. SocketError
    BY Zenon, <1>5, <1>8
  <2>2. r[2] = << >> /\ rst
    BY <1>8
  <2> QED BY <1>7, <2>1, <2>2, ErrorKeeps, Zenon
<1>9. CASE r[1] = "eof"
  <2>1. Exit(SocketEof)
    BY Zenon, <1>5, <1>9
  <2>2. r[2] = << >> /\ s2c = << >> /\ sfin
    BY <1>9, Zenon
  <2> QED BY <1>7, <2>1, <2>2, EofKeeps, Zenon
<1>10. CASE r[1] = "data"
  <2> UNCHANGED <<pc, exit, cfin>>
    BY Zenon, <1>5, <1>10
  <2>2. fr' \in Seq(Nat) /\ Len(fr') = Len(fr) + Len(r[2])
    BY <1>5, ConcatFacts
  <2>10. fro \in Nat /\ fro <= Len(fr) /\ Len(fr) \in Nat /\ fro' = fro
    BY Offsets DEF StrIInv
  <2>11. Len(r[2]) \in Nat /\ Len(r[2]) > 0
    BY <1>10
  <2>3. fro' < Len(fr')
    BY <2>2, <2>10, <2>11
  <2>4. FlowInv' /\ rl' \in Seq(Nat) /\ fr' \in Seq(Nat) /\ s2c' \in Seq(Nat)
    BY <1>5, ReadMoves, Zenon DEF StrIInv
  <2>5. StrTypeOK'
    BY <2>4, SMTT(20) DEF StrIInv, StrTypeOK
  <2>6. BufferInv'
    BY <2>3, Zenon DEF StrIInv, BufferInv
  <2>7. ProgOK' /\ InputInv' /\ EndInv'
    BY Zenon DEF StrIInv, ProgOK, InputInv, EndInv, InputRead
  <2>8. NothingLost' /\ PrematureIsReal' /\ LineInv'
    BY Zenon DEF NothingLost, PrematureIsReal, LineInv
  <2>9. ControlInv'
    BY Zenon DEF StrIInv, ControlInv
  <2> QED BY <2>4, <2>5, <2>6, <2>7, <2>8, <2>9, Zenon DEF StrIInv
<1> QED BY <1>8, <1>9, <1>10, Zenon

\* What is shown and the offset into fr grow together.
LEMMA Shift ==
  ASSUME NEW a \in Nat, NEW b \in Nat, NEW k \in Nat, NEW n \in Nat, k + b <= a, a <= k + b
  PROVE  (a + n) - (b + n) = k
OBVIOUS

\* The first n pieces that standard output takes are the next that were taken.
LEMMA ShowMoves ==
  ASSUME StrTypeOK, BufferInv, FlowInv, NEW n \in Nat, fro + n <= Len(fr),
         shown' = shown \o SubSeq(fr, fro + 1, fro + n),
         IF fro + n = Len(fr) THEN fr' = << >> /\ fro' = 0 ELSE fro' = fro + n /\ fr' = fr,
         UNCHANGED <<rl, taken, s2c, sbuf, c2s, to, too, srv, exit>>
  PROVE  /\ shown' \in Seq(Nat) /\ fr' \in Seq(Nat) /\ fro' \in Nat /\ FlowInv'
         /\ (fr' = << >> /\ fro' = 0) \/ fro' < Len(fr')
         /\ Len(shown') = Len(shown) + n
<1> DEFINE p == SubSeq(fr, fro + 1, fro + n)  k == Len(shown) - fro
<1>0. /\ shown \in Seq(Nat) /\ fr \in Seq(Nat) /\ fro \in Nat /\ taken \in Seq(Nat)
      /\ Len(shown) \in Nat /\ Len(fr) \in Nat
  <2>1. shown \in Seq(Nat) /\ fr \in Seq(Nat) /\ fro \in Nat /\ taken \in Seq(Nat)
    BY DEF StrTypeOK
  <2> QED BY <2>1, LenNat, Zenon
<1>1. /\ Cut(shown, 0, taken) /\ Cut(fr, k, taken)
      /\ Cut(rl, AfterFr, taken) /\ Cut(s2c, AfterRl, taken)
  BY DEF FlowInv
<1>2. k \in Nat /\ AfterFr = k + Len(fr) /\ k + fro = Len(shown) /\ k + Len(fr) <= Len(taken)
  BY <1>0, <1>1 DEF Cut, AfterFr
<1>10. k + fro <= Len(shown) /\ Len(shown) <= k + fro
  BY <1>0
<1>3. p \in Seq(Nat) /\ Len(p) = n
  BY <1>0, PartFacts
<1>4. Cut(p, k + fro, taken)
  BY <1>0, <1>1, CutPart, Zenon
<1>5. shown' = shown \o p
  OBVIOUS
<1> HIDE DEF p, k
<1>6. shown' \in Seq(Nat) /\ Len(shown') = Len(shown) + n
  BY <1>0, <1>3, <1>5, ConcatFacts
<1>7. Cut(shown', 0, taken)
  <2>1. 0 + Len(shown) = k + fro
    BY <1>0, <1>2
  <2> QED BY <1>0, <1>1, <1>3, <1>4, <1>5, <2>1, CutJoin, Zenon
<1>8. CASE fro + n = Len(fr)
  <2>1. fr' = << >> /\ fro' = 0 /\ Len(fr') = 0 /\ fr' \in Seq(Nat)
    BY <1>8
  <2>2. Len(shown') - fro' + Len(fr') = AfterFr
    BY <1>0, <1>2, <1>6, <1>8, <2>1
  <2>3. AfterFr' = AfterFr
    BY <2>2, Zenon DEF AfterFr
  <2>4. AfterRl' = AfterRl /\ AfterS2c' = AfterS2c
    BY <2>3 DEF AfterRl, AfterS2c
  <2>5. (Cut(fr, Len(shown) - fro, taken))'
    <3>1. Len(shown') \in 0 .. Len(taken) /\ Len(shown') - 0 = Len(shown')
      BY <1>0, <1>6, <1>7 DEF Cut
    <3> QED BY <1>0, <2>1, <3>1, CutEmpty
  <2>6. FlowInv'
    BY <1>1, <1>7, <2>3, <2>4, <2>5, FlowFront, Zenon
  <2> QED BY <1>6, <2>1, <2>6
<1>9. CASE fro + n # Len(fr)
  <2>1. fr' = fr /\ fro' = fro + n /\ fro' < Len(fr)
    BY <1>0, <1>9
  <2>8. (Len(shown) + n) - (fro + n) = k
    BY <1>0, <1>2, <1>10, Shift, Zenon
  <2>2. Len(shown') - fro' = k
    BY <1>6, <2>1, <2>8
  <2>3. AfterFr' = AfterFr
    BY <1>2, <2>1, <2>2, Zenon DEF AfterFr
  <2>4. AfterRl' = AfterRl /\ AfterS2c' = AfterS2c
    BY <2>3 DEF AfterRl, AfterS2c
  <2>5. (Cut(fr, Len(shown) - fro, taken))'
    BY <1>1, <2>1, <2>2, Zenon
  <2>6. FlowInv'
    BY <1>1, <1>7, <2>3, <2>4, <2>5, FlowFront, Zenon
  <2>7. fro' \in Nat
    BY <1>0, <2>1
  <2> QED BY <1>0, <1>6, <2>1, <2>6, <2>7
<1> QED BY <1>8, <1>9

\* One piece is a part of length one.
LEMMA OnePiece ==
  ASSUME NEW s \in Seq(Nat), NEW t \in Seq(Nat), NEW m \in Nat, m < Len(t)
  PROVE  Append(s, t[m + 1]) = s \o SubSeq(t, m + 1, m + 1)
<1>1. t[m + 1] \in Nat
  OBVIOUS
<1> DEFINE p == SubSeq(t, m + 1, m + 1)  u == s \o p  w == Append(s, t[m + 1])
<1>2. p \in Seq(Nat) /\ Len(p) = 1 /\ p[1] = t[m + 1]
  BY <1>1, PartFacts
<1> HIDE DEF p
<1>7. /\ u \in Seq(Nat) /\ Len(u) = Len(s) + Len(p) /\ \A j \in 1 .. Len(s) : u[j] = s[j]
      /\ \A j \in Len(s) + 1 .. Len(s) + Len(p) : u[j] = p[j - Len(s)]
  <2>1. p \in Seq(Nat)
    BY <1>2
  <2> QED BY <2>1
<1>8. Len(s) + 1 \in Len(s) + 1 .. Len(s) + Len(p) /\ Len(s) + 1 - Len(s) = 1
  BY <1>2
<1>3. /\ u \in Seq(Nat) /\ Len(u) = Len(s) + 1 /\ \A j \in 1 .. Len(s) : u[j] = s[j]
      /\ u[Len(s) + 1] = p[1]
  BY <1>2, <1>7, <1>8
<1>4. /\ w \in Seq(Nat) /\ Len(w) = Len(s) + 1 /\ \A j \in 1 .. Len(s) : w[j] = s[j]
      /\ w[Len(s) + 1] = t[m + 1]
  BY <1>1
<1> HIDE DEF u, w
<1>5. ASSUME NEW j \in 1 .. Len(w) PROVE w[j] = u[j]
  <2>1. CASE j \in 1 .. Len(s)
    BY <1>3, <1>4, <2>1
  <2>2. CASE j = Len(s) + 1
    BY <1>2, <1>3, <1>4, <2>2
  <2> QED BY <1>4, <2>1, <2>2
<1>6. w = u
  BY <1>3, <1>4, <1>5, SameSeq
<1> QED BY <1>6 DEF u, w, p

\* fputs(), or write() to standard output.
LEMMA FputsKeeps == ASSUME StrIInv, Fputs PROVE StrIInv'
<1>1. pc = "fputs" /\ Running /\ fr # << >> /\ cli.style # "nonb" /\ undrained < OutCap
  BY Zenon DEF StrIInv, Fputs, ControlInv, ProgOK
<1>2. UNCHANGED <<prog, wpc, stdin, input, rl, flags, exit, toServer, toClient, rst, server>>
  BY DEF Fputs
<1>0. /\ shown \in Seq(Nat) /\ fr \in Seq(Nat) /\ fro \in Nat /\ Len(fr) \in Nat
      /\ taken \in Seq(Nat)
      /\ fro < Len(fr) /\ fro + 1 <= Len(fr) /\ Len(shown) \in Nat
  <2>1. shown \in Seq(Nat) /\ fr \in Seq(Nat) /\ fro \in Nat /\ taken \in Seq(Nat)
    BY DEF StrIInv, StrTypeOK
  <2>2. Len(fr) \in Nat /\ Len(shown) \in Nat
    BY <2>1, LenNat, Zenon
  <2>3. fro < Len(fr)
    BY <1>1 DEF StrIInv, BufferInv
  <2> QED BY <2>1, <2>2, <2>3
<1>3. shown' = shown \o SubSeq(fr, fro + 1, fro + 1)
  BY <1>0, OnePiece DEF Fputs
<1>4. /\ IF fro + 1 = Len(fr) THEN fr' = << >> /\ fro' = 0 ELSE fro' = fro + 1 /\ fr' = fr
      /\ pc' = IF fro + 1 = Len(fr) THEN Continue(ready) ELSE pc
  BY DEF Fputs
<1>5. /\ shown' \in Seq(Nat) /\ fr' \in Seq(Nat) /\ fro' \in Nat /\ FlowInv'
      /\ ((fr' = << >> /\ fro' = 0) \/ fro' < Len(fr')) /\ Len(shown') = Len(shown) + 1
  BY <1>0, <1>2, <1>3, <1>4, ShowMoves, Zenon DEF StrIInv
<1>6. /\ pc' \in {"fputs", "fgets", "select", "handle", "readline"}
      /\ fro + 1 # Len(fr) => pc' = "fputs"
      /\ fro + 1 = Len(fr) => /\ cli.style = "lockstep" => pc' = "fgets"
                              /\ cli.style = "select" => pc' \in {"select", "handle"}
                              /\ Threaded => pc' = "readline"
  BY <1>1, <1>4, TopIs, Zenon DEF StrIInv, ProgOK, Continue
<1>7. undrained' \in Nat /\ undrained' <= OutCap
  <2>1. undrained \in Nat /\ OutCap \in Nat /\ undrained' = undrained + 1
    BY Bounds DEF StrIInv, StrTypeOK, Fputs
  <2> QED BY <1>1, <2>1
<1>8. StrTypeOK'
  BY <1>2, <1>5, <1>6, <1>7, SMTT(20) DEF StrIInv, StrTypeOK
<1>9. ProgOK' /\ InputInv' /\ EndInv'
  BY <1>2, Zenon DEF StrIInv, ProgOK, InputInv, EndInv, InputRead
<1>10. BufferInv'
  BY <1>2, <1>5 DEF StrIInv, BufferInv
<1>11. NothingLost' /\ PrematureIsReal'
  BY <1>1, <1>2 DEF NothingLost, PrematureIsReal
<1>12. fr' = << >> <=> fro + 1 = Len(fr)
  BY <1>1, <1>4
<1>13. ControlInv'
  <2>1. Threaded => cli.readline
    BY DEF StrIInv, ProgOK
  <2> QED BY <1>1, <1>2, <1>4, <1>6, <1>12, <2>1, Zenon DEF StrIInv, ControlInv, ProgOK
<1>14. LineInv'
  <2>1. SUFFICES ASSUME cli.style = "lockstep", srv = "run" PROVE LineInv'
    BY <1>2, Zenon DEF LineInv
  <2>2. /\ \A j \in Len(shown) + 1 .. Len(taken) : EndOfLine(taken[j]) <=> j = Len(taken)
        /\ EndOfLine(fr[Len(fr)])
    BY <1>1, <2>1, Zenon DEF StrIInv, LineInv
  <2>3. \A j \in Len(shown') + 1 .. Len(taken) : EndOfLine(taken[j]) <=> j = Len(taken)
    <3>1. ASSUME NEW j \in Len(shown') + 1 .. Len(taken)
          PROVE  EndOfLine(taken[j]) <=> j = Len(taken)
      <4>1. j \in Len(shown) + 1 .. Len(taken)
        BY <1>0, <1>5
      <4> QED BY <2>2, <4>1
    <3> QED BY <3>1
  <2>4. CASE fro + 1 = Len(fr)
    <3>1. Cut(fr, Len(shown) - fro, taken)
      BY DEF StrIInv, FlowInv
    <3>2. /\ Len(shown) - fro + Len(fr) = Len(shown) + 1 /\ Len(fr) \in 1 .. Len(fr)
          /\ Len(shown) + 1 <= Len(taken)
      <4>1. Len(fr) >= 1 /\ Len(fr) <= fro + 1 /\ fro + 1 <= Len(fr)
        BY <1>0, <2>4
      <4>2. Len(shown) - fro + Len(fr) <= Len(taken) /\ Len(taken) \in Nat
        BY <1>0, <3>1 DEF Cut
      <4>3. Len(shown) \in Nat /\ fro \in Nat /\ Len(fr) \in Nat
        BY <1>0
      <4> QED BY <4>1, <4>2, <4>3
    <3>3. fr[Len(fr)] = taken[Len(shown) + 1]
      BY <3>1, <3>2 DEF Cut
    <3>4. Len(shown) + 1 \in Len(shown) + 1 .. Len(taken)
      BY <1>0, <3>2
    <3>5. Len(shown) + 1 = Len(taken)
      BY <2>2, <3>3, <3>4
    <3>6. Len(shown') = Len(taken)
      BY <1>5, <3>5
    <3>7. pc' = "fgets"
      BY <1>6, <2>1, <2>4
    <3> QED BY <1>2, <2>3, <3>6, <3>7 DEF LineInv
  <2>5. CASE fro + 1 # Len(fr)
    <3>1. pc' = "fputs" /\ fr' = fr
      BY <1>4, <1>6, <2>5
    <3> QED BY <1>2, <2>2, <2>3, <3>1 DEF LineInv
  <2> QED BY <2>4, <2>5
<1> QED BY <1>5, <1>8, <1>9, <1>10, <1>11, <1>13, <1>14 DEF StrIInv

\* write() to standard output in strclinonb.c: what fits, or nothing.
LEMMA NonbOutKeeps == ASSUME StrIInv, NonbOut PROVE StrIInv'
<1>1. pc = "pass" /\ Running /\ cli.style = "nonb"
  BY Zenon DEF StrIInv, NonbOut, ControlInv, ProgOK
<1> UNCHANGED <<prog, pc, wpc, stdin, input, rl, flags, exit, toServer, toClient, rst, server>>
  BY DEF NonbOut
<1> DEFINE n == Min2(OutCap - undrained, Len(fr) - fro)
<1>3. /\ shown' = shown \o SubSeq(fr, fro + 1, fro + n) /\ undrained' = undrained + n
      /\ IF fro + n = Len(fr) THEN fr' = << >> /\ fro' = 0 ELSE fro' = fro + n /\ fr' = fr
  BY Zenon DEF NonbOut
<1>4. /\ undrained \in Nat /\ undrained <= OutCap /\ OutCap \in Nat
      /\ fro \in Nat /\ fro <= Len(fr) /\ Len(fr) \in Nat
  BY Bounds, Offsets, Zenon DEF StrIInv, StrTypeOK
<1>5. n \in Nat /\ fro + n <= Len(fr) /\ undrained + n <= OutCap
  BY <1>4 DEF Min2
<1> HIDE DEF n
<1>6. /\ shown' \in Seq(Nat) /\ fr' \in Seq(Nat) /\ fro' \in Nat /\ FlowInv'
      /\ (fr' = << >> /\ fro' = 0) \/ fro' < Len(fr')
  BY <1>3, <1>5, ShowMoves, Zenon DEF StrIInv
<1>7. undrained' \in Nat /\ undrained' <= OutCap
  BY <1>3, <1>4, <1>5
<1>8. StrTypeOK'
  BY <1>6, <1>7 DEF StrIInv, StrTypeOK
<1>9. ProgOK' /\ InputInv' /\ EndInv'
  BY Zenon DEF StrIInv, ProgOK, InputInv, EndInv, InputRead
<1>10. BufferInv'
  BY <1>6 DEF StrIInv, BufferInv
<1>11. NothingLost' /\ PrematureIsReal' /\ LineInv'
  BY <1>1 DEF NothingLost, PrematureIsReal, LineInv
<1>12. ControlInv'
  BY <1>1, Zenon DEF StrIInv, ControlInv
<1> QED BY <1>6, <1>8, <1>9, <1>10, <1>11, <1>12 DEF StrIInv

-----------------------------------------------------------------------------
(* The steps of the server.                                                 *)

\* str_echo() reads a buffer, or a line.
LEMMA str_echo_readKeeps == ASSUME StrIInv, str_echo_read PROVE StrIInv'
<1> srv = "run" /\ UNCHANGED <<client, cfin, toClient, rst, srv>>
  BY DEF str_echo_read
<1> sbuf \in Seq(Nat) /\ c2s \in Seq(Nat) /\ taken \in Seq(Nat) /\ Len(c2s) \in Nat /\ c2s # << >>
    /\ Len(c2s) <= C2S /\ Len(sbuf) \in Nat
  <2>1. sbuf \in Seq(Nat) /\ c2s \in Seq(Nat) /\ taken \in Seq(Nat)
    BY DEF StrIInv, StrTypeOK
  <2>2. c2s # << >> /\ Len(c2s) <= C2S
    BY DEF StrIInv, str_echo_read, BufferInv
  <2> QED BY <2>1, <2>2
<1>2. PICK n \in 1 .. (IF echo.unit = "line" THEN 1 ELSE Min2(K, Len(c2s))) :
        sbuf' = sbuf \o SubSeq(c2s, 1, n) /\ c2s' = Drop(c2s, n)
  BY Zenon DEF str_echo_read
<1> n \in 1 .. Len(c2s) /\ n \in 0 .. Len(c2s)
  BY Bounds DEF Min2
<1> DEFINE p == SubSeq(c2s, 1, n)
<1>4. p \in Seq(Nat) /\ Len(p) = n
  BY FirstFacts, Zenon
<1>5. sbuf' = sbuf \o p
  BY <1>2
<1>6. c2s' \in Seq(Nat) /\ Len(c2s') = Len(c2s) - n
  BY <1>2, DropFacts, Zenon
<1>7. ASSUME Running
      PROVE  /\ Cut(sbuf', AfterS2c, taken) /\ Cut(c2s', AfterSbuf + n, taken)
             /\ AfterSbuf \in Nat
  <2>1. Cut(sbuf, AfterS2c, taken) /\ Cut(c2s, AfterSbuf, taken)
    BY <1>7 DEF StrIInv, FlowInv
  <2>2. Cut(p, AfterSbuf, taken) /\ Cut(c2s', AfterSbuf + n, taken)
    BY <1>2, <2>1, CutFirst, CutDrop
  <2> HIDE DEF p
  <2>3. Cut(sbuf', AfterS2c, taken)
    BY <1>4, <1>5, <2>1, <2>2, CutJoin DEF AfterSbuf
  <2> QED BY <2>1, <2>2, <2>3, Zenon DEF Cut
<1> HIDE DEF p
<1>8. sbuf' \in Seq(Nat) /\ Len(sbuf') = Len(sbuf) + n
  BY <1>4, <1>5, ConcatFacts, Zenon
<1>9. sbuf' # << >>
  BY <1>8
<1> AfterFr' = AfterFr /\ AfterRl' = AfterRl /\ AfterS2c' = AfterS2c
  BY DEF AfterFr, AfterRl, AfterS2c
<1>11. FlowInv'
  <2>1. ASSUME Running
        PROVE  /\ (Cut(sbuf, AfterS2c, taken) /\ Cut(c2s, AfterSbuf, taken))'
               /\ (Cut(to, AfterC2s - too, taken) /\ Len(taken) <= AfterC2s - too + Len(to))'
    <3>1. AfterSbuf' = AfterSbuf + n
      <4>1. AfterS2c \in Nat
        BY <1>7, <2>1, Zenon DEF Cut
      <4> QED BY <1>8, <4>1 DEF AfterSbuf
    <3>2. AfterC2s' = AfterC2s
      BY <1>6, <1>7, <2>1, <3>1 DEF AfterC2s
    <3>3. Cut(to, AfterC2s - too, taken) /\ Len(taken) <= AfterC2s - too + Len(to)
      BY <2>1 DEF StrIInv, FlowInv
    <3> QED BY <1>7, <2>1, <3>1, <3>2, <3>3
  <2> QED BY <2>1, Zenon DEF StrIInv, FlowInv
<1>12. flushing' \in BOOLEAN
  BY Zenon DEF str_echo_read
<1>13. StrTypeOK'
  BY <1>6, <1>8, <1>12, SMTT(20) DEF StrIInv, StrTypeOK
<1>14. Len(c2s') <= C2S
  BY <1>6, Bounds
<1>15. BufferInv'
  BY <1>9, <1>14 DEF StrIInv, BufferInv
<1>16. ProgOK' /\ InputInv' /\ ControlInv' /\ LineInv'
  BY Zenon DEF StrIInv, ProgOK, InputInv, ControlInv, LineInv
<1>17. EndInv' /\ NothingLost' /\ PrematureIsReal'
  BY Zenon DEF StrIInv, EndInv, InputRead, NothingLost, PrematureIsReal
<1> QED BY <1>11, <1>13, <1>15, <1>16, <1>17 DEF StrIInv

\* str_echo() writes a piece back, or finds the client gone.
LEMMA str_echo_writeKeeps == ASSUME StrIInv, str_echo_write PROVE StrIInv'
<1>1. srv = "run" /\ flushing /\ sbuf' = Tail(sbuf) /\ UNCHANGED <<client, toServer, sfin, rst>>
  BY DEF str_echo_write
<1> /\ sbuf \in Seq(Nat) /\ s2c \in Seq(Nat) /\ taken \in Seq(Nat) /\ sbuf # << >>
    /\ Len(sbuf) \in Nat /\ Len(s2c) \in Nat
  <2>1. sbuf \in Seq(Nat) /\ s2c \in Seq(Nat) /\ taken \in Seq(Nat)
    BY DEF StrIInv, StrTypeOK
  <2>2. sbuf # << >>
    BY <1>1 DEF StrIInv, BufferInv
  <2> QED BY <2>1, <2>2
<1>2. sbuf' \in Seq(Nat) /\ Len(sbuf') = Len(sbuf) - 1 /\ Head(sbuf) \in Nat
  BY <1>1
<1> flushing' \in BOOLEAN /\ (flushing' => sbuf' # << >>)
  BY Zenon DEF str_echo_write
<1>4. ProgOK' /\ InputInv' /\ ControlInv'
  BY <1>1, Zenon DEF StrIInv, ProgOK, InputInv, ControlInv
<1>5. BufferInv'
  BY <1>1 DEF StrIInv, BufferInv
<1> AfterFr' = AfterFr /\ AfterRl' = AfterRl
  BY <1>1 DEF AfterFr, AfterRl
<1>7. CASE Running /\ s2c' = Append(s2c, Head(sbuf)) /\ srv' = srv
  <2> USE <1>7
  <2>1. s2c' \in Seq(Nat) /\ Len(s2c') = Len(s2c) + 1
    BY <1>2
  <2>2. /\ Cut(s2c, AfterRl, taken) /\ Cut(sbuf, AfterRl + Len(s2c), taken)
        /\ Cut(c2s, AfterSbuf, taken) /\ Cut(to, AfterC2s - too, taken)
        /\ Len(taken) <= AfterC2s - too + Len(to)
    BY <1>1, Zenon DEF StrIInv, FlowInv, AfterS2c
  <2>3. Cut(s2c', AfterRl, taken) /\ Cut(sbuf', AfterRl + Len(s2c) + 1, taken)
    BY <1>1, <2>2, CutMove, Zenon
  <2>4. AfterRl \in Nat
    BY <2>2 DEF Cut
  <2>5. AfterS2c' = AfterRl + Len(s2c) + 1
    BY <2>1, <2>4 DEF AfterS2c
  <2>6. AfterSbuf' = AfterSbuf
    BY <1>2, <2>4, <2>5 DEF AfterSbuf, AfterS2c
  <2>7. AfterC2s' = AfterC2s
    BY <1>1, <2>6 DEF AfterC2s
  <2>8. FlowInv'
    BY <1>1, <2>2, <2>3, <2>5, <2>6, <2>7, Zenon DEF StrIInv, FlowInv
  <2>9. StrTypeOK'
    BY <1>1, <1>2, <2>1 DEF StrIInv, StrTypeOK
  <2>10. EndInv' /\ NothingLost' /\ PrematureIsReal' /\ LineInv'
    BY <1>1 DEF StrIInv, EndInv, InputRead, NothingLost, PrematureIsReal, LineInv
  <2> QED BY <1>4, <1>5, <2>8, <2>9, <2>10 DEF StrIInv
<1>8. CASE ~Running /\ srv' \in {"run", "dead"} /\ UNCHANGED s2c
  <2> USE <1>8
  <2>1. FlowInv'
    BY <1>1 DEF StrIInv, FlowInv
  <2>2. StrTypeOK'
    BY <1>1, <1>2 DEF StrIInv, StrTypeOK
  <2>3. EndInv' /\ LineInv'
    BY <1>1 DEF StrIInv, EndInv, LineInv, InputRead
  <2>4. NothingLost' /\ PrematureIsReal'
    BY <1>1 DEF StrIInv, NothingLost, PrematureIsReal
  <2> QED BY <1>4, <1>5, <2>1, <2>2, <2>3, <2>4 DEF StrIInv
<1> QED BY <1>7, <1>8 DEF str_echo_write

-----------------------------------------------------------------------------
(* The steps that move no piece.                                            *)

\* str_cli() starts, or connect() fails.
LEMMA ConnectKeeps == ASSUME StrIInv, Connect PROVE StrIInv'
<1>1. ProgOK'
  BY DEF StrIInv, Connect, Exit, ProgOK
<1>2. StrTypeOK'
  <2>1. pc' \in {"connect", "fgets", "select", "readline", "exit"}
    BY TopIs DEF StrIInv, ProgOK, Connect, Exit
  <2>2. wpc' \in {wpc, "none", "fgets"} /\ exit' \in {exit, "error"} /\ cfin' \in BOOLEAN
    BY Zenon DEF StrIInv, StrTypeOK, Connect, Exit
  <2> QED BY <2>1, <2>2 DEF StrIInv, StrTypeOK, Connect
<1>3. InputInv'
  BY DEF StrIInv, Connect, Exit, InputInv
<1>4. BufferInv'
  BY DEF StrIInv, Connect, Exit, BufferInv
<1>5. FlowInv'
  BY Zenon DEF StrIInv, Connect, Exit, FlowInv, AfterFr, AfterRl, AfterS2c, AfterSbuf, AfterC2s
<1>6. ControlInv'
  <2>1. CASE pc' = "exit" /\ ~Running' /\ wpc' = wpc
    BY <2>1 DEF StrIInv, Connect, ControlInv
  <2>2. CASE UNCHANGED <<pc, wpc, exit>>
    BY <2>2 DEF StrIInv, Connect, ControlInv
  <2>3. CASE pc' = Top /\ wpc' = (IF Threaded THEN "fgets" ELSE "none") /\ exit' = exit
    <3>0. wpc = "none" /\ to = << >> /\ (cli.style # "nonb" => fr = << >>)
      BY Zenon DEF StrIInv, Connect, ControlInv, ProgOK
    <3>1. wpc = "none" /\ to = << >> /\ (cli.style # "nonb" => fr = << >> /\ fro = 0)
      BY <3>0 DEF StrIInv, BufferInv, StrTypeOK
    <3>2. pc' # "connect" /\ pc' # "fputs" /\ pc' # "read" /\ (pc' = "readline" => Threaded)
      BY <2>3, TopIs DEF StrIInv, ProgOK
    <3> QED BY <2>3, <3>1, <3>2, TopIs, Zenon DEF StrIInv, Connect, ControlInv, ProgOK
  <2> QED BY <2>1, <2>2, <2>3, Zenon DEF Connect, Exit
<1>7. EndInv'
  <2>1. UNCHANGED <<prog, stdin, input, flags, sfin, srv, rst, c2s, sbuf>>
    BY Zenon DEF Connect
  <2>2. wpc = "none"
    BY DEF StrIInv, Connect, ControlInv
  <2>3. (cfin => cfin') /\ (cfin' /\ Running' => cfin /\ Running)
    BY DEF Connect, Exit
  <2> QED BY <2>1, <2>2, <2>3 DEF StrIInv, EndInv, InputRead
<1>8. LineInv'
  BY TopIs, Zenon DEF StrIInv, Connect, Exit, LineInv, ControlInv, ProgOK
<1>9. NothingLost'
  BY DEF StrIInv, Connect, Exit, NothingLost
<1>10. PrematureIsReal'
  BY DEF StrIInv, Connect, Exit, PrematureIsReal
<1> QED BY <1>1, <1>2, <1>3, <1>4, <1>5, <1>6, <1>7, <1>8, <1>9, <1>10 DEF StrIInv

\* One step of a loop over the ready descriptors that moves no piece.
LEMMA LoopKeeps ==
  ASSUME StrIInv, Running,
         \/ cli.style = "select" /\ pc \in {"select", "handle"}
            /\ (pc' = "handle" \/ pc' = IF cli.readline THEN "readline" ELSE "read")
         \/ cli.style = "nonb" /\ pc \in {"select", "pass"} /\ pc' \in {"select", "pass"},
         UNCHANGED <<prog, wpc, stdin, input, output, flags, exit, toServer, toClient, rst,
                     server>>
  PROVE  StrIInv'
<1>1. ProgOK' /\ InputInv' /\ BufferInv' /\ NothingLost' /\ PrematureIsReal'
  BY Zenon DEF StrIInv, ProgOK, InputInv, BufferInv, NothingLost, PrematureIsReal
<1>2. StrTypeOK'
  BY DEF StrIInv, StrTypeOK
<1>3. FlowInv'
  BY Zenon DEF StrIInv, FlowInv, AfterFr, AfterRl, AfterS2c, AfterSbuf, AfterC2s
<1>4. ControlInv'
  <2>1. CASE /\ cli.style = "select" /\ pc \in {"select", "handle"}
             /\ pc' = "handle" \/ pc' = IF cli.readline THEN "readline" ELSE "read"
    <3>1. to = << >> /\ fr = << >> /\ wpc = "none"
      BY <2>1 DEF StrIInv, ControlInv, ProgOK
    <3>2. fro = 0
      BY <3>1 DEF StrIInv, BufferInv, StrTypeOK
    <3> QED BY <2>1, <3>1, <3>2 DEF StrIInv, ControlInv
  <2>2. CASE cli.style = "nonb" /\ pc \in {"select", "pass"} /\ pc' \in {"select", "pass"}
    BY <2>2, Zenon DEF StrIInv, ControlInv
  <2> QED BY <2>1, <2>2, Zenon
<1>5. EndInv' /\ LineInv'
  BY Zenon DEF StrIInv, EndInv, InputRead, LineInv
<1> QED BY <1>1, <1>2, <1>3, <1>4, <1>5 DEF StrIInv

\* select() returns, the socket is found readable, or a pass is over.
LEMMA SelectKeeps ==
  ASSUME StrIInv, Select \/ SockReady \/ NonbSelect \/ NonbAgain PROVE StrIInv'
<1>1. CASE Select
  BY <1>1, LoopKeeps DEF Select
<1>2. CASE SockReady
  <2>1. cli.style = "select"
    BY <1>2, Zenon DEF SockReady, StrIInv, ControlInv, ProgOK
  <2> QED BY <1>2, <2>1, LoopKeeps DEF SockReady
<1>3. CASE NonbSelect
  BY <1>3, LoopKeeps, Zenon DEF NonbSelect
<1>4. CASE NonbAgain
  <2>1. cli.style = "nonb"
    BY <1>4, Zenon DEF NonbAgain, StrIInv, ControlInv, ProgOK
  <2> QED BY <1>4, <2>1, LoopKeeps DEF NonbAgain
<1> QED BY <1>1, <1>2, <1>3, <1>4

\* SIGALRM ends tcpcli07.
LEMMA sig_alrmKeeps == ASSUME StrIInv, sig_alrm PROVE StrIInv'
<1>1. NothingLost' /\ PrematureIsReal'
  BY DEF sig_alrm, Exit, NothingLost, PrematureIsReal
<1> QED BY <1>1, ExitKeeps DEF sig_alrm

\* copyto() sets done.
LEMMA CopyToDoneKeeps == ASSUME StrIInv, CopyToDone PROVE StrIInv'
<1>1. ProgOK' /\ InputInv' /\ BufferInv' /\ NothingLost' /\ PrematureIsReal'
  BY Zenon DEF StrIInv, CopyToDone, ProgOK, InputInv, BufferInv, NothingLost, PrematureIsReal
<1>2. StrTypeOK'
  BY DEF StrIInv, CopyToDone, StrTypeOK
<1>3. FlowInv'
  BY DEF StrIInv, CopyToDone, FlowInv, AfterFr, AfterRl, AfterS2c, AfterSbuf, AfterC2s
<1>4. ControlInv' /\ LineInv'
  BY Zenon DEF StrIInv, CopyToDone, ControlInv, LineInv
<1>5. EndInv'
  BY Zenon DEF StrIInv, CopyToDone, EndInv, InputRead, StrTypeOK, ControlInv
<1> QED BY <1>1, <1>2, <1>3, <1>4, <1>5 DEF StrIInv

\* A line, or the end of file, is typed.
LEMMA TypeKeeps == ASSUME StrIInv, Type PROVE StrIInv'
<1>1. ProgOK' /\ InputInv' /\ BufferInv' /\ NothingLost' /\ PrematureIsReal'
  BY Zenon DEF StrIInv, Type, ProgOK, InputInv, BufferInv, NothingLost, PrematureIsReal
<1>2. StrTypeOK'
  <2>1. CASE typed' = typed + 1 /\ eofin' = eofin
    BY <2>1 DEF StrIInv, StrTypeOK, Type
  <2>2. CASE typed' = typed /\ eofin' = TRUE
    BY <2>2 DEF StrIInv, StrTypeOK, Type
  <2> QED BY <2>1, <2>2, Zenon DEF Type
<1>3. FlowInv'
  BY Zenon DEF StrIInv, Type, FlowInv, AfterFr, AfterRl, AfterS2c, AfterSbuf, AfterC2s
<1>4. ControlInv' /\ LineInv'
  BY Zenon DEF StrIInv, Type, ControlInv, LineInv
<1>5. EndInv'
  BY Zenon DEF StrIInv, Type, EndInv, InputRead, StrTypeOK, ControlInv
<1> QED BY <1>1, <1>2, <1>3, <1>4, <1>5 DEF StrIInv

\* Whoever reads standard output takes a piece.
LEMMA DrainKeeps == ASSUME StrIInv, Drain PROVE StrIInv'
<1>1. ProgOK' /\ InputInv' /\ BufferInv' /\ NothingLost' /\ PrematureIsReal'
  BY Zenon DEF StrIInv, Drain, ProgOK, InputInv, BufferInv, NothingLost, PrematureIsReal
<1>2. StrTypeOK'
  BY Bounds DEF StrIInv, Drain, StrTypeOK
<1>3. FlowInv'
  BY DEF StrIInv, Drain, FlowInv, AfterFr, AfterRl, AfterS2c, AfterSbuf, AfterC2s
<1>4. ControlInv' /\ LineInv'
  BY Zenon DEF StrIInv, Drain, ControlInv, LineInv
<1>5. EndInv'
  BY Zenon DEF StrIInv, Drain, EndInv, InputRead, StrTypeOK, ControlInv
<1> QED BY <1>1, <1>2, <1>3, <1>4, <1>5 DEF StrIInv

\* The server is killed.
LEMMA KilledKeeps == ASSUME StrIInv, Killed PROVE StrIInv'
<1>0. BufferInv'
  BY Bounds DEF StrIInv, Killed, BufferInv
<1>1. ProgOK' /\ InputInv' /\ NothingLost' /\ PrematureIsReal'
  BY Zenon DEF StrIInv, Killed, ProgOK, InputInv, NothingLost, PrematureIsReal
<1>2. StrTypeOK'
  <2>1. srv' = "dead" /\ sfin' = TRUE /\ sbuf' = << >> /\ flushing' = FALSE /\ c2s' = << >>
    BY DEF Killed
  <2>2. rst' \in BOOLEAN
    BY Zenon DEF Killed
  <2>3. UNCHANGED <<client, cfin, s2c>>
    BY DEF Killed
  <2>4. sbuf' \in Seq(Nat) /\ c2s' \in Seq(Nat)
    BY <2>1
  <2>5. sfin' \in BOOLEAN /\ flushing' \in BOOLEAN /\ srv' \in {"run", "done", "dead"}
    BY <2>1, Zenon
  <2> QED BY <2>2, <2>3, <2>4, <2>5 DEF StrIInv, StrTypeOK
<1>3. FlowInv'
  BY DEF StrIInv, Killed, FlowInv, AfterFr, AfterRl, AfterS2c, AfterSbuf, AfterC2s
<1>4. ControlInv' /\ LineInv'
  BY Zenon DEF StrIInv, Killed, ControlInv, LineInv
<1>5. EndInv'
  BY Zenon DEF StrIInv, Killed, EndInv, InputRead, StrTypeOK, ControlInv
<1> QED BY <1>0, <1>1, <1>2, <1>3, <1>4, <1>5 DEF StrIInv

\* str_echo() reads the FIN.
LEMMA str_echo_eofKeeps == ASSUME StrIInv, str_echo_eof PROVE StrIInv'
<1>1. ProgOK' /\ InputInv' /\ BufferInv' /\ NothingLost' /\ PrematureIsReal'
  BY Zenon DEF StrIInv, str_echo_eof, ProgOK, InputInv, BufferInv, NothingLost, PrematureIsReal
<1>2. StrTypeOK'
  <2>1. srv' \in {"run", "done", "dead"} /\ sfin' \in BOOLEAN /\ flushing' \in BOOLEAN
    BY Zenon DEF StrIInv, StrTypeOK, str_echo_eof
  <2> QED BY <2>1 DEF StrIInv, StrTypeOK, str_echo_eof
<1>3. FlowInv'
  BY DEF StrIInv, str_echo_eof, FlowInv, AfterFr, AfterRl, AfterS2c, AfterSbuf, AfterC2s
<1>4. ControlInv' /\ LineInv'
  BY Zenon DEF StrIInv, str_echo_eof, ControlInv, LineInv
<1>5. EndInv'
  BY Zenon DEF StrIInv, str_echo_eof, EndInv, InputRead, StrTypeOK, ControlInv
<1> QED BY <1>1, <1>2, <1>3, <1>4, <1>5 DEF StrIInv

-----------------------------------------------------------------------------
(* All steps together.                                                      *)

\* A client that uses select() and nothing else out of the ordinary.
LEMMA SelectOK == ASSUME prog.cli = StrCliOf("select") PROVE ProgOK
<1>1. cli.style = "select" /\ cli.halves = FALSE /\ cli.file = FALSE
  BY DEF StrCliOf
<1>2. ~Threaded
  BY <1>1
<1> QED BY <1>1, <1>2 DEF ProgOK

\* Every program is one of those that the invariant describes.
LEMMA ProgramsOK == ASSUME prog \in Programs PROVE ProgOK
<1>1. \/ prog.cli = str_cli \/ prog.cli = str_cli08 \/ prog.cli = str_cli09
      \/ prog.cli = str_cli11 \/ prog.cli = strcliselect01 \/ prog.cli = strcliselect02
      \/ prog.cli = strclifork \/ prog.cli = strclinonb \/ prog.cli = str_cli_select02
      \/ prog.cli = str_cli_poll03 \/ prog.cli = strcliselect02_oob
      \/ prog.cli = strclithread \/ prog.cli = strclithread2
      \/ \E b \in BOOLEAN : prog.cli = str_cli_kqueue04(b) \/ prog.cli = loop_tcp(b)
  <2>1. tcpcli04.cli = str_cli /\ tcpcli07.cli = str_cli
    BY DEF tcpcli04, tcpcli07, Main
  <2>2. CASE \E b \in BOOLEAN : prog = advio_tcpcli04(b) \/ prog = Main(loop_tcp(b))
    BY <2>2 DEF advio_tcpcli04, Main
  <2>3. CASE prog \in {tcpcliserv_tcpcli01, tcpcli04, tcpcli05, tcpcli07, tcpcli08, tcpcli09,
                       tcpcli10, tcpcli11, select_tcpcli01, select_tcpcli02}
    BY <2>1, <2>3 DEF Main, tcpcliserv_tcpcli01, tcpcli05, tcpcli08, tcpcli09, tcpcli10,
       tcpcli11, select_tcpcli01, select_tcpcli02
  <2>4. CASE prog \in {nonblock_tcpcli01, nonblock_tcpcli02, nonblock_tcpcli04, advio_tcpcli01,
                       advio_tcpcli02, advio_tcpcli03, oob_tcpcli02, threads_tcpcli01,
                       threads_tcpcli02, unixstrcli01}
    BY <2>4 DEF Main, nonblock_tcpcli01, nonblock_tcpcli02, nonblock_tcpcli04, advio_tcpcli01,
       advio_tcpcli02, advio_tcpcli03, oob_tcpcli02, threads_tcpcli01, threads_tcpcli02,
       unixstrcli01
  <2> QED BY Zenon, <2>2, <2>3, <2>4 DEF Programs
<1> USE DEF ProgOK
<1>2. CASE prog.cli = str_cli
  BY <1>2 DEF StrCliOf, str_cli
<1>3. CASE prog.cli = str_cli08
  BY <1>3 DEF StrCliOf, str_cli, str_cli08
<1>4. CASE prog.cli = str_cli09
  BY <1>4 DEF StrCliOf, str_cli, str_cli09
<1>5. CASE prog.cli = str_cli11
  BY <1>5 DEF StrCliOf, str_cli, str_cli11
<1>6. CASE prog.cli = strcliselect01
  BY <1>6 DEF StrCliOf, strcliselect01
<1>7. CASE prog.cli = strcliselect02
  BY <1>7 DEF StrCliOf, strcliselect02
<1>8. CASE prog.cli = strclifork
  BY <1>8 DEF StrCliOf, strclifork
<1>9. CASE prog.cli = strclinonb
  BY <1>9 DEF StrCliOf, strclinonb
<1>10. CASE prog.cli = str_cli_select02
  BY <1>10, SelectOK, Zenon DEF str_cli_select02
<1>11. CASE prog.cli = str_cli_poll03
  BY <1>11 DEF StrCliOf, strcliselect02, str_cli_poll03
<1>12. CASE prog.cli = strcliselect02_oob
  BY <1>12, SelectOK, Zenon DEF strcliselect02_oob
<1>13. CASE prog.cli = strclithread
  BY <1>13 DEF StrCliOf, strclithread
<1>14. CASE prog.cli = strclithread2
  BY <1>14 DEF StrCliOf, strclithread2
<1>15. ASSUME NEW b \in BOOLEAN, prog.cli = str_cli_kqueue04(b) PROVE ProgOK
  BY <1>15 DEF StrCliOf, strcliselect02, str_cli_kqueue04
<1>16. ASSUME NEW b \in BOOLEAN, prog.cli = loop_tcp(b) PROVE ProgOK
  BY <1>16 DEF StrCliOf, strcliselect02, loop_tcp
<1> QED BY <1>1, <1>2, <1>3, <1>4, <1>5, <1>6, <1>7, <1>8, <1>9, <1>10, <1>11, <1>12,
          <1>13, <1>14, <1>15, <1>16, Zenon

\* The client before it has connected.
LEMMA StrInit == ASSUME Init PROVE StrIInv
<1>1. ProgOK
  BY ProgramsOK DEF Init
<1>2. eofin \in BOOLEAN /\ typed \in Nat
  BY <1>1, BoundsAssumption DEF Init, ProgOK
<1>3. StrTypeOK
  <2>1. << >> \in Seq(Nat)
    OBVIOUS
  <2>2. /\ sio \in Seq(Nat) /\ to \in Seq(Nat) /\ fr \in Seq(Nat) /\ rl \in Seq(Nat)
        /\ c2s \in Seq(Nat) /\ s2c \in Seq(Nat) /\ sbuf \in Seq(Nat)
        /\ taken \in Seq(Nat) /\ shown \in Seq(Nat)
    BY <2>1 DEF Init
  <2>3. /\ stdineof \in BOOLEAN /\ done \in BOOLEAN /\ flushing \in BOOLEAN
        /\ cfin \in BOOLEAN /\ sfin \in BOOLEAN /\ rst \in BOOLEAN
    BY Zenon DEF Init
  <2>4. /\ pc = "connect" /\ wpc = "none" /\ srv = "run" /\ exit = "none"
        /\ nread = 0 /\ too = 0 /\ fro = 0 /\ undrained = 0 /\ undrained <= OutCap
    BY Bounds DEF Init
  <2> QED BY <1>2, <2>2, <2>3, <2>4 DEF StrTypeOK
<1>4. InputInv /\ BufferInv
  BY Bounds DEF Init, InputInv, BufferInv
<1>5. FlowInv
  <2>1. Cut(<< >>, 0, << >>)
    BY DEF Cut
  <2>2. AfterFr = 0 /\ AfterRl = 0 /\ AfterS2c = 0 /\ AfterSbuf = 0 /\ AfterC2s = 0
    BY DEF Init, AfterFr, AfterRl, AfterS2c, AfterSbuf, AfterC2s
  <2> QED BY <2>1, <2>2 DEF Init, FlowInv
<1>6. ControlInv /\ EndInv /\ LineInv
  BY DEF Init, ControlInv, EndInv, LineInv
<1>7. NothingLost /\ PrematureIsReal
  BY DEF Init, NothingLost, PrematureIsReal
<1> QED BY <1>1, <1>3, <1>4, <1>5, <1>6, <1>7 DEF StrIInv

\* Every step of the client, of its server and of the world keeps the invariant.
LEMMA StrStep == ASSUME StrIInv, Next PROVE StrIInv'
BY ConnectKeeps, FgetsLineKeeps, WriteKeeps, ReadlineKeeps, ReadSocketKeeps, FputsKeeps,
   SelectKeeps, StdinReadyKeeps, NonbStdinKeeps, NonbSockKeeps,
   NonbOutKeeps, NonbWriteKeeps, CopyToFgetsKeeps, CopyToWriteKeeps,
   CopyToDoneKeeps, str_echo_readKeeps, str_echo_writeKeeps, str_echo_eofKeeps, sig_alrmKeeps,
   KilledKeeps, TypeKeeps, DrainKeeps
   DEF Next, Reader, Writer, Server

\* Nothing is accepted and nothing comes out: the client ends, or seen from
\* outside nothing happens.
LEMMA SilentStep ==
  ASSUME UNCHANGED <<taken, shown>>, ~Running => ~Running'
  PROVE  [Pipe!Next]_(Pipe!pipevars)
BY DEF Pipe!Next, Pipe!End, Pipe!pipevars

\* What comes out is the next that was accepted.
LEMMA ShowStep ==
  ASSUME StrIInv, StrIInv', Running, Running', taken' = taken, Len(shown') >= Len(shown)
  PROVE  [Pipe!Next]_(Pipe!pipevars)
<1> shown \in Seq(Nat) /\ shown' \in Seq(Nat) /\ taken \in Seq(Nat)
  BY DEF StrIInv, StrTypeOK
<1>2. Cut(shown, 0, taken) /\ Cut(shown', 0, taken)
  BY DEF StrIInv, FlowInv
<1>3. /\ Len(shown) \in Nat /\ Len(shown') \in Nat /\ Len(shown') <= Len(taken)
      /\ \A j \in 1 .. Len(shown) : shown[j] = taken[j]
      /\ \A j \in 1 .. Len(shown') : shown'[j] = taken[j]
  BY <1>2 DEF Cut
<1>4. CASE Len(shown') = Len(shown)
  <2>1. shown' = shown
    <3>1. \A j \in 1 .. Len(shown') : shown'[j] = shown[j]
      BY <1>3, <1>4
    <3> QED BY <1>4, <3>1, SameSeq
  <2> QED BY <2>1, SilentStep
<1>5. CASE Len(shown') # Len(shown)
  <2> DEFINE n == Len(shown')
  <2>1. n \in Len(shown) + 1 .. Len(taken) /\ n \in 0 .. Len(taken)
    BY <1>3, <1>5
  <2>2. SubSeq(taken, 1, n) \in Seq(Nat) /\ Len(SubSeq(taken, 1, n)) = n
        /\ \A j \in 1 .. n : SubSeq(taken, 1, n)[j] = taken[j]
    BY <2>1, FirstFacts
  <2>3. shown' = SubSeq(taken, 1, n)
    <3> DEFINE u == SubSeq(taken, 1, n)
    <3>1. Len(shown') = Len(u) /\ \A j \in 1 .. Len(shown') : shown'[j] = u[j]
      BY <1>3, <2>2
    <3> HIDE DEF u
    <3>2. u \in Seq(Nat)
      BY <2>2 DEF u
    <3>3. shown' = u
      BY <3>1, <3>2, SameSeq
    <3> QED BY <3>3 DEF u
  <2>4. Pipe!Show
    BY <2>1, <2>3, Zenon DEF Pipe!Show
  <2> QED BY <2>4 DEF Pipe!Next
<1> QED BY <1>4, <1>5

\* What is accepted follows what was accepted, in the order it was typed.
LEMMA TakeStep ==
  ASSUME StrIInv, StrIInv', Running, NEW u \in Seq(Nat), u # << >>, taken' = taken \o u,
         UNCHANGED <<shown, exit>>
  PROVE  [Pipe!Next]_(Pipe!pipevars)
<1>1. taken \in Seq(Nat) /\ \A j \in 2 .. Len(taken') : taken'[j - 1] < taken'[j]
  BY Zenon DEF StrIInv, StrTypeOK, InputInv
<1>2. Len(taken') = Len(taken) + Len(u) /\ taken' \in Seq(Nat)
  BY <1>1, ConcatFacts
<1>3. Len(u) > 0 /\ Len(u) \in Nat /\ Len(taken) \in Nat
  BY <1>1
<1>4. Len(taken') > Len(taken) /\ Len(taken) \in 0 .. Len(taken')
  BY <1>2, <1>3
<1>5. SubSeq(taken', 1, Len(taken)) = taken
  <2> DEFINE w == SubSeq(taken', 1, Len(taken))
  <2>1. w \in Seq(Nat) /\ Len(w) = Len(taken) /\ \A j \in 1 .. Len(taken) : w[j] = taken'[j]
    BY <1>2, <1>4, FirstFacts
  <2>2. \A j \in 1 .. Len(taken) : taken'[j] = taken[j]
    BY <1>1
  <2> HIDE DEF w
  <2>3. Len(w) = Len(taken) /\ \A j \in 1 .. Len(w) : w[j] = taken[j]
    BY <2>1, <2>2
  <2>4. w = taken
    BY <1>1, <2>1, <2>3, SameSeq
  <2> QED BY <2>4 DEF w
<1>6. Pipe!Take
  BY <1>1, <1>4, <1>5 DEF Pipe!Take
<1> QED BY <1>6 DEF Pipe!Next

\* fgets() accepts what it returns,
LEMMA FgetsStep ==
  ASSUME StrIInv, StrIInv', Running, NEW next, NEW skip, Fgets(next, skip),
         UNCHANGED <<shown, exit>>
  PROVE  [Pipe!Next]_(Pipe!pipevars)
<1>1. PICK b \in StdioBuffers :
        \/ taken' = taken \o Pieces(Head(b))
        \/ UNCHANGED taken
  BY DEF Fgets
<1>2. Head(b) = nread - Len(sio) + 1 /\ Head(b) \in Nat
  BY BufferFacts DEF StrIInv
<1>3. Len(sio) <= nread /\ Len(sio) \in Nat /\ nread \in Nat
  BY DEF StrIInv, InputInv, StrTypeOK
<1>4. Head(b) > 0
  <2>1. nread - Len(sio) >= 0
    BY <1>3
  <2> QED BY <1>2, <1>3, <2>1
<1>5. Pieces(Head(b)) \in Seq(Nat) /\ Len(Pieces(Head(b))) > 0
  BY <1>2, <1>4, PiecesFacts
<1>6. Pieces(Head(b)) # << >>
  BY <1>5
<1> QED BY <1>1, <1>5, <1>6, TakeStep, SilentStep

\* and so does read().
LEMMA ReadStep ==
  ASSUME StrIInv, StrIInv', Running, NEW limit, Read(limit), UNCHANGED <<shown, exit>>
  PROVE  [Pipe!Next]_(Pipe!pipevars)
<1>1. PICK b \in NextLines : taken' = taken \o [j \in 1 .. Len(b) |-> 2 * b[j]]
  BY DEF Read
<1> b \in Seq(Nat) /\ Len(b) \in 1 .. typed - nread
  BY LinesFacts DEF StrIInv
<1> DEFINE u == [j \in 1 .. Len(b) |-> 2 * b[j]]
<1>3. u \in Seq(Nat) /\ u # << >>
  <2>1. \A j \in 1 .. Len(b) : 2 * b[j] \in Nat
    OBVIOUS
  <2>2. u \in Seq(Nat) /\ Len(u) = Len(b)
    BY <2>1
  <2> QED BY <2>2
<1> QED BY <1>1, <1>3, TakeStep, Zenon

\* Every step is a step of EchoPipe, or none.
LEMMA StrRefines == ASSUME StrIInv, Next PROVE [Pipe!Next]_(Pipe!pipevars)
<1>0. StrIInv'
  BY StrStep
<1>1. CASE FgetsLine
  <2> USE <1>1
  <2>1. CASE Fgets(pc' = "write", UNCHANGED pc) /\ UNCHANGED exit
    BY <1>0, <2>1, FgetsStep DEF FgetsLine
  <2>2. CASE Exit("normal") /\ UNCHANGED input
    BY <2>2, SilentStep DEF FgetsLine, Exit
  <2> QED BY <2>1, <2>2 DEF FgetsLine
<1>2. CASE StdinReady
  <2> USE <1>2
  <2>1. CASE (IF cli.stdio THEN Fgets(TRUE, FALSE) ELSE Read(K)) /\ UNCHANGED exit
    BY <1>0, <2>1, FgetsStep, ReadStep, Zenon DEF StdinReady
  <2>2. CASE UNCHANGED input
    BY <2>2, SilentStep, Zenon DEF StdinReady
  <2> QED BY <2>1, <2>2, Zenon DEF StdinReady
<1>3. CASE NonbStdin
  <2> USE <1>3
  <2>1. CASE Read(K - Len(to))
    BY <1>0, <2>1, ReadStep DEF NonbStdin
  <2>2. CASE UNCHANGED input
    BY <2>2, SilentStep DEF NonbStdin
  <2> QED BY <2>1, <2>2 DEF NonbStdin
<1>4. CASE CopyToFgets
  <2> USE <1>4
  <2>1. CASE Fgets(wpc' = "write", FALSE)
    BY <1>0, <2>1, FgetsStep, Zenon DEF CopyToFgets
  <2>2. CASE UNCHANGED input
    BY <2>2, SilentStep DEF CopyToFgets
  <2> QED BY <2>1, <2>2, Zenon DEF CopyToFgets
<1>5. CASE Fputs
  <2>1. shown \in Seq(Nat) /\ shown' = Append(shown, fr[fro + 1])
    BY <1>5 DEF Fputs, StrIInv, StrTypeOK
  <2>2. Len(shown') >= Len(shown)
    BY <2>1
  <2> QED BY <1>0, <1>5, <2>2, ShowStep DEF Fputs
<1>6. CASE NonbOut
  <2>1. PICK n : shown' = shown \o SubSeq(fr, fro + 1, fro + n)
    BY <1>6, Zenon DEF NonbOut
  <2>2. Len(shown') >= Len(shown)
    <3>1. shown \in Seq(Nat) /\ fr \in Seq(Nat) /\ shown' \in Seq(Nat)
      BY <1>0 DEF StrIInv, StrTypeOK
    <3> QED BY <2>1, <3>1
  <2> QED BY <1>0, <1>6, <2>2, ShowStep, Zenon DEF NonbOut
<1>7. CASE Connect \/ Write \/ Readline \/ ReadSocket
  BY <1>7, SilentStep, Zenon DEF Connect, Write, Readline, ReadSocket
<1>8. CASE Select \/ SockReady \/ NonbSelect \/ NonbSock \/ NonbWrite \/ NonbAgain
  BY <1>8, SilentStep, Zenon DEF Select, SockReady, NonbSelect, NonbSock, NonbWrite, NonbAgain
<1>9. CASE CopyToWrite \/ CopyToDone \/ Server
  BY <1>9, SilentStep, Zenon DEF CopyToWrite, CopyToDone, Server, str_echo_read,
     str_echo_write, str_echo_eof
<1>10. CASE sig_alrm \/ Killed \/ Type \/ Drain
  BY <1>10, SilentStep, Zenon DEF sig_alrm, Exit, Killed, Type, Drain
<1> QED BY <1>1, <1>2, <1>3, <1>4, <1>5, <1>6, <1>7, <1>8, <1>9, <1>10 DEF Next, Reader, Writer

-----------------------------------------------------------------------------
(* The theorems.                                                            *)

\* Nothing happens to the clients.
LEMMA StrSame == ASSUME StrIInv, UNCHANGED vars PROVE StrIInv'
<1>1. StrTypeOK'
  BY DEF StrIInv, StrTypeOK
<1>6. ProgOK'
  BY DEF StrIInv, ProgOK
<1>2. InputInv' /\ BufferInv'
  BY DEF StrIInv, InputInv, BufferInv
<1>3. FlowInv'
  BY Zenon DEF StrIInv, FlowInv, Cut, AfterFr, AfterRl, AfterS2c, AfterSbuf, AfterC2s
<1>4. EndInv' /\ LineInv'
  BY DEF StrIInv, EndInv, InputRead, LineInv
<1>7. ControlInv'
  BY DEF StrIInv, ControlInv
<1>5. NothingLost' /\ PrematureIsReal'
  BY Zenon DEF StrIInv, NothingLost, PrematureIsReal
<1> QED BY <1>1, <1>2, <1>3, <1>4, <1>5, <1>6, <1>7 DEF StrIInv

\* The invariant always holds.
LEMMA StrInvariant == StrSpec => []StrIInv
<1>1. Init => StrIInv
  BY StrInit
<1>2. StrIInv /\ [Next]_vars => StrIInv'
  BY StrStep, StrSame
<1> QED BY <1>1, <1>2, PTL DEF StrSpec

\* A client that ends normally has shown all that it accepted, and has accepted
\* all that was typed, whatever its style (select/strcliselect02.c:27,
\* nonblock/strclinonb.c:58); and none says that its server terminated while it
\* is there, but for the race that is named (threads/strclithread2.c:37).
THEOREM ExitsAreTrue == StrSpec => []ExitIsTrue
<1>1. StrIInv => ExitIsTrue
  BY DEF StrIInv, ExitIsTrue
<1> QED BY <1>1, StrInvariant, PTL

\* Every client is an echo: it implements EchoPipe.
THEOREM EveryClientEchoes == StrSpec => Implements
<1>1. Init => Pipe!Init
  BY DEF Init, Pipe!Init
<1>2. StrIInv /\ [Next]_vars => [Pipe!Next]_(Pipe!pipevars)
  <2>1. ASSUME StrIInv, UNCHANGED vars PROVE [Pipe!Next]_(Pipe!pipevars)
    BY <2>1, SilentStep
  <2> QED BY <2>1, StrRefines
<1> QED BY <1>1, <1>2, StrInvariant, PTL DEF StrSpec, Implements, Pipe!Spec
=============================================================================
