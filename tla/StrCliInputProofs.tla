------------------------- MODULE StrCliInputProofs -------------------------
(***************************************************************************)
(* The inductive invariant of the stream clients (StrCli), the ways in     *)
(* which pieces move through their buffers, and the steps from standard    *)
(* input to the socket.                                                    *)
(***************************************************************************)
EXTENDS StrCli, Integers, TLAPS

\* The provers of a leaf that names none, in the order they are tried.
USE SMT, Zenon, Z3

\* What the argument uses of the programs.
ProgOK ==
  /\ cli.style \in {"lockstep", "select", "nonb", "fork", "thread"}
  /\ cli.halves => cli.style = "lockstep"
  /\ cli.style = "lockstep" => cli.stdio /\ cli.readline
  /\ cli.style = "nonb" => ~cli.stdio /\ ~cli.readline
  /\ Threaded => cli.stdio /\ cli.readline
  /\ cli.file => cli.style = "select" /\ ~cli.stdio
  /\ cli.file \in BOOLEAN /\ cli.halves \in BOOLEAN
  /\ Threaded /\ cli.quits => cli.style = "thread" /\ cli.flag

\* The types of the variables.
StrTypeOK ==
  /\ pc \in {"connect", "fgets", "write", "readline", "fputs", "select", "handle", "read",
             "pass", "dead", "exit"}
  /\ wpc \in {"none", "fgets", "write", "pause", "flag", "end", "dead"}
  /\ typed \in Nat /\ nread \in Nat /\ nread <= typed /\ eofin \in BOOLEAN
  /\ sio \in Seq(Nat) /\ to \in Seq(Nat) /\ fr \in Seq(Nat) /\ rl \in Seq(Nat)
  /\ c2s \in Seq(Nat) /\ s2c \in Seq(Nat) /\ sbuf \in Seq(Nat)
  /\ taken \in Seq(Nat) /\ shown \in Seq(Nat)
  /\ too \in Nat /\ fro \in Nat /\ undrained \in Nat /\ undrained <= OutCap
  /\ stdineof \in BOOLEAN /\ done \in BOOLEAN /\ flushing \in BOOLEAN
  /\ cfin \in BOOLEAN /\ sfin \in BOOLEAN /\ rst \in BOOLEAN
  /\ srv \in {"run", "done", "dead"}
  /\ exit \in {"none", "normal", "error", "killed", "premature", "alarm"}

\* Lines come from standard input in order, each once: those in the stdio buffer
\* are the last ones read, and the pieces accepted are of lines read before them.
InputInv ==
  /\ Len(sio) <= nread /\ \A j \in 1 .. Len(sio) : sio[j] = nread - Len(sio) + j
  /\ ~cli.stdio => sio = << >>
  /\ cli.file => eofin
  /\ \A j \in 1 .. Len(taken) : taken[j] <= 2 * (nread - Len(sio))
  /\ \A j \in 2 .. Len(taken) : taken[j - 1] < taken[j]

\* An offset into a buffer is below its end, or both are reset.
BufferInv ==
  /\ (to = << >> /\ too = 0) \/ too < Len(to)
  /\ (fr = << >> /\ fro = 0) \/ fro < Len(fr)
  /\ flushing => sbuf # << >>
  /\ Len(c2s) <= C2S

\* s is what lies in t after its first k pieces.
Cut(s, k, t) ==
  /\ k \in Nat /\ k + Len(s) <= Len(t)
  /\ \A j \in 1 .. Len(s) : s[j] = t[k + j]

\* Where the pieces in each buffer begin among those accepted, from standard
\* output back to standard input.
AfterFr == Len(shown) - fro + Len(fr)
AfterRl == AfterFr + Len(rl)
AfterS2c == AfterRl + Len(s2c)
AfterSbuf == AfterS2c + Len(sbuf)
AfterC2s == AfterSbuf + Len(c2s)

\* What is shown, and what lies in each buffer on the way, is a part of what was
\* accepted; and while both processes live the parts follow one another and leave
\* nothing out.
FlowInv ==
  /\ Cut(shown, 0, taken) /\ Cut(fr, Len(shown) - fro, taken)
  /\ Cut(rl, AfterFr, taken) /\ Cut(s2c, AfterRl, taken)
  /\ Running /\ srv # "dead" =>
       /\ Cut(sbuf, AfterS2c, taken) /\ Cut(c2s, AfterSbuf, taken)
       /\ Cut(to, AfterC2s - too, taken) /\ Len(taken) <= AfterC2s - too + Len(to)

\* Everything typed has been read.
InputRead == eofin /\ nread = typed /\ sio = << >>

\* Where each kind of client can be, and with which buffers in use.
ControlInv ==
  /\ Running /\ cli.style = "lockstep" =>
       pc \in {"connect", "fgets", "write", "readline", "fputs"}
  /\ Running /\ cli.style = "select" =>
       pc \in {"connect", "select", "handle", "write", "readline", "read", "fputs"}
  /\ Running /\ cli.style = "nonb" => pc \in {"connect", "select", "pass"}
  /\ Running /\ Threaded => pc \in {"connect", "readline", "fputs", "dead"}
  /\ Running /\ to # << >> =>
       \/ cli.style \in {"lockstep", "select"} /\ pc = "write"
       \/ cli.style = "nonb" /\ pc \in {"select", "pass"}
       \/ Threaded /\ wpc \in {"write", "dead"}
  /\ Running /\ fr # << >> => cli.style = "nonb" \/ pc \in {"readline", "fputs", "dead"}
  /\ pc = "readline" => fro = 0
  /\ pc = "fputs" => fr # << >>
  /\ rl # << >> \/ pc = "readline" => cli.readline
  /\ pc = "read" => ~cli.readline
  /\ ~Threaded \/ pc = "connect" => wpc = "none"

\* Who has sent a FIN, and what had been done by then.
EndInv ==
  /\ stdineof => InputRead
  /\ cfin /\ Running =>
       /\ InputRead /\ to = << >> /\ cli.style # "lockstep"
       /\ stdineof \/ done \/ wpc = "flag" \/ ~cli.quits
  /\ sfin => srv # "run"
  /\ srv = "done" => cfin /\ c2s = << >> /\ sbuf = << >>
  /\ rst => srv = "dead"

\* A client in lockstep has at most one line under way.
LineInv ==
  cli.style = "lockstep" /\ Running /\ srv = "run" =>
    /\ \A j \in Len(shown) + 1 .. Len(taken) : EndOfLine(taken[j]) <=> j = Len(taken)
    /\ pc \in {"connect", "fgets"} => Len(shown) = Len(taken)
    /\ pc = "readline" => \A j \in 1 .. Len(fr) : ~EndOfLine(fr[j])
    /\ pc = "fputs" => EndOfLine(fr[Len(fr)])

\* The inductive invariant.
StrIInv ==
  /\ ProgOK /\ StrTypeOK /\ InputInv /\ BufferInv /\ FlowInv /\ ControlInv /\ EndInv
  /\ LineInv /\ NothingLost /\ PrematureIsReal

-----------------------------------------------------------------------------
(* Sequences, and the parts of one that lie in the buffers on the way.      *)

\* What is left of a buffer when its first n pieces are gone.
LEMMA DropFacts ==
  ASSUME NEW s \in Seq(Nat), NEW n \in 0 .. Len(s)
  PROVE  /\ Drop(s, n) \in Seq(Nat) /\ Len(Drop(s, n)) = Len(s) - n
         /\ \A j \in 1 .. Len(s) - n : Drop(s, n)[j] = s[n + j]
BY DEF Drop

\* The length of a buffer.
LEMMA LenNat ==
  ASSUME NEW s \in Seq(Nat)
  PROVE  Len(s) \in Nat
OBVIOUS

\* Two buffers one after the other.
LEMMA ConcatFacts ==
  ASSUME NEW s \in Seq(Nat), NEW t \in Seq(Nat)
  PROVE  s \o t \in Seq(Nat) /\ Len(s \o t) = Len(s) + Len(t)
OBVIOUS

\* The n pieces of a buffer that follow the first m.
LEMMA PartFacts ==
  ASSUME NEW s \in Seq(Nat), NEW m \in Nat, NEW n \in Nat, m + n <= Len(s)
  PROVE  /\ SubSeq(s, m + 1, m + n) \in Seq(Nat) /\ Len(SubSeq(s, m + 1, m + n)) = n
         /\ \A j \in 1 .. n : SubSeq(s, m + 1, m + n)[j] = s[m + j]
OBVIOUS

\* The first n pieces of a buffer.
LEMMA FirstFacts ==
  ASSUME NEW s \in Seq(Nat), NEW n \in 0 .. Len(s)
  PROVE  /\ SubSeq(s, 1, n) \in Seq(Nat) /\ Len(SubSeq(s, 1, n)) = n
         /\ \A j \in 1 .. n : SubSeq(s, 1, n)[j] = s[j]
OBVIOUS

\* An empty buffer lies anywhere.
LEMMA CutEmpty ==
  ASSUME NEW t \in Seq(Nat), NEW k \in 0 .. Len(t)
  PROVE  Cut(<< >>, k, t)
BY DEF Cut

\* More is read from standard input.
LEMMA CutGrow ==
  ASSUME NEW s \in Seq(Nat), NEW t \in Seq(Nat), NEW u \in Seq(Nat), NEW k, Cut(s, k, t)
  PROVE  Cut(s, k, t \o u)
BY DEF Cut

\* What was just read follows all that was read before.
LEMMA CutEnd ==
  ASSUME NEW t \in Seq(Nat), NEW u \in Seq(Nat)
  PROVE  Cut(u, Len(t), t \o u)
<1> DEFINE w == t \o u
<1>1. /\ w \in Seq(Nat) /\ Len(w) = Len(t) + Len(u)
      /\ \A j \in Len(t) + 1 .. Len(t) + Len(u) : w[j] = u[j - Len(t)]
  OBVIOUS
<1> HIDE DEF w
<1>2. ASSUME NEW j \in 1 .. Len(u) PROVE u[j] = w[Len(t) + j]
  <2>1. Len(t) + j \in Len(t) + 1 .. Len(t) + Len(u) /\ (Len(t) + j) - Len(t) = j
    OBVIOUS
  <2> QED BY <1>1, <2>1, Zenon
<1>3. Cut(u, Len(t), w)
  BY <1>1, <1>2 DEF Cut
<1> QED BY <1>3 DEF w

\* A buffer is written or read in part.
LEMMA CutDrop ==
  ASSUME NEW s \in Seq(Nat), NEW t \in Seq(Nat), NEW k, Cut(s, k, t), NEW n \in 0 .. Len(s)
  PROVE  Cut(Drop(s, n), k + n, t)
<1>1. Len(Drop(s, n)) = Len(s) - n /\ \A j \in 1 .. Len(s) - n : Drop(s, n)[j] = s[n + j]
  BY DropFacts
<1>2. ASSUME NEW j \in 1 .. Len(s) - n PROVE s[n + j] = t[k + n + j]
  <2>1. n + j \in 1 .. Len(s) /\ k + (n + j) = k + n + j
    BY DEF Cut
  <2> QED BY <2>1 DEF Cut
<1> QED BY <1>1, <1>2 DEF Cut

\* Any part of a part,
LEMMA CutPart ==
  ASSUME NEW s \in Seq(Nat), NEW t \in Seq(Nat), NEW k, Cut(s, k, t),
         NEW m \in Nat, NEW n \in Nat, m + n <= Len(s)
  PROVE  Cut(SubSeq(s, m + 1, m + n), k + m, t)
<1> DEFINE p == SubSeq(s, m + 1, m + n)
<1>1. Len(p) = n /\ \A j \in 1 .. n : p[j] = s[m + j]
  BY PartFacts
<1>2. k \in Nat /\ k + m \in Nat /\ k + m + n <= Len(t)
  BY DEF Cut
<1> HIDE DEF p
<1>3. ASSUME NEW j \in 1 .. Len(p) PROVE p[j] = t[k + m + j]
  <2>1. m + j \in 1 .. Len(s) /\ k + (m + j) = k + m + j
    BY <1>1, <1>2
  <2>2. s[m + j] = t[k + (m + j)]
    BY <2>1 DEF Cut
  <2> QED BY <1>1, <2>1, <2>2, Zenon
<1>4. Cut(p, k + m, t)
  BY <1>1, <1>2, <1>3 DEF Cut
<1> QED BY <1>4 DEF p

\* and its first pieces.
LEMMA CutFirst ==
  ASSUME NEW s \in Seq(Nat), NEW t \in Seq(Nat), NEW k, Cut(s, k, t), NEW n \in 0 .. Len(s)
  PROVE  Cut(SubSeq(s, 1, n), k, t)
<1>1. Len(SubSeq(s, 1, n)) = n /\ \A j \in 1 .. n : SubSeq(s, 1, n)[j] = s[j]
  BY FirstFacts
<1> QED BY <1>1 DEF Cut

\* What follows a buffer is added to it.
LEMMA CutJoin ==
  ASSUME NEW s \in Seq(Nat), NEW u \in Seq(Nat), NEW t \in Seq(Nat), NEW k,
         Cut(s, k, t), Cut(u, k + Len(s), t)
  PROVE  Cut(s \o u, k, t)
<1> DEFINE w == s \o u
<1>1. /\ w \in Seq(Nat) /\ Len(w) = Len(s) + Len(u) /\ \A j \in 1 .. Len(s) : w[j] = s[j]
      /\ \A j \in Len(s) + 1 .. Len(s) + Len(u) : w[j] = u[j - Len(s)]
  OBVIOUS
<1> HIDE DEF w
<1>2. k \in Nat /\ Len(s) \in Nat /\ Len(u) \in Nat /\ k + (Len(s) + Len(u)) <= Len(t)
  BY DEF Cut
<1>3. ASSUME NEW j \in 1 .. Len(s) + Len(u) PROVE w[j] = t[k + j]
  <2>1. CASE j <= Len(s)
    <3>1. j \in 1 .. Len(s)
      BY <1>2, <2>1
    <3> QED BY <1>1, <3>1, Zenon DEF Cut
  <2>2. CASE j > Len(s)
    <3>1. /\ j \in Len(s) + 1 .. Len(s) + Len(u) /\ j - Len(s) \in 1 .. Len(u)
          /\ k + Len(s) + (j - Len(s)) = k + j
      BY <1>2, <2>2
    <3>2. u[j - Len(s)] = t[k + j]
      BY <3>1, Zenon DEF Cut
    <3> QED BY <1>1, <3>1, <3>2, Zenon
  <2> QED BY <1>2, <2>1, <2>2
<1>4. Cut(w, k, t)
  BY <1>1, <1>2, <1>3 DEF Cut
<1> QED BY <1>4 DEF w

\* One piece moves from a buffer to the one before it.
LEMMA CutMove ==
  ASSUME NEW s \in Seq(Nat), NEW u \in Seq(Nat), NEW t \in Seq(Nat), NEW k,
         Cut(s, k, t), Cut(u, k + Len(s), t), u # << >>
  PROVE  Cut(Append(s, Head(u)), k, t) /\ Cut(Tail(u), k + Len(s) + 1, t)
<1> DEFINE a == Append(s, Head(u))  b == Tail(u)
<1>1. /\ a \in Seq(Nat) /\ Len(a) = Len(s) + 1 /\ a[Len(s) + 1] = u[1]
      /\ \A j \in 1 .. Len(s) : a[j] = s[j]
  OBVIOUS
<1>2. b \in Seq(Nat) /\ Len(b) = Len(u) - 1 /\ \A j \in 1 .. Len(u) - 1 : b[j] = u[j + 1]
  OBVIOUS
<1>3. ASSUME NEW j \in 1 .. Len(u) - 1 PROVE u[j + 1] = t[k + Len(s) + 1 + j]
  <2>1. j + 1 \in 1 .. Len(u) /\ k + Len(s) + (j + 1) = k + Len(s) + 1 + j
    BY DEF Cut
  <2> QED BY <2>1 DEF Cut
<1> Len(u) > 0
  OBVIOUS
<1>5. u[1] = t[k + (Len(s) + 1)]
  BY DEF Cut
<1> HIDE DEF a, b
<1>6. Cut(a, k, t)
  <2>1. k \in Nat /\ k + Len(a) <= Len(t)
    BY <1>1 DEF Cut
  <2>2. ASSUME NEW j \in 1 .. Len(a) PROVE a[j] = t[k + j]
    <3>1. CASE j = Len(s) + 1
      BY <1>1, <1>5, <3>1
    <3>2. CASE j \in 1 .. Len(s)
      BY <1>1, <3>2, Zenon DEF Cut
    <3> QED BY <1>1, <3>1, <3>2
  <2> QED BY <2>1, <2>2 DEF Cut
<1>7. Cut(b, k + Len(s) + 1, t)
  BY <1>2, <1>3 DEF Cut
<1> QED BY <1>6, <1>7 DEF a, b

\* Two sequences with the same length and the same elements are the same.
LEMMA SameSeq ==
  ASSUME NEW s \in Seq(Nat), NEW t \in Seq(Nat), Len(s) = Len(t),
         \A j \in 1 .. Len(s) : s[j] = t[j]
  PROVE  s = t
OBVIOUS

\* Nothing is appended.
LEMMA ConcatNone == ASSUME NEW s \in Seq(Nat) PROVE s \o << >> = s
<1>1. s \o << >> \in Seq(Nat) /\ Len(s \o << >>) = Len(s)
  OBVIOUS
<1>2. \A j \in 1 .. Len(s \o << >>) : (s \o << >>)[j] = s[j]
  OBVIOUS
<1> QED BY <1>1, <1>2, SameSeq, Zenon

-----------------------------------------------------------------------------
(* What the program reads.                                                  *)

USE DEF cli, Running, Threaded, stdin, input, output, toServer, toClient, server, flags,
        client, vars

\* The limits are numbers.
LEMMA Bounds == K \in Nat /\ C2S \in Nat /\ S2C \in Nat /\ OutCap \in Nat /\ K > 0
BY BoundsAssumption

\* What is left in the two buffers of the client.
LEMMA Offsets ==
  ASSUME StrTypeOK, BufferInv
  PROVE  /\ to \in Seq(Nat) /\ too \in Nat /\ too <= Len(to) /\ Len(to) \in Nat
         /\ fr \in Seq(Nat) /\ fro \in Nat /\ fro <= Len(fr) /\ Len(fr) \in Nat
         /\ fr # << >> => fro < Len(fr) /\ fro + 1 <= Len(fr)
<1>1. to \in Seq(Nat) /\ too \in Nat /\ fr \in Seq(Nat) /\ fro \in Nat
  BY DEF StrTypeOK
<1> QED BY <1>1 DEF BufferInv

\* Where str_cli() starts.
LEMMA TopIs ==
  /\ cli.style = "lockstep" => Top = "fgets"
  /\ cli.style \in {"select", "nonb"} => Top = "select"
  /\ Threaded => Top = "readline"
BY Zenon DEF Top

\* What one read() of standard input returns: the lines that follow.
LEMMA LinesFacts ==
  ASSUME StrTypeOK, NEW b \in NextLines
  PROVE  /\ b \in Seq(Nat) /\ Len(b) \in 1 .. typed - nread
         /\ \A j \in 1 .. Len(b) : b[j] = nread + j
<1>1. PICK n \in 1 .. Min2(K, typed - nread) : b = [j \in 1 .. n |-> nread + j]
  BY DEF NextLines
<1>2. n \in Nat /\ n >= 1 /\ n <= typed - nread
  <2>1. typed - nread \in Nat /\ K \in Nat
    BY Bounds DEF StrTypeOK
  <2> QED BY <2>1 DEF Min2
<1>3. b \in Seq(Nat) /\ Len(b) = n
  BY <1>1, <1>2 DEF StrTypeOK
<1> QED BY <1>1, <1>2, <1>3 DEF StrTypeOK

\* What fgets() finds: the lines that follow those it has returned.
LEMMA BufferFacts ==
  ASSUME StrTypeOK, InputInv, NEW b \in StdioBuffers,
         NEW n, n = nread + (IF sio = << >> THEN Len(b) ELSE 0)
  PROVE  /\ b \in Seq(Nat) /\ b # << >> /\ n \in Nat /\ n <= typed
         /\ Head(b) = nread - Len(sio) + 1 /\ Head(b) \in Nat
         /\ Tail(b) \in Seq(Nat) /\ Len(Tail(b)) <= n /\ n - Len(Tail(b)) = Head(b)
         /\ \A j \in 1 .. Len(Tail(b)) : Tail(b)[j] = n - Len(Tail(b)) + j
<1>1. CASE sio = << >>
  <2>1. /\ b \in Seq(Nat) /\ Len(b) \in 1 .. typed - nread
        /\ \A j \in 1 .. Len(b) : b[j] = nread + j
    BY <1>1, LinesFacts DEF StdioBuffers
  <2>2. b # << >> /\ Head(b) = nread + 1 /\ Len(Tail(b)) = Len(b) - 1
    BY <2>1
  <2>3. n = nread + Len(b) /\ Len(sio) = 0
    BY <1>1
  <2>4. typed \in Nat /\ nread \in Nat
    BY DEF StrTypeOK
  <2>5. ASSUME NEW j \in 1 .. Len(Tail(b)) PROVE Tail(b)[j] = n - Len(Tail(b)) + j
    <3>1. j + 1 \in 1 .. Len(b) /\ Tail(b)[j] = b[j + 1]
      BY <2>1, <2>2
    <3>2. b[j + 1] = nread + (j + 1)
      BY <2>1, <3>1
    <3> QED BY <2>1, <2>2, <2>3, <2>4, <3>1, <3>2
  <2>6. Tail(b) \in Seq(Nat)
    BY <2>1, <2>2
  <2> QED BY <2>1, <2>2, <2>3, <2>4, <2>5, <2>6
<1>2. CASE sio # << >>
  <2>1. b = sio /\ n = nread
    BY <1>2 DEF StdioBuffers, StrTypeOK
  <2>2. /\ sio \in Seq(Nat) /\ nread \in Nat /\ nread <= typed /\ Len(sio) <= nread
        /\ \A j \in 1 .. Len(sio) : sio[j] = nread - Len(sio) + j
    BY DEF StrTypeOK, InputInv
  <2>3. /\ Len(sio) \in Nat /\ Len(sio) >= 1 /\ Head(sio) = sio[1]
        /\ Tail(sio) \in Seq(Nat) /\ Len(Tail(sio)) = Len(sio) - 1
    BY <1>2, <2>2
  <2>4. Head(sio) = nread - Len(sio) + 1
    BY <2>2, <2>3
  <2>5. ASSUME NEW j \in 1 .. Len(Tail(sio)) PROVE Tail(sio)[j] = nread - Len(Tail(sio)) + j
    <3>1. j + 1 \in 1 .. Len(sio) /\ Tail(sio)[j] = sio[j + 1]
      BY <2>2, <2>3
    <3>2. sio[j + 1] = nread - Len(sio) + (j + 1)
      BY <2>2, <3>1
    <3> QED BY <2>2, <2>3, <3>1, <3>2
  <2> QED BY <1>2, <2>1, <2>2, <2>3, <2>4, <2>5
<1> QED BY <1>1, <1>2

\* The pieces of a line are new, in order, and only the last one ends the line.
LEMMA PiecesFacts ==
  ASSUME NEW h \in Nat, h > 0
  PROVE  /\ Pieces(h) \in Seq(Nat) /\ Len(Pieces(h)) > 0
         /\ \A j \in 1 .. Len(Pieces(h)) : /\ Pieces(h)[j] > 2 * (h - 1) /\ Pieces(h)[j] <= 2 * h
                                           /\ EndOfLine(Pieces(h)[j]) <=> j = Len(Pieces(h))
         /\ \A j \in 2 .. Len(Pieces(h)) : Pieces(h)[j - 1] < Pieces(h)[j]
<1>1. CASE cli.halves
  <2>1. Pieces(h) = <<2 * h - 1, 2 * h>> /\ 2 * h - 1 \in Nat /\ 2 * h \in Nat
    BY <1>1 DEF Pieces
  <2>2. (2 * h) % 2 = 0 /\ (2 * h - 1) % 2 = 1
    OBVIOUS
  <2> QED BY <2>1, <2>2 DEF EndOfLine
<1>2. CASE ~cli.halves
  <2>1. Pieces(h) = <<2 * h>> /\ 2 * h \in Nat
    BY <1>2 DEF Pieces
  <2>2. (2 * h) % 2 = 0
    OBVIOUS
  <2> QED BY <2>1, <2>2 DEF EndOfLine
<1> QED BY <1>1, <1>2

\* Pieces that are new and in order are added to those taken.
LEMMA TakenGrows ==
  ASSUME NEW t \in Seq(Nat), NEW u \in Seq(Nat), NEW m \in Nat, NEW n \in Nat, m <= n,
         \A j \in 1 .. Len(t) : t[j] <= m, \A j \in 2 .. Len(t) : t[j - 1] < t[j],
         \A j \in 1 .. Len(u) : u[j] > m /\ u[j] <= n, \A j \in 2 .. Len(u) : u[j - 1] < u[j]
  PROVE  /\ t \o u \in Seq(Nat) /\ Len(t \o u) = Len(t) + Len(u)
         /\ \A j \in 1 .. Len(t \o u) : (t \o u)[j] <= n
         /\ \A j \in 2 .. Len(t \o u) : (t \o u)[j - 1] < (t \o u)[j]
<1> DEFINE w == t \o u
<1>1. /\ w \in Seq(Nat) /\ Len(w) = Len(t) + Len(u)
      /\ \A j \in 1 .. Len(t) : w[j] = t[j]
      /\ \A j \in Len(t) + 1 .. Len(t) + Len(u) : w[j] = u[j - Len(t)]
  OBVIOUS
<1> HIDE DEF w
<1>2. ASSUME NEW j \in 1 .. Len(w) PROVE w[j] <= n
  <2>1. CASE j <= Len(t)
    <3>1. j \in 1 .. Len(t)
      BY <2>1
    <3>2. w[j] = t[j] /\ t[j] \in Nat /\ t[j] <= m
      BY <1>1, <3>1
    <3> QED BY <3>2
  <2>2. CASE j > Len(t)
    <3>1. j - Len(t) \in 1 .. Len(u) /\ w[j] = u[j - Len(t)]
      BY <1>1, <2>2
    <3> QED BY <3>1
  <2> QED BY <1>1, <2>1, <2>2
<1>3. ASSUME NEW j \in 2 .. Len(w) PROVE w[j - 1] < w[j]
  <2>1. CASE j <= Len(t)
    <3>1. j \in 2 .. Len(t) /\ j \in 1 .. Len(t) /\ j - 1 \in 1 .. Len(t)
      BY <2>1
    <3>2. w[j - 1] = t[j - 1] /\ w[j] = t[j]
      BY <1>1, <3>1, Zenon
    <3> QED BY <3>1, <3>2
  <2>2. CASE j = Len(t) + 1
    <3> j - 1 \in 1 .. Len(t) /\ 1 \in 1 .. Len(u) /\ j - Len(t) = 1
      BY <1>1, <2>2
    <3>1. w[j - 1] = t[j - 1] /\ w[j] = u[j - Len(t)]
      <4>1. j \in Len(t) + 1 .. Len(t) + Len(u)
        BY <1>1, <2>2
      <4> QED BY <1>1, <4>1, Zenon
    <3>2. t[j - 1] \in Nat /\ u[1] \in Nat /\ t[j - 1] <= m /\ u[1] > m
      OBVIOUS
    <3> QED BY <3>1, <3>2
  <2>3. CASE j > Len(t) + 1
    <3> DEFINE i == j - Len(t)
    <3>1. i \in 2 .. Len(u) /\ (j - 1) - Len(t) = i - 1
      BY <1>1, <2>3
    <3>2. j \in Len(t) + 1 .. Len(t) + Len(u) /\ j - 1 \in Len(t) + 1 .. Len(t) + Len(u)
      BY <1>1, <2>3
    <3>3. w[j - 1] = u[(j - 1) - Len(t)] /\ w[j] = u[i]
      BY <1>1, <3>2, Zenon
    <3> QED BY <3>1, <3>3
  <2> QED BY <1>1, <2>1, <2>2, <2>3
<1> QED BY <1>1, <1>2, <1>3 DEF w

\* What read() of the socket returns.
LEMMA ReadSockFacts ==
  ASSUME s2c \in Seq(Nat), NEW limit \in Int, NEW r \in ReadSock(limit)
  PROVE  /\ r[2] \in Seq(Nat) /\ Len(r[2]) \in 0 .. Len(s2c)
         /\ r[2] = SubSeq(s2c, 1, Len(r[2]))
         /\ \/ r[1] = "data" /\ Len(r[2]) > 0
            \/ r[1] = "eof" /\ r[2] = << >> /\ s2c = << >> /\ sfin
            \/ r[1] = "error" /\ r[2] = << >> /\ s2c = << >> /\ rst
<1>1. CASE \E n \in 1 .. Min2(limit, Len(s2c)) : r = <<"data", SubSeq(s2c, 1, n)>>
  <2>1. PICK n \in 1 .. Min2(limit, Len(s2c)) : r = <<"data", SubSeq(s2c, 1, n)>>
    BY <1>1
  <2>2. n \in 1 .. Len(s2c)
    BY DEF Min2
  <2>3. SubSeq(s2c, 1, n) \in Seq(Nat) /\ Len(SubSeq(s2c, 1, n)) = n
    BY <2>2, FirstFacts
  <2>4. r[1] = "data" /\ r[2] = SubSeq(s2c, 1, n)
    BY <2>1
  <2> QED BY <2>2, <2>3, <2>4
<1>2. CASE r = <<"eof", << >> >> /\ s2c = << >> /\ sfin
  BY <1>2
<1>3. CASE r = <<"error", << >> >> /\ s2c = << >> /\ rst
  BY <1>3
<1> QED BY <1>1, <1>2, <1>3 DEF ReadSock

-----------------------------------------------------------------------------
(* The ways in which pieces move.                                           *)

\* The pieces that flow, and who holds them.
pipeline == <<fr, fro, rl, shown, s2c, sbuf, c2s>>

\* Pieces are accepted: they are added to those still to be written.
LEMMA FlowTakes ==
  ASSUME StrTypeOK, BufferInv, FlowInv, NEW new \in Seq(Nat),
         taken' = taken \o new, to' = to \o new, UNCHANGED <<too, pipeline, srv, exit>>
  PROVE  FlowInv' /\ taken' \in Seq(Nat) /\ to' \in Seq(Nat)
<1> /\ taken \in Seq(Nat) /\ to \in Seq(Nat) /\ fr \in Seq(Nat) /\ rl \in Seq(Nat)
    /\ shown \in Seq(Nat) /\ s2c \in Seq(Nat) /\ sbuf \in Seq(Nat) /\ c2s \in Seq(Nat)
    /\ too \in Nat /\ fro \in Nat
  BY DEF StrTypeOK
<1>1. taken' \in Seq(Nat) /\ to' \in Seq(Nat) /\ Len(taken') = Len(taken) + Len(new)
      /\ Len(to') = Len(to) + Len(new)
  BY ConcatFacts
<1>2. /\ (Cut(shown, 0, taken) /\ Cut(fr, Len(shown) - fro, taken))'
      /\ (Cut(rl, AfterFr, taken) /\ Cut(s2c, AfterRl, taken))'
  BY CutGrow DEF FlowInv, pipeline, AfterFr, AfterRl
<1>3. ASSUME Running, srv # "dead"
      PROVE  /\ (Cut(sbuf, AfterS2c, taken) /\ Cut(c2s, AfterSbuf, taken))'
             /\ (Cut(to, AfterC2s - too, taken) /\ Len(taken) <= AfterC2s - too + Len(to))'
  <2>1. /\ Cut(sbuf, AfterS2c, taken) /\ Cut(c2s, AfterSbuf, taken)
        /\ Cut(to, AfterC2s - too, taken) /\ Len(taken) <= AfterC2s - too + Len(to)
    BY <1>3 DEF FlowInv
  <2>2. (Cut(sbuf, AfterS2c, taken) /\ Cut(c2s, AfterSbuf, taken))'
    BY <2>1, CutGrow DEF pipeline, AfterFr, AfterRl, AfterS2c, AfterSbuf
  <2> DEFINE k == AfterC2s - too
  <2> k \in Nat /\ k + Len(to) <= Len(taken) /\ Len(taken) <= k + Len(to)
    BY <2>1 DEF Cut
  <2>8. (AfterC2s - too)' = k
    BY DEF pipeline, AfterFr, AfterRl, AfterS2c, AfterSbuf, AfterC2s
  <2>4. Cut(to, k, taken')
    BY <2>1, CutGrow
  <2>5. Cut(new, k + Len(to), taken')
    <3>1. k + Len(to) = Len(taken)
      OBVIOUS
    <3> QED BY <3>1, CutEnd
  <2>6. Cut(to', k, taken')
    BY <1>1, <2>4, <2>5, CutJoin, Zenon
  <2>7. Len(taken') <= k + Len(to')
    BY <1>1
  <2> QED BY <2>2, <2>6, <2>7, <2>8
<1> QED BY <1>1, <1>2, <1>3 DEF FlowInv

\* fgets() returns a line; it is to be written, or it is skipped.
LEMMA FgetsTakes ==
  ASSUME StrTypeOK, InputInv, BufferInv, FlowInv, cli.stdio, to = << >>,
         NEW b \in StdioBuffers, nread' = nread + (IF sio = << >> THEN Len(b) ELSE 0),
         sio' = Tail(b),
         \/ to' = Pieces(Head(b)) /\ taken' = taken \o Pieces(Head(b))
         \/ UNCHANGED <<to, taken>>,
         UNCHANGED <<too, prog, typed, eofin, pipeline, srv, exit>>
  PROVE  /\ sio' \in Seq(Nat) /\ nread' \in Nat /\ nread' <= typed
         /\ to' \in Seq(Nat) /\ taken' \in Seq(Nat) /\ InputInv' /\ FlowInv'
         /\ too = 0 /\ ~InputRead
<1> DEFINE h == Head(b)
<1>1. /\ b \in Seq(Nat) /\ b # << >> /\ nread' \in Nat /\ nread' <= typed
      /\ h = nread - Len(sio) + 1 /\ h \in Nat
      /\ sio' \in Seq(Nat) /\ Len(sio') <= nread' /\ nread' - Len(sio') = h
      /\ \A j \in 1 .. Len(sio') : sio'[j] = nread' - Len(sio') + j
  BY BufferFacts
<1> Len(sio) <= nread /\ nread \in Nat /\ typed \in Nat /\ Len(sio) \in Nat
    /\ taken \in Seq(Nat) /\ to \in Seq(Nat) /\ too = 0
  BY DEF InputInv, StrTypeOK, BufferInv
<1> /\ h \in Nat /\ h > 0 /\ 2 * (nread - Len(sio)) = 2 * (h - 1)
    /\ 2 * (h - 1) \in Nat /\ 2 * h \in Nat
  BY <1>1
<1>4. ~InputRead
  <2>1. SUFFICES ASSUME InputRead PROVE FALSE
    OBVIOUS
  <2>2. b \in NextLines /\ typed - nread = 0
    BY <2>1 DEF InputRead, StdioBuffers
  <2> QED BY <2>2, LinesFacts
<1>5. /\ \A j \in 1 .. Len(taken) : taken[j] <= 2 * (h - 1)
      /\ \A j \in 2 .. Len(taken) : taken[j - 1] < taken[j]
  BY DEF InputInv
<1> HIDE DEF h
<1>6. CASE to' = Pieces(h) /\ taken' = taken \o Pieces(h)
  <2> DEFINE u == Pieces(h)
  <2>1. /\ u \in Seq(Nat) /\ \A j \in 1 .. Len(u) : u[j] > 2 * (h - 1) /\ u[j] <= 2 * h
        /\ \A j \in 2 .. Len(u) : u[j - 1] < u[j]
    BY <1>1, PiecesFacts, Zenon
  <2> HIDE DEF u
  <2>2. taken' = taken \o u /\ to' = to \o u
    <3>1. << >> \o u = u
      BY <2>1
    <3> QED BY <1>6, <3>1 DEF u
  <2>3. FlowInv' /\ taken' \in Seq(Nat) /\ to' \in Seq(Nat)
    BY <2>1, <2>2, FlowTakes, Zenon
  <2>4. /\ \A j \in 1 .. Len(taken') : taken'[j] <= 2 * h
        /\ \A j \in 2 .. Len(taken') : taken'[j - 1] < taken'[j]
    <3> DEFINE m == 2 * (h - 1)  n == 2 * h
    <3>1. m \in Nat /\ n \in Nat /\ m <= n
      OBVIOUS
    <3>2. /\ \A j \in 1 .. Len(taken) : taken[j] <= m
          /\ \A j \in 1 .. Len(u) : u[j] > m /\ u[j] <= n
      BY <1>5, <2>1
    <3> HIDE DEF m, n
    <3>3. /\ \A j \in 1 .. Len(taken \o u) : (taken \o u)[j] <= n
          /\ \A j \in 2 .. Len(taken \o u) : (taken \o u)[j - 1] < (taken \o u)[j]
      BY <1>5, <2>1, <3>1, <3>2, TakenGrows, Zenon
    <3> QED BY <2>2, <3>3, Zenon DEF n
  <2>5. InputInv'
    BY <1>1, <2>4, Zenon DEF InputInv
  <2> QED BY <1>1, <1>4, <2>3, <2>5
<1>7. CASE UNCHANGED <<to, taken>>
  <2> USE <1>7
  <2>1. FlowInv'
    BY DEF FlowInv, pipeline, AfterFr, AfterRl, AfterS2c, AfterSbuf, AfterC2s, Cut
  <2>2. ASSUME NEW j \in 1 .. Len(taken) PROVE taken[j] <= 2 * h
    <3>1. taken[j] \in Nat /\ taken[j] <= 2 * (h - 1)
      BY <1>5
    <3> QED BY <3>1
  <2>3. InputInv'
    BY <1>1, <1>5, <2>2, Zenon DEF InputInv
  <2> QED BY <1>1, <1>4, <2>1, <2>3
<1> QED BY <1>6, <1>7 DEF h

\* read() returns lines; they are added to those still to be written.
LEMMA ReadTakes ==
  ASSUME StrTypeOK, InputInv, BufferInv, FlowInv, ~cli.stdio, NEW limit, Read(limit),
         UNCHANGED <<prog, typed, eofin, pipeline, srv, exit>>
  PROVE  /\ sio' \in Seq(Nat) /\ nread' \in Nat /\ nread' <= typed
         /\ to' \in Seq(Nat) /\ taken' \in Seq(Nat) /\ InputInv' /\ FlowInv'
         /\ too' = too /\ too < Len(to') /\ ~InputRead
<1>1. PICK b \in NextLines :
        LET new == [j \in 1 .. Len(b) |-> 2 * b[j]] IN
        /\ nread' = nread + Len(b) /\ to' = to \o new /\ taken' = taken \o new
        /\ UNCHANGED <<sio, too>>
  BY Zenon DEF Read
<1> DEFINE new == [j \in 1 .. Len(b) |-> 2 * b[j]]
<1>2. /\ b \in Seq(Nat) /\ Len(b) \in 1 .. typed - nread
      /\ \A j \in 1 .. Len(b) : b[j] = nread + j
  BY LinesFacts
<1> nread \in Nat /\ typed \in Nat /\ taken \in Seq(Nat) /\ to \in Seq(Nat) /\ sio = << >>
  BY DEF InputInv, StrTypeOK
<1>4. new \in Seq(Nat) /\ Len(new) = Len(b) /\ \A j \in 1 .. Len(b) : new[j] = 2 * (nread + j)
  <2>1. \A j \in 1 .. Len(b) : 2 * b[j] \in Nat /\ 2 * b[j] = 2 * (nread + j)
    <3>1. ASSUME NEW j \in 1 .. Len(b) PROVE b[j] = nread + j /\ j \in Nat
      BY <1>2
    <3> QED BY <3>1
  <2> QED BY <1>2, <2>1
<1>5. taken' = taken \o new /\ to' = to \o new /\ nread' = nread + Len(b) /\ sio' = << >>
      /\ too' = too
  BY <1>1
<1> HIDE DEF new
<1> nread' \in Nat /\ nread' <= typed /\ ~InputRead
  BY <1>2, <1>5 DEF InputRead
<1>7. FlowInv' /\ taken' \in Seq(Nat) /\ to' \in Seq(Nat)
  BY <1>4, <1>5, FlowTakes, Zenon
<1>8. too < Len(to')
  <2>1. Len(to') = Len(to) + Len(new)
    BY <1>4, <1>5, ConcatFacts, Zenon
  <2>3. Len(new) > 0
    BY <1>2, <1>4
  <2>2. too \in Nat /\ too <= Len(to)
    BY DEF BufferInv, StrTypeOK
  <2> QED BY <1>4, <2>1, <2>2, <2>3
<1>9. /\ \A j \in 1 .. Len(taken') : taken'[j] <= 2 * nread'
      /\ \A j \in 2 .. Len(taken') : taken'[j - 1] < taken'[j]
  <2>1. ASSUME NEW j \in 1 .. Len(new) PROVE new[j] > 2 * nread /\ new[j] <= 2 * nread'
    <3>1. new[j] = 2 * (nread + j) /\ j \in Nat /\ j > 0 /\ j <= Len(b)
      BY <1>2, <1>4
    <3>2. nread \in Nat /\ nread' = nread + Len(b) /\ Len(b) \in Nat
      BY <1>2, <1>5
    <3> QED BY <3>1, <3>2
  <2>2. ASSUME NEW j \in 2 .. Len(new) PROVE new[j - 1] < new[j]
    <3>1. j \in 1 .. Len(b) /\ j - 1 \in 1 .. Len(b)
      BY <1>2, <1>4
    <3>2. new[j] = 2 * (nread + j) /\ new[j - 1] = 2 * (nread + (j - 1))
      BY <1>4, <3>1
    <3> QED BY <3>2
  <2>3. /\ \A j \in 1 .. Len(taken) : taken[j] <= 2 * nread
        /\ \A j \in 2 .. Len(taken) : taken[j - 1] < taken[j]
    BY DEF InputInv
  <2>4. 2 * nread \in Nat /\ 2 * nread' \in Nat /\ 2 * nread <= 2 * nread'
    BY <1>2, <1>5
  <2>5. taken \in Seq(Nat) /\ new \in Seq(Nat)
    BY <1>4
  <2>6. /\ \A j \in 1 .. Len(taken \o new) : (taken \o new)[j] <= 2 * nread'
        /\ \A j \in 2 .. Len(taken \o new) : (taken \o new)[j - 1] < (taken \o new)[j]
    BY <2>1, <2>2, <2>3, <2>4, <2>5, TakenGrows, Zenon
  <2> QED BY <1>5, <2>6, Zenon
<1>10. InputInv'
  <2>1. Len(sio') = 0 /\ sio' = << >> /\ nread' - 0 = nread'
    BY <1>5
  <2> QED BY <1>9, <2>1 DEF InputInv
<1> QED BY <1>5, <1>7, <1>8, <1>10

\* n pieces are written to the socket of a server that runs.
LEMMA FlowSends ==
  ASSUME StrTypeOK, FlowInv, NEW n \in Nat, too + n <= Len(to),
         c2s' \in Seq(Nat), Len(c2s') = Len(c2s) + n,
         Running /\ srv # "dead" => Cut(c2s', AfterSbuf, taken),
         IF too + n = Len(to) THEN to' = << >> /\ too' = 0 ELSE too' = too + n /\ to' = to,
         UNCHANGED <<taken, fr, fro, rl, shown, s2c, sbuf, srv, exit>>
  PROVE  FlowInv'
<1>1. AfterSbuf' = AfterSbuf /\ AfterS2c' = AfterS2c
  BY DEF AfterFr, AfterRl, AfterS2c, AfterSbuf
<1>2. /\ (Cut(shown, 0, taken) /\ Cut(fr, Len(shown) - fro, taken))'
      /\ (Cut(rl, AfterFr, taken) /\ Cut(s2c, AfterRl, taken))'
  BY DEF FlowInv, AfterFr, AfterRl
<1>3. ASSUME Running, srv # "dead"
      PROVE  /\ (Cut(sbuf, AfterS2c, taken) /\ Cut(c2s, AfterSbuf, taken))'
             /\ (Cut(to, AfterC2s - too, taken) /\ Len(taken) <= AfterC2s - too + Len(to))'
  <2>1. /\ Cut(sbuf, AfterS2c, taken) /\ Cut(c2s, AfterSbuf, taken)
        /\ Cut(to, AfterC2s - too, taken) /\ Len(taken) <= AfterC2s - too + Len(to)
    BY <1>3 DEF FlowInv
  <2>2. (Cut(sbuf, AfterS2c, taken) /\ Cut(c2s, AfterSbuf, taken))'
    BY <1>1, <1>3, <2>1
  <2> AfterC2s' = AfterC2s + n /\ AfterC2s \in Nat /\ AfterC2s - too \in Nat
    BY <1>1, <2>1 DEF AfterC2s, Cut, StrTypeOK
  <2>4. CASE too + n = Len(to)
    <3>1. to' = << >> /\ too' = 0
      BY <2>4
    <3>2. AfterC2s' <= Len(taken) /\ Len(taken) <= AfterC2s'
      <4>1. /\ AfterC2s - too + Len(to) <= Len(taken) /\ Len(taken) <= AfterC2s - too + Len(to)
        BY <2>1 DEF Cut
      <4>2. too \in Nat /\ Len(to) \in Nat /\ Len(taken) \in Nat
        BY DEF StrTypeOK
      <4>3. too + n >= Len(to)
        BY <2>4, <4>2
      <4>4. AfterC2s + n <= Len(taken) /\ Len(taken) <= AfterC2s + n
        BY <4>1, <4>2, <4>3
      <4> QED BY <4>4
    <3> QED BY <2>2, <3>1, <3>2 DEF Cut, StrTypeOK
  <2>5. CASE too + n # Len(to)
    <3>1. to' = to /\ (AfterC2s - too)' = AfterC2s - too
      BY <2>5 DEF StrTypeOK
    <3> QED BY <2>1, <2>2, <3>1
  <2> QED BY <2>4, <2>5
<1> QED BY <1>2, <1>3 DEF FlowInv

\* One piece of Writen().
LEMMA WritePieceMoves ==
  ASSUME StrTypeOK, BufferInv, FlowInv, EndInv, Running, WritePiece,
         UNCHANGED <<taken, fr, fro, rl, shown, s2c, sbuf, srv, exit>>
  PROVE  /\ to' \in Seq(Nat) /\ too' \in Nat /\ c2s' \in Seq(Nat) /\ rst' \in BOOLEAN
         /\ ((to' = << >> /\ too' = 0) \/ too' < Len(to'))
         /\ Len(c2s') <= C2S /\ (srv = "done" => c2s' = << >>)
         /\ (rst' => srv = "dead") /\ FlowInv' /\ ~cfin /\ srv # "done"
<1> to # << >> /\ too + 1 <= Len(to) /\ too \in Nat /\ to \in Seq(Nat) /\ c2s \in Seq(Nat)
  BY DEF WritePiece, StrTypeOK
<1> ~cfin /\ srv # "done"
  BY DEF EndInv, StrTypeOK
<1>3. /\ to' \in Seq(Nat) /\ too' \in Nat /\ ((to' = << >> /\ too' = 0) \/ too' < Len(to'))
      /\ IF too + 1 = Len(to) THEN to' = << >> /\ too' = 0 ELSE too' = too + 1 /\ to' = to
  <2>1. IF too + 1 = Len(to) THEN to' = << >> /\ too' = 0 ELSE too' = too + 1 /\ to' = to
    BY DEF WritePiece
  <2>2. CASE too + 1 = Len(to)
    BY <2>1, <2>2
  <2>3. CASE too + 1 # Len(to)
    BY <2>1, <2>3
  <2> QED BY <2>2, <2>3
<1>4. CASE srv = "run" /\ ~rst
  <2> USE <1>4
  <2>1. c2s' = Append(c2s, to[too + 1]) /\ Len(c2s) < C2S /\ rst' = rst
    BY DEF WritePiece
  <2>2. to[too + 1] \in Nat
    OBVIOUS
  <2>3. /\ c2s' \in Seq(Nat) /\ Len(c2s') = Len(c2s) + 1
        /\ \A j \in 1 .. Len(c2s) : c2s'[j] = c2s[j]
        /\ c2s'[Len(c2s) + 1] = to[too + 1]
    BY <2>1, <2>2
  <2>4. Cut(c2s', AfterSbuf, taken)
    <3>1. Cut(c2s, AfterSbuf, taken) /\ Cut(to, AfterC2s - too, taken)
      BY DEF FlowInv
    <3> AfterSbuf \in Nat /\ AfterC2s - too \in Nat /\ AfterC2s = AfterSbuf + Len(c2s)
      BY <3>1 DEF Cut, AfterC2s
    <3>3. AfterSbuf + Len(c2s') <= Len(taken)
      BY <2>3, <3>1 DEF Cut, StrTypeOK
    <3>4. to[too + 1] = taken[AfterSbuf + (Len(c2s) + 1)]
      <4>1. (AfterC2s - too) + (too + 1) = AfterSbuf + (Len(c2s) + 1)
        OBVIOUS
      <4>2. to[too + 1] = taken[(AfterC2s - too) + (too + 1)]
        BY <3>1 DEF Cut
      <4> QED BY <4>1, <4>2
    <3>5. ASSUME NEW j \in 1 .. Len(c2s') PROVE c2s'[j] = taken[AfterSbuf + j]
      <4>1. CASE j = Len(c2s) + 1
        BY <2>3, <3>4, <4>1
      <4>2. CASE j \in 1 .. Len(c2s)
        BY <2>3, <3>1, <4>2, Zenon DEF Cut
      <4> QED BY <2>3, <4>1, <4>2
    <3> QED BY <3>3, <3>5 DEF Cut
  <2>5. FlowInv'
    BY <1>3, <2>3, <2>4, FlowSends
  <2>6. Len(c2s') <= C2S
    BY <2>1, <2>3, Bounds
  <2> QED BY <1>3, <2>1, <2>3, <2>5, <2>6 DEF StrTypeOK
<1>5. CASE ~(srv = "run" /\ ~rst)
  <2>1. ~rst /\ rst' = TRUE /\ c2s' = c2s
    BY <1>5 DEF WritePiece
  <2>2. srv = "dead"
    BY <1>5, <2>1 DEF StrTypeOK
  <2>3. FlowInv'
    BY <2>2 DEF FlowInv, AfterFr, AfterRl
  <2> QED BY <1>3, <2>1, <2>2, <2>3 DEF BufferInv
<1> QED BY <1>4, <1>5

\* The pieces after those in the client's buffers: nothing there moves.
LEMMA FlowFront ==
  ASSUME FlowInv, AfterS2c' = AfterS2c, UNCHANGED <<taken, sbuf, c2s, to, too>>,
         Running' /\ srv' # "dead" => Running /\ srv # "dead",
         (Cut(shown, 0, taken) /\ Cut(fr, Len(shown) - fro, taken))',
         (Cut(rl, AfterFr, taken) /\ Cut(s2c, AfterRl, taken))'
  PROVE  FlowInv'
<1>1. AfterSbuf' = AfterSbuf /\ AfterC2s' = AfterC2s
  BY DEF AfterSbuf, AfterC2s
<1> QED BY <1>1 DEF FlowInv

\* read() of the socket: the pieces go to the buffer behind which nothing lies.
LEMMA ReadMoves ==
  ASSUME StrTypeOK, FlowInv, NEW limit \in Int, NEW r \in ReadSock(limit),
         s2c' = Drop(s2c, Len(r[2])), rl = << >>,
         \/ rl' = r[2] /\ UNCHANGED <<fr, fro>>
         \/ fr' = fr \o r[2] /\ UNCHANGED <<fro, rl>>,
         UNCHANGED <<taken, shown, sbuf, c2s, to, too, srv>>, Running' => Running
  PROVE  /\ FlowInv' /\ rl' \in Seq(Nat) /\ fr' \in Seq(Nat) /\ s2c' \in Seq(Nat)
         /\ Len(fr') >= Len(fr)
<1> DEFINE d == r[2]
<1>1. d \in Seq(Nat) /\ Len(d) \in 0 .. Len(s2c) /\ d = SubSeq(s2c, 1, Len(d))
  BY ReadSockFacts DEF StrTypeOK
<1> /\ taken \in Seq(Nat) /\ shown \in Seq(Nat) /\ fr \in Seq(Nat) /\ s2c \in Seq(Nat)
    /\ fro \in Nat /\ rl \in Seq(Nat) /\ Len(rl) = 0
  BY DEF StrTypeOK
<1>3. /\ Cut(shown, 0, taken) /\ Cut(fr, Len(shown) - fro, taken)
      /\ Cut(rl, AfterFr, taken) /\ Cut(s2c, AfterFr, taken)
      /\ AfterFr \in Nat /\ AfterFr = Len(shown) - fro + Len(fr) /\ Len(shown) - fro \in Nat
  BY DEF FlowInv, AfterFr, AfterRl, Cut
<1> HIDE DEF d
<1>4. Cut(d, AfterFr, taken)
  BY <1>1, <1>3, CutFirst, Zenon
<1>5. Cut(s2c', AfterFr + Len(d), taken) /\ s2c' \in Seq(Nat) /\ Len(s2c') = Len(s2c) - Len(d)
  BY <1>1, <1>3, CutDrop, DropFacts, Zenon DEF d
<1>6. CASE rl' = d /\ UNCHANGED <<fr, fro>>
  <2> USE <1>6
  <2>1. AfterFr' = AfterFr /\ AfterRl' = AfterFr + Len(d)
    BY DEF AfterFr, AfterRl
  <2>2. AfterS2c' = AfterS2c
    <3>1. AfterS2c = AfterFr + Len(s2c)
      BY <1>3 DEF AfterS2c, AfterRl
    <3>2. AfterS2c' = AfterFr + Len(d) + Len(s2c')
      BY <2>1 DEF AfterS2c
    <3> QED BY <1>1, <1>3, <1>5, <3>1, <3>2
  <2>3. FlowInv'
    BY <1>3, <1>4, <1>5, <2>1, <2>2, FlowFront
  <2> QED BY <1>1, <1>5, <2>3
<1>7. CASE fr' = fr \o d /\ UNCHANGED <<fro, rl>>
  <2> USE <1>7
  <2>1. fr' \in Seq(Nat) /\ Len(fr') = Len(fr) + Len(d)
    BY <1>1, ConcatFacts
  <2> AfterFr' = AfterFr + Len(d) /\ AfterRl' = AfterFr + Len(d)
    BY <1>1, <1>3, <2>1 DEF AfterFr, AfterRl
  <2>3. AfterS2c' = AfterS2c
    <3>1. AfterS2c = AfterFr + Len(s2c)
      BY <1>3 DEF AfterS2c, AfterRl
    <3>2. AfterS2c' = AfterFr + Len(d) + Len(s2c')
      BY DEF AfterS2c
    <3> QED BY <1>1, <1>3, <1>5, <3>1, <3>2
  <2>4. Cut(fr', Len(shown) - fro, taken)
    BY <1>1, <1>3, <1>4, CutJoin
  <2>5. Cut(rl', AfterFr', taken)
    BY <1>5 DEF Cut
  <2>6. FlowInv'
    BY <1>3, <1>5, <2>3, <2>4, <2>5, FlowFront
  <2>7. Len(fr') >= Len(fr)
    BY <1>1, <2>1
  <2>8. rl' \in Seq(Nat)
    OBVIOUS
  <2> QED BY <1>5, <2>1, <2>6, <2>7, <2>8, Zenon
<1> QED BY <1>6, <1>7 DEF d

-----------------------------------------------------------------------------
(* The ends of the program.                                                 *)

\* Nothing is left out of an empty buffer, and all of a buffer when none is.
LEMMA DropNone == ASSUME NEW s \in Seq(Nat) PROVE Drop(s, 0) = s
<1>1. Drop(s, 0) = SubSeq(s, 1, Len(s)) /\ Len(s) \in 0 .. Len(s)
  BY DEF Drop
<1>2. /\ Drop(s, 0) \in Seq(Nat) /\ Len(Drop(s, 0)) = Len(s)
      /\ \A j \in 1 .. Len(s) : Drop(s, 0)[j] = s[j]
  BY <1>1, FirstFacts
<1> QED BY <1>2, SameSeq

\* The process ends: only what it says of its end is to be shown.
LEMMA ExitKeeps ==
  ASSUME StrIInv, NEW how \in {"normal", "error", "killed", "premature", "alarm"}, Exit(how),
         UNCHANGED <<prog, wpc, stdin, input, output, flags, c2s, toClient, rst, server>>,
         NothingLost', PrematureIsReal'
  PROVE  StrIInv'
<1> pc' = "exit" /\ exit' = how /\ cfin' = TRUE /\ ~Running'
  BY DEF Exit
<1>2. ProgOK' /\ InputInv' /\ BufferInv' /\ LineInv'
  BY Zenon DEF StrIInv, ProgOK, InputInv, BufferInv, LineInv
<1>3. StrTypeOK'
  BY DEF StrIInv, StrTypeOK
<1>4. FlowInv'
  BY DEF StrIInv, FlowInv, AfterFr, AfterRl
<1>5. ControlInv'
  BY DEF StrIInv, ControlInv
<1>6. EndInv'
  BY DEF StrIInv, EndInv, InputRead
<1> QED BY <1>2, <1>3, <1>4, <1>5, <1>6 DEF StrIInv

\* The server has echoed all and closed its end, and the client has read that:
\* what it took is what it has shown and what is left in its buffer.
LEMMA AllCameBack ==
  ASSUME StrIInv, Running, rl = << >>, s2c = << >>, sfin, srv # "dead"
  PROVE  /\ InputRead /\ cli.style # "lockstep" /\ taken = shown \o Drop(fr, fro)
         /\ stdineof \/ done \/ wpc = "flag" \/ ~cli.quits
<1>1. /\ shown \in Seq(Nat) /\ fr \in Seq(Nat) /\ taken \in Seq(Nat) /\ fro \in Nat
      /\ fro <= Len(fr) /\ too \in Nat /\ fro \in 0 .. Len(fr)
  BY DEF StrIInv, StrTypeOK, BufferInv
<1>2. srv = "done"
  BY DEF StrIInv, StrTypeOK, EndInv
<1>3. cfin /\ c2s = << >> /\ sbuf = << >>
  BY <1>2 DEF StrIInv, EndInv
<1>4. /\ InputRead /\ to = << >> /\ cli.style # "lockstep"
      /\ stdineof \/ done \/ wpc = "flag" \/ ~cli.quits
  BY <1>3 DEF StrIInv, EndInv
<1>5. too = 0
  BY <1>1, <1>4 DEF StrIInv, BufferInv
<1> DEFINE k == Len(shown) - fro  d == Drop(fr, fro)  w == shown \o d
<1>6. Cut(shown, 0, taken) /\ Cut(fr, k, taken)
  BY DEF StrIInv, FlowInv
<1>7. k \in Nat /\ k + fro = Len(shown) /\ k + Len(fr) <= Len(taken)
  BY <1>1, <1>6 DEF Cut
<1>8. Len(taken) <= k + Len(fr)
  <2>1. Len(taken) <= AfterC2s - too + Len(to)
    BY <1>2 DEF StrIInv, FlowInv
  <2>2. Len(rl) = 0 /\ Len(s2c) = 0 /\ Len(sbuf) = 0 /\ Len(c2s) = 0 /\ Len(to) = 0
    BY <1>3, <1>4
  <2>3. AfterC2s - too + Len(to) = k + Len(fr)
    BY <1>1, <1>5, <1>7, <2>2 DEF AfterC2s, AfterSbuf, AfterS2c, AfterRl, AfterFr
  <2> QED BY <2>1, <2>3
<1>9. d \in Seq(Nat) /\ Len(d) = Len(fr) - fro /\ \A j \in 1 .. Len(fr) - fro : d[j] = fr[fro + j]
  BY <1>1, DropFacts, Zenon
<1> HIDE DEF d, k
<1>10. Cut(d, k + fro, taken)
  BY <1>1, <1>6, CutDrop, Zenon DEF d
<1>11. /\ w \in Seq(Nat) /\ Len(w) = Len(shown) + Len(d)
       /\ Cut(w, 0, taken)
  <2>1. 0 + Len(shown) = k + fro
    BY <1>1, <1>7
  <2> QED BY <1>1, <1>6, <1>9, <1>10, <2>1, ConcatFacts, CutJoin, Zenon
<1> HIDE DEF w
<1>12. Len(w) >= Len(taken) /\ Len(w) <= Len(taken)
  BY <1>1, <1>7, <1>8, <1>9, <1>11
<1>13. Len(w) = Len(taken)
  BY <1>1, <1>11, <1>12
<1>14. \A j \in 1 .. Len(w) : w[j] = taken[j]
  BY <1>11 DEF Cut
<1>15. w = taken
  BY <1>1, <1>11, <1>13, <1>14, SameSeq, Zenon
<1> QED BY <1>4, <1>15 DEF w, d

\* EOF from the server: the end is normal only if nothing is lost, and
\* premature only if the server was killed or done is about to be set.
LEMMA EofKeeps ==
  ASSUME StrIInv, Running, rl = << >>, s2c = << >>, sfin, cli.style # "nonb" => fr = << >>,
         Exit(SocketEof),
         UNCHANGED <<prog, wpc, stdin, input, output, flags, c2s, toClient, rst, server>>
  PROVE  StrIInv'
<1>1. SocketEof \in {"normal", "killed", "premature"}
  BY DEF SocketEof
<1>2. exit' = SocketEof
  BY DEF Exit
<1>3. NothingLost'
  <2>1. CASE srv = "dead"
    BY <2>1 DEF NothingLost
  <2>2. CASE srv # "dead"
    <3>1. InputRead /\ taken = shown \o Drop(fr, fro)
      BY <2>2, AllCameBack
    <3> QED BY <3>1 DEF NothingLost, InputRead
  <2> QED BY <2>1, <2>2
<1>4. PrematureIsReal'
  <2>1. CASE srv = "dead"
    BY <2>1 DEF PrematureIsReal
  <2>2. CASE srv # "dead"
    <3>1. stdineof \/ done \/ wpc = "flag" \/ ~cli.quits
      BY <2>2, AllCameBack
    <3> QED BY <1>2, <3>1 DEF PrematureIsReal, SocketEof
  <2> QED BY <2>1, <2>2
<1> QED BY <1>1, <1>3, <1>4, ExitKeeps

\* An error of the socket: the server is dead.
LEMMA ErrorKeeps ==
  ASSUME StrIInv, Running, rst, pc \in {"readline", "read", "pass"}, SocketError,
         UNCHANGED <<prog, wpc, stdin, input, output, flags, c2s, toClient, rst, server>>
  PROVE  StrIInv'
<1>0. srv = "dead"
  BY DEF StrIInv, EndInv
<1>1. CASE cli.style = "fork" /\ wpc # "dead"
  <2> pc' = "dead" /\ UNCHANGED <<exit, cfin>>
    BY <1>1 DEF SocketError
  <2>2. ProgOK' /\ InputInv' /\ BufferInv' /\ EndInv' /\ NothingLost' /\ PrematureIsReal'
    BY Zenon DEF StrIInv, ProgOK, InputInv, BufferInv, EndInv, InputRead, NothingLost,
                PrematureIsReal
  <2>3. StrTypeOK'
    BY DEF StrIInv, StrTypeOK
  <2>4. FlowInv'
    BY <1>0 DEF StrIInv, FlowInv, AfterFr, AfterRl
  <2>5. ControlInv'
    BY <1>1 DEF StrIInv, ControlInv
  <2>6. LineInv'
    BY <1>0, Zenon DEF LineInv
  <2> QED BY <2>2, <2>3, <2>4, <2>5, <2>6 DEF StrIInv
<1>2. CASE ~(cli.style = "fork" /\ wpc # "dead")
  <2>1. PICK how \in {"killed", "error"} : Exit(how)
    BY <1>2 DEF SocketError
  <2>2. NothingLost' /\ PrematureIsReal'
    BY <2>1 DEF Exit, NothingLost, PrematureIsReal
  <2> QED BY <2>1, <2>2, ExitKeeps
<1> QED BY <1>1, <1>2

-----------------------------------------------------------------------------
(* The steps that read standard input.                                      *)

\* The writer has not seen the end of its input: the connection is open.
LEMMA StillOpen ==
  ASSUME StrIInv, Running, ~InputRead, UNCHANGED <<stdineof, cfin, sfin, srv, rst, exit>>
  PROVE  EndInv' /\ ~cfin /\ NothingLost' /\ PrematureIsReal'
<1>1. ~stdineof /\ ~cfin /\ srv # "done"
  BY DEF StrIInv, EndInv
<1>2. EndInv'
  BY <1>1 DEF StrIInv, EndInv
<1> QED BY <1>1, <1>2 DEF NothingLost, PrematureIsReal

\* fgets() and the pieces of the line it returns.
LEMMA FgetsKeeps ==
  ASSUME StrIInv, Running, cli.stdio, to = << >>, NEW next \in BOOLEAN, NEW skip \in BOOLEAN,
         Fgets(next, skip), UNCHANGED <<prog, stdin, output, c2s, toClient, rst, server, exit>>
  PROVE  /\ sio' \in Seq(Nat) /\ nread' \in Nat /\ nread' <= typed
         /\ to' \in Seq(Nat) /\ taken' \in Seq(Nat) /\ too' = 0
         /\ InputInv' /\ FlowInv' /\ BufferInv' /\ ~InputRead
         /\ \/ to' # << >> /\ next /\ \E h \in Nat : h > 0 /\ taken' = taken \o Pieces(h)
            \/ to' = << >> /\ taken' = taken /\ cli.check /\ skip
<1>1. PICK b \in StdioBuffers :
        /\ nread' = nread + (IF sio = << >> THEN Len(b) ELSE 0) /\ sio' = Tail(b)
        /\ \/ to' = Pieces(Head(b)) /\ taken' = taken \o Pieces(Head(b)) /\ next
           \/ cli.check /\ UNCHANGED <<to, taken>> /\ skip
        /\ too' = too
  BY DEF Fgets
<1>2. /\ sio' \in Seq(Nat) /\ nread' \in Nat /\ nread' <= typed
      /\ to' \in Seq(Nat) /\ taken' \in Seq(Nat) /\ InputInv' /\ FlowInv'
      /\ too = 0 /\ ~InputRead
  BY <1>1, FgetsTakes DEF StrIInv, pipeline
<1>3. Head(b) \in Nat /\ Head(b) > 0
  <2>1. Head(b) = nread - Len(sio) + 1 /\ Head(b) \in Nat
    BY BufferFacts DEF StrIInv
  <2> QED BY <2>1 DEF StrIInv, InputInv, StrTypeOK
<1>4. Len(Pieces(Head(b))) > 0 /\ Pieces(Head(b)) \in Seq(Nat)
  BY <1>3, PiecesFacts, Zenon
<1>5. CASE to' = Pieces(Head(b)) /\ taken' = taken \o Pieces(Head(b)) /\ next
  <2>1. Len(to') > 0 /\ to' # << >>
    BY <1>4, <1>5
  <2>2. BufferInv'
    BY <1>1, <1>2, <2>1 DEF StrIInv, BufferInv
  <2> QED BY <1>1, <1>2, <1>3, <1>5, <2>1, <2>2, Zenon
<1>6. CASE cli.check /\ UNCHANGED <<to, taken>> /\ skip
  <2>1. BufferInv'
    BY <1>1, <1>6 DEF StrIInv, BufferInv
  <2> QED BY <1>1, <1>2, <1>6, <2>1
<1> QED BY <1>1, <1>5, <1>6, Zenon

\* One line is accepted whole: only its last piece ends it.
LEMMA LineTaken ==
  ASSUME NEW s \in Nat, NEW t \in Seq(Nat), s = Len(t), NEW h \in Nat, h > 0
  PROVE  \A j \in s + 1 .. Len(t \o Pieces(h)) :
           EndOfLine((t \o Pieces(h))[j]) <=> j = Len(t \o Pieces(h))
<1> DEFINE u == Pieces(h)  w == t \o u
<1>1. u \in Seq(Nat) /\ \A j \in 1 .. Len(u) : EndOfLine(u[j]) <=> j = Len(u)
  BY PiecesFacts, Zenon
<1> HIDE DEF u
<1>2. /\ w \in Seq(Nat) /\ Len(w) = Len(t) + Len(u)
      /\ \A j \in Len(t) + 1 .. Len(t) + Len(u) : w[j] = u[j - Len(t)]
  BY <1>1
<1> HIDE DEF w
<1>3. ASSUME NEW j \in s + 1 .. Len(w) PROVE EndOfLine(w[j]) <=> j = Len(w)
  <2> DEFINE i == j - Len(t)
  <2> i \in 1 .. Len(u) /\ j \in Len(t) + 1 .. Len(t) + Len(u) /\ (i = Len(u) <=> j = Len(w))
    BY <1>1, <1>2
  <2>2. w[j] = u[i]
    BY <1>2
  <2>3. EndOfLine(u[i]) <=> i = Len(u)
    BY <1>1, Zenon
  <2> QED BY <2>2, <2>3
<1> QED BY <1>3 DEF w, u

\* fgets() in the clients that go in lockstep.
LEMMA FgetsLineKeeps == ASSUME StrIInv, FgetsLine PROVE StrIInv'
<1> pc = "fgets" /\ Running /\ cli.style = "lockstep" /\ cli.stdio
  BY Zenon DEF StrIInv, FgetsLine, ControlInv, ProgOK
<1> to = << >> /\ fr = << >>
  BY DEF StrIInv, ControlInv
<1> UNCHANGED <<prog, wpc, stdin, output, flags, c2s, toClient, rst, server>>
  BY DEF FgetsLine
<1>4. CASE Fgets(pc' = "write", UNCHANGED pc) /\ UNCHANGED <<exit, cfin>>
  <2> USE <1>4
  <2>1. /\ sio' \in Seq(Nat) /\ nread' \in Nat /\ nread' <= typed
        /\ to' \in Seq(Nat) /\ taken' \in Seq(Nat) /\ too' = 0
        /\ InputInv' /\ FlowInv' /\ BufferInv' /\ ~InputRead
        /\ \/ to' # << >> /\ pc' = "write" /\ \E h \in Nat : h > 0 /\ taken' = taken \o Pieces(h)
           \/ to' = << >> /\ taken' = taken /\ pc' = pc
    BY FgetsKeeps, Zenon
  <2>2. EndInv' /\ NothingLost' /\ PrematureIsReal'
    BY <2>1, StillOpen
  <2>3. ProgOK'
    BY Zenon DEF StrIInv, ProgOK
  <2> pc' \in {"write", "fgets"} /\ (to' # << >> => pc' = "write") /\ exit' = exit
    BY <2>1
  <2>4. 0 \in Nat
    OBVIOUS
  <2>5. StrTypeOK'
    <3>1. pc' \in {"connect", "fgets", "write", "readline", "fputs", "select", "handle", "read",
                   "pass", "dead", "exit"}
      OBVIOUS
    <3>2. StrTypeOK
      BY Zenon DEF StrIInv
    <3>3. /\ sio' \in Seq(Nat) /\ nread' \in Nat /\ nread' <= typed
          /\ to' \in Seq(Nat) /\ taken' \in Seq(Nat) /\ too' \in Nat
      BY <2>1, <2>4, Zenon
    <3> QED BY <3>1, <3>2, <3>3 DEF StrTypeOK
  <2>6. ControlInv'
    BY Zenon DEF StrIInv, ControlInv
  <2>7. LineInv'
    <3>1. SUFFICES ASSUME srv = "run" PROVE LineInv'
      BY Zenon DEF LineInv
    <3>2. Len(shown) = Len(taken) /\ Len(shown) \in Nat /\ taken \in Seq(Nat)
      BY <3>1 DEF StrIInv, LineInv, StrTypeOK
    <3>3. CASE to' # << >>
      <4>1. PICK h \in Nat : h > 0 /\ taken' = taken \o Pieces(h)
        BY <2>1, <3>3, Zenon
      <4>2. \A j \in Len(shown) + 1 .. Len(taken') : EndOfLine(taken'[j]) <=> j = Len(taken')
        <5> DEFINE k == Len(shown)
        <5>1. \A j \in k + 1 .. Len(taken \o Pieces(h)) :
                EndOfLine((taken \o Pieces(h))[j]) <=> j = Len(taken \o Pieces(h))
          <6> HIDE DEF k
          <6> QED BY <3>2, <4>1, LineTaken, Zenon DEF k
        <5> QED BY <4>1, <5>1, Zenon
      <4>3. pc' = "write" /\ shown' = shown
        BY <3>3, Zenon
      <4> QED BY <4>2, <4>3, Zenon DEF LineInv
    <3>4. CASE to' = << >>
      <4>1. taken' = taken /\ pc' = "fgets" /\ shown' = shown
        BY <2>1, <3>4, Zenon
      <4> QED BY <3>2, <4>1 DEF LineInv
    <3> QED BY <3>3, <3>4, Zenon
  <2> QED BY <2>1, <2>2, <2>3, <2>5, <2>6, <2>7 DEF StrIInv
<1>5. CASE AtEof /\ Exit("normal") /\ UNCHANGED input
  <2> USE <1>5
  <2>1. PrematureIsReal'
    BY DEF PrematureIsReal, Exit
  <2>2. ASSUME srv # "dead" PROVE taken = shown \o Drop(fr, fro)
    <3>1. srv = "run"
      BY <2>2 DEF StrIInv, EndInv, StrTypeOK
    <3>2. Len(shown) = Len(taken)
      BY <3>1, Zenon DEF StrIInv, LineInv
    <3>3. shown \in Seq(Nat) /\ taken \in Seq(Nat) /\ \A j \in 1 .. Len(shown) : shown[j] = taken[j]
      BY SMTT(20) DEF StrIInv, StrTypeOK, FlowInv, Cut
    <3>4. shown = taken
      BY <3>2, <3>3, SameSeq, Zenon
    <3>5. fro = 0 /\ fr \in Seq(Nat)
      BY SMTT(20) DEF StrIInv, BufferInv, StrTypeOK
    <3>6. Drop(fr, fro) = << >>
      BY <3>5, DropNone, Zenon
    <3>7. taken \o << >> = taken
      BY <3>3, ConcatNone, Zenon
    <3> QED BY <3>4, <3>6, <3>7, Zenon
  <2>3. NothingLost'
    BY <2>2, Zenon DEF NothingLost, AtEof
  <2> QED BY <2>1, <2>3, ExitKeeps
<1> QED BY <1>4, <1>5, Zenon DEF FgetsLine

\* Standard input is found readable.
LEMMA StdinReadyKeeps == ASSUME StrIInv, StdinReady PROVE StrIInv'
<1> pc = "handle" /\ Running /\ cli.style = "select"
  BY Zenon DEF StrIInv, StdinReady, ControlInv, ProgOK
<1> to = << >> /\ fr = << >> /\ too = 0
  BY DEF StrIInv, ControlInv, BufferInv, StrTypeOK
<1> UNCHANGED <<prog, wpc, stdin, output, done, c2s, toClient, rst, server>>
  BY DEF StdinReady
<1>4. ProgOK'
  BY Zenon DEF StrIInv, ProgOK
<1>5. CASE /\ IF cli.stdio THEN Fgets(TRUE, FALSE) ELSE Read(K)
           /\ pc' = "write" /\ UNCHANGED <<stdineof, exit, cfin>>
  <2> USE <1>5
  <2>1. /\ sio' \in Seq(Nat) /\ nread' \in Nat /\ nread' <= typed
        /\ to' \in Seq(Nat) /\ taken' \in Seq(Nat) /\ too' = 0
        /\ InputInv' /\ FlowInv' /\ BufferInv' /\ ~InputRead
    <3>1. CASE cli.stdio
      BY <3>1, FgetsKeeps, Zenon
    <3>2. CASE ~cli.stdio
      <4>1. /\ sio' \in Seq(Nat) /\ nread' \in Nat /\ nread' <= typed
            /\ to' \in Seq(Nat) /\ taken' \in Seq(Nat) /\ InputInv' /\ FlowInv'
            /\ too' = too /\ too < Len(to') /\ ~InputRead
        BY <3>2, ReadTakes, Zenon DEF StrIInv, pipeline
      <4>2. BufferInv'
        BY <4>1 DEF StrIInv, BufferInv
      <4> QED BY <4>1, <4>2, Zenon
    <3> QED BY <3>1, <3>2, Zenon
  <2>2. EndInv' /\ NothingLost' /\ PrematureIsReal'
    BY <2>1, StillOpen
  <2>3. StrTypeOK'
    BY <2>1 DEF StrIInv, StrTypeOK
  <2>4. ControlInv'
    BY Zenon DEF StrIInv, ControlInv
  <2>5. LineInv'
    BY DEF LineInv
  <2> QED BY <1>4, <2>1, <2>2, <2>3, <2>4, <2>5, Zenon DEF StrIInv
<1>6. CASE /\ AtEof /\ stdineof' = TRUE /\ cfin' = TRUE /\ pc' = Continue(ready')
           /\ UNCHANGED <<exit, input>>
  <2> USE <1>6
  <2>1. pc' \in {"handle", "select"}
    BY TopIs, Zenon DEF Continue
  <2>2. InputInv' /\ BufferInv' /\ NothingLost' /\ PrematureIsReal'
    BY Zenon DEF StrIInv, InputInv, BufferInv, NothingLost, PrematureIsReal
  <2>3. StrTypeOK'
    BY <2>1 DEF StrIInv, StrTypeOK
  <2>4. FlowInv'
    BY Zenon DEF StrIInv, FlowInv, AfterFr, AfterRl, AfterS2c, AfterSbuf, AfterC2s
  <2>5. ControlInv'
    BY <2>1, Zenon DEF StrIInv, ControlInv
  <2>6. EndInv'
    BY Zenon DEF StrIInv, EndInv, InputRead, AtEof
  <2>7. LineInv'
    BY Zenon DEF LineInv
  <2> QED BY <1>4, <2>2, <2>3, <2>4, <2>5, <2>6, <2>7, Zenon DEF StrIInv
<1>7. CASE cli.eof = "return" /\ Exit("normal") /\ UNCHANGED <<stdineof, input>>
  <2>1. NothingLost' /\ PrematureIsReal'
    BY <1>7, Zenon DEF NothingLost, PrematureIsReal, Exit
  <2> QED BY <1>7, <2>1, ExitKeeps, Zenon
<1> QED BY <1>5, <1>6, <1>7, Zenon DEF StdinReady

\* Standard input in a pass of strclinonb.c.
LEMMA NonbStdinKeeps == ASSUME StrIInv, NonbStdin PROVE StrIInv'
<1> pc = "pass" /\ Running /\ cli.style = "nonb" /\ ~cli.stdio
  BY Zenon DEF StrIInv, NonbStdin, ControlInv, ProgOK
<1> UNCHANGED <<prog, pc, wpc, stdin, output, done, exit, c2s, toClient, rst, server>>
  BY Zenon DEF NonbStdin
<1>3. ProgOK' /\ LineInv'
  BY Zenon DEF StrIInv, ProgOK, LineInv
<1>4. CASE Read(K - Len(to)) /\ UNCHANGED <<stdineof, cfin>>
  <2> USE <1>4
  <2>1. /\ sio' \in Seq(Nat) /\ nread' \in Nat /\ nread' <= typed
        /\ to' \in Seq(Nat) /\ taken' \in Seq(Nat) /\ InputInv' /\ FlowInv'
        /\ too' = too /\ too < Len(to') /\ ~InputRead
    BY ReadTakes, Zenon DEF StrIInv, pipeline
  <2>2. BufferInv'
    BY <2>1, Zenon DEF StrIInv, BufferInv
  <2>3. EndInv' /\ NothingLost' /\ PrematureIsReal'
    BY <2>1, StillOpen
  <2>4. StrTypeOK'
    BY <2>1 DEF StrIInv, StrTypeOK
  <2>5. ControlInv'
    BY Zenon DEF StrIInv, ControlInv
  <2> QED BY <1>3, <2>1, <2>2, <2>3, <2>4, <2>5, Zenon DEF StrIInv
<1>5. CASE AtEof /\ stdineof' = TRUE /\ cfin' = (cfin \/ too = Len(to)) /\ UNCHANGED input
  <2> USE <1>5
  <2>1. InputInv' /\ BufferInv' /\ NothingLost' /\ PrematureIsReal' /\ ControlInv'
    BY Zenon DEF StrIInv, InputInv, BufferInv, NothingLost, PrematureIsReal,
                            ControlInv
  <2>2. cfin' \in BOOLEAN /\ (cfin => cfin') /\ (cfin' => cfin \/ too = Len(to))
    BY Zenon DEF StrIInv, StrTypeOK
  <2>3. StrTypeOK'
    BY <2>2, Zenon DEF StrIInv, StrTypeOK
  <2>4. FlowInv'
    BY Zenon DEF StrIInv, FlowInv, AfterFr, AfterRl, AfterS2c, AfterSbuf, AfterC2s
  <2>5. too = Len(to) => to = << >>
    BY DEF StrIInv, BufferInv, StrTypeOK
  <2>6. InputRead
    BY Zenon DEF AtEof, InputRead
  <2>7. EndInv'
    BY <2>2, <2>5, <2>6, Zenon DEF StrIInv, EndInv, InputRead
  <2> QED BY <1>3, <2>1, <2>3, <2>4, <2>7, Zenon DEF StrIInv
<1> QED BY <1>4, <1>5, Zenon DEF NonbStdin

\* fgets() in the writer.
LEMMA CopyToFgetsKeeps == ASSUME StrIInv, CopyToFgets PROVE StrIInv'
<1> wpc = "fgets" /\ Running /\ Threaded /\ cli.stdio /\ pc # "connect"
  BY Zenon DEF StrIInv, CopyToFgets, ControlInv, ProgOK
<1>0. to = << >>
  BY DEF StrIInv, ControlInv
<1> to = << >> /\ too = 0
  BY <1>0 DEF StrIInv, BufferInv, StrTypeOK
<1> UNCHANGED <<prog, pc, stdin, output, flags, exit, c2s, toClient, rst, server>>
  BY DEF CopyToFgets
<1>4. ProgOK' /\ LineInv'
  BY Zenon DEF StrIInv, ProgOK, LineInv
<1>5. CASE Fgets(wpc' = "write", FALSE) /\ UNCHANGED cfin
  <2> USE <1>5
  <2>1. /\ sio' \in Seq(Nat) /\ nread' \in Nat /\ nread' <= typed
        /\ to' \in Seq(Nat) /\ taken' \in Seq(Nat) /\ too' = 0
        /\ InputInv' /\ FlowInv' /\ BufferInv' /\ ~InputRead /\ wpc' = "write"
    BY FgetsKeeps, Zenon
  <2>2. EndInv' /\ NothingLost' /\ PrematureIsReal'
    BY <2>1, StillOpen
  <2>3. StrTypeOK'
    BY <2>1 DEF StrIInv, StrTypeOK
  <2>4. ControlInv'
    BY <2>1, Zenon DEF StrIInv, ControlInv
  <2> QED BY <1>4, <2>1, <2>2, <2>3, <2>4 DEF StrIInv
<1>6. CASE /\ AtEof /\ cfin' = TRUE /\ UNCHANGED input
           /\ wpc' = IF cli.style = "fork" THEN "pause" ELSE IF cli.flag THEN "flag" ELSE "end"
  <2> USE <1>6
  <2>1. wpc' \in {"pause", "flag", "end"} /\ (cli.quits => wpc' = "flag")
    BY Zenon DEF StrIInv, ProgOK
  <2>2. InputInv' /\ BufferInv' /\ NothingLost' /\ PrematureIsReal'
    BY Zenon DEF StrIInv, InputInv, BufferInv, NothingLost, PrematureIsReal
  <2>3. StrTypeOK'
    BY <2>1 DEF StrIInv, StrTypeOK
  <2>4. FlowInv'
    BY Zenon DEF StrIInv, FlowInv, AfterFr, AfterRl, AfterS2c, AfterSbuf, AfterC2s
  <2>5. ControlInv'
    BY Zenon DEF StrIInv, ControlInv
  <2>6. InputRead
    BY Zenon DEF AtEof, InputRead
  <2>7. EndInv'
    BY <2>1, <2>6, Zenon DEF StrIInv, EndInv, InputRead
  <2> QED BY <1>4, <2>2, <2>3, <2>4, <2>5, <2>7, Zenon DEF StrIInv
<1> QED BY <1>5, <1>6, Zenon DEF CopyToFgets

-----------------------------------------------------------------------------
(* The steps that write to the socket.                                      *)

\* A write to a socket that has received a RST: the server is dead.
LEMMA SigpipeKeeps ==
  ASSUME StrIInv, rst, Exit("killed"),
         UNCHANGED <<prog, wpc, stdin, input, output, flags, c2s, toClient, rst, server>>
  PROVE  StrIInv'
<1>1. NothingLost' /\ PrematureIsReal'
  BY Zenon DEF Exit, NothingLost, PrematureIsReal
<1> QED BY <1>1, ExitKeeps

\* Writen() where one process waits for both inputs.
LEMMA WriteKeeps == ASSUME StrIInv, Write PROVE StrIInv'
<1> pc = "write" /\ Running /\ cli.style \in {"lockstep", "select"} /\ ~Threaded
  BY Zenon DEF StrIInv, Write, ControlInv, ProgOK
<1> fr = << >>
  BY DEF StrIInv, ControlInv
<1>3. fro = 0 /\ wpc = "none"
  BY DEF StrIInv, BufferInv, StrTypeOK, ControlInv
<1> UNCHANGED <<prog, wpc, stdin, nread, sio, taken, output, done, toClient, server>>
  BY Zenon DEF Write
<1>5. CASE rst /\ Exit("killed") /\ UNCHANGED <<to, too, c2s, rst, stdineof>>
  BY <1>5, SigpipeKeeps, Zenon
<1>6. CASE /\ WritePiece
           /\ pc' = IF to' # << >> THEN pc
                    ELSE IF cli.style = "lockstep" THEN "readline" ELSE Continue(ready)
           /\ cfin' = (cfin \/ (cli.file /\ to' = << >> /\ nread = typed))
           /\ stdineof' = (stdineof \/ (cli.file /\ to' = << >> /\ nread = typed))
           /\ UNCHANGED exit
  <2> USE <1>6
  <2>1. /\ to' \in Seq(Nat) /\ too' \in Nat /\ c2s' \in Seq(Nat) /\ rst' \in BOOLEAN
        /\ ((to' = << >> /\ too' = 0) \/ too' < Len(to'))
        /\ Len(c2s') <= C2S /\ (rst' => srv = "dead") /\ FlowInv' /\ ~cfin /\ srv # "done"
    BY WritePieceMoves, Zenon DEF StrIInv
  <2> /\ pc' \in {"write", "readline", "handle", "select"} /\ (to' # << >> => pc' = "write")
      /\ cli.style = "lockstep" => pc' \in {"write", "readline"}
      /\ cli.style = "select" => pc' \in {"write", "handle", "select"}
    BY TopIs, Zenon DEF Continue
  <2>3. cfin' \in BOOLEAN /\ stdineof' \in BOOLEAN
    BY DEF StrIInv, StrTypeOK
  <2>4. cfin' => InputRead /\ to' = << >> /\ cli.style # "lockstep" /\ stdineof'
    <3>1. SUFFICES ASSUME cfin'
                   PROVE  InputRead /\ to' = << >> /\ cli.style # "lockstep" /\ stdineof'
      BY Zenon
    <3>2. cli.file /\ to' = << >> /\ nread = typed /\ stdineof'
      BY <2>1, <3>1, Zenon
    <3> QED BY <3>2, Zenon DEF StrIInv, ProgOK, InputInv, InputRead
  <2>5. stdineof' => InputRead
    BY <2>4 DEF StrIInv, EndInv
  <2>6. EndInv'
    BY <2>1, <2>4, <2>5, Zenon DEF StrIInv, EndInv, InputRead
  <2>7. ProgOK' /\ InputInv' /\ BufferInv'
    BY <2>1, Zenon DEF StrIInv, ProgOK, InputInv, BufferInv
  <2>8. NothingLost' /\ PrematureIsReal'
    BY Zenon DEF NothingLost, PrematureIsReal
  <2>9. StrTypeOK'
    BY <2>1, <2>3, Zenon DEF StrIInv, StrTypeOK
  <2>10. ControlInv'
    <3>1. cli.style = "lockstep" => cli.readline
      BY Zenon DEF StrIInv, ProgOK
    <3> QED BY <1>3, <3>1, Zenon DEF StrIInv, ControlInv
  <2>11. LineInv'
    <3>1. \A j \in 1 .. Len(fr) : ~EndOfLine(fr[j])
      OBVIOUS
    <3> QED BY <3>1, Zenon DEF StrIInv, LineInv
  <2> QED BY <2>1, <2>6, <2>7, <2>8, <2>9, <2>10, <2>11, Zenon DEF StrIInv
<1> QED BY <1>5, <1>6, Zenon DEF Write

\* Writen() in the writer; SIGPIPE ends the process, the parent alone.
LEMMA CopyToWriteKeeps == ASSUME StrIInv, CopyToWrite PROVE StrIInv'
<1> wpc = "write" /\ Running /\ Threaded /\ pc # "connect"
  BY Zenon DEF StrIInv, CopyToWrite, ControlInv, ProgOK
<1> UNCHANGED <<prog, stdin, nread, sio, taken, output, flags, toClient, server>>
  BY Zenon DEF CopyToWrite
<1>3. CASE /\ WritePiece /\ wpc' = (IF to' = << >> THEN "fgets" ELSE wpc)
           /\ UNCHANGED <<pc, exit, cfin>>
  <2> USE <1>3
  <2>1. /\ to' \in Seq(Nat) /\ too' \in Nat /\ c2s' \in Seq(Nat) /\ rst' \in BOOLEAN
        /\ ((to' = << >> /\ too' = 0) \/ too' < Len(to'))
        /\ Len(c2s') <= C2S /\ (rst' => srv = "dead") /\ FlowInv' /\ ~cfin /\ srv # "done"
    BY WritePieceMoves DEF StrIInv
  <2>2. wpc' \in {"fgets", "write"} /\ (to' # << >> => wpc' = "write")
    OBVIOUS
  <2>3. EndInv'
    BY <2>1, Zenon DEF StrIInv, EndInv, InputRead
  <2>4. ProgOK' /\ InputInv' /\ BufferInv' /\ LineInv'
    BY <2>1, Zenon DEF StrIInv, ProgOK, InputInv, BufferInv, LineInv
  <2>5. NothingLost' /\ PrematureIsReal'
    BY Zenon DEF NothingLost, PrematureIsReal
  <2>6. StrTypeOK'
    <3>1. wpc' \in {"none", "fgets", "write", "pause", "flag", "end", "dead"}
      BY <2>2
    <3>2. StrTypeOK
      BY Zenon DEF StrIInv
    <3> QED BY <2>1, <3>1, <3>2, Zenon DEF StrTypeOK
  <2>7. ControlInv'
    BY <2>2, Zenon DEF StrIInv, ControlInv
  <2> QED BY <2>1, <2>3, <2>4, <2>5, <2>6, <2>7, Zenon DEF StrIInv
<1>4. CASE rst /\ wpc' = "dead" /\ UNCHANGED <<pc, exit, cfin, to, too, c2s, rst>>
  <2> USE <1>4
  <2>1. srv = "dead"
    BY Zenon DEF StrIInv, EndInv
  <2>2. ProgOK' /\ InputInv' /\ BufferInv' /\ LineInv'
    BY Zenon DEF StrIInv, ProgOK, InputInv, BufferInv, LineInv
  <2>3. NothingLost' /\ PrematureIsReal'
    BY Zenon DEF NothingLost, PrematureIsReal
  <2>4. StrTypeOK'
    BY DEF StrIInv, StrTypeOK
  <2>5. FlowInv'
    BY <2>1, Zenon DEF StrIInv, FlowInv, AfterFr, AfterRl
  <2>6. ControlInv' /\ EndInv'
    BY <2>1, Zenon DEF StrIInv, ControlInv, EndInv, InputRead
  <2> QED BY <2>2, <2>3, <2>4, <2>5, <2>6, Zenon DEF StrIInv
<1>5. CASE rst /\ Exit("killed") /\ UNCHANGED <<wpc, to, too, c2s, rst>>
  BY <1>5, SigpipeKeeps, Zenon
<1> QED BY <1>3, <1>4, <1>5, Zenon DEF CopyToWrite

\* write() to the socket in strclinonb.c: what fits, or nothing.
LEMMA NonbWriteKeeps == ASSUME StrIInv, NonbWrite PROVE StrIInv'
<1>1. pc = "pass" /\ Running /\ cli.style = "nonb" /\ ~Threaded
  BY Zenon DEF StrIInv, NonbWrite, ControlInv, ProgOK
<1>2. UNCHANGED <<prog, wpc, stdin, nread, sio, taken, output, flags, toClient, server>>
  BY DEF NonbWrite
<1>3. CASE rst /\ Exit("killed") /\ UNCHANGED <<to, too, c2s, rst>>
  BY <1>2, <1>3, SigpipeKeeps
<1> DEFINE n == IF srv = "run" THEN Min2(C2S - Len(c2s), Len(to) - too) ELSE Len(to) - too
<1>4. CASE /\ ~rst
           /\ c2s' = IF srv = "run" THEN c2s \o SubSeq(to, too + 1, too + n) ELSE c2s
           /\ rst' = (srv # "run" /\ n > 0)
           /\ IF too + n = Len(to) THEN to' = << >> /\ too' = 0 /\ cfin' = (cfin \/ stdineof)
              ELSE too' = too + n /\ UNCHANGED <<to, cfin>>
           /\ UNCHANGED <<pc, exit>>
  <2>1. /\ to \in Seq(Nat) /\ c2s \in Seq(Nat) /\ too \in Nat /\ too <= Len(to)
        /\ Len(c2s) <= C2S /\ C2S \in Nat /\ (too = Len(to) => to = << >>) /\ taken \in Seq(Nat)
    BY Bounds DEF StrIInv, StrTypeOK, BufferInv
  <2>2. n \in Nat /\ too + n <= Len(to) /\ (srv = "run" => Len(c2s) + n <= C2S)
    BY <2>1 DEF Min2
  <2>12. rst' \in BOOLEAN /\ (rst' => srv # "run" /\ n > 0)
    BY <1>4, Zenon
  <2> HIDE DEF n
  <2>3. cfin => to = << >>
    BY <1>1 DEF StrIInv, EndInv
  <2>4. /\ to' \in Seq(Nat) /\ too' \in Nat /\ ((to' = << >> /\ too' = 0) \/ too' < Len(to'))
        /\ IF too + n = Len(to) THEN to' = << >> /\ too' = 0 ELSE too' = too + n /\ to' = to
    <3>1. CASE too + n = Len(to)
      BY <1>4, <3>1
    <3>2. CASE too + n # Len(to)
      BY <1>4, <2>1, <2>2, <3>2
    <3> QED BY <3>1, <3>2
  <2>5. /\ c2s' \in Seq(Nat) /\ Len(c2s') <= C2S /\ FlowInv' /\ (srv = "done" => c2s' = c2s)
        /\ rst' => srv = "dead"
    <3>1. CASE srv = "run"
      <4> DEFINE p == SubSeq(to, too + 1, too + n)
      <4>1. p \in Seq(Nat) /\ Len(p) = n
        BY <2>1, <2>2, PartFacts
      <4>2. Cut(c2s, AfterSbuf, taken) /\ Cut(to, AfterC2s - too, taken)
        BY <1>1, <3>1 DEF StrIInv, FlowInv
      <4>3. Cut(p, (AfterC2s - too) + too, taken)
        BY <2>1, <2>2, <4>2, CutPart, Zenon
      <4>4. (AfterC2s - too) + too = AfterSbuf + Len(c2s)
        BY <2>1, <4>2 DEF AfterC2s, Cut
      <4>5. c2s' = c2s \o p
        BY <1>4, <3>1
      <4> HIDE DEF p
      <4>6. c2s' \in Seq(Nat) /\ Len(c2s') = Len(c2s) + n
        BY <2>1, <4>1, <4>5, ConcatFacts, Zenon
      <4>7. Cut(c2s', AfterSbuf, taken)
        BY <2>1, <4>1, <4>2, <4>3, <4>4, <4>5, CutJoin
      <4>8. FlowInv'
        BY <1>2, <1>4, <2>2, <2>4, <4>6, <4>7, FlowSends, Zenon DEF StrIInv
      <4>9. ~rst' /\ Len(c2s') <= C2S
        BY <1>4, <2>1, <2>2, <3>1, <4>6, Zenon
      <4> QED BY <3>1, <4>6, <4>8, <4>9
    <3>2. CASE srv = "done"
      <4>1. cfin /\ to = << >> /\ too = 0
        BY <2>1, <2>3, <3>2 DEF StrIInv, EndInv, BufferInv
      <4>2. n = 0 /\ too + n = Len(to)
        BY <2>2, <4>1
      <4>5. to' = << >> /\ too' = 0
        BY <2>4, <4>2
      <4>6. ~rst'
        BY <2>12, <4>2
      <4>3. c2s' = c2s /\ ~rst' /\ to' = to /\ too' = too
        BY <1>4, <3>2, <4>1, <4>5, <4>6
      <4>4. FlowInv'
        BY <1>2, <1>4, <4>3, Zenon
        DEF StrIInv, FlowInv, AfterFr, AfterRl, AfterS2c, AfterSbuf, AfterC2s
      <4> QED BY <2>1, <4>3, <4>4
    <3>3. CASE srv = "dead"
      <4>1. c2s' = c2s
        BY <1>4, <3>3
      <4>2. FlowInv'
        BY <1>2, <1>4, <3>3 DEF StrIInv, FlowInv, AfterFr, AfterRl
      <4> QED BY <2>1, <3>3, <4>1, <4>2
    <3> QED BY <3>1, <3>2, <3>3 DEF StrIInv, StrTypeOK
  <2>6. /\ cfin' \in BOOLEAN /\ (cfin => cfin')
        /\ cfin' => to' = << >> /\ (cfin \/ stdineof)
    <3>1. cfin \in BOOLEAN /\ stdineof \in BOOLEAN
      BY DEF StrIInv, StrTypeOK
    <3>2. CASE too + n = Len(to)
      BY <1>4, <3>1, <3>2
    <3>3. CASE too + n # Len(to)
      <4>1. to # << >>
        BY <2>1, <2>2, <3>3
      <4> QED BY <1>4, <2>3, <3>1, <3>3, <4>1
    <3> QED BY <3>2, <3>3
  <2>7. EndInv'
    BY <1>1, <1>2, <1>4, <2>5, <2>6, Zenon DEF StrIInv, EndInv, InputRead
  <2>8. ProgOK' /\ InputInv' /\ BufferInv' /\ LineInv'
    BY <1>1, <1>2, <2>4, <2>5, Zenon DEF StrIInv, ProgOK, InputInv, BufferInv, LineInv
  <2>9. NothingLost' /\ PrematureIsReal'
    BY <1>1, <1>4 DEF NothingLost, PrematureIsReal
  <2>10. StrTypeOK'
    <3>1. UNCHANGED <<pc, exit>>
      BY <1>4
    <3>2. to' \in Seq(Nat) /\ too' \in Nat
      BY <2>4
    <3>5. c2s' \in Seq(Nat)
      BY <2>5
    <3>3. rst' \in BOOLEAN
      BY <2>12
    <3>4. cfin' \in BOOLEAN
      BY <2>6
    <3> QED BY <1>2, <3>1, <3>2, <3>3, <3>4, <3>5 DEF StrIInv, StrTypeOK
  <2>11. ControlInv'
    BY <1>1, <1>2, <1>4, Zenon DEF StrIInv, ControlInv
  <2> QED BY <2>5, <2>7, <2>8, <2>9, <2>10, <2>11 DEF StrIInv
<1> QED BY <1>3, <1>4, Zenon DEF NonbWrite
=============================================================================
