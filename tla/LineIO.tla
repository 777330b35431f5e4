------------------------------- MODULE LineIO -------------------------------
(***************************************************************************)
(* Whole lines and exact counts over read() and write(), which give short   *)
(* counts and are interrupted: readline() of lib/readline.c, of             *)
(* threads/readline.c (a buffer per thread), of server/readline.c (no       *)
(* buffer) and server/readline_r.c (a buffer per call of readline_rinit),   *)
(* lib/readn.c and lib/writen.c.  The callers, the threads of               *)
(* threads/test04.c or the children of server/web_child_r.c, go through     *)
(* several files or connections one after the other.                        *)
(***************************************************************************)
EXTENDS Integers, Sequences, FiniteSets, SequencesExt

CONSTANTS
  Callers,    \* threads, or processes
  maxlen,     \* the size of the caller's line
  BufLen,     \* bound: bytes of read_buf (MAXLINE)
  MaxBytes,   \* bound: bytes in a file
  MaxFiles,   \* files one caller opens (5 in test04.c)
  MaxIntr     \* bound: signals caught during read() or write()

VARIABLES
  func,       \* the function under call, a record below
  input,      \* the bytes of every file
  file, off,  \* the file each caller reads, and how far the kernel has read it
  read_buf,   \* bytes read() has returned and readline() has not
  n, line,    \* the loop index, and the bytes stored in the caller's line
  pc, ret,    \* where each caller is, and the last return value
  got,        \* history: the bytes of this file in lines returned before
  intr        \* signals caught so far

lvars == <<func, input, file, off, read_buf, n, line, pc, ret, got, intr>>

\* Is there a buffer, is read() called again after a signal, is the buffer emptied
\* for every file, are the callers threads, is n one too many at end-of-file?
lib_readline ==
  [name |-> "readline", buffer |-> TRUE, restart |-> TRUE, init |-> FALSE, threads |-> FALSE, extra |-> 0]
threads_readline ==
  [name |-> "readline", buffer |-> TRUE, restart |-> TRUE, init |-> FALSE, threads |-> TRUE, extra |-> 0]
server_readline ==
  [name |-> "readline", buffer |-> FALSE, restart |-> FALSE, init |-> FALSE, threads |-> TRUE, extra |-> 1]
readline_r ==
  [name |-> "readline", buffer |-> TRUE, restart |-> TRUE, init |-> TRUE, threads |-> FALSE, extra |-> 1]
readn ==
  [name |-> "readn", buffer |-> FALSE, restart |-> TRUE, init |-> FALSE, threads |-> FALSE, extra |-> 0]
writen ==
  [name |-> "writen", buffer |-> FALSE, restart |-> TRUE, init |-> FALSE, threads |-> FALSE, extra |-> 0]

Byte(t, k) == [of |-> t, file |-> file[t], at |-> k]
Bytes(t, a, b) == [k \in 1 .. b - a + 1 |-> Byte(t, a + k - 1)]
IsNewline(b) == input[b.at] = "\n"
Avail(t) == Len(input) - off[t]

LineInit ==
  /\ func \in {lib_readline, threads_readline, server_readline, readline_r, readn, writen}
  /\ input \in UNION {[1 .. m -> {"x", "\n"}] : m \in 0 .. MaxBytes}
  /\ file = [t \in Callers |-> 1] /\ off = [t \in Callers |-> 0]
  /\ read_buf = [t \in Callers |-> << >>]
  /\ n = [t \in Callers |-> 0] /\ line = [t \in Callers |-> << >>]
  /\ pc = [t \in Callers |-> "call"] /\ ret = [t \in Callers |-> 0]
  /\ got = [t \in Callers |-> << >>] /\ intr = 0

-----------------------------------------------------------------------------
\* The caller's loop calls again; writen() is only called for bytes there are.
Call(t) ==
  /\ pc[t] = "call"
  /\ func.name = "writen" => Avail(t) > 0
  /\ pc' = [pc EXCEPT ![t] = func.name]
  /\ n' = [n EXCEPT ![t] = IF func.name = "writen" /\ Avail(t) < maxlen THEN Avail(t)
                           ELSE IF func.name = "readline" THEN 1 ELSE maxlen]
  /\ line' = [line EXCEPT ![t] = << >>]
  /\ UNCHANGED <<func, input, file, off, read_buf, ret, got, intr>>

Return(t, v) == pc' = [pc EXCEPT ![t] = "returned"] /\ ret' = [ret EXCEPT ![t] = v]

\* A system call is interrupted: again, or error -1.
Eintr(t) ==
  /\ pc[t] \in {"readline", "readn", "writen"} /\ read_buf[t] = << >>
  /\ IF pc[t] = "readline" THEN n[t] < maxlen ELSE n[t] > 0
  /\ intr < MaxIntr /\ intr' = intr + 1
  /\ IF func.restart THEN UNCHANGED <<pc, ret>> ELSE Return(t, -1)
  /\ UNCHANGED <<func, input, file, off, read_buf, n, line, got>>

\* Mutant: one buffer for all callers, as in test04b, which takes lib/readline.c.
my_read_Shared(t) ==
  /\ pc[t] = "readline" /\ n[t] < maxlen /\ read_buf[t] = << >> /\ Avail(t) > 0
  /\ \E k \in 1 .. (IF func.buffer THEN BufLen ELSE 1) :
       /\ k <= Avail(t) /\ off' = [off EXCEPT ![t] = @ + k]
       /\ read_buf' = [u \in Callers |-> Bytes(t, off[t] + 1, off[t] + k)]
  /\ UNCHANGED <<func, input, file, n, line, pc, ret, got, intr>>

\* read() fills the empty buffer with what has arrived, at most its size.
my_read(t) ==
  /\ pc[t] = "readline" /\ n[t] < maxlen /\ read_buf[t] = << >> /\ Avail(t) > 0
  /\ \E k \in 1 .. (IF func.buffer THEN BufLen ELSE 1) :
       /\ k <= Avail(t) /\ off' = [off EXCEPT ![t] = @ + k]
       /\ read_buf' = [read_buf EXCEPT ![t] = Bytes(t, off[t] + 1, off[t] + k)]
  /\ UNCHANGED <<func, input, file, n, line, pc, ret, got, intr>>

\* One turn of the loop: store a byte, end at a newline, at end-of-file or when
\* the line is full.  There n is one more than the bytes stored; and so it is
\* at end-of-file in server/, where n and not n - 1 is returned.
readline(t) ==
  /\ pc[t] = "readline"
  /\ \/ /\ n[t] < maxlen /\ read_buf[t] # << >>
        /\ line' = [line EXCEPT ![t] = Append(@, Head(read_buf[t]))]
        /\ read_buf' = [read_buf EXCEPT ![t] = Tail(@)]
        /\ IF IsNewline(Head(read_buf[t]))
           THEN Return(t, n[t]) /\ UNCHANGED n
           ELSE n' = [n EXCEPT ![t] = @ + 1] /\ UNCHANGED <<pc, ret>>
     \/ /\ n[t] < maxlen /\ read_buf[t] = << >> /\ Avail(t) = 0
        /\ Return(t, IF n[t] = 1 THEN 0 ELSE n[t] - 1 + func.extra)
        /\ UNCHANGED <<read_buf, n, line>>
     \/ n[t] = maxlen /\ Return(t, n[t]) /\ UNCHANGED <<read_buf, n, line>>
  /\ UNCHANGED <<func, input, file, off, got, intr>>

\* readn(), with nleft in n: short reads are put together, until end-of-file.
Readn(t) ==
  /\ pc[t] = "readn"
  /\ \/ /\ n[t] > 0 /\ \E k \in 1 .. n[t] :
             /\ k <= Avail(t) /\ off' = [off EXCEPT ![t] = @ + k] /\ n' = [n EXCEPT ![t] = @ - k]
             /\ line' = [line EXCEPT ![t] = @ \o Bytes(t, off[t] + 1, off[t] + k)]
        /\ UNCHANGED <<pc, ret>>
     \/ /\ (n[t] = 0 \/ Avail(t) = 0)
        /\ Return(t, maxlen - n[t]) /\ UNCHANGED <<off, n, line>>
  /\ UNCHANGED <<func, input, file, read_buf, got, intr>>

\* writen(), with nleft in n: what write() has not taken is written again.
Writen(t) ==
  /\ pc[t] = "writen"
  /\ \/ /\ \E k \in 1 .. n[t] :
             /\ off' = [off EXCEPT ![t] = @ + k] /\ n' = [n EXCEPT ![t] = @ - k]
             /\ line' = [line EXCEPT ![t] = @ \o Bytes(t, off[t] + 1, off[t] + k)]
        /\ UNCHANGED <<pc, ret>>
     \/ n[t] = 0 /\ Return(t, Len(line[t])) /\ UNCHANGED <<off, n, line>>
  /\ UNCHANGED <<func, input, file, read_buf, got, intr>>

\* Readline(), Readn() and Writen(): an error ends the process.
Readline(t) ==
  /\ pc[t] = "returned" /\ ret[t] # 0
  /\ IF ret[t] < 0
     THEN /\ pc' = [u \in Callers |-> IF u = t \/ func.threads THEN "err_sys" ELSE pc[u]]
          /\ UNCHANGED <<line, got>>
     ELSE /\ pc' = [pc EXCEPT ![t] = "call"] /\ line' = [line EXCEPT ![t] = << >>]
          /\ got' = [got EXCEPT ![t] = @ \o line[t]]
  /\ UNCHANGED <<func, input, file, off, read_buf, n, ret, intr>>

\* readline_rinit() empties the buffer; the others keep theirs from file to file.
readline_rinit(t) == [read_buf EXCEPT ![t] = IF func.init THEN << >> ELSE @]

\* End-of-file: the next file, on another descriptor, is read from its start.
NextFile(t) ==
  /\ (pc[t] = "returned" /\ ret[t] = 0) \/ (pc[t] = "call" /\ func.name = "writen" /\ Avail(t) = 0)
  /\ IF file[t] = MaxFiles
     THEN pc' = [pc EXCEPT ![t] = "done"] /\ UNCHANGED <<file, off, read_buf, got>>
     ELSE /\ pc' = [pc EXCEPT ![t] = "call"]
          /\ file' = [file EXCEPT ![t] = @ + 1] /\ off' = [off EXCEPT ![t] = 0]
          /\ read_buf' = readline_rinit(t) /\ got' = [got EXCEPT ![t] = << >>]
  /\ UNCHANGED <<func, input, n, line, ret, intr>>

CallerStep(t) ==
  Call(t) \/ my_read(t) \/ readline(t) \/ Readn(t) \/ Writen(t) \/ Readline(t) \/ NextFile(t)

LineNext == \E t \in Callers : CallerStep(t) \/ Eintr(t)

\* Every caller runs, and the bytes of a file are there to be read.
LineSpec == LineInit /\ [][LineNext]_lvars /\ \A t \in Callers : WF_lvars(CallerStep(t))

-----------------------------------------------------------------------------
\* What a caller has been given, and what waits in its buffer, is its own file
\* from the first byte, nothing lost, repeated or taken from another caller or
\* from a file read before, whatever counts read() and write() gave and however
\* often a signal interrupted them.
FileInOrder ==
  \A t \in Callers :
    LET this == IF pc[t] \in {"call", "done"} THEN << >> ELSE line[t]
    IN  pc[t] # "err_sys" => got[t] \o this \o read_buf[t] = Bytes(t, 1, off[t])

LastOf(t) == line[t][Len(line[t])]

\* What a call returns: a line holds at most one newline, as its last byte, and
\* leaves room for the 0; a line without one is full or ends the file.  The
\* value is the number of bytes stored, but one more where the line is full or,
\* in server/, ends at end-of-file; readn() gives less than it was asked for
\* only at end-of-file.
ReturnExact ==
  \A t \in Callers :
    pc[t] = "returned" /\ ret[t] >= 0 =>
      IF func.name = "readline"
      THEN LET stored == Len(line[t])
               newline == stored > 0 /\ IsNewline(LastOf(t))
               eof == ~newline /\ stored < maxlen - 1
           IN  /\ stored < maxlen /\ \A k \in 1 .. stored - 1 : ~IsNewline(line[t][k])
               /\ eof => off[t] = Len(input) /\ read_buf[t] = << >>
               /\ ret[t] - stored = IF newline \/ stored = 0 THEN 0 ELSE IF eof THEN func.extra ELSE 1
      ELSE ret[t] = Len(line[t]) /\ (ret[t] < maxlen => off[t] = Len(input))

\* Every caller gets through its files, but for a signal that server/readline.c,
\* which does not call read() again, takes for an error.
AllRead == \A t \in Callers : pc[t] = "done" \/ (~func.restart /\ pc[t] = "err_sys")
=============================================================================
