------------------------------ MODULE EchoPipe ------------------------------
(***************************************************************************)
(* What every str_cli() promises to whoever runs it: the lines that come    *)
(* out are the lines that went in, each once and in order, and nothing      *)
(* comes out once the client has ended.                                     *)
(***************************************************************************)
EXTENDS Naturals, Sequences

VARIABLES
  taken,    \* lines accepted from standard input
  shown,    \* lines written to standard output
  ended

pipevars == <<taken, shown, ended>>

Init == taken = << >> /\ shown = << >> /\ ended = FALSE

\* One or more lines are accepted; lines are numbered as they were typed.
Take ==
  /\ ~ended /\ Len(taken') > Len(taken)
  /\ SubSeq(taken', 1, Len(taken)) = taken
  /\ \A j \in 2 .. Len(taken') : taken'[j - 1] < taken'[j]
  /\ UNCHANGED <<shown, ended>>

\* The next lines that were accepted and not yet shown come out.
Show ==
  /\ ~ended /\ \E n \in Len(shown) + 1 .. Len(taken) : shown' = SubSeq(taken, 1, n)
  /\ UNCHANGED <<taken, ended>>

End == ended' = TRUE /\ UNCHANGED <<taken, shown>>

Next == Take \/ Show \/ End

Spec == Init /\ [][Next]_pipevars
=============================================================================
