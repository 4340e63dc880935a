-------------------------------- MODULE Pipe --------------------------------
(***************************************************************************)
(* What viamillipede is for, without its threads and connections: a pipe.  *)
(* Pieces of input go in, numbered in the order they were read; they come  *)
(* out in that order, each once; the reader of the output is told that the *)
(* stream is finished only when the input has ended and all of it is out.  *)
(* A pipe may stop at any time, and then just stays short.                 *)
(***************************************************************************)
EXTENDS Naturals, Sequences

VARIABLES
    taken,     \* number of pieces read from the input
    eof,       \* the input has ended
    out,       \* the pieces written to the output
    finished   \* the output has been closed as complete

Init == taken = 0 /\ eof = FALSE /\ out = <<>> /\ finished = FALSE

Take ==
    /\ ~eof
    /\ taken' = taken + 1
    /\ UNCHANGED <<eof, out, finished>>

End ==
    /\ ~eof
    /\ eof' = TRUE
    /\ UNCHANGED <<taken, out, finished>>

Emit ==
    /\ ~finished
    /\ Len(out) < taken
    /\ out' = Append(out, Len(out))
    /\ UNCHANGED <<taken, eof, finished>>

Finish ==
    /\ eof /\ Len(out) = taken
    /\ finished' = TRUE
    /\ UNCHANGED <<taken, eof, out>>

Next == Take \/ End \/ Emit \/ Finish

Spec == Init /\ [][Next]_<<taken, eof, out, finished>>
=============================================================================
