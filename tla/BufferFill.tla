----------------------------- MODULE BufferFill -----------------------------
(***************************************************************************)
(* Cutting the input into legs: bufferfill() (plumbing.c), called for one  *)
(* leg after the other by txingest() (tx.c).                               *)
(*                                                                         *)
(* The bytes of the input are told apart by their position.  read()        *)
(* returns as many bytes as it likes, up to what was asked for; 0 at the   *)
(* end of the input; or it fails, and then errno is set and checkperror()  *)
(* ends the process before the code looks at the negative size.            *)
(***************************************************************************)
EXTENDS Naturals

CONSTANTS
    kfootsize,  \* size of the buffer
    MAXBSIZE,   \* most that is asked of one read()
    InputLen    \* number of bytes the input has

ASSUME BufferFillAssumption ==
    /\ kfootsize \in Nat \ {0} /\ MAXBSIZE \in Nat \ {0}
    /\ InputLen \in Nat

VARIABLES
    charmode,      \* "charmode" on the command line; it does not change
    bpc,           \* "read": in the loop; "filled": returned; "shutdown": input exhausted; "dead"
    pos,           \* bytes the source has been asked for and has given
    accumulator, remainder,
    dest,          \* dest[i]: position of the byte in place i of the buffer
    handed         \* bytes handed to workers so far

fillVars == <<charmode, bpc, pos, accumulator, remainder, dest, handed>>

Least(a, b) == IF a < b THEN a ELSE b

\* Every variable has its type; in particular the counts stay within the buffer.
FillTypeOK ==
    /\ charmode \in BOOLEAN
    /\ bpc \in {"read", "filled", "shutdown", "dead"}
    /\ pos \in 0..InputLen
    /\ accumulator \in 0..kfootsize /\ remainder \in 0..kfootsize
    /\ dest \in [0..(kfootsize - 1) -> Nat]
    /\ handed \in 0..InputLen

\* A call of bufferfill() sets up its locals.
FillInit ==
    /\ charmode \in BOOLEAN
    /\ bpc = "read" /\ pos = 0
    /\ accumulator = 0 /\ remainder = kfootsize
    /\ dest = [i \in 0..(kfootsize - 1) |-> 0]
    /\ handed = 0

\* Mutant: as much is asked for as the buffer holds when empty.
AskedWhole == Least(MAXBSIZE, kfootsize)

\* What read() is asked for.
Asked == Least(MAXBSIZE, remainder)

\* Mutant: the place in the buffer is not moved on.
StoredAtStart(n) == [i \in 0..(kfootsize - 1) |-> IF i < n THEN pos + i ELSE dest[i]]

\* The buffer once n bytes have come to where dest_cursor points.
Stored(n) == [i \in 0..(kfootsize - 1) |->
    IF i \in accumulator..(accumulator + n - 1) THEN pos + (i - accumulator) ELSE dest[i]]

\* Mutant: a short read ends the loop in either mode.
EnoughShort(n) == n < MAXBSIZE \/ remainder = n

\* n bytes end the loop: the buffer is full, or charmode takes what there is.
Enough(n) == charmode \/ remainder = n

\* read() returns n bytes.
Read(n) ==
    /\ bpc = "read"
    /\ n \in 1..Asked /\ n <= InputLen - pos
    /\ dest' = Stored(n)
    /\ pos' = pos + n
    /\ accumulator' = accumulator + n /\ remainder' = remainder - n
    /\ bpc' = IF Enough(n) THEN "filled" ELSE "read"
    /\ UNCHANGED <<charmode, handed>>

\* Mutant: the end of the input is taken for a pause.
ReadEofRetries == bpc = "read" /\ pos = InputLen /\ UNCHANGED fillVars

\* read() returns 0: what has been gathered is the leg.
ReadEof ==
    /\ bpc = "read" /\ pos = InputLen
    /\ bpc' = "filled"
    /\ UNCHANGED <<charmode, pos, accumulator, remainder, dest, handed>>

\* read() fails, or something else ends the process.
ReadFails ==
    /\ bpc \in {"read", "filled"}
    /\ bpc' = "dead"
    /\ UNCHANGED <<charmode, pos, accumulator, remainder, dest, handed>>

\* txingest() hands the leg to a worker and calls bufferfill() for the next.
Handover ==
    /\ bpc = "filled" /\ accumulator > 0
    /\ handed' = handed + accumulator
    /\ accumulator' = 0 /\ remainder' = kfootsize
    /\ bpc' = "read"
    /\ UNCHANGED <<charmode, pos, dest>>

\* A leg of no bytes is the end of the input to txingest().
Shutdown ==
    /\ bpc = "filled" /\ accumulator = 0
    /\ bpc' = "shutdown"
    /\ UNCHANGED <<charmode, pos, accumulator, remainder, dest, handed>>

FillNext == (\E n \in 1..kfootsize : Read(n)) \/ ReadEof \/ ReadFails \/ Handover \/ Shutdown

FillSpec == FillInit /\ [][FillNext]_fillVars

-----------------------------------------------------------------------------
(***************************************************************************)
(* No byte is lost, doubled or out of place, however read() cuts the       *)
(* input: what is in the buffer follows what has been handed over, and is  *)
(* all that has been read since (plumbing.c:43-57).                        *)
(***************************************************************************)
InPlace ==
    /\ pos = handed + accumulator
    /\ \A i \in 0..(accumulator - 1) : dest[i] = handed + i

(***************************************************************************)
(* What cuts a leg: in charmode bufferfill() never waits for more input    *)
(* while it holds some, "any data in the buffer" is delivered              *)
(* (README.md:118); otherwise short reads make no short legs, and a leg    *)
(* that is not full is the last one (plumbing.c:26, plumbing.c:66).        *)
(***************************************************************************)
CutByMode ==
    /\ charmode /\ bpc = "read" => accumulator = 0
    /\ bpc = "filled" /\ ~charmode /\ accumulator < kfootsize => pos = InputLen

(***************************************************************************)
(* The end of the stream is announced only when every byte of the input    *)
(* has been handed over, in charmode too (tx.c:111-113).                   *)
(***************************************************************************)
EndsAtEof == bpc = "shutdown" => handed = InputLen

(***************************************************************************)
(* Unless a read fails, the input is used up and its end announced.        *)
(***************************************************************************)
InputUsedUp == <>(bpc \in {"shutdown", "dead"})
=============================================================================
