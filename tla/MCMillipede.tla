---------------------------- MODULE MCMillipede ----------------------------
(***************************************************************************)
(* Small instances of Millipede for TLC.                                   *)
(***************************************************************************)
EXTENDS Millipede, TLC

CONSTANTS w1, w2

TwoConns == 0..1
TwoWorkers == {w1, w2}
Leg0 == {0}

\* Receiver threads are interchangeable.
ThreadSymmetry == Permutations(RxWorkers)
=============================================================================
