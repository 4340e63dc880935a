----------------------------- MODULE MCReceiver -----------------------------
(***************************************************************************)
(* Small instances of Receiver for TLC.                                    *)
(***************************************************************************)
EXTENDS ReceiverInv, TLC

CONSTANTS c1, c2, c3, w1, w2, w3

TwoConns == {c1, c2}
ThreeConns == {c1, c2, c3}
ThreeWorkers == {w1, w2, w3}
NoAliens == {}
OneAlien == {c3}
Leg0 == {0}
Leg1 == {1}

\* Receiver threads are interchangeable, and so are the connections of the transmitter.
Interchange == Permutations(RxWorkers) \cup Permutations(Conn \ Aliens)
=============================================================================
