----------------------------- MODULE MCChecksum -----------------------------
(* A small instance of Checksum for TLC. *)
EXTENDS Checksum, Bitwise, TLC

CONSTANTS c1, c2

TwoConns == {c1, c2}
Interchange == Permutations(Conn)

\* Shorter than the sample, unaligned, and full.
ThreeSizes == {1, 3, 4}
BitXor(a, b) == a ^^ b
OffAndOn == {0, 5}
=============================================================================
