----------------------------- MODULE MCFraming -----------------------------
(* A small instance of Framing for TLC. *)
EXTENDS Framing
=============================================================================
