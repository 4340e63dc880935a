--------------------------- MODULE MCTransmitter ---------------------------
(***************************************************************************)
(* Small instances of Transmitter for TLC.                                 *)
(***************************************************************************)
EXTENDS TransmitterInv

TwoConns == 0..1
=============================================================================
