------------------------------ MODULE MCStartup ------------------------------
(* A small instance of Startup for TLC. *)
EXTENDS Startup

CONSTANTS ingest, main
TwoReaders == {ingest, main}
=============================================================================
