----------------------------- MODULE Millipede -----------------------------
(***************************************************************************)
(* The whole of a one-way transfer: the transmitter of Tx and the receiver *)
(* of Rx, both in full detail, over the connections of Wire.               *)
(***************************************************************************)
EXTENDS Tx, Rx

vars == <<wireVars, txVars, rxVars>>

Init == WireInit /\ TxInit /\ RxInit

\* The transmitter's failures (a connection refused or reset) come beside a
\* receiver that still runs as well as after it has ended.
Next ==
    \/ RxNext /\ UNCHANGED txVars
    \/ TxNext /\ UNCHANGED rxVars

Spec == Init /\ [][Next]_vars

-----------------------------------------------------------------------------
TypeOK == WireTypeOK /\ TxTypeOK /\ RxTypeOK

(***************************************************************************)
(* The two processes together are a pipe from the transmitter's input to   *)
(* the receiver's output: pieces count as taken when start_worker() hands  *)
(* them over, and the receiver's exit(0) closes the output.                *)
(***************************************************************************)
P == INSTANCE Pipe WITH
        taken <- IF ipc = "complete" THEN ingest_leg_counter - 1 ELSE ingest_leg_counter,
        eof <- (ipc = "complete"),
        finished <- (rxproc = "exit0")

ImplementsPipe == P!Spec
=============================================================================
