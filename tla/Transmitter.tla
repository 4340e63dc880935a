---------------------------- MODULE Transmitter ----------------------------
(***************************************************************************)
(* A transmitting process whose connections are accepted and answered, and *)
(* what makes the transmitter correct.                                     *)
(***************************************************************************)
EXTENDS Tx

vars == <<wireVars, txVars>>

\* The far end, reduced to what the transmitter waits for.
Peer == \E c \in Conn : (Taken(c) \/ Answer(c)) /\ UNCHANGED txVars

Init == WireInit /\ TxInit

Next == TxNext \/ Peer

Spec == Init /\ [][Next]_vars

(***************************************************************************)
(* Fairness: every thread that can run is run, the source sends or ends,   *)
(* the far end answers.  Nothing has to fail.                              *)
(***************************************************************************)
Fairness ==
    /\ WF_vars(TxMain) /\ WF_vars(TxIngest) /\ WF_vars(Peer)
    /\ \A w \in Conn : WF_vars(TxWorker(w))

FairSpec == Spec /\ Fairness

-----------------------------------------------------------------------------
TypeOK == WireTypeOK /\ TxTypeOK

(***************************************************************************)
(* The buffer has one user at a time although no lock covers it: while the *)
(* ingest thread reads into the buffer of the worker it has found idle, or *)
(* fills in its header, that worker is not pushing it.                     *)
(***************************************************************************)
Filling == ipc \in {"read", "shutdown", "size", "leg", "start"}

Pushing(w) == wpc[w] \in {"push", "writev", "finish"}

BufferLease == Filling => state[chosen] = "i" /\ ~Pushing(chosen)

(***************************************************************************)
(* Everything on a connection is a whole leg, in the order of leg numbers; *)
(* the receiver, which reads a connection only as far as the sequencer has *)
(* come, would otherwise never reach the leg it wants.                     *)
(***************************************************************************)
WireAscending ==
    \A c \in Conn : \A i, j \in 1..Len(wire[c]) :
        i < j => wire[c][i].leg_id < wire[c][j].leg_id

(***************************************************************************)
(* What is on the wires is the input: the packet with leg number n bears   *)
(* piece n of the input, or is the end of the stream ("Order is guaranteed *)
(* and the pipe is transparent", README.md).                               *)
(***************************************************************************)
StreamIntact ==
    \A c \in Conn : \A i \in 1..Len(wire[c]) :
        LET p == wire[c][i] IN
        \/ p.opcode = "feed_more" /\ p.size = Foot /\ p.data = p.leg_id
        \/ p.opcode = "end_of_millipede" /\ p.leg_id + 1 = ingest_leg_counter

(***************************************************************************)
(* "leglimit <long> stop after a number of legs" (README.md): no more than *)
(* that many data legs are given to workers, and the end leg after them.   *)
(***************************************************************************)
LimitHeld ==
    gleg_limit > 0 => ingest_leg_counter <= gleg_limit + (IF ipc = "complete" THEN 1 ELSE 0)

(***************************************************************************)
(* exit(0) comes after the last leg: tx_poll() is there to "wait until all *)
(* legs are pushed" (tx.c).                                                *)
(***************************************************************************)
AllPushedAtExit ==
    txproc = "exit0" =>
        \E c \in Conn : \E i \in 1..Len(wire[c]) : wire[c][i].opcode = "end_of_millipede"

(***************************************************************************)
(* A worker whose thread has left while it bears a leg nobody will push.   *)
(***************************************************************************)
Stranded == \E w \in Conn : state[w] = "d" /\ wpc[w] = "gone"

(***************************************************************************)
(* The transmitter comes to its end.  The only thing that can hold it up   *)
(* for ever is the end_of_millipede leg given to a worker that has left.   *)
(***************************************************************************)
EndsOrStrands == <>(txproc # "run" \/ Stranded)

(***************************************************************************)
(* The transmitter keeps the promise of module Feed.  A leg is leased from *)
(* start_worker() until writev() has taken it.                             *)
(***************************************************************************)
Leased(w) == state[w] \in {"d", "P"} /\ wpc[w] # "finish"

Lease == [w \in Conn |-> IF Leased(w) THEN Framed(w) ELSE Blank]

F == INSTANCE Feed WITH
        Aliens <- {},
        lease <- Lease,
        fed <- ingest_leg_counter,
        ended <- (ipc = "complete")

ImplementsFeed == F!FeedSpec
=============================================================================
