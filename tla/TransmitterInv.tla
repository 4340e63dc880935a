--------------------------- MODULE TransmitterInv ---------------------------
(***************************************************************************)
(* The inductive invariants of Transmitter: how the state letter alone     *)
(* keeps the ingest thread and the workers apart.                          *)
(***************************************************************************)
EXTENDS Transmitter

-----------------------------------------------------------------------------
(* Who may touch what *)

\* The letters that can be seen while the thread of w stands at its place.
Letters(w) ==
    /\ wpc[w] = "none" => state[w] = "E"
    /\ wpc[w] = "start" => state[w] = "L"
    /\ wpc[w] = "ok" => state[w] = "c"
    /\ wpc[w] \in {"reset_size", "reset_leg", "loop", "gone"} => state[w] \in {"i", "d"}
    /\ wpc[w] = "push" => state[w] = "d"
    /\ wpc[w] \in {"writev", "finish"} => state[w] = "P"

\* Until all workers are launched there is no ingest thread.
Launching ==
    mpc = "launch" =>
        /\ ipc = "off" /\ ~done /\ ingest_leg_counter = 0
        /\ \A w \in Conn : w >= cursor => wpc[w] = "none"

(***************************************************************************)
(* Only the ingest thread takes a worker out of 'i', so the one it has     *)
(* chosen stays idle until start_worker().                                 *)
(***************************************************************************)
LeaseInv ==
    /\ TypeOK /\ Launching
    /\ \A w \in Conn : Letters(w)
    /\ Filling => state[chosen] = "i"

(***************************************************************************)
(* The counter meets the leg limit exactly, because it grows by one and is *)
(* compared before every leg.                                              *)
(***************************************************************************)
LimitInv ==
    /\ TypeOK
    /\ mpc = "launch" => ipc = "off"
    /\ done => ipc \in {"size", "leg", "start", "complete"}
    /\ ipc = "complete" => done
    /\ gleg_limit > 0 =>
          /\ ipc # "complete" => ingest_leg_counter <= gleg_limit
          /\ ipc = "complete" => ingest_leg_counter <= gleg_limit + 1
          /\ ipc \in {"size", "leg", "start"} /\ ~done => ingest_leg_counter < gleg_limit

-----------------------------------------------------------------------------
(* What the header says *)

\* A source that holds back finds every worker past its start.
AllUp ==
    ingest_leg_counter > 0 \/ ipc \in {"shutdown", "size", "leg", "start", "complete"} =>
        \A w \in Conn : wpc[w] \in {"loop", "push", "writev", "finish", "gone"}

\* The header under construction, as far as it has been filled in.
Filled ==
    /\ ipc \in {"size", "leg", "start"} /\ ~done =>
          buffer[chosen] = ingest_leg_counter /\ ingest_leg_counter < MaxLegs
    /\ ipc \in {"leg", "start"} => hdr[chosen].size = IF done THEN 0 ELSE Foot
    /\ ipc = "start" =>
          /\ hdr[chosen].leg_id = ingest_leg_counter
          /\ hdr[chosen].opcode = IF done THEN "end_of_millipede" ELSE "feed_more"

\* A packet that bears the piece of input it is numbered for, or ends it all.
Honest(p) ==
    /\ p.leg_id < ingest_leg_counter
    /\ \/ p.opcode = "feed_more" /\ p.size = Foot /\ p.data = p.leg_id
       \/ /\ p.opcode = "end_of_millipede" /\ p.size = 0 /\ p.data = 0
          /\ ipc = "complete" /\ p.leg_id + 1 = ingest_leg_counter

AllHonest ==
    /\ \A w \in Conn : Leased(w) => Honest(Framed(w))
    /\ \A c \in Conn : \A i \in 1..Len(wire[c]) : Honest(wire[c][i])

\* A worker's next leg comes after all that it has written.
Ahead ==
    txproc = "run" => \A w \in Conn : \A i \in 1..Len(wire[w]) :
        Leased(w) => wire[w][i].leg_id < hdr[w].leg_id

\* How far the connection of a worker is.
Connected ==
    \A w \in Conn :
        /\ wpc[w] \in {"none", "start"} => conn[w] = "none"
        /\ wpc[w] = "ok" => conn[w] \in {"syn", "accepted", "open"}
        /\ wpc[w] \notin {"none", "start", "ok"} => conn[w] = "open"

(***************************************************************************)
(* With input that comes after all workers are up, every header on its way *)
(* is whole when its worker is handed the leg, and stays so.               *)
(***************************************************************************)
StreamInv ==
    /\ LeaseInv /\ LimitInv
    /\ AllUp /\ Filled /\ AllHonest /\ Ahead /\ WireAscending /\ Connected
=============================================================================
