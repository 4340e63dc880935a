-------------------------------- MODULE Wire --------------------------------
(***************************************************************************)
(* What the transmitter and the receiver of viamillipede share: one TCP    *)
(* connection per transmit worker, the packets in flight on it, and the    *)
(* fact that the sockets of a process close when the process ends.         *)
(*                                                                         *)
(* The bearer channel header (struct millipacket_s, cfg.h) keeps the       *)
(* fields that decide control flow.  Sizes are classes: 0, Foot (any size  *)
(* in 1..kfootsize) and Huge (more than kfootsize).  "data" names the      *)
(* piece of the input stream that the payload carries, "cut" says that the *)
(* connection ends before the whole payload has arrived.                   *)
(***************************************************************************)
EXTENDS Naturals, Sequences

CONSTANT Conn     \* the TCP connections, one for each transmit worker

ASSUME ConnAssumption == Conn # {}

Foot == 1
Huge == 2

Genuine == {"feed_more", "end_of_millipede"}

Packet == [leg_id : Nat, size : {0, Foot, Huge},
           opcode : Genuine \cup {"bogus", "none"},
           data : Nat, cut : BOOLEAN]

\* Memory that no packet was ever stored in.
Blank == [leg_id |-> 0, size |-> 0, opcode |-> "none", data |-> 0, cut |-> FALSE]

FeedMore(leg) == [leg_id |-> leg, size |-> Foot, opcode |-> "feed_more",
                  data |-> leg, cut |-> FALSE]

EndOfMillipede(leg) == [leg_id |-> leg, size |-> 0, opcode |-> "end_of_millipede",
                        data |-> 0, cut |-> FALSE]

\* The packet whose connection ends before the payload has arrived.
Cut(p) == [leg_id |-> p.leg_id, size |-> p.size, opcode |-> p.opcode,
           data |-> p.data, cut |-> TRUE]

VARIABLES
    wire,     \* wire[c]: packets written to connection c and not yet read
    conn,     \* conn[c]: how far the connection has been set up
    txproc    \* the transmitting process: running, or how it ended

wireVars == <<wire, conn, txproc>>

(***************************************************************************)
(* "syn": connected, the checkphrase is written, in the listen queue;      *)
(* "alien": the same by someone who writes another phrase; "accepted" and  *)
(* "foreign": taken from the queue; "open": answered "ok".                 *)
(***************************************************************************)
ConnState == {"none", "syn", "alien", "accepted", "foreign", "open"}

TxEnd == {"exit0", "failed"}

WireTypeOK ==
    /\ wire \in [Conn -> Seq(Packet)]
    /\ conn \in [Conn -> ConnState]
    /\ txproc \in {"run"} \cup TxEnd

WireInit ==
    /\ wire = [c \in Conn |-> <<>>]
    /\ conn = [c \in Conn |-> "none"]
    /\ txproc = "run"

(***************************************************************************)
(* The receiving end: accept() takes c from the listen queue; a connection *)
(* whose phrase matches is answered "ok".                                  *)
(***************************************************************************)
Taken(c) ==
    /\ conn[c] \in {"syn", "alien"}
    /\ conn' = [conn EXCEPT ![c] = IF @ = "syn" THEN "accepted" ELSE "foreign"]
    /\ UNCHANGED <<wire, txproc>>

Answer(c) ==
    /\ conn[c] = "accepted"
    /\ conn' = [conn EXCEPT ![c] = "open"]
    /\ UNCHANGED <<wire, txproc>>

(***************************************************************************)
(* writev() of header and payload on the socket of c.                      *)
(***************************************************************************)
Writev(c, p) == wire' = [wire EXCEPT ![c] = Append(@, p)]

(***************************************************************************)
(* The process ends with status s.  Of the packets in pending (those that  *)
(* a thread is writing at that moment) any may be left on the wire with    *)
(* its header whole and its payload cut.                                   *)
(***************************************************************************)
ProcessEnds(s, writing, pending) ==
    /\ txproc' = s
    /\ \E K \in SUBSET {c \in writing : pending[c].size > 0} :
          wire' = [c \in Conn |->
                     IF c \in K
                     THEN Append(wire[c], Cut(pending[c]))
                     ELSE wire[c]]
    /\ UNCHANGED conn
=============================================================================
