---------------------------- MODULE ReceiverInv ----------------------------
(***************************************************************************)
(* The inductive invariant of Receiver: why the sequencer, which compares  *)
(* two numbers and holds no lock while it writes, yields an ordered        *)
(* stream.  The argument is about the legs that can still be emitted.      *)
(***************************************************************************)
EXTENDS Receiver

(***************************************************************************)
(* A header that came from the transmitter, in any memory: numbered below  *)
(* fed, bearing the piece of input of its number; the end leg is the last. *)
(***************************************************************************)
Sound(p) ==
    /\ p.leg_id < fed
    /\ p.opcode = "feed_more" => p.size = Foot /\ p.data = p.leg_id /\ p.leg_id < DataLegs
    /\ p.opcode = "end_of_millipede" =>
          p.size = 0 /\ ~p.cut /\ ended /\ p.leg_id = fed - 1

AllSound ==
    /\ \A c \in Conn : \A i \in 1..Len(wire[c]) :
          wire[c][i].opcode \in Genuine /\ Sound(wire[c][i])
    /\ \A c \in Conn : lease[c] # Blank =>
          lease[c].opcode \in Genuine /\ Sound(lease[c]) /\ ~lease[c].cut
    /\ \A w \in RxWorkers : pkt[w].opcode \in Genuine => Sound(pkt[w])

LeaseLease == \A c, d \in Conn :
    c # d /\ lease[c] # Blank /\ lease[d] # Blank => lease[c].leg_id # lease[d].leg_id

WireLease == \A c, d \in Conn : \A i \in 1..Len(wire[c]) :
    lease[d] # Blank /\ ~wire[c][i].cut => wire[c][i].leg_id # lease[d].leg_id

WireWire == \A c, d \in Conn : \A i \in 1..Len(wire[c]), j \in 1..Len(wire[d]) :
    (c # d \/ i # j) /\ ~wire[c][i].cut /\ ~wire[d][j].cut
        => wire[c][i].leg_id # wire[d][j].leg_id

BorneLease == \A w \in RxWorkers, c \in Conn :
    Bears(w) /\ lease[c] # Blank => lease[c].leg_id # pkt[w].leg_id

BorneWire == \A w \in RxWorkers, c \in Conn : \A i \in 1..Len(wire[c]) :
    Bears(w) /\ ~wire[c][i].cut => wire[c][i].leg_id # pkt[w].leg_id

BorneBorne == \A v, w \in RxWorkers :
    v # w /\ Bears(v) /\ Bears(w) => pkt[v].leg_id # pkt[w].leg_id

(***************************************************************************)
(* A leg number is in one place at most: to be written to a connection, on *)
(* a connection, or borne by a thread.                                     *)
(***************************************************************************)
OnePlace == LeaseLease /\ WireLease /\ WireWire /\ BorneLease /\ BorneWire /\ BorneBorne

(***************************************************************************)
(* What each place in rxworker() knows: a header that nobody wrote comes   *)
(* from a closed connection; restartme drops exactly the legs that were    *)
(* cut; a genuine leg past the sequencer is the one wanted; who has dealt  *)
(* with the end leg never reads again.                                     *)
(***************************************************************************)
LocatedAt(w) ==
    /\ rpc[w] \in {"payload", "relay", "sequence", "waiting", "write", "mark", "advance"}
          => pkt[w].opcode \in Genuine \/ pkt[w].cut
    /\ rpc[w] \in {"relay", "sequence", "waiting", "write", "mark", "advance"}
          => restartme[w] = (pkt[w].size > 0 /\ pkt[w].cut)
    /\ rpc[w] \in {"waiting", "write", "mark", "advance"} => ~restartme[w]
    /\ Emitting(w) => pkt[w].leg_id = next_leg
    /\ rpc[w] = "advance" => pkt[w].opcode \in Genuine
    /\ rpc[w] \in {"launched", "accept", "phrase", "header"} => pkt[w].opcode # "end_of_millipede"
    /\ rpc[w] \in {"outer", "inner", "notify", "advance"} /\ pkt[w].opcode = "end_of_millipede"
          => done_mbox

Located == \A w \in RxWorkers : LocatedAt(w)

\* Thread w has written its leg and not yet counted it.
Written(w) == rpc[w] \in {"mark", "advance"} /\ pkt[w].opcode = "feed_more"

(***************************************************************************)
(* The output is a prefix of the input as long as the counter says, one    *)
(* more while a written leg is uncounted, one less once the end leg, which *)
(* has no payload, is counted too.                                         *)
(***************************************************************************)
Counted ==
    /\ \A i \in 1..Len(out) : out[i] = i - 1
    /\ next_leg <= fed
    /\ \A w \in RxWorkers : Written(w) => Len(out) = next_leg + 1
    /\ (\A w \in RxWorkers : ~Written(w)) =>
          Len(out) = IF next_leg <= DataLegs THEN next_leg ELSE DataLegs
    /\ done_mbox => ended /\ next_leg >= DataLegs

\* initiate_relay() has been called by the time leg 0 meets the sequencer.
RelayFirst ==
    /\ next_leg > 0 => output_fd = 1
    /\ \A w \in RxWorkers :
          rpc[w] \in {"sequence", "waiting", "write", "mark", "advance"} /\ pkt[w].leg_id = 0
             => output_fd = 1

(***************************************************************************)
(* The output is in order and complete at done_mbox because every leg is   *)
(* in one place only and the sequencer lets through the one it counts.     *)
(***************************************************************************)
IndInv ==
    /\ TypeOK /\ AllSound /\ OnePlace /\ Located /\ Counted /\ RelayFirst
    /\ fed = 0 => ~ended

-----------------------------------------------------------------------------
(***************************************************************************)
(* Why the threads cannot lock up, a second invariant on top of the first. *)
(* Every leg from next_leg on is somewhere; the legs of a connection are   *)
(* read in ascending order; and each connection in use has its one thread. *)
(***************************************************************************)
Somewhere(l) ==
    \/ \E c \in Conn : ToWrite(l, c) \/ OnWire(l, c)
    \/ \E w \in RxWorkers : Bears(w) /\ pkt[w].leg_id = l

NoneLost == ~HungUpEarly => \A l \in 0..fed : next_leg <= l /\ l < fed => Somewhere(l)

\* Legs that were counted are in no place any more.
NoneLate ==
    /\ \A c \in Conn : lease[c] # Blank => next_leg <= lease[c].leg_id
    /\ \A c \in Conn : \A i \in 1..Len(wire[c]) : ~wire[c][i].cut => next_leg <= wire[c][i].leg_id
    /\ \A w \in RxWorkers : Bears(w) => next_leg <= pkt[w].leg_id

Ascending ==
    /\ \A c \in Conn : \A i, j \in 1..Len(wire[c]) : i < j => wire[c][i].leg_id < wire[c][j].leg_id
    /\ \A c \in Conn : \A i \in 1..Len(wire[c]) :
          lease[c] # Blank /\ ~wire[c][i].cut => wire[c][i].leg_id < lease[c].leg_id
    /\ \A w \in RxWorkers : Bears(w) =>
          /\ \A i \in 1..Len(wire[sock[w]]) : pkt[w].leg_id < wire[sock[w]][i].leg_id
          /\ lease[sock[w]] # Blank => pkt[w].leg_id < lease[sock[w]].leg_id

\* A connection is for one thread, from accept() on, and carries legs once it is answered.
Attached(w) == Serves(w) \/ rpc[w] = "phrase"

OneThread ==
    /\ \A v, w \in RxWorkers : v # w /\ Attached(v) /\ Attached(w) => sock[v] # sock[w]
    /\ \A w \in RxWorkers : Serves(w) => conn[sock[w]] = "open"
    /\ \A w \in RxWorkers : rpc[w] = "phrase" => conn[sock[w]] \in {"accepted", "foreign"}
    /\ \A c \in Conn : lease[c] # Blank \/ wire[c] # <<>> => conn[c] = "open"

\* Nothing comes on connection c any more.
Exhausted(c) == HungUpEarly \/ (txproc # "run" /\ wire[c] = <<>>)

\* A thread gives up an exhausted connection only, and there is no other reason to leave it.
Loyal ==
    /\ \A c \in Conn : \A i \in 1..Len(wire[c]) : wire[c][i].cut => HungUpEarly
    /\ \A w \in RxWorkers : restartme[w] => Exhausted(sock[w])
    /\ \A w \in RxWorkers :
          rpc[w] \in {"payload", "relay", "sequence", "waiting"} /\ pkt[w].cut => Exhausted(sock[w])
    /\ \A w \in RxWorkers : rpc[w] \in {"accept", "phrase"} => ~restartme[w]
    /\ ~done_mbox => \A c \in Conn : conn[c] = "open" =>
          Exhausted(c) \/ \E w \in RxWorkers : Serves(w) /\ sock[w] = c

\* done_mbox is set by the thread that is about to count the end leg.
Finishing ==
    /\ done_mbox /\ next_leg < fed => \E w \in RxWorkers : rpc[w] = "advance"
    /\ ended /\ next_leg = fed => done_mbox

FlowInv == IndInv /\ NoneLost /\ NoneLate /\ Ascending /\ OneThread /\ Loyal /\ Finishing
=============================================================================
