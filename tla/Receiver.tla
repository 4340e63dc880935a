------------------------------ MODULE Receiver ------------------------------
(***************************************************************************)
(* A receiving process behind a transmitter that keeps the promise of      *)
(* module Feed, and what makes the receiver correct.                       *)
(***************************************************************************)
EXTENDS Feed, Rx

vars == <<wireVars, feedVars, rxVars>>

Init == WireInit /\ FeedInit /\ RxInit

\* The two processes take turns; the transmitter may go on when the receiver has ended.
Next ==
    \/ RxNext /\ UNCHANGED feedVars
    \/ FeedNext /\ UNCHANGED rxVars

Spec == Init /\ [][Next]_vars

(***************************************************************************)
(* Fairness: the scheduler runs every receiver thread that can run and     *)
(* main() keeps polling.  The transmitter connects, gives out its legs and *)
(* writes them, though it need not end.                                    *)
(***************************************************************************)
RxFairness ==
    /\ \A w \in RxWorkers : WF_vars(RxThread(w) /\ UNCHANGED feedVars)
    /\ WF_vars(RxPoll /\ UNCHANGED feedVars)

FeedFairness ==
    /\ \A c \in Conn : WF_vars((Connect(c) \/ Push(c)) /\ UNCHANGED rxVars)
    /\ WF_vars((\E c \in Conn : LeaseEnd(c)) /\ UNCHANGED rxVars)

FairSpec == Spec /\ RxFairness /\ FeedFairness

-----------------------------------------------------------------------------
TypeOK == WireTypeOK /\ FeedTypeOK /\ RxTypeOK

(***************************************************************************)
(* Between leaving the sequencer and next_leg++ a thread is alone with     *)
(* output_fd and grx_saved_checksum, although it holds no lock there       *)
(* (rx.c, "do this last or race out the cksum code").                      *)
(***************************************************************************)
Emitting(w) == rpc[w] \in {"write", "mark", "advance"} /\ pkt[w].opcode \in Genuine

SoleEmitter == \A v, w \in RxWorkers : Emitting(v) /\ Emitting(w) => v = w

(***************************************************************************)
(* No thread writes before the worker that bears leg 0 has gone through    *)
(* initiate_relay() and output_fd names the output.                        *)
(***************************************************************************)
OutputOpen == \A w \in RxWorkers : rpc[w] = "write" /\ pkt[w].size > 0 => output_fd = 1

(***************************************************************************)
(* Receiver and promise together are a pipe: what the output fd gets, step *)
(* by step, and what exit(0) claims about it, is what module Pipe allows.  *)
(***************************************************************************)
P == INSTANCE Pipe WITH taken <- DataLegs, eof <- ended, finished <- (rxproc = "exit0")

ImplementsPipe == P!Spec

(***************************************************************************)
(* Someone always waits for a reason: the leg the sequencer wants next,    *)
(* once it has been read from its connection, is not left waiting with     *)
(* nobody on the way to wake it, unless seq_cv was overwritten under it.   *)
(***************************************************************************)
NoLostWakeup ==
    \A w \in RxWorkers \ deaf :
        rpc[w] = "waiting" /\ pkt[w].leg_id = next_leg
            => \E v \in RxWorkers : rpc[v] = "notify"

\* The transmitter ends with legs that it has taken on and not written, or without the end leg.
HungUpEarly == txproc # "run" /\ (~ended \/ \E c \in Conn : lease[c] # Blank)

\* Thread w has read a whole leg that it has not yet passed on.
Bears(w) ==
    /\ rpc[w] \in {"payload", "relay", "sequence", "waiting", "write", "mark", "advance"}
    /\ pkt[w].opcode \in Genuine /\ ~pkt[w].cut

\* Thread w is in the loop that reads the legs of its connection.
Serves(w) == rpc[w] \notin {"launched", "outer", "accept", "phrase", "gone"}

\* Leg l is still to be written to c, or is on c and not read.
ToWrite(l, c) == lease[c] # Blank /\ lease[c].leg_id = l
OnWire(l, c) == \E i \in 1..Len(wire[c]) : wire[c][i].leg_id = l /\ ~wire[c][i].cut

(***************************************************************************)
(* The threads cannot lock up.  Each reads one connection and keeps its    *)
(* leg until the leg's turn comes, so the leg wanted next may be behind    *)
(* one that waits for it, or on a connection that nobody reads any more    *)
(* (rx.c:52, rx.c:142-147).  It never is: unless the transmitter hung up   *)
(* early, the leg is still to be written, or it is with a thread or on the *)
(* connection of a thread that reads legs, and this thread does not sleep  *)
(* unless someone is about to wake it, or seq_cv was overwritten under it. *)
(* After the last leg done_mbox is set, and nothing is waited for.         *)
(***************************************************************************)
NoLockup == ~HungUpEarly =>
    /\ next_leg < fed =>
          \/ txproc = "run" /\ \E c \in Conn : ToWrite(next_leg, c)
          \/ \E w \in RxWorkers :
                /\ \/ Bears(w) /\ pkt[w].leg_id = next_leg
                   \/ Serves(w) /\ OnWire(next_leg, sock[w])
                /\ rpc[w] = "waiting" => w \in deaf \/ \E v \in RxWorkers : rpc[v] = "notify"
    /\ ended /\ next_leg = fed => done_mbox

\* What ends a receiver from outside: a phrase that comes in pieces or is not ours,
\* a connection or an output that fails.
CutOff == rxproc \in {"phrase", "edom", "enotconn", "checkperror"}

(***************************************************************************)
(* The one way in which the receiver's own checks end a stream that was    *)
(* handed over: a connection ends that has brought its thread no leg, and  *)
(* the thread goes on with a header that nobody wrote, until its size      *)
(* (rx.c:72) or its opcode (rx.c:199) ends the process.                    *)
(***************************************************************************)
EndedByStray ==
    /\ rxproc \in {"size", "ebadrpc"} /\ txproc # "run"
    /\ \E w \in RxWorkers :
          rpc[w] \in {"header", "mark"} /\ pkt[w].opcode \notin Genuine /\ wire[sock[w]] = <<>>

\* The wanted leg is with a thread that waits on the seq_cv that was there before.
Stranded == \E w \in deaf : rpc[w] = "waiting" /\ pkt[w].leg_id = next_leg

(***************************************************************************)
(* A stream that the transmitter hands over completely is received to its  *)
(* end, and the process exits with 0.  Only these keep it from that: the   *)
(* transmitter hangs up with legs still to write; receiver or connections  *)
(* are cut off; a thread goes on with a stray header; or the leg that is   *)
(* wanted stays with a thread that pthread_cond_init() has cut off from    *)
(* seq_cv (rx.c:16, "the sleepers must awaken").                           *)
(***************************************************************************)
Completes ==
    \/ <>(rxproc = "exit0" \/ HungUpEarly \/ CutOff \/ EndedByStray)
    \/ <>[]Stranded
=============================================================================
