--------------------------------- MODULE Tx ---------------------------------
(***************************************************************************)
(* The transmitter (tx.c, and main() of viamillipede.c): main launches the *)
(* workers and the ingest thread and then polls for the end; the ingest    *)
(* thread reads the input leg by leg into the buffer of an idle worker;    *)
(* each worker writes its leg to its own connection.                       *)
(*                                                                         *)
(* The threads meet in the worker's state letter, its packet header and    *)
(* buffer, and txconf.done.  txconf.mutex guards sections without blocking *)
(* calls and the worker mutex one access to the letter, so each section is *)
(* one step; the stores to a packet header are made without any lock and   *)
(* are steps of their own.                                                 *)
(*                                                                         *)
(* Letters: E uninitialised, L launched, c connecting, i idle, d           *)
(* dispatched, P pushing ('a' and 'W', which the code passes through on    *)
(* the way to 'P', mean the same to every reader of the letter).           *)
(***************************************************************************)
EXTENDS Wire

CONSTANTS
    worker_count,   \* "threads" on the command line
    MaxLegs,        \* bound on the number of legs the input can fill
    gleg_limit,     \* "leglimit" on the command line, 0 when absent
    LateInput       \* TRUE: the source sends nothing, not even its end,
                    \* before every worker has come up

ASSUME TxAssumption ==
    /\ worker_count \in Nat \ {0} /\ Conn = 0..(worker_count - 1)
    /\ MaxLegs \in Nat /\ gleg_limit \in Nat /\ LateInput \in BOOLEAN

VARIABLES
    state, hdr, buffer,  \* per worker: state letter, pkt, and the piece of input in buffer
    wpc,                 \* wpc[w]: where thread w stands in txworker_sm()
    leaving,             \* leaving[w]: the local variable "done" of txworker_sm()
    ipc, chosen,         \* where txingest() stands, the worker it dispatches
    ingest_leg_counter,
    done,                \* txconf.done and txconf.input_eof, always set together
    mpc, cursor          \* where main() stands, its worker cursor

txVars == <<state, hdr, buffer, wpc, leaving, ipc, chosen, ingest_leg_counter, done, mpc, cursor>>

Letter == {"E", "L", "c", "i", "d", "P"}
WorkerPc == {"none", "start", "ok", "reset_size", "reset_leg", "loop", "push", "writev",
             "finish", "gone"}
IngestPc == {"off", "dispatch", "read", "shutdown", "size", "leg", "start", "complete"}
Header == [leg_id : Nat, size : {0, Foot}, opcode : Genuine \cup {"none"}]

TxTypeOK ==
    /\ state \in [Conn -> Letter]
    /\ hdr \in [Conn -> Header]
    /\ buffer \in [Conn -> Nat]
    /\ wpc \in [Conn -> WorkerPc]
    /\ leaving \in [Conn -> BOOLEAN]
    /\ ipc \in IngestPc
    /\ chosen \in Conn
    /\ ingest_leg_counter \in Nat
    /\ done \in BOOLEAN
    /\ mpc \in {"launch", "poll"}
    /\ cursor \in 0..worker_count

TxInit ==
    /\ state = [w \in Conn |-> "E"]
    /\ hdr = [w \in Conn |-> [leg_id |-> 0, size |-> 0, opcode |-> "none"]]
    /\ buffer = [w \in Conn |-> 0]
    /\ wpc = [w \in Conn |-> "none"]
    /\ leaving = [w \in Conn |-> FALSE]
    /\ ipc = "off" /\ chosen = 0 /\ ingest_leg_counter = 0
    /\ done = FALSE
    /\ mpc = "launch" /\ cursor = 0

\* The packet that writev() would send for w now.
Framed(w) == [leg_id |-> hdr[w].leg_id, size |-> hdr[w].size, opcode |-> hdr[w].opcode,
              data |-> IF hdr[w].size > 0 THEN buffer[w] ELSE 0, cut |-> FALSE]

\* exit(), an assertion or a signal ends the process under every thread.
TxEnds(s) == ProcessEnds(s, {w \in Conn : wpc[w] = "writev"}, [w \in Conn |-> Framed(w)])

-----------------------------------------------------------------------------
(* main() *)

\* One round of txlaunchworkers().  The placeholder -66 it leaves in pkt.size
\* is overwritten by the worker before it reads the header, and left out here.
LaunchWorker ==
    /\ txproc = "run" /\ mpc = "launch" /\ cursor < worker_count
    /\ state' = [state EXCEPT ![cursor] = "L"]
    /\ wpc' = [wpc EXCEPT ![cursor] = "start"]
    /\ cursor' = cursor + 1
    /\ UNCHANGED <<hdr, buffer, leaving, ipc, chosen, ingest_leg_counter, done, mpc, wireVars>>

\* initiate_relay() creates the ingest thread; main() turns to polling.
StartIngest ==
    /\ txproc = "run" /\ mpc = "launch" /\ cursor = worker_count
    /\ ipc' = "dispatch"
    /\ mpc' = "poll" /\ cursor' = 0
    /\ UNCHANGED <<state, hdr, buffer, wpc, leaving, chosen, ingest_leg_counter, done, wireVars>>

\* tx_poll() looks at one worker; a busy one sends it back to the first.
PollWorker ==
    /\ txproc = "run" /\ mpc = "poll" /\ cursor < worker_count
    /\ cursor' = IF state[cursor] = "i" THEN cursor + 1 ELSE 0
    /\ UNCHANGED <<state, hdr, buffer, wpc, leaving, ipc, chosen, ingest_leg_counter, done, mpc,
                   wireVars>>

\* The scan met no busy worker: exit(0) at the end of the input, else again.
PollEnd ==
    /\ txproc = "run" /\ mpc = "poll" /\ cursor = worker_count
    /\ cursor' = 0
    /\ IF done THEN TxEnds("exit0") ELSE UNCHANGED wireVars
    /\ UNCHANGED <<state, hdr, buffer, wpc, leaving, ipc, chosen, ingest_leg_counter, done, mpc>>

-----------------------------------------------------------------------------
(* txingest() *)

(***************************************************************************)
(* dispatch_idle_worker(): the first worker found idle.  The scan holds    *)
(* txconf.mutex, without which nobody turns idle except a worker that      *)
(* comes up: an idle one is passed over only if it came up after the scan  *)
(* had gone by, and so did the one that is found.                          *)
(***************************************************************************)
DispatchIdleWorker ==
    /\ txproc = "run" /\ ipc = "dispatch"
    /\ \E w \in Conn :
          /\ state[w] = "i"
          /\ \A v \in 0..(w - 1) : state[v] = "i" => wpc[w] = "reset_size" /\ hdr[v].opcode = "none"
          /\ chosen' = w
    /\ ipc' = "read"
    /\ UNCHANGED <<state, hdr, buffer, wpc, leaving, ingest_leg_counter, done, mpc, cursor, wireVars>>

InputReady == LateInput => \A w \in Conn : wpc[w] \notin {"none", "start", "ok", "reset_size", "reset_leg"}

\* Mutant: the limit is noticed one leg late.
AtLimitLate == gleg_limit > 0 /\ ingest_leg_counter > gleg_limit

AtLimit == gleg_limit > 0 /\ ingest_leg_counter = gleg_limit

\* bufferfill() blocks until the input fills the buffer of the worker ...
ReadLeg ==
    /\ txproc = "run" /\ ipc = "read" /\ InputReady
    /\ ingest_leg_counter < MaxLegs
    /\ buffer' = [buffer EXCEPT ![chosen] = ingest_leg_counter]
    /\ ipc' = IF AtLimit THEN "shutdown" ELSE "size"
    /\ UNCHANGED <<state, hdr, wpc, leaving, chosen, ingest_leg_counter, done, mpc, cursor, wireVars>>

\* ... or returns 0 at its end.
ReadEof ==
    /\ txproc = "run" /\ ipc = "read" /\ InputReady
    /\ ipc' = "shutdown"
    /\ UNCHANGED <<state, hdr, buffer, wpc, leaving, chosen, ingest_leg_counter, done, mpc, cursor,
                   wireVars>>

\* txshutdown() first tells everyone that the input is done ...
TxShutdown ==
    /\ txproc = "run" /\ ipc = "shutdown"
    /\ done' = TRUE
    /\ ipc' = "size"
    /\ UNCHANGED <<state, hdr, buffer, wpc, leaving, chosen, ingest_leg_counter, mpc, cursor, wireVars>>

\* ... then, as for a data leg, the header is filled in, store by store,
SetSize ==
    /\ txproc = "run" /\ ipc = "size"
    /\ hdr' = [hdr EXCEPT ![chosen].size = IF done THEN 0 ELSE Foot]
    /\ ipc' = "leg"
    /\ UNCHANGED <<state, buffer, wpc, leaving, chosen, ingest_leg_counter, done, mpc, cursor, wireVars>>

\* Mutant: the leg is numbered after the counter has moved.
SetLegNext ==
    /\ txproc = "run" /\ ipc = "leg"
    /\ hdr' = [hdr EXCEPT ![chosen] =
                  [leg_id |-> ingest_leg_counter + 1, size |-> @.size,
                   opcode |-> IF done THEN "end_of_millipede" ELSE "feed_more"]]
    /\ ipc' = "start"
    /\ UNCHANGED <<state, buffer, wpc, leaving, chosen, ingest_leg_counter, done, mpc, cursor, wireVars>>

SetLeg ==
    /\ txproc = "run" /\ ipc = "leg"
    /\ hdr' = [hdr EXCEPT ![chosen] =
                  [leg_id |-> ingest_leg_counter, size |-> @.size,
                   opcode |-> IF done THEN "end_of_millipede" ELSE "feed_more"]]
    /\ ipc' = "start"
    /\ UNCHANGED <<state, buffer, wpc, leaving, chosen, ingest_leg_counter, done, mpc, cursor, wireVars>>

\* Mutant: the counter stands still.
StartWorkerUncounted ==
    /\ txproc = "run" /\ ipc = "start"
    /\ state' = [state EXCEPT ![chosen] = "d"]
    /\ ipc' = IF done THEN "complete" ELSE "dispatch"
    /\ UNCHANGED <<hdr, buffer, wpc, leaving, chosen, ingest_leg_counter, done, mpc, cursor, wireVars>>

\* and start_worker() hands the worker its leg.
StartWorker ==
    /\ txproc = "run" /\ ipc = "start"
    /\ state' = [state EXCEPT ![chosen] = "d"]
    /\ ingest_leg_counter' = ingest_leg_counter + 1
    /\ ipc' = IF done THEN "complete" ELSE "dispatch"
    /\ UNCHANGED <<hdr, buffer, wpc, leaving, chosen, done, mpc, cursor, wireVars>>

-----------------------------------------------------------------------------
(* txworker_sm() *)

\* tx_start_net(): connect and write the checkphrase.
StartNet(w) ==
    /\ txproc = "run" /\ wpc[w] = "start"
    /\ state' = [state EXCEPT ![w] = "c"]
    /\ conn' = [conn EXCEPT ![w] = "syn"]
    /\ wpc' = [wpc EXCEPT ![w] = "ok"]
    /\ UNCHANGED <<hdr, buffer, leaving, ipc, chosen, ingest_leg_counter, done, mpc, cursor, wire, txproc>>

(***************************************************************************)
(* A connect() that fails leaves errno set, and the checkperror() that     *)
(* follows it in tcp_connect() exits: the retries of tx_start_net() are    *)
(* never reached.  A phrase that is not answered fails an assertion.       *)
(***************************************************************************)
NetFails(w) ==
    /\ txproc = "run" /\ wpc[w] \in {"start", "ok"}
    /\ TxEnds("failed")
    /\ UNCHANGED txVars

\* Mutant: the worker does not wait for the answer to its phrase.
GoIdleUnanswered(w) ==
    /\ txproc = "run" /\ wpc[w] = "ok"
    /\ state' = [state EXCEPT ![w] = "i"]
    /\ wpc' = [wpc EXCEPT ![w] = "reset_size"]
    /\ UNCHANGED <<hdr, buffer, leaving, ipc, chosen, ingest_leg_counter, done, mpc, cursor, wireVars>>

\* "ok" is read back; the worker shows itself idle ...
GoIdle(w) ==
    /\ txproc = "run" /\ wpc[w] = "ok" /\ conn[w] = "open"
    /\ state' = [state EXCEPT ![w] = "i"]
    /\ wpc' = [wpc EXCEPT ![w] = "reset_size"]
    /\ UNCHANGED <<hdr, buffer, leaving, ipc, chosen, ingest_leg_counter, done, mpc, cursor, wireVars>>

\* ... and only then resets its packet header.
ResetSize(w) ==
    /\ txproc = "run" /\ wpc[w] = "reset_size"
    /\ hdr' = [hdr EXCEPT ![w].size = 0]
    /\ wpc' = [wpc EXCEPT ![w] = "reset_leg"]
    /\ UNCHANGED <<state, buffer, leaving, ipc, chosen, ingest_leg_counter, done, mpc, cursor, wireVars>>

ResetLeg(w) ==
    /\ txproc = "run" /\ wpc[w] = "reset_leg"
    /\ hdr' = [hdr EXCEPT ![w].leg_id = 0]
    /\ wpc' = [wpc EXCEPT ![w] = "loop"]
    /\ UNCHANGED <<state, buffer, leaving, ipc, chosen, ingest_leg_counter, done, mpc, cursor, wireVars>>

\* The section under txconf.mutex that samples done and the letter; an idle
\* worker with more to come just goes round.
Loop(w) ==
    /\ txproc = "run" /\ wpc[w] = "loop"
    /\ \/ state[w] = "d" /\ wpc' = [wpc EXCEPT ![w] = "push"]
       \/ state[w] = "i" /\ done /\ wpc' = [wpc EXCEPT ![w] = "gone"]
    /\ leaving' = [leaving EXCEPT ![w] = done]
    /\ UNCHANGED <<state, hdr, buffer, ipc, chosen, ingest_leg_counter, done, mpc, cursor, wireVars>>

\* Mutant: the lease is dropped before the leg is written.
TxPushIdle(w) ==
    /\ txproc = "run" /\ wpc[w] = "push"
    /\ state' = [state EXCEPT ![w] = "i"]
    /\ wpc' = [wpc EXCEPT ![w] = "writev"]
    /\ UNCHANGED <<hdr, buffer, leaving, ipc, chosen, ingest_leg_counter, done, mpc, cursor, wireVars>>

\* txpush() up to writev().
TxPush(w) ==
    /\ txproc = "run" /\ wpc[w] = "push"
    /\ state' = [state EXCEPT ![w] = "P"]
    /\ wpc' = [wpc EXCEPT ![w] = "writev"]
    /\ UNCHANGED <<hdr, buffer, leaving, ipc, chosen, ingest_leg_counter, done, mpc, cursor, wireVars>>

WritevDone(w) ==
    /\ txproc = "run" /\ wpc[w] = "writev"
    /\ Writev(w, Framed(w))
    /\ wpc' = [wpc EXCEPT ![w] = "finish"]
    /\ UNCHANGED <<state, hdr, buffer, leaving, ipc, chosen, ingest_leg_counter, done, mpc, cursor,
                   conn, txproc>>

\* A broken connection: SIGPIPE, checkperror() or the assertion on the
\* length written, none of which leads to the retry state 'x'.
WritevFails(w) ==
    /\ txproc = "run" /\ wpc[w] = "writev"
    /\ TxEnds("failed")
    /\ UNCHANGED txVars

\* Mutant: the lease is never dropped.
FinishPushBusy(w) ==
    /\ txproc = "run" /\ wpc[w] = "finish"
    /\ hdr' = [hdr EXCEPT ![w].size = 0]
    /\ wpc' = [wpc EXCEPT ![w] = IF leaving[w] THEN "gone" ELSE "loop"]
    /\ UNCHANGED <<state, buffer, leaving, ipc, chosen, ingest_leg_counter, done, mpc, cursor, wireVars>>

\* Mutant: a push that succeeded marks its worker dead.
FinishPushDead(w) ==
    /\ txproc = "run" /\ wpc[w] = "finish"
    /\ hdr' = [hdr EXCEPT ![w].size = 0]
    /\ state' = [state EXCEPT ![w] = "x"]
    /\ wpc' = [wpc EXCEPT ![w] = IF leaving[w] THEN "gone" ELSE "loop"]
    /\ UNCHANGED <<buffer, leaving, ipc, chosen, ingest_leg_counter, done, mpc, cursor, wireVars>>

\* The end of txpush() under txconf.mutex.
FinishPush(w) ==
    /\ txproc = "run" /\ wpc[w] = "finish"
    /\ hdr' = [hdr EXCEPT ![w].size = 0]
    /\ state' = [state EXCEPT ![w] = "i"]
    /\ wpc' = [wpc EXCEPT ![w] = IF leaving[w] THEN "gone" ELSE "loop"]
    /\ UNCHANGED <<buffer, leaving, ipc, chosen, ingest_leg_counter, done, mpc, cursor, wireVars>>

-----------------------------------------------------------------------------
TxMain == LaunchWorker \/ StartIngest \/ PollWorker \/ PollEnd

TxIngest ==
    \/ DispatchIdleWorker \/ ReadLeg \/ ReadEof \/ TxShutdown \/ SetSize \/ SetLeg \/ StartWorker

TxWorker(w) ==
    \/ StartNet(w) \/ GoIdle(w) \/ ResetSize(w) \/ ResetLeg(w) \/ Loop(w)
    \/ TxPush(w) \/ WritevDone(w) \/ FinishPush(w)

TxFails(w) == NetFails(w) \/ WritevFails(w)

TxNext == TxMain \/ TxIngest \/ \E w \in Conn : TxWorker(w) \/ TxFails(w)
=============================================================================
