--------------------------------- MODULE Rx ---------------------------------
(***************************************************************************)
(* The receiver (rx.c): kthreadmax worker threads that accept connections, *)
(* read legs and put them in order on output_fd.  The leg counter next_leg *)
(* and the condition variable seq_cv are the only synchronisation.         *)
(*                                                                         *)
(* A step is what happens between two points where another thread can see  *)
(* or change shared state.  rxmutex is never held across a blocking call   *)
(* other than pthread_cond_wait, so each section it guards is one step;    *)
(* sa_mutex is held across accept() only, so accepting is one step.        *)
(***************************************************************************)
EXTENDS Wire

CONSTANTS
    RxWorkers,   \* the worker threads, kthreadmax of them in the code
    StrayLegs    \* leg numbers that uninitialised memory may show

ASSUME RxAssumption == StrayLegs \subseteq Nat

VARIABLES
    rpc,        \* rpc[w]: where thread w stands in rxworker()
    pkt,        \* pkt[w]: the stack slot the header is read into
    sock,       \* sock[w]: the connection behind w's sockfd
    restartme,  \* restartme[w]: give up on the connection
    deaf,       \* threads waiting on a condition variable that was overwritten
    next_leg, done_mbox, output_fd,   \* shared fields of rxconf
    out,        \* the pieces of the input written to output_fd so far
    rxproc      \* the receiving process: running, or how it ended

rxVars == <<rpc, pkt, sock, restartme, deaf, next_leg, done_mbox, output_fd, out, rxproc>>

RxPc == {"launched", "outer", "accept", "phrase", "inner", "header", "payload",
         "relay", "sequence", "waiting", "write", "mark", "advance", "notify", "gone"}

\* Where the code ends the process: the reason names the check that fails.
RxEnd == {"exit0", "checkperror", "phrase", "enotconn", "edom", "size", "ebadrpc"}

RxTypeOK ==
    /\ rpc \in [RxWorkers -> RxPc]
    /\ pkt \in [RxWorkers -> Packet]
    /\ sock \in [RxWorkers -> Conn]
    /\ restartme \in [RxWorkers -> BOOLEAN]
    /\ deaf \in SUBSET RxWorkers
    /\ next_leg \in Nat
    /\ done_mbox \in BOOLEAN
    /\ output_fd \in {0, 1}
    /\ out \in Seq(Nat)
    /\ rxproc \in {"run"} \cup RxEnd

RxInit ==
    /\ rpc = [w \in RxWorkers |-> "launched"]
    /\ pkt = [w \in RxWorkers |-> Blank]
    /\ \E c \in Conn : sock = [w \in RxWorkers |-> c]
    /\ restartme = [w \in RxWorkers |-> FALSE]
    /\ deaf = {}
    /\ next_leg = 0
    /\ done_mbox = FALSE
    /\ output_fd = 0
    /\ out = <<>>
    /\ rxproc = "run"

At(w, l) == rxproc = "run" /\ rpc[w] = l
Goto(w, l) == rpc' = [rpc EXCEPT ![w] = l]
Dies(how) == rxproc' = how

-----------------------------------------------------------------------------
(***************************************************************************)
(* Every thread initialises the shared seq_cv when it starts.  Doing so    *)
(* while others wait on it is undefined: they may stay on the old object,  *)
(* out of reach of later broadcasts.                                       *)
(***************************************************************************)
CondInit(w) ==
    /\ At(w, "launched")
    /\ Goto(w, "outer")
    /\ \E lost \in {{}, {v \in RxWorkers : rpc[v] = "waiting"}} : deaf' = deaf \cup lost
    /\ UNCHANGED <<pkt, sock, restartme, next_leg, done_mbox, output_fd, out, rxproc, wireVars>>

\* while (!done_mbox) of the connection loop.
OuterLoop(w) ==
    /\ At(w, "outer")
    /\ Goto(w, IF done_mbox THEN "gone" ELSE "accept")
    /\ restartme' = [restartme EXCEPT ![w] = FALSE]
    /\ UNCHANGED <<pkt, sock, deaf, next_leg, done_mbox, output_fd, out, rxproc, wireVars>>

\* tcp_accept() under sa_mutex; the thread blocks until a connection is there.
Accept(w) ==
    /\ At(w, "accept")
    /\ \E c \in Conn : Taken(c) /\ sock' = [sock EXCEPT ![w] = c]
    /\ Goto(w, "phrase")
    /\ UNCHANGED <<pkt, restartme, deaf, next_leg, done_mbox, output_fd, out, rxproc>>

\* Read four bytes; the phrase matches; answer "ok".
PhraseOk(w) ==
    /\ At(w, "phrase")
    /\ Answer(sock[w])
    /\ Goto(w, "inner")
    /\ UNCHANGED <<pkt, sock, restartme, deaf, next_leg, done_mbox, output_fd, out, rxproc>>

\* A phrase that is not ours ends the process, as does a short read of it
\* or a connection that cannot be answered.
PhraseFails(w) ==
    /\ At(w, "phrase")
    /\ \/ conn[sock[w]] = "foreign" /\ Dies("edom")
       \/ Dies("phrase")
       \/ txproc # "run" /\ Dies("enotconn")
    /\ UNCHANGED <<rpc, pkt, sock, restartme, deaf, next_leg, done_mbox, output_fd, out, wireVars>>

\* while (!done_mbox && !restartme) of the leg loop.
InnerLoop(w) ==
    /\ At(w, "inner")
    /\ Goto(w, IF done_mbox \/ restartme[w] THEN "outer" ELSE "header")
    /\ UNCHANGED <<pkt, sock, restartme, deaf, next_leg, done_mbox, output_fd, out, rxproc, wireVars>>

\* Mutant: done_mbox is set when end_of_millipede is read, not when its turn comes.
ReadHeaderEndsEarly(w) ==
    /\ At(w, "header")
    /\ wire[sock[w]] # <<>>
    /\ pkt' = [pkt EXCEPT ![w] = Head(wire[sock[w]])]
    /\ wire' = [wire EXCEPT ![sock[w]] = Tail(@)]
    /\ done_mbox' = (done_mbox \/ Head(wire[sock[w]]).opcode = "end_of_millipede")
    /\ Goto(w, "payload")
    /\ UNCHANGED <<sock, restartme, deaf, next_leg, output_fd, out, rxproc, conn, txproc>>

\* readv() returns the header of the next leg.
ReadHeader(w) ==
    /\ At(w, "header")
    /\ wire[sock[w]] # <<>>
    /\ pkt' = [pkt EXCEPT ![w] = Head(wire[sock[w]])]
    /\ wire' = [wire EXCEPT ![sock[w]] = Tail(@)]
    /\ Goto(w, "payload")
    /\ UNCHANGED <<sock, restartme, deaf, next_leg, done_mbox, output_fd, out, rxproc, conn, txproc>>

\* A header that nobody wrote.
Stray(l, s) == [leg_id |-> l, size |-> s, opcode |-> "bogus", data |-> 0, cut |-> TRUE]

(***************************************************************************)
(* readv() returns 0 on a closed connection.  The code reports it and goes *)
(* on with whatever pkt holds: the previous header, or, when this thread   *)
(* never read one, bytes that nobody wrote (no genuine opcode among them). *)
(* assert(-1) does not stop a wrong preamble; a size over kfootsize does.  *)
(***************************************************************************)
AtEof(w) == At(w, "header") /\ wire[sock[w]] = <<>> /\ txproc # "run"

HeaderEofStale(w) ==
    /\ AtEof(w) /\ pkt[w].opcode # "none"
    /\ pkt' = [pkt EXCEPT ![w] = Cut(@)]
    /\ Goto(w, "payload")
    /\ UNCHANGED <<sock, restartme, deaf, next_leg, done_mbox, output_fd, out, rxproc, wireVars>>

HeaderEofStray(w) ==
    /\ AtEof(w) /\ pkt[w].opcode = "none"
    /\ \E l \in StrayLegs, s \in {0, Foot} : pkt' = [pkt EXCEPT ![w] = Stray(l, s)]
    /\ Goto(w, "payload")
    /\ UNCHANGED <<sock, restartme, deaf, next_leg, done_mbox, output_fd, out, rxproc, wireVars>>

HeaderEofHuge(w) ==
    /\ AtEof(w) /\ pkt[w].opcode = "none"
    /\ Dies("size")
    /\ UNCHANGED <<rpc, pkt, sock, restartme, deaf, next_leg, done_mbox, output_fd, out, wireVars>>

\* The payload arrives, or the connection ends first and the leg is dropped.
ReadPayload(w) ==
    /\ At(w, "payload")
    /\ restartme' = [restartme EXCEPT ![w] = pkt[w].size > 0 /\ pkt[w].cut]
    /\ Goto(w, "relay")
    /\ UNCHANGED <<pkt, sock, deaf, next_leg, done_mbox, output_fd, out, rxproc, wireVars>>

\* The network resets the connection under a read: checkperror() exits.
ReadFails(w) ==
    /\ At(w, "header") \/ At(w, "payload")
    /\ Dies("checkperror")
    /\ UNCHANGED <<rpc, pkt, sock, restartme, deaf, next_leg, done_mbox, output_fd, out, wireVars>>

\* Mutant: the relay is initiated by every leg but the first.
RelayLate(w) ==
    /\ At(w, "relay")
    /\ output_fd' = IF pkt[w].leg_id > 0 THEN 1 ELSE output_fd
    /\ Goto(w, "sequence")
    /\ UNCHANGED <<pkt, sock, restartme, deaf, next_leg, done_mbox, out, rxproc, wireVars>>

(***************************************************************************)
(* Leg 0 calls initiate_relay(), which in a process that only receives     *)
(* points output_fd at stdout on its first call.                           *)
(***************************************************************************)
Relay(w) ==
    /\ At(w, "relay")
    /\ output_fd' = IF pkt[w].leg_id = 0 THEN 1 ELSE output_fd
    /\ Goto(w, "sequence")
    /\ UNCHANGED <<pkt, sock, restartme, deaf, next_leg, done_mbox, out, rxproc, wireVars>>

\* One evaluation of the sequencer's condition, under rxmutex.
Sequence(w) ==
    /\ At(w, "sequence")
    /\ Goto(w, IF restartme[w] THEN "inner"
               ELSE IF pkt[w].leg_id = next_leg THEN "write" ELSE "waiting")
    /\ UNCHANGED <<pkt, sock, restartme, deaf, next_leg, done_mbox, output_fd, out, rxproc, wireVars>>

(***************************************************************************)
(* POSIX lets pthread_cond_wait() return without a broadcast; the loop     *)
(* around it evaluates the condition again.                                *)
(***************************************************************************)
SpuriousWakeup(w) ==
    /\ At(w, "waiting")
    /\ Goto(w, "sequence")
    /\ deaf' = deaf \ {w}
    /\ UNCHANGED <<pkt, sock, restartme, next_leg, done_mbox, output_fd, out, rxproc, wireVars>>

\* Mutant: the whole buffer is written whatever pkt.size says.
WriteWholeBuffer(w) ==
    /\ At(w, "write")
    /\ out' = Append(out, pkt[w].data)
    /\ Goto(w, "mark")
    /\ UNCHANGED <<pkt, sock, restartme, deaf, next_leg, done_mbox, output_fd, rxproc, wireVars>>

\* writev() of pkt.size bytes to output_fd, outside rxmutex.
Write(w) ==
    /\ At(w, "write")
    /\ out' = IF pkt[w].size > 0 THEN Append(out, pkt[w].data) ELSE out
    /\ Goto(w, "mark")
    /\ UNCHANGED <<pkt, sock, restartme, deaf, next_leg, done_mbox, output_fd, rxproc, wireVars>>

\* The consumer of output_fd is gone.
WriteFails(w) ==
    /\ At(w, "write")
    /\ Dies("checkperror")
    /\ UNCHANGED <<rpc, pkt, sock, restartme, deaf, next_leg, done_mbox, output_fd, out, wireVars>>

\* Act on the opcode.
MarkOpcode(w) ==
    /\ At(w, "mark")
    /\ done_mbox' = (done_mbox \/ pkt[w].opcode = "end_of_millipede")
    /\ IF pkt[w].opcode \in Genuine
       THEN Goto(w, "advance") /\ UNCHANGED rxproc
       ELSE Dies("ebadrpc") /\ UNCHANGED rpc
    /\ UNCHANGED <<pkt, sock, restartme, deaf, next_leg, output_fd, out, wireVars>>

\* Mutant: nobody is told that the counter has moved.
AdvanceSilently(w) ==
    /\ At(w, "advance")
    /\ next_leg' = next_leg + 1
    /\ Goto(w, "inner")
    /\ UNCHANGED <<pkt, sock, restartme, deaf, done_mbox, output_fd, out, rxproc, wireVars>>

\* next_leg++ under rxmutex.
Advance(w) ==
    /\ At(w, "advance")
    /\ next_leg' = next_leg + 1
    /\ Goto(w, "notify")
    /\ UNCHANGED <<pkt, sock, restartme, deaf, done_mbox, output_fd, out, rxproc, wireVars>>

\* Mutant: "if" for "while" around pthread_cond_wait(), nothing is looked at again.
BroadcastUnchecked(w) ==
    /\ At(w, "notify")
    /\ rpc' = [v \in RxWorkers |->
                 IF v = w THEN "inner"
                 ELSE IF rpc[v] = "waiting" /\ v \notin deaf THEN "write"
                 ELSE rpc[v]]
    /\ UNCHANGED <<pkt, sock, restartme, deaf, next_leg, done_mbox, output_fd, out, rxproc, wireVars>>

\* Mutant: the thread leaves its connection after one leg, as if there were no leg loop.
BroadcastAndLeave(w) ==
    /\ At(w, "notify")
    /\ rpc' = [v \in RxWorkers |->
                 IF v = w THEN "outer"
                 ELSE IF rpc[v] = "waiting" /\ v \notin deaf THEN "sequence"
                 ELSE rpc[v]]
    /\ UNCHANGED <<pkt, sock, restartme, deaf, next_leg, done_mbox, output_fd, out, rxproc, wireVars>>

\* pthread_cond_broadcast() after rxmutex has been dropped.
Broadcast(w) ==
    /\ At(w, "notify")
    /\ rpc' = [v \in RxWorkers |->
                 IF v = w THEN "inner"
                 ELSE IF rpc[v] = "waiting" /\ v \notin deaf THEN "sequence"
                 ELSE rpc[v]]
    /\ UNCHANGED <<pkt, sock, restartme, deaf, next_leg, done_mbox, output_fd, out, rxproc, wireVars>>

\* main() of a receiver: rx_poll() until done_mbox, then exit(0).
RxPoll ==
    /\ rxproc = "run"
    /\ done_mbox
    /\ Dies("exit0")
    /\ UNCHANGED <<rpc, pkt, sock, restartme, deaf, next_leg, done_mbox, output_fd, out, wireVars>>

-----------------------------------------------------------------------------
\* The steps a thread takes by itself, as opposed to what comes from outside.
RxThread(w) ==
    \/ CondInit(w) \/ OuterLoop(w) \/ Accept(w) \/ PhraseOk(w) \/ InnerLoop(w)
    \/ ReadHeader(w) \/ HeaderEofStale(w) \/ HeaderEofStray(w) \/ HeaderEofHuge(w)
    \/ ReadPayload(w) \/ Relay(w) \/ Sequence(w) \/ Write(w) \/ MarkOpcode(w) \/ Advance(w) \/ Broadcast(w)

RxOutside(w) == PhraseFails(w) \/ ReadFails(w) \/ WriteFails(w) \/ SpuriousWakeup(w)

RxNext == RxPoll \/ \E w \in RxWorkers : RxThread(w) \/ RxOutside(w)
=============================================================================
