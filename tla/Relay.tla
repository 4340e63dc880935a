-------------------------------- MODULE Relay --------------------------------
(***************************************************************************)
(* Setting up processes that send and receive at once (main() and          *)
(* initiate_relay() of viamillipede.c, terminate.c, and the call from the  *)
(* receiver thread that bears leg 0, rx.c).                                *)
(*                                                                         *)
(* main() listens, connects its transmit workers, runs terminate() and,    *)
(* unless the process is an initiator, initiate_relay(), which starts the  *)
(* ingest thread.  The receiver thread that bears leg 0 calls              *)
(* initiate_relay() as well.  A flag, tested and set without a lock, is to *)
(* let only one of them through.                                           *)
(*                                                                         *)
(* Workers and legs are those of Tx and Rx; here a process has one         *)
(* connection, and of its stream the first leg and the end are told apart. *)
(***************************************************************************)
EXTENDS Naturals, Functions

CONSTANTS
    Node,          \* the processes
    Deployments,   \* how they may be started: a deployment d has d.peer[n], the process
                   \* that n sends to, and d.io[n]: "pipe", "terminate" or "initiate";
                   \* a receiver puts one stream in order, so no two send to the same
    Bearers        \* receiver threads that may come to bear a leg 0

ASSUME RelayAssumption ==
    /\ \A d \in Deployments :
          /\ DOMAIN d.peer \subseteq Node /\ Range(d.peer) \subseteq Node /\ IsInjective(d.peer)
          /\ d.io \in [Node -> {"pipe", "terminate", "initiate"}]
    /\ "main" \notin Bearers

Callers == {"main"} \cup Bearers

VARIABLES
    deployment,   \* it does not change
    mpc,          \* mpc[n]: where main() of n stands
    listening,    \* processes whose port is open
    cpc,          \* cpc[n][c]: where caller c stands in initiate_relay()
    ginitiator_oneshot,
    input_fd, output_fd,
    ingests,      \* ingests[n]: ingest threads that have been created
    begun,        \* begun[n]: ingest threads that have sent their leg 0
    inflight,     \* inflight[n]: leg 0's on their way to n
    taken,        \* taken[n]: the descriptors that input was read from
    wrote,        \* wrote[n]: the descriptor that leg 0 was written to
    input_eof, done_mbox, proc

vars == <<deployment, mpc, listening, cpc, ginitiator_oneshot, input_fd, output_fd, ingests, begun, inflight,
          taken, wrote, input_eof, done_mbox, proc>>

\* Descriptor 0 is stdin, and what a descriptor never set is.
Fd == {"zero", "stdout", "client", "server"}
MainPc == {"listen", "connect", "terminate", "relay", "poll"}
CallPc == {"out", "test", "mark", "initiate", "create", "back", "emitted"}

\* Processes with a "tx" and with an "rx" clause.
Peer == deployment.peer
Sends == DOMAIN Peer
Receives == Range(Peer)
Io == deployment.io

\* Where the user's stream comes from and goes to.
Source(n) == CASE Io[n] = "pipe" -> "zero" [] Io[n] = "terminate" -> "client" [] OTHER -> "server"
Sink(n) == IF Io[n] = "pipe" THEN "stdout" ELSE Source(n)

\* Every variable has its type.
TypeOK ==
    /\ deployment \in Deployments
    /\ mpc \in [Node -> MainPc]
    /\ listening \in SUBSET Node
    /\ cpc \in [Node -> [Callers -> CallPc]]
    /\ ginitiator_oneshot \in [Node -> Nat]
    /\ input_fd \in [Node -> Fd] /\ output_fd \in [Node -> Fd]
    /\ ingests \in [Node -> Nat] /\ begun \in [Node -> Nat] /\ inflight \in [Node -> Nat]
    /\ taken \in [Node -> SUBSET Fd] /\ wrote \in [Node -> Fd \cup {"none"}]
    /\ input_eof \in SUBSET Node /\ done_mbox \in SUBSET Node
    /\ proc \in [Node -> {"run", "exit0", "failed"}]

Init ==
    /\ deployment \in Deployments
    /\ mpc = [n \in Node |-> "listen"]
    /\ listening = {}
    /\ cpc = [n \in Node |-> [c \in Callers |-> "out"]]
    /\ ginitiator_oneshot = [n \in Node |-> 0]
    /\ input_fd = [n \in Node |-> "zero"] /\ output_fd = [n \in Node |-> "zero"]
    /\ ingests = [n \in Node |-> 0] /\ begun = [n \in Node |-> 0] /\ inflight = [n \in Node |-> 0]
    /\ taken = [n \in Node |-> {}] /\ wrote = [n \in Node |-> "none"]
    /\ input_eof = {} /\ done_mbox = {}
    /\ proc = [n \in Node |-> "run"]

Main(n, here, there) ==
    /\ proc[n] = "run" /\ mpc[n] = here
    /\ mpc' = [mpc EXCEPT ![n] = there]
    /\ UNCHANGED deployment

Step(n, c, here, there) ==
    /\ proc[n] = "run" /\ cpc[n][c] = here
    /\ cpc' = [cpc EXCEPT ![n][c] = there]
    /\ UNCHANGED deployment

streamVars == <<ingests, begun, inflight, taken, wrote, input_eof, done_mbox>>

-----------------------------------------------------------------------------
\* rx(): the port is open before anything else is tried.
Listen(n) ==
    /\ Main(n, "listen", "connect")
    /\ listening' = IF n \in Receives THEN listening \cup {n} ELSE listening
    /\ UNCHANGED <<cpc, ginitiator_oneshot, input_fd, output_fd, proc, streamVars>>

\* tx(): a refused connection ends the process.
Connect(n) ==
    /\ Main(n, "connect", "terminate")
    /\ proc' = [proc EXCEPT ![n] = IF n \in Sends => Peer[n] \in listening THEN @ ELSE "failed"]
    /\ UNCHANGED <<listening, cpc, ginitiator_oneshot, input_fd, output_fd, streamVars>>

\* terminate(): waits for the client that is to be tunnelled.
Terminate(n) ==
    /\ Main(n, "terminate", "relay")
    /\ input_fd' = [input_fd EXCEPT ![n] = CASE Io[n] = "terminate" -> "client"
                                             [] Io[n] = "initiate" -> @
                                             [] OTHER -> "zero"]
    /\ output_fd' = [output_fd EXCEPT ![n] = IF Io[n] = "terminate" THEN "client" ELSE @]
    /\ UNCHANGED <<listening, cpc, ginitiator_oneshot, proc, streamVars>>

\* Mutant: main() leaves the relay to leg 0 in every process.
MainRelayNever(n) ==
    /\ Main(n, "relay", "poll")
    /\ cpc' = [cpc EXCEPT ![n]["main"] = "back"]
    /\ UNCHANGED <<listening, ginitiator_oneshot, input_fd, output_fd, proc, streamVars>>

\* main() calls initiate_relay() unless it is left to leg 0, then polls.
MainRelay(n) ==
    /\ Main(n, "relay", "poll")
    /\ cpc' = [cpc EXCEPT ![n]["main"] = IF n \in Sends /\ Io[n] # "initiate" THEN "test" ELSE "back"]
    /\ UNCHANGED <<listening, ginitiator_oneshot, input_fd, output_fd, proc, streamVars>>

-----------------------------------------------------------------------------
(* initiate_relay() *)

TestOneshot(n, c) ==
    /\ Step(n, c, "test", IF ginitiator_oneshot[n] > 0 THEN "back" ELSE "mark")
    /\ UNCHANGED <<mpc, listening, ginitiator_oneshot, input_fd, output_fd, proc, streamVars>>

\* Mutant: the flag is never raised.
MarkOneshotNever(n, c) ==
    /\ Step(n, c, "mark", "initiate")
    /\ UNCHANGED <<mpc, listening, ginitiator_oneshot, input_fd, output_fd, proc, streamVars>>

MarkOneshot(n, c) ==
    /\ Step(n, c, "mark", "initiate")
    /\ ginitiator_oneshot' = [ginitiator_oneshot EXCEPT ![n] = @ + 1]
    /\ UNCHANGED <<mpc, listening, input_fd, output_fd, proc, streamVars>>

\* Mutant: the descriptors are not set.
InitiateForgets(n, c) ==
    /\ Step(n, c, "initiate", "create")
    /\ UNCHANGED <<mpc, listening, ginitiator_oneshot, input_fd, output_fd, proc, streamVars>>

\* initiate(): the onward connection, or stdout; a terminator has both ends.
Initiate(n, c) ==
    /\ Step(n, c, "initiate", "create")
    /\ output_fd' = [output_fd EXCEPT ![n] = IF Io[n] = "terminate" THEN @ ELSE Sink(n)]
    /\ input_fd' = [input_fd EXCEPT ![n] = IF Io[n] = "initiate" THEN "server" ELSE @]
    /\ UNCHANGED <<mpc, listening, ginitiator_oneshot, proc, streamVars>>

\* The server refuses the onward connection.
InitiateFails(n, c) ==
    /\ proc[n] = "run" /\ cpc[n][c] = "initiate" /\ Io[n] = "initiate"
    /\ proc' = [proc EXCEPT ![n] = "failed"]
    /\ UNCHANGED <<deployment, mpc, listening, cpc, ginitiator_oneshot, input_fd, output_fd, streamVars>>

CreateIngest(n, c) ==
    /\ Step(n, c, "create", "back")
    /\ ingests' = [ingests EXCEPT ![n] = @ + 1]
    /\ UNCHANGED <<mpc, listening, ginitiator_oneshot, input_fd, output_fd, proc,
                   begun, inflight, taken, wrote, input_eof, done_mbox>>

-----------------------------------------------------------------------------
(***************************************************************************)
(* An ingest thread reads its first buffer from input_fd as it is then,    *)
(* and numbers it 0.  In a process without workers it never gets as far.   *)
(***************************************************************************)
IngestFirst(n) ==
    /\ proc[n] = "run" /\ n \in Sends /\ begun[n] < ingests[n]
    /\ begun' = [begun EXCEPT ![n] = @ + 1]
    /\ taken' = [taken EXCEPT ![n] = @ \cup {input_fd[n]}]
    /\ inflight' = [inflight EXCEPT ![Peer[n]] = @ + 1]
    /\ UNCHANGED <<deployment, mpc, listening, cpc, ginitiator_oneshot, input_fd, output_fd, ingests, wrote,
                   input_eof, done_mbox, proc>>

\* Mutant: the relay is asked for by a leg that has not come.
BearFirstUnsent(n, c) ==
    /\ c \in Bearers
    /\ Step(n, c, "out", "test")
    /\ inflight' = [inflight EXCEPT ![n] = @ - 1]
    /\ UNCHANGED <<mpc, listening, ginitiator_oneshot, input_fd, output_fd, ingests, begun, taken,
                   wrote, input_eof, done_mbox, proc>>

\* A receiver thread has read a leg 0 and calls initiate_relay().
BearFirst(n, c) ==
    /\ c \in Bearers /\ inflight[n] > 0
    /\ Step(n, c, "out", "test")
    /\ inflight' = [inflight EXCEPT ![n] = @ - 1]
    /\ UNCHANGED <<mpc, listening, ginitiator_oneshot, input_fd, output_fd, ingests, begun, taken,
                   wrote, input_eof, done_mbox, proc>>

\* The sequencer lets one leg 0 through; a second one waits for ever.
EmitFirst(n, c) ==
    /\ c \in Bearers /\ wrote[n] = "none"
    /\ Step(n, c, "back", "emitted")
    /\ wrote' = [wrote EXCEPT ![n] = output_fd[n]]
    /\ UNCHANGED <<mpc, listening, ginitiator_oneshot, input_fd, output_fd, ingests, begun, inflight,
                   taken, input_eof, done_mbox, proc>>

\* The input of n ends; its workers push what is left.
InputEnds(n) ==
    /\ proc[n] = "run" /\ begun[n] > 0 /\ n \notin input_eof
    /\ input_eof' = input_eof \cup {n}
    /\ UNCHANGED <<deployment, mpc, listening, cpc, ginitiator_oneshot, input_fd, output_fd, proc, ingests, begun,
                   inflight, taken, wrote, done_mbox>>

\* The end leg comes to its turn, after leg 0.
EndArrives(n) ==
    /\ proc[n] = "run" /\ wrote[n] # "none" /\ n \notin done_mbox
    /\ \E m \in input_eof : Peer[m] = n
    /\ done_mbox' = done_mbox \cup {n}
    /\ UNCHANGED <<deployment, mpc, listening, cpc, ginitiator_oneshot, input_fd, output_fd, proc, ingests, begun,
                   inflight, taken, wrote, input_eof>>

\* main() has come out of initiate_relay() and finds both directions done.
Exit(n) ==
    /\ proc[n] = "run" /\ mpc[n] = "poll" /\ cpc[n]["main"] = "back"
    /\ n \in Sends => n \in input_eof
    /\ n \in Receives => n \in done_mbox
    /\ proc' = [proc EXCEPT ![n] = "exit0"]
    /\ UNCHANGED <<deployment, mpc, listening, cpc, ginitiator_oneshot, input_fd, output_fd, streamVars>>

-----------------------------------------------------------------------------
RelayCall(n, c) ==
    TestOneshot(n, c) \/ MarkOneshot(n, c) \/ Initiate(n, c) \/ CreateIngest(n, c)

Own(n) ==
    \/ Listen(n) \/ Connect(n) \/ Terminate(n) \/ MainRelay(n) \/ IngestFirst(n)
    \/ InputEnds(n) \/ EndArrives(n) \/ Exit(n)

Next == \E n \in Node :
    \/ Own(n)
    \/ \E c \in Callers : RelayCall(n, c) \/ BearFirst(n, c) \/ EmitFirst(n, c) \/ InitiateFails(n, c)

(***************************************************************************)
(* Every thread runs, clients come, and sources deliver and end.  A        *)
(* refused connection is never required.                                   *)
(***************************************************************************)
Fairness == \A n \in Node :
    /\ WF_vars(Own(n))
    /\ \A c \in Callers :
          WF_vars(RelayCall(n, c)) /\ WF_vars(BearFirst(n, c)) /\ WF_vars(EmitFirst(n, c))

Spec == Init /\ [][Next]_vars /\ Fairness

-----------------------------------------------------------------------------
\* m sends to n.
Feeds(m, n) == m \in Sends /\ Peer[m] = n

\* Another process sends to n and need not have had a leg 0 of n before it starts.
Unprompted(n) == \E m \in Node \ {n} : Feeds(m, n) /\ ~(Io[m] = "initiate" /\ Feeds(n, m))

\* main() and the bearer of leg 0 both have a part in setting n up, in no fixed order.
Contested(n) == Unprompted(n) /\ (Io[n] = "terminate" \/ (Io[n] = "pipe" /\ n \in Sends))

\* n is sent two streams at once, by the two ingest threads of a contested process.
TwiceFed(n) == \E m \in Node : Feeds(m, n) /\ begun[m] > 1

(***************************************************************************)
(* A process has one ingest thread.  Two would read the same input in      *)
(* turns and each number its legs from 0 (viamillipede.c:47-55).  That the *)
(* flag is tested and raised without a lock matters in contested senders   *)
(* and to whom they send two streams, only.                                *)
(***************************************************************************)
OneIngest == \A n \in Node : (Contested(n) /\ n \in Sends) \/ TwiceFed(n) \/ ingests[n] <= 1

(***************************************************************************)
(* Input is read from where the user's stream comes from, never from a     *)
(* descriptor that is not set yet (viamillipede.c:53, tx.c:84); in a       *)
(* contested process that may happen to a terminator only.                 *)
(***************************************************************************)
RealInput == \A n \in Sends : (Contested(n) /\ Io[n] = "terminate") \/ taken[n] \subseteq {Source(n)}

(***************************************************************************)
(* Leg 0, and all that follows it, is written to where the user's stream   *)
(* goes (rx.c:139-141, rx.c:171), unless the process is contested or has   *)
(* two leg 0's to choose from.                                             *)
(***************************************************************************)
RealOutput == \A n \in Node : Contested(n) \/ TwiceFed(n) \/ wrote[n] \in {"none", Sink(n)}

(***************************************************************************)
(* When nobody fails, every process comes to its end: main() waits for     *)
(* both directions, and those of an initiator start with its peer's leg 0, *)
(* so there has to be such a peer (viamillipede.c:224, rx.c:139).          *)
(***************************************************************************)
Startable == \A n \in Node :
    /\ ~Contested(n)
    /\ n \in Sends /\ Io[n] = "initiate" => \E m \in Node : Feeds(m, n) /\ Io[m] # "initiate"

AllEnd == Startable => <>((\E n \in Node : proc[n] = "failed") \/ (\A n \in Node : proc[n] = "exit0"))
=============================================================================
