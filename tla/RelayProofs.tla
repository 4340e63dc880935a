---------------------------- MODULE RelayProofs ----------------------------
(***************************************************************************)
(* Proofs about Relay, for any number of processes, however they are       *)
(* started and wired up.                                                   *)
(***************************************************************************)
EXTENDS Relay, TLAPS

-----------------------------------------------------------------------------
(* The deployment *)

LEMMA Deployed ==
    ASSUME deployment \in Deployments
    PROVE  /\ Sends \subseteq Node
           /\ \A m \in Sends : Peer[m] \in Node
           /\ \A m, k \in Sends : Peer[m] = Peer[k] => m = k
           /\ \A n \in Node : Io[n] \in {"pipe", "terminate", "initiate"}
           /\ "main" \notin Bearers /\ "main" \in Callers /\ Bearers \subseteq Callers
           /\ \A c \in Callers : c = "main" \/ c \in Bearers
BY RelayAssumption DEF Sends, Peer, Io, Range, IsInjective, Callers

\* main() is one of those that set n up.
MainFirst(n) == n \in Sends /\ Io[n] # "initiate"

\* main() sets n up, and leg 0 comes only when it has.
Sole(n) == MainFirst(n) /\ ~Unprompted(n)

\* A leg 0 has been sent to n.
Fed(n) == \E m \in Node : Feeds(m, n) /\ begun[m] > 0

LEMMA Fixed ==
    ASSUME UNCHANGED deployment
    PROVE  /\ Sends' = Sends /\ Peer' = Peer /\ Io' = Io /\ Receives' = Receives
           /\ \A n \in Node : Source(n)' = Source(n) /\ Sink(n)' = Sink(n)
           /\ \A m, n : Feeds(m, n)' <=> Feeds(m, n)
           /\ \A n \in Node : /\ Unprompted(n)' <=> Unprompted(n)
                              /\ Contested(n)' <=> Contested(n)
                              /\ MainFirst(n)' <=> MainFirst(n)
                              /\ Sole(n)' <=> Sole(n)
<1>1. Sends' = Sends /\ Peer' = Peer /\ Io' = Io /\ Receives' = Receives
    BY DEF Sends, Peer, Io, Receives
<1>2. \A m, n : Feeds(m, n)' <=> Feeds(m, n)
    BY <1>1 DEF Feeds
<1>3. \A n \in Node : Unprompted(n)' <=> Unprompted(n)
    BY <1>1, <1>2 DEF Unprompted
<1>4. \A n \in Node : Source(n)' = Source(n) /\ Sink(n)' = Sink(n)
    BY <1>1 DEF Source, Sink
<1>5. \A n \in Node : Contested(n)' <=> Contested(n)
    BY <1>1, <1>3 DEF Contested
<1>6. \A n \in Node : MainFirst(n)' <=> MainFirst(n)
    BY <1>1 DEF MainFirst
<1>7. \A n \in Node : Sole(n)' <=> Sole(n)
    BY <1>3, <1>6 DEF Sole
<1> QED BY <1>1, <1>2, <1>3, <1>4, <1>5, <1>6, <1>7

\* Who feeds n, and what follows from that where main() sets n up.
LEMMA Feeders ==
    ASSUME deployment \in Deployments, NEW n \in Node
    PROVE  /\ \A m, k \in Node : Feeds(m, n) /\ Feeds(k, n) => m = k
           /\ Sole(n) => \A m \in Node : Feeds(m, n) => m = n \/ (Io[m] = "initiate" /\ Feeds(n, m))
           /\ MainFirst(n) /\ ~Sole(n) => Contested(n) /\ n \in Sends
           /\ Contested(n) => ~Sole(n)
           /\ ~MainFirst(n) /\ Io[n] = "terminate" /\ ~Contested(n) => \A m \in Node : ~Feeds(m, n)
<1>1. \A m, k \in Node : Feeds(m, n) /\ Feeds(k, n) => m = k
    BY Deployed DEF Feeds
<1>2. Sole(n) => \A m \in Node : Feeds(m, n) => m = n \/ (Io[m] = "initiate" /\ Feeds(n, m))
    BY DEF Sole, Unprompted
<1>3. MainFirst(n) /\ ~Sole(n) => Contested(n) /\ n \in Sends
    BY Deployed DEF MainFirst, Sole, Contested
<1>4. Contested(n) => ~Sole(n)
    BY DEF Contested, Sole
<1>5. ~MainFirst(n) /\ Io[n] = "terminate" /\ ~Contested(n) => \A m \in Node : ~Feeds(m, n)
  <2> SUFFICES ASSUME n \notin Sends, ~Unprompted(n), NEW m \in Node, Feeds(m, n) PROVE FALSE
      BY DEF MainFirst, Contested
  <2> QED BY DEF Unprompted, Feeds
<1> QED BY <1>1, <1>2, <1>3, <1>4, <1>5

-----------------------------------------------------------------------------
(* Types *)

LEMMA InitTypeOK == Init => TypeOK
BY DEF Init, TypeOK, MainPc, CallPc, Fd

LEMMA Called ==
    ASSUME TypeOK, NEW n \in Node, NEW c \in Callers, NEW here, NEW there \in CallPc, Step(n, c, here, there)
    PROVE  /\ cpc' \in [Node -> [Callers -> CallPc]] /\ deployment' = deployment
           /\ proc[n] = "run" /\ cpc[n][c] = here /\ cpc'[n][c] = there
           /\ \A k \in Node : k # n => cpc'[k] = cpc[k]
           /\ \A d \in Callers : d # c => cpc'[n][d] = cpc[n][d]
<1>1. cpc[n] \in [Callers -> CallPc] /\ cpc' = [cpc EXCEPT ![n] = [cpc[n] EXCEPT ![c] = there]]
    BY DEF TypeOK, Step
<1>2. [cpc[n] EXCEPT ![c] = there] \in [Callers -> CallPc]
    BY <1>1
<1> QED BY <1>1, <1>2 DEF TypeOK, Step

LEMMA TypeStep == TypeOK /\ [Next]_vars => TypeOK'
<1> SUFFICES ASSUME TypeOK, [Next]_vars PROVE TypeOK'
    OBVIOUS
<1> USE DEF TypeOK, MainPc, Fd
<1>1. ASSUME NEW n \in Node, Own(n) PROVE TypeOK'
  <2>1. CASE Listen(n)
      BY <1>1, <2>1 DEF Listen, Main, streamVars
  <2>2. CASE Connect(n)
      BY <1>1, <2>2 DEF Connect, Main, streamVars
  <2>3. CASE Terminate(n)
      BY <1>1, <2>3 DEF Terminate, Main, streamVars
  <2>4. CASE MainRelay(n)
    <3> DEFINE there == IF n \in Sends /\ Io[n] # "initiate" THEN "test" ELSE "back"
    <3>1. cpc[n] \in [Callers -> CallPc] /\ there \in CallPc
        BY DEF CallPc
    <3>2. [cpc[n] EXCEPT !["main"] = there] \in [Callers -> CallPc]
        BY <3>1
    <3>3. cpc' = [cpc EXCEPT ![n] = [cpc[n] EXCEPT !["main"] = there]]
        BY <2>4 DEF MainRelay
    <3>4. cpc' \in [Node -> [Callers -> CallPc]]
        BY <3>2, <3>3
    <3> QED BY <2>4, <3>4 DEF MainRelay, Main, streamVars
  <2>5. CASE IngestFirst(n)
    <3>1. Peer[n] \in Node
        BY <2>5, Deployed DEF IngestFirst
    <3> QED BY <2>5, <3>1 DEF IngestFirst
  <2>6. CASE InputEnds(n)
      BY <2>6 DEF InputEnds
  <2>7. CASE EndArrives(n)
      BY <2>7 DEF EndArrives
  <2>8. CASE Exit(n)
      BY <2>8 DEF Exit, streamVars
  <2> QED BY <1>1, <2>1, <2>2, <2>3, <2>4, <2>5, <2>6, <2>7, <2>8 DEF Own
<1>2. ASSUME NEW n \in Node, NEW c \in Callers, RelayCall(n, c) PROVE TypeOK'
  <2>1. CASE TestOneshot(n, c)
    <3>1. (IF ginitiator_oneshot[n] > 0 THEN "back" ELSE "mark") \in CallPc
        BY DEF CallPc
    <3> QED BY <2>1, <3>1, Called DEF TestOneshot, streamVars
  <2>2. CASE MarkOneshot(n, c)
    <3>1. "initiate" \in CallPc
        BY DEF CallPc
    <3> QED BY <2>2, <3>1, Called DEF MarkOneshot, streamVars
  <2>3. CASE Initiate(n, c)
    <3>1. "create" \in CallPc /\ Sink(n) \in Fd
        BY Deployed DEF CallPc, Sink, Source
    <3> QED BY <2>3, <3>1, Called DEF Initiate, streamVars
  <2>4. CASE CreateIngest(n, c)
    <3>1. "back" \in CallPc
        BY DEF CallPc
    <3> QED BY <2>4, <3>1, Called DEF CreateIngest
  <2> QED BY <1>2, <2>1, <2>2, <2>3, <2>4 DEF RelayCall
<1>3. ASSUME NEW n \in Node, NEW c \in Callers, BearFirst(n, c) PROVE TypeOK'
  <2>1. "test" \in CallPc
      BY DEF CallPc
  <2> QED BY <1>3, <2>1, Called DEF BearFirst
<1>4. ASSUME NEW n \in Node, NEW c \in Callers, EmitFirst(n, c) PROVE TypeOK'
  <2>1. "emitted" \in CallPc
      BY DEF CallPc
  <2> QED BY <1>4, <2>1, Called DEF EmitFirst
<1>5. ASSUME NEW n \in Node, NEW c \in Callers, InitiateFails(n, c) PROVE TypeOK'
    BY <1>5 DEF InitiateFails, streamVars
<1>6. CASE UNCHANGED vars
    BY <1>6 DEF vars
<1> QED BY <1>1, <1>2, <1>3, <1>4, <1>5, <1>6 DEF Next

(***************************************************************************)
(* Every variable keeps its type; in particular no leg 0 is borne that was *)
(* not sent.                                                               *)
(***************************************************************************)
THEOREM TypeCorrect == Spec => []TypeOK
BY InitTypeOK, TypeStep, PTL DEF Spec

-----------------------------------------------------------------------------
(* The invariant *)

\* initiate_relay() is called by main() after terminate(), and by bearers of a leg 0.
CallInv(n) ==
    /\ cpc[n]["main"] # "out" => mpc[n] = "poll"
    /\ ~MainFirst(n) => cpc[n]["main"] \in {"out", "back"}
    /\ inflight[n] > 0 => Fed(n)
    /\ \A c \in Bearers : cpc[n][c] # "out" => Fed(n)
    /\ begun[n] <= ingests[n]

\* Where leg 0 is prompted by n itself, its bearer finds the relay set up.
SoleInv(n) ==
    Sole(n) =>
        /\ Fed(n) => cpc[n]["main"] = "back"
        /\ \A c \in Bearers : cpc[n][c] \in {"out", "test", "back", "emitted"}
        /\ cpc[n]["main"] \in {"out", "test", "mark"} => ginitiator_oneshot[n] = 0
        /\ cpc[n]["main"] \in {"initiate", "create", "back"} => ginitiator_oneshot[n] > 0
        /\ cpc[n]["main"] # "back" => ingests[n] = 0
        /\ cpc[n]["main"] = "back" => ingests[n] = 1
        /\ Io[n] = "pipe" /\ cpc[n]["main"] = "back" => output_fd[n] = "stdout"

Asking == {"test", "mark", "initiate", "create"}

\* The one bearer of a leg 0.
OneBearer(n) ==
    /\ inflight[n] <= 1
    /\ inflight[n] > 0 => \A c \in Bearers : cpc[n][c] = "out"
    /\ \A c, d \in Bearers : cpc[n][c] # "out" /\ cpc[n][d] # "out" => c = d
    /\ ingests[n] <= 1
    /\ \A c \in Bearers :
          /\ cpc[n][c] \in {"test", "mark"} => ginitiator_oneshot[n] = 0
          /\ cpc[n][c] \in Asking => ingests[n] = 0
          /\ cpc[n][c] \in {"back", "emitted"} /\ Io[n] # "terminate" => output_fd[n] = Sink(n)
    /\ (\A c \in Bearers : cpc[n][c] = "out") => ginitiator_oneshot[n] = 0 /\ ingests[n] = 0

\* Where leg 0 alone sets n up.
BearerInv(n) ==
    ~MainFirst(n) =>
        /\ ingests[n] > 0 => \E c \in Bearers : cpc[n][c] # "out"
        /\ ~TwiceFed(n) => OneBearer(n)

\* What is known of the descriptors.
FdInv(n) ==
    /\ Io[n] = "pipe" => input_fd[n] = "zero"
    /\ Io[n] = "terminate" /\ mpc[n] \in {"relay", "poll"} => input_fd[n] = "client" /\ output_fd[n] = "client"
    /\ Io[n] = "initiate" /\ ingests[n] > 0 => input_fd[n] = "server"
    /\ \A c \in Callers : cpc[n][c] = "create" =>
          /\ Io[n] = "initiate" => input_fd[n] = "server"
          /\ Io[n] # "terminate" => output_fd[n] = Sink(n)

\* What has been done with them.
UseInv(n) ==
    /\ n \in Sends => (Contested(n) /\ Io[n] = "terminate") \/ taken[n] \subseteq {Source(n)}
    /\ Contested(n) \/ TwiceFed(n) \/ wrote[n] \in {"none", Sink(n)}

NodeInv(n) == CallInv(n) /\ SoleInv(n) /\ BearerInv(n) /\ FdInv(n) /\ UseInv(n)

RelayInv == TypeOK /\ \A n \in Node : NodeInv(n)

LEMMA InitRelayInv == Init => RelayInv
<1> SUFFICES ASSUME Init PROVE RelayInv
    OBVIOUS
<1>1. TypeOK /\ deployment \in Deployments
    BY InitTypeOK DEF Init
<1> SUFFICES ASSUME NEW n \in Node PROVE NodeInv(n)
    BY <1>1 DEF RelayInv
<1>2. /\ mpc[n] = "listen" /\ \A c \in Callers : cpc[n][c] = "out"
      /\ ginitiator_oneshot[n] = 0 /\ input_fd[n] = "zero" /\ output_fd[n] = "zero"
      /\ ingests[n] = 0 /\ \A m \in Node : begun[m] = 0
      /\ inflight[n] = 0 /\ taken[n] = {} /\ wrote[n] = "none"
    BY DEF Init
<1>3. ~Fed(n) /\ "main" \in Callers /\ Bearers \subseteq Callers
    BY <1>1, <1>2, Deployed DEF Fed
<1>4. CallInv(n)
    BY <1>2, <1>3 DEF CallInv
<1>5. SoleInv(n)
    BY <1>2, <1>3 DEF SoleInv
<1>6. BearerInv(n)
    BY <1>2, <1>3 DEF BearerInv, OneBearer, Asking
<1>7. FdInv(n)
    BY <1>2 DEF FdInv
<1>8. UseInv(n)
    BY <1>2 DEF UseInv
<1> QED BY <1>4, <1>5, <1>6, <1>7, <1>8 DEF NodeInv

LEMMA InvImplies == RelayInv => OneIngest /\ RealInput /\ RealOutput
<1> SUFFICES ASSUME RelayInv PROVE OneIngest /\ RealInput /\ RealOutput
    OBVIOUS
<1>1. TypeOK /\ deployment \in Deployments /\ Sends \subseteq Node
    BY Deployed DEF RelayInv, TypeOK
<1>2. ASSUME NEW n \in Node PROVE (Contested(n) /\ n \in Sends) \/ TwiceFed(n) \/ ingests[n] <= 1
  <2>1. CASE Sole(n)
      BY <2>1 DEF RelayInv, NodeInv, SoleInv
  <2>2. CASE ~MainFirst(n)
      BY <2>2 DEF RelayInv, NodeInv, BearerInv, OneBearer
  <2> QED BY <2>1, <2>2, <1>1, Feeders
<1>3. RealInput /\ RealOutput
    BY <1>1 DEF RelayInv, NodeInv, UseInv, RealInput, RealOutput
<1> QED BY <1>2, <1>3 DEF OneIngest

-----------------------------------------------------------------------------
(* Steps *)

\* Nothing of k has changed, and no leg 0 has been sent.
Same(k) ==
    /\ mpc'[k] = mpc[k] /\ cpc'[k] = cpc[k] /\ ginitiator_oneshot'[k] = ginitiator_oneshot[k]
    /\ input_fd'[k] = input_fd[k] /\ output_fd'[k] = output_fd[k]
    /\ ingests'[k] = ingests[k] /\ inflight'[k] = inflight[k]
    /\ taken'[k] = taken[k] /\ wrote'[k] = wrote[k]

LEMMA Unsent ==
    ASSUME UNCHANGED <<deployment, begun>>
    PROVE  \A n \in Node : (Fed(n)' <=> Fed(n)) /\ (TwiceFed(n)' <=> TwiceFed(n))
BY Fixed DEF Fed, TwiceFed

LEMMA Frame ==
    ASSUME UNCHANGED <<deployment, begun>>, NEW k \in Node, NodeInv(k), Same(k)
    PROVE  NodeInv(k)'
<1> USE Fixed, Unsent DEF NodeInv, Same
<1>1. CallInv(k)'
    BY DEF CallInv
<1>2. SoleInv(k)'
    BY DEF SoleInv
<1>3. BearerInv(k)'
    BY DEF BearerInv, OneBearer
<1>4. FdInv(k)'
    BY DEF FdInv
<1>5. UseInv(k)'
    BY DEF UseInv
<1> QED BY <1>1, <1>2, <1>3, <1>4, <1>5

\* A step of n that sends no leg 0 has only n's part of the invariant to keep.
LEMMA Local ==
    ASSUME RelayInv, TypeOK', UNCHANGED <<deployment, begun>>, NEW n \in Node,
           \A k \in Node : k # n => Same(k), NodeInv(n)'
    PROVE  RelayInv'
<1>1. \A k \in Node : k # n => NodeInv(k)'
    BY Frame DEF RelayInv
<1> QED BY <1>1 DEF RelayInv

\* main() before it has come to the relay.
LEMMA EarlyMain ==
    ASSUME RelayInv, TypeOK', NEW n \in Node, Listen(n) \/ Connect(n) \/ Terminate(n)
    PROVE  RelayInv'
<1> USE Fixed, Unsent, Deployed
<1>1. /\ UNCHANGED <<deployment, begun, cpc, ginitiator_oneshot, ingests, inflight, taken, wrote>>
      /\ mpc' = [mpc EXCEPT ![n] = mpc'[n]] /\ mpc[n] \in {"listen", "connect", "terminate"}
      /\ mpc'[n] = "relay" => Terminate(n)
      /\ mpc'[n] # "poll"
      /\ ~Terminate(n) => UNCHANGED <<input_fd, output_fd>>
      /\ deployment \in Deployments
    BY DEF Listen, Connect, Terminate, Main, streamVars, RelayInv, TypeOK
<1>2. Terminate(n) => /\ input_fd' = [input_fd EXCEPT ![n] = input_fd'[n]]
                      /\ output_fd' = [output_fd EXCEPT ![n] = output_fd'[n]]
                      /\ Io[n] = "terminate" => input_fd'[n] = "client" /\ output_fd'[n] = "client"
                      /\ Io[n] = "pipe" => input_fd'[n] = "zero" /\ output_fd'[n] = output_fd[n]
                      /\ Io[n] = "initiate" => input_fd'[n] = input_fd[n] /\ output_fd'[n] = output_fd[n]
    BY DEF Terminate, RelayInv, TypeOK
<1>3. \A k \in Node : k # n => Same(k)
    BY <1>1, <1>2 DEF Same, RelayInv, TypeOK
<1>4. NodeInv(n) /\ Io[n] \in {"pipe", "terminate", "initiate"} /\ cpc[n]["main"] = "out"
    BY <1>1 DEF RelayInv, NodeInv, CallInv
<1>5. CallInv(n)'
    BY <1>1, <1>4 DEF NodeInv, CallInv
<1>6. SoleInv(n)'
    BY <1>1, <1>4 DEF NodeInv, SoleInv
<1>7. BearerInv(n)'
    BY <1>1, <1>2, <1>4 DEF NodeInv, BearerInv, OneBearer
<1>8. FdInv(n)'
    BY <1>1, <1>2, <1>4 DEF NodeInv, FdInv
<1>9. UseInv(n)'
    BY <1>1, <1>4 DEF NodeInv, UseInv
<1> QED BY <1>1, <1>3, <1>5, <1>6, <1>7, <1>8, <1>9, Local DEF NodeInv

LEMMA MainRelayInv ==
    ASSUME RelayInv, TypeOK', NEW n \in Node, MainRelay(n)
    PROVE  RelayInv'
<1> USE Fixed, Unsent, Deployed
<1>1. /\ UNCHANGED <<deployment, begun, ginitiator_oneshot, input_fd, output_fd, ingests, inflight, taken, wrote>>
      /\ mpc[n] = "relay" /\ mpc' = [mpc EXCEPT ![n] = "poll"]
      /\ deployment \in Deployments /\ TypeOK
    BY DEF MainRelay, Main, streamVars, RelayInv, TypeOK
<1>2. /\ \A k \in Node : k # n => cpc'[k] = cpc[k]
      /\ \A c \in Bearers : cpc'[n][c] = cpc[n][c]
      /\ cpc'[n]["main"] = IF MainFirst(n) THEN "test" ELSE "back"
    BY <1>1 DEF MainRelay, MainFirst, TypeOK
<1>3. \A k \in Node : k # n => Same(k)
    BY <1>1, <1>2 DEF Same, TypeOK
<1>4. NodeInv(n) /\ cpc[n]["main"] = "out" /\ mpc'[n] = "poll"
    BY <1>1 DEF RelayInv, NodeInv, CallInv, TypeOK
<1>5. CallInv(n)'
    BY <1>1, <1>2, <1>4 DEF NodeInv, CallInv
<1>6. SoleInv(n)'
    BY <1>1, <1>2, <1>4 DEF NodeInv, SoleInv, Sole
<1>7. BearerInv(n)'
    BY <1>1, <1>2, <1>4 DEF NodeInv, BearerInv, OneBearer
<1>8. FdInv(n)'
    BY <1>1, <1>2, <1>4 DEF NodeInv, FdInv
<1>9. UseInv(n)'
    BY <1>1, <1>4 DEF NodeInv, UseInv
<1> QED BY <1>1, <1>3, <1>5, <1>6, <1>7, <1>8, <1>9, Local DEF NodeInv

\* What a step that sends no leg 0 leaves as it was at n, and the types there.
Kept(n) ==
    /\ Io'[n] = Io[n] /\ (n \in Sends' <=> n \in Sends)
    /\ Source(n)' = Source(n) /\ Sink(n)' = Sink(n)
    /\ Contested(n)' <=> Contested(n)
    /\ MainFirst(n)' <=> MainFirst(n)
    /\ Sole(n)' <=> Sole(n)
    /\ Fed(n)' <=> Fed(n)
    /\ TwiceFed(n)' <=> TwiceFed(n)
    /\ Sole(n) => MainFirst(n)
    /\ Io[n] = "initiate" => ~MainFirst(n)
    /\ Io[n] \in {"pipe", "terminate", "initiate"}
    /\ "main" \notin Bearers /\ "main" \in Callers /\ Bearers \subseteq Callers
    /\ \A c \in Callers : c = "main" \/ c \in Bearers
    /\ ginitiator_oneshot[n] \in Nat /\ ingests[n] \in Nat /\ begun[n] \in Nat /\ inflight[n] \in Nat

LEMMA AtNode ==
    ASSUME TypeOK, UNCHANGED <<deployment, begun>>, NEW n \in Node
    PROVE  Kept(n)
<1>1. deployment \in Deployments
    BY DEF TypeOK
<1>2. /\ ginitiator_oneshot[n] \in Nat /\ ingests[n] \in Nat /\ begun[n] \in Nat /\ inflight[n] \in Nat
    BY DEF TypeOK
<1>3. (Sole(n) => MainFirst(n)) /\ (Io[n] = "initiate" => ~MainFirst(n))
    BY DEF Sole, MainFirst
<1> QED BY <1>1, <1>2, <1>3, Fixed, Unsent, Deployed DEF Kept

LEMMA TestInv ==
    ASSUME RelayInv, TypeOK', NEW n \in Node, NEW c \in Callers, TestOneshot(n, c)
    PROVE  RelayInv'
<1>1. /\ UNCHANGED <<deployment, begun, mpc, ginitiator_oneshot, input_fd, output_fd, ingests, inflight, taken, wrote>>
      /\ TypeOK /\ NodeInv(n) /\ Kept(n)
    BY AtNode DEF TestOneshot, Step, streamVars, RelayInv, TypeOK
<1>2. /\ cpc[n][c] = "test" /\ cpc'[n][c] = (IF ginitiator_oneshot[n] > 0 THEN "back" ELSE "mark")
      /\ \A k \in Node : k # n => cpc'[k] = cpc[k]
      /\ \A d \in Callers : d # c => cpc'[n][d] = cpc[n][d]
    BY <1>1, Called DEF TestOneshot, CallPc
<1>3. c = "main" => MainFirst(n)
    BY <1>1, <1>2 DEF NodeInv, CallInv, Kept
<1>4. \A k \in Node : k # n => Same(k)
    BY <1>1, <1>2, <1>3 DEF TestOneshot, Same, TypeOK
<1>a. /\ c = "main" => /\ cpc[n]["main"] = "test" /\ cpc'[n]["main"] = (IF ginitiator_oneshot[n] > 0 THEN "back" ELSE "mark")
                       /\ \A d \in Bearers : cpc'[n][d] = cpc[n][d]
      /\ c \in Bearers => cpc'[n]["main"] = cpc[n]["main"]
      /\ c = "main" \/ c \in Bearers
    BY <1>1, <1>2 DEF Kept
<1> USE <1>1, <1>2, <1>3, <1>a DEF NodeInv, CallInv, Kept
<1>5. CallInv(n)'
  <2>1. CASE c = "main" BY <2>1
  <2>2. CASE c \in Bearers BY <2>2
  <2> QED BY <2>1, <2>2
<1>6. SoleInv(n)'
  <2>1. CASE c = "main" BY <2>1 DEF SoleInv
  <2>2. CASE c \in Bearers BY <2>2 DEF SoleInv
  <2> QED BY <2>1, <2>2
<1>7. BearerInv(n)'
  <2> SUFFICES ASSUME ~MainFirst(n), c \in Bearers PROVE BearerInv(n)'
      BY DEF BearerInv
  <2>1. ~TwiceFed(n) => OneBearer(n)
      BY DEF BearerInv
  <2>2. ~TwiceFed(n) => OneBearer(n)'
      BY <2>1 DEF OneBearer, Asking
  <2> QED BY <2>2 DEF BearerInv
<1>8. FdInv(n)'
    BY DEF FdInv
<1>9. UseInv(n)'
    BY DEF UseInv
<1> QED BY <1>4, <1>5, <1>6, <1>7, <1>8, <1>9, Local

LEMMA MarkInv ==
    ASSUME RelayInv, TypeOK', NEW n \in Node, NEW c \in Callers, MarkOneshot(n, c)
    PROVE  RelayInv'
<1>1. /\ UNCHANGED <<deployment, begun, mpc, input_fd, output_fd, ingests, inflight, taken, wrote>>
      /\ TypeOK /\ NodeInv(n) /\ Kept(n)
    BY AtNode DEF MarkOneshot, Step, streamVars, RelayInv, TypeOK
<1>2. /\ cpc[n][c] = "mark" /\ cpc'[n][c] = "initiate"
      /\ \A k \in Node : k # n => cpc'[k] = cpc[k]
      /\ \A d \in Callers : d # c => cpc'[n][d] = cpc[n][d]
    BY <1>1, Called DEF MarkOneshot, CallPc
<1>3. ginitiator_oneshot'[n] = ginitiator_oneshot[n] + 1
    BY <1>1 DEF MarkOneshot, TypeOK, Kept
<1>4. \A k \in Node : k # n => Same(k)
    BY <1>1, <1>2, <1>3 DEF MarkOneshot, Same, TypeOK
<1>a. /\ c = "main" => /\ cpc[n]["main"] = "mark" /\ cpc'[n]["main"] = "initiate"
                       /\ \A d \in Bearers : cpc'[n][d] = cpc[n][d]
      /\ c \in Bearers => cpc'[n]["main"] = cpc[n]["main"]
      /\ c = "main" \/ c \in Bearers
    BY <1>1, <1>2 DEF Kept
<1> USE <1>1, <1>2, <1>3, <1>a DEF NodeInv, CallInv, Kept
<1>5. CallInv(n)'
  <2>1. CASE c = "main" BY <2>1
  <2>2. CASE c \in Bearers BY <2>2
  <2> QED BY <2>1, <2>2
<1>6. SoleInv(n)'
  <2>1. CASE c = "main" BY <2>1 DEF SoleInv
  <2>2. CASE c \in Bearers BY <2>2 DEF SoleInv
  <2> QED BY <2>1, <2>2
<1>7. BearerInv(n)'
  <2> SUFFICES ASSUME ~MainFirst(n), c \in Bearers PROVE BearerInv(n)'
      BY DEF BearerInv
  <2>1. ~TwiceFed(n) => OneBearer(n)
      BY DEF BearerInv
  <2>2. ~TwiceFed(n) => OneBearer(n)'
      BY <2>1 DEF OneBearer, Asking
  <2> QED BY <2>2 DEF BearerInv
<1>8. FdInv(n)'
    BY DEF FdInv
<1>9. UseInv(n)'
    BY DEF UseInv
<1> QED BY <1>4, <1>5, <1>6, <1>7, <1>8, <1>9, Local

LEMMA InitiateInv ==
    ASSUME RelayInv, TypeOK', NEW n \in Node, NEW c \in Callers, Initiate(n, c)
    PROVE  RelayInv'
<1>1. /\ UNCHANGED <<deployment, begun, mpc, ginitiator_oneshot, ingests, inflight, taken, wrote>>
      /\ TypeOK /\ NodeInv(n) /\ Kept(n)
    BY AtNode DEF Initiate, Step, streamVars, RelayInv, TypeOK
<1>2. /\ cpc[n][c] = "initiate" /\ cpc'[n][c] = "create"
      /\ \A k \in Node : k # n => cpc'[k] = cpc[k]
      /\ \A d \in Callers : d # c => cpc'[n][d] = cpc[n][d]
    BY <1>1, Called DEF Initiate, CallPc
<1>3. /\ Io[n] = "terminate" => input_fd'[n] = input_fd[n] /\ output_fd'[n] = output_fd[n]
      /\ Io[n] # "terminate" => output_fd'[n] = Sink(n)
      /\ Io[n] # "initiate" => input_fd'[n] = input_fd[n]
      /\ Io[n] = "initiate" => input_fd'[n] = "server"
    BY <1>1 DEF Initiate, TypeOK, Kept
<1>4. \A k \in Node : k # n => Same(k)
    BY <1>1, <1>2, <1>3 DEF Initiate, Same, TypeOK
<1>a. /\ c = "main" => /\ cpc[n]["main"] = "initiate" /\ cpc'[n]["main"] = "create"
                       /\ \A d \in Bearers : cpc'[n][d] = cpc[n][d]
      /\ c \in Bearers => cpc'[n]["main"] = cpc[n]["main"]
      /\ c = "main" \/ c \in Bearers
    BY <1>1, <1>2 DEF Kept
<1> USE <1>1, <1>2, <1>3, <1>a DEF NodeInv, CallInv, Kept
<1>5. CallInv(n)'
  <2>1. CASE c = "main" BY <2>1
  <2>2. CASE c \in Bearers BY <2>2
  <2> QED BY <2>1, <2>2
<1>6. SoleInv(n)'
  <2>1. CASE c = "main" BY <2>1 DEF SoleInv, Sink
  <2>2. CASE c \in Bearers BY <2>2 DEF SoleInv, Sink
  <2> QED BY <2>1, <2>2
<1>7. BearerInv(n)'
  <2> SUFFICES ASSUME ~MainFirst(n), c \in Bearers PROVE BearerInv(n)'
      BY DEF BearerInv
  <2>1. ~TwiceFed(n) => OneBearer(n)
      BY DEF BearerInv
  <2>2. ~TwiceFed(n) => OneBearer(n)'
      BY <2>1 DEF OneBearer, Asking
  <2> QED BY <2>2 DEF BearerInv
<1>8. FdInv(n)'
    BY DEF FdInv
<1>9. UseInv(n)'
    BY DEF UseInv
<1> QED BY <1>4, <1>5, <1>6, <1>7, <1>8, <1>9, Local

LEMMA CreateInv ==
    ASSUME RelayInv, TypeOK', NEW n \in Node, NEW c \in Callers, CreateIngest(n, c)
    PROVE  RelayInv'
<1>1. /\ UNCHANGED <<deployment, begun, mpc, ginitiator_oneshot, input_fd, output_fd, inflight, taken, wrote>>
      /\ TypeOK /\ NodeInv(n) /\ Kept(n)
    BY AtNode DEF CreateIngest, Step, streamVars, RelayInv, TypeOK
<1>2. /\ cpc[n][c] = "create" /\ cpc'[n][c] = "back"
      /\ \A k \in Node : k # n => cpc'[k] = cpc[k]
      /\ \A d \in Callers : d # c => cpc'[n][d] = cpc[n][d]
    BY <1>1, Called DEF CreateIngest, CallPc
<1>3. ingests'[n] = ingests[n] + 1
    BY <1>1 DEF CreateIngest, TypeOK, Kept
<1>4. \A k \in Node : k # n => Same(k)
    BY <1>1, <1>2, <1>3 DEF CreateIngest, Same, TypeOK
<1>a. /\ c = "main" => /\ cpc[n]["main"] = "create" /\ cpc'[n]["main"] = "back"
                       /\ \A d \in Bearers : cpc'[n][d] = cpc[n][d]
      /\ c \in Bearers => cpc'[n]["main"] = cpc[n]["main"]
      /\ c = "main" \/ c \in Bearers
    BY <1>1, <1>2 DEF Kept
<1> USE <1>1, <1>2, <1>3, <1>a DEF NodeInv, CallInv, Kept
<1>5. CallInv(n)'
  <2>1. CASE c = "main" BY <2>1
  <2>2. CASE c \in Bearers BY <2>2
  <2> QED BY <2>1, <2>2
<1>6. SoleInv(n)'
  <2>1. CASE c = "main" BY <2>1 DEF SoleInv, FdInv, Sink
  <2>2. CASE c \in Bearers BY <2>2 DEF SoleInv, FdInv, Sink
  <2> QED BY <2>1, <2>2
<1>7. BearerInv(n)'
  <2> SUFFICES ASSUME ~MainFirst(n), c \in Bearers PROVE BearerInv(n)'
      BY DEF BearerInv
  <2>1. ~TwiceFed(n) => OneBearer(n)
      BY DEF BearerInv
  <2>2. ~TwiceFed(n) => OneBearer(n)'
      BY <2>1 DEF OneBearer, Asking, FdInv
  <2> QED BY <2>2 DEF BearerInv
<1>8. FdInv(n)'
    BY DEF FdInv
<1>9. UseInv(n)'
    BY DEF UseInv
<1> QED BY <1>4, <1>5, <1>6, <1>7, <1>8, <1>9, Local

LEMMA BearInv ==
    ASSUME RelayInv, TypeOK', NEW n \in Node, NEW c \in Callers, BearFirst(n, c)
    PROVE  RelayInv'
<1>1. /\ UNCHANGED <<deployment, begun, mpc, ginitiator_oneshot, input_fd, output_fd, ingests, taken, wrote>>
      /\ TypeOK /\ NodeInv(n) /\ Kept(n)
    BY AtNode DEF BearFirst, Step, streamVars, RelayInv, TypeOK
<1>2. /\ cpc[n][c] = "out" /\ cpc'[n][c] = "test"
      /\ \A k \in Node : k # n => cpc'[k] = cpc[k]
      /\ \A d \in Callers : d # c => cpc'[n][d] = cpc[n][d]
    BY <1>1, Called DEF BearFirst, CallPc
<1>3. c \in Bearers /\ inflight[n] > 0 /\ inflight'[n] = inflight[n] - 1
    BY <1>1 DEF BearFirst, TypeOK, Kept
<1>4. \A k \in Node : k # n => Same(k)
    BY <1>1, <1>2, <1>3 DEF BearFirst, Same, TypeOK
<1>a. /\ c = "main" => /\ cpc[n]["main"] = "out" /\ cpc'[n]["main"] = "test"
                       /\ \A d \in Bearers : cpc'[n][d] = cpc[n][d]
      /\ c \in Bearers => cpc'[n]["main"] = cpc[n]["main"]
      /\ c = "main" \/ c \in Bearers
    BY <1>1, <1>2 DEF Kept
<1> USE <1>1, <1>2, <1>3, <1>a DEF NodeInv, CallInv, Kept
<1>5. CallInv(n)'
  <2>1. CASE c = "main" BY <2>1
  <2>2. CASE c \in Bearers BY <2>2
  <2> QED BY <2>1, <2>2
<1>6. SoleInv(n)'
  <2>1. CASE c = "main" BY <2>1 DEF SoleInv
  <2>2. CASE c \in Bearers BY <2>2 DEF SoleInv
  <2> QED BY <2>1, <2>2
<1>7. BearerInv(n)'
  <2> SUFFICES ASSUME ~MainFirst(n), c \in Bearers PROVE BearerInv(n)'
      BY DEF BearerInv
  <2>1. ~TwiceFed(n) => OneBearer(n)
      BY DEF BearerInv
  <2>2. ~TwiceFed(n) => OneBearer(n)'
      BY <2>1 DEF OneBearer, Asking
  <2> QED BY <2>2 DEF BearerInv
<1>8. FdInv(n)'
    BY DEF FdInv
<1>9. UseInv(n)'
    BY DEF UseInv
<1> QED BY <1>4, <1>5, <1>6, <1>7, <1>8, <1>9, Local

\* Leg 0 is written only when the descriptor is the right one.
LEMMA EmitInv ==
    ASSUME RelayInv, TypeOK', NEW n \in Node, NEW c \in Callers, EmitFirst(n, c)
    PROVE  RelayInv'
<1>1. /\ UNCHANGED <<deployment, begun, mpc, ginitiator_oneshot, input_fd, output_fd, ingests, inflight, taken>>
      /\ TypeOK /\ NodeInv(n) /\ Kept(n) /\ c \in Bearers /\ deployment \in Deployments
    BY AtNode DEF EmitFirst, Step, streamVars, RelayInv, TypeOK
<1>2. /\ cpc[n][c] = "back" /\ cpc'[n][c] = "emitted"
      /\ \A k \in Node : k # n => cpc'[k] = cpc[k]
      /\ \A d \in Callers : d # c => cpc'[n][d] = cpc[n][d]
    BY <1>1, Called DEF EmitFirst, CallPc
<1>3. wrote'[n] = output_fd[n] /\ cpc'[n]["main"] = cpc[n]["main"] /\ Fed(n)
    BY <1>1, <1>2 DEF EmitFirst, TypeOK, Kept, NodeInv, CallInv
<1>4. \A k \in Node : k # n => Same(k)
    BY <1>1, <1>2, <1>3 DEF EmitFirst, Same, TypeOK
<1> USE <1>1, <1>2, <1>3 DEF NodeInv, CallInv, Kept
<1>5. CallInv(n)'
    OBVIOUS
<1>6. SoleInv(n)'
    BY DEF SoleInv
<1>7. BearerInv(n)'
  <2>1. ~MainFirst(n) /\ ~TwiceFed(n) => OneBearer(n)
      BY DEF BearerInv
  <2>2. ~MainFirst(n) /\ ~TwiceFed(n) => OneBearer(n)'
      BY <2>1 DEF OneBearer, Asking
  <2> QED BY <2>2 DEF BearerInv
<1>8. FdInv(n)'
    BY DEF FdInv
<1>9. UseInv(n)'
  <2>1. Sole(n) => output_fd[n] = Sink(n)
      BY DEF SoleInv, FdInv, Sink, Source, Sole, MainFirst
  <2>2. ~MainFirst(n) /\ Io[n] # "terminate" /\ ~TwiceFed(n) => output_fd[n] = Sink(n)
      BY DEF BearerInv, OneBearer
  <2>3. ~MainFirst(n) /\ Io[n] = "terminate" => Contested(n)
      BY Feeders DEF Fed
  <2>4. Contested(n) \/ TwiceFed(n) \/ output_fd[n] = Sink(n)
      BY <2>1, <2>2, <2>3, Feeders
  <2> QED BY <2>4 DEF UseInv
<1> QED BY <1>4, <1>5, <1>6, <1>7, <1>8, <1>9, Local

(***************************************************************************)
(* The leg 0 that an ingest thread sends: it was read from the right       *)
(* descriptor, and is on its way to one that has not had any, or will have *)
(* had two.                                                                *)
(***************************************************************************)
LEMMA IngestInv ==
    ASSUME RelayInv, TypeOK', NEW n \in Node, IngestFirst(n)
    PROVE  RelayInv'
<1> DEFINE p == Peer[n]
<1>1. /\ UNCHANGED <<deployment, mpc, cpc, ginitiator_oneshot, input_fd, output_fd, ingests, wrote>>
      /\ TypeOK /\ deployment \in Deployments /\ p \in Node /\ n \in Sends /\ Feeds(n, p)
    BY Deployed DEF IngestFirst, RelayInv, TypeOK, Feeds
<1>2. /\ begun[n] < ingests[n] /\ begun'[n] = begun[n] + 1
      /\ \A k \in Node : k # n => begun'[k] = begun[k]
      /\ taken'[n] = taken[n] \cup {input_fd[n]}
      /\ \A k \in Node : k # n => taken'[k] = taken[k]
      /\ inflight'[p] = inflight[p] + 1
      /\ \A k \in Node : k # p => inflight'[k] = inflight[k]
      /\ \A k \in Node : begun[k] \in Nat /\ ingests[k] \in Nat /\ inflight[k] \in Nat
    BY <1>1 DEF IngestFirst, TypeOK
<1>3. \A k \in Node : k # p => ~Feeds(n, k)
    BY DEF Feeds
<1>4. \A k \in Node :
        /\ Fed(k)' <=> Fed(k) \/ k = p
        /\ TwiceFed(k) => TwiceFed(k)'
        /\ k # p => (TwiceFed(k)' <=> TwiceFed(k))
    BY <1>1, <1>2, <1>3, Fixed DEF Fed, TwiceFed
<1>5. \A k \in Node : k = p /\ begun[n] > 0 => TwiceFed(k)'
    BY <1>1, <1>2, Fixed DEF TwiceFed
<1>6. \A k \in Node : k = p /\ begun[n] = 0 => ~Fed(k)
    BY <1>1, <1>2, Feeders DEF Fed
<1>7. \A k \in Node : NodeInv(k)
    BY DEF RelayInv
<1>8. ASSUME NEW k \in Node PROVE CallInv(k)'
    BY <1>1, <1>2, <1>4, <1>7, Fixed DEF NodeInv, CallInv
<1>9. ASSUME NEW k \in Node PROVE SoleInv(k)'
  <2>1. Sole(k) /\ k = p => cpc[k]["main"] = "back"
    <3> SUFFICES ASSUME Sole(p) PROVE cpc[p]["main"] = "back"
        OBVIOUS
    <3>1. CASE n = p
        BY <3>1, <1>2, <1>7 DEF NodeInv, SoleInv
    <3>2. CASE n # p
      <4>1. Io[n] = "initiate" /\ Feeds(p, n)
          BY <3>2, <1>1, Feeders
      <4>2. ~MainFirst(n) /\ ingests[n] > 0
          BY <4>1, <1>2 DEF MainFirst
      <4>3. Fed(n)
          BY <4>2, <1>7 DEF NodeInv, CallInv, BearerInv
      <4>4. begun[p] > 0
          BY <4>1, <4>3, <1>1, Feeders DEF Fed
      <4>5. ingests[p] > 0
          BY <4>4, <1>1, <1>2, <1>7 DEF NodeInv, CallInv
      <4> QED BY <4>5, <1>1, <1>7 DEF NodeInv, SoleInv
    <3> QED BY <3>1, <3>2
  <2> QED BY <2>1, <1>1, <1>4, <1>7, Fixed DEF NodeInv, SoleInv
<1>10. ASSUME NEW k \in Node PROVE BearerInv(k)'
  <2>1. ~MainFirst(k) /\ ~TwiceFed(k)' => OneBearer(k)
      BY <1>4, <1>7 DEF NodeInv, BearerInv
  <2>2. k = p /\ ~TwiceFed(k)' => inflight[k] = 0 /\ \A c \in Bearers : cpc[k][c] = "out"
    <3>1. k = p /\ ~TwiceFed(k)' => ~Fed(k)
        BY <1>2, <1>5, <1>6
    <3>2. CallInv(k) /\ inflight[k] \in Nat
        BY <1>2, <1>7 DEF NodeInv
    <3> QED BY <3>1, <3>2 DEF CallInv
  <2>3. ~MainFirst(k) /\ ~TwiceFed(k)' => OneBearer(k)'
      BY <2>1, <2>2, <1>1, <1>2, Fixed DEF OneBearer
  <2> QED BY <2>3, <1>1, <1>7, Fixed DEF NodeInv, BearerInv
<1>11. ASSUME NEW k \in Node PROVE FdInv(k)'
    BY <1>1, <1>7, Fixed DEF NodeInv, FdInv
<1>12. ASSUME NEW k \in Node PROVE UseInv(k)'
  <2>1. ~(Contested(n) /\ Io[n] = "terminate") => input_fd[n] = Source(n)
    <3>1. CASE Io[n] = "terminate" /\ ~Contested(n)
      <4>1. Sole(n)
          BY <3>1, <1>1, Feeders DEF MainFirst
      <4>2. cpc[n]["main"] = "back"
          BY <4>1, <1>2, <1>7 DEF NodeInv, SoleInv
      <4> QED BY <3>1, <4>2, <1>7 DEF NodeInv, CallInv, FdInv, Source
    <3>2. CASE Io[n] \in {"pipe", "initiate"}
        BY <3>2, <1>2, <1>7 DEF NodeInv, FdInv, Source
    <3> QED BY <3>1, <3>2, <1>1, Deployed
  <2>2. CASE k = n
    <3>1. UseInv(n) /\ wrote'[n] = wrote[n] /\ (TwiceFed(n) => TwiceFed(n)')
        BY <1>1, <1>4, <1>7 DEF NodeInv
    <3>2. taken'[n] = taken[n] \cup {input_fd[n]}
        BY <1>2
    <3> QED BY <2>1, <2>2, <3>1, <3>2, <1>1, Fixed DEF UseInv
  <2>3. CASE k # n
    <3>1. UseInv(k) /\ wrote'[k] = wrote[k] /\ taken'[k] = taken[k] /\ (TwiceFed(k) => TwiceFed(k)')
        BY <2>3, <1>1, <1>2, <1>4, <1>7 DEF NodeInv
    <3> QED BY <3>1, <1>1, Fixed DEF UseInv
  <2> QED BY <2>2, <2>3
<1> QED BY <1>8, <1>9, <1>10, <1>11, <1>12 DEF RelayInv, NodeInv

LEMMA RelayInvStep == RelayInv /\ [Next]_vars => RelayInv'
<1> SUFFICES ASSUME RelayInv, [Next]_vars PROVE RelayInv'
    OBVIOUS
<1>1. TypeOK'
    BY TypeStep DEF RelayInv
<1>2. ASSUME UNCHANGED <<deployment, mpc, cpc, ginitiator_oneshot, input_fd, output_fd, ingests, begun,
                         inflight, taken, wrote>>
      PROVE  RelayInv'
    BY <1>1, <1>2, Frame DEF Same, RelayInv
<1>3. ASSUME NEW n \in Node, Own(n) PROVE RelayInv'
  <2>1. CASE Listen(n) \/ Connect(n) \/ Terminate(n)
      BY <1>1, <2>1, EarlyMain
  <2>2. CASE MainRelay(n)
      BY <1>1, <2>2, MainRelayInv
  <2>3. CASE IngestFirst(n)
      BY <1>1, <2>3, IngestInv
  <2>4. CASE InputEnds(n) \/ EndArrives(n) \/ Exit(n)
      BY <1>2, <2>4 DEF InputEnds, EndArrives, Exit, streamVars
  <2> QED BY <1>3, <2>1, <2>2, <2>3, <2>4 DEF Own
<1>4. ASSUME NEW n \in Node, NEW c \in Callers,
             RelayCall(n, c) \/ BearFirst(n, c) \/ EmitFirst(n, c) \/ InitiateFails(n, c)
      PROVE  RelayInv'
  <2>1. CASE RelayCall(n, c)
      BY <1>1, <2>1, TestInv, MarkInv, InitiateInv, CreateInv DEF RelayCall
  <2>2. CASE BearFirst(n, c) \/ EmitFirst(n, c)
      BY <1>1, <2>2, BearInv, EmitInv
  <2>3. CASE InitiateFails(n, c)
      BY <1>2, <2>3 DEF InitiateFails, streamVars
  <2> QED BY <1>4, <2>1, <2>2, <2>3
<1>5. CASE UNCHANGED vars
    BY <1>2, <1>5 DEF vars
<1> QED BY <1>3, <1>4, <1>5 DEF Next

LEMMA RelayInvariance == Spec => []RelayInv
BY InitRelayInv, RelayInvStep, PTL DEF Spec

-----------------------------------------------------------------------------
(***************************************************************************)
(* The unlocked one-shot flag of initiate_relay() lets one ingest thread   *)
(* through in every process that is not contested and gets no second leg 0 *)
(* (viamillipede.c:47-55).                                                 *)
(***************************************************************************)
THEOREM OneIngestThread == Spec => []OneIngest
BY RelayInvariance, InvImplies, PTL

(***************************************************************************)
(* No ingest thread reads a descriptor that is not the user's stream, but  *)
(* in a contested terminator (viamillipede.c:53, tx.c:84).                 *)
(***************************************************************************)
THEOREM InputIsReal == Spec => []RealInput
BY RelayInvariance, InvImplies, PTL

(***************************************************************************)
(* No receiver thread writes leg 0 to a descriptor that is not where the   *)
(* user's stream goes, but in processes that are contested or get two leg  *)
(* 0's (rx.c:139-141, rx.c:171).                                           *)
(***************************************************************************)
THEOREM OutputIsReal == Spec => []RealOutput
BY RelayInvariance, InvImplies, PTL
=============================================================================
