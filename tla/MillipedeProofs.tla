--------------------------- MODULE MillipedeProofs ---------------------------
(***************************************************************************)
(* Proofs about the whole transfer.  The two processes were proved correct *)
(* apart: the transmitter implements Feed, and the receiver behind Feed    *)
(* implements Pipe.  Here they share their wires.  A step of a transmitter *)
(* thread is a step of Transmitter, and one of a receiver thread leaves    *)
(* the transmitter's invariant intact, as it only accepts, answers and     *)
(* takes what comes first on a wire; so Millipede implements Receiver, and *)
(* all that was proved of Receiver holds of it.                            *)
(***************************************************************************)
EXTENDS Millipede, TLAPS

T == INSTANCE TransmitterProofs

\* The receiver, behind the Feed that the transmitter implements.
R == INSTANCE ReceiverProofs WITH
        Aliens <- {}, lease <- T!Lease, fed <- ingest_leg_counter, ended <- (ipc = "complete")

ImplementsReceiver == R!Spec

-----------------------------------------------------------------------------
(* The actions are the same in both views *)

LEMMA SameTx ==
    /\ TxMain => T!TxMain
    /\ TxIngest => T!TxIngest
    /\ \A w \in Conn : (TxWorker(w) => T!TxWorker(w)) /\ (TxFails(w) => T!TxFails(w))
<1> USE DEF wireVars, T!wireVars, TxEnds, T!TxEnds, ProcessEnds, T!ProcessEnds, Framed, T!Framed,
            Cut, T!Cut
<1>1. TxMain => T!TxMain
    BY DEF TxMain, LaunchWorker, StartIngest, PollWorker, PollEnd,
           T!TxMain, T!LaunchWorker, T!StartIngest, T!PollWorker, T!PollEnd
<1>2. TxIngest => T!TxIngest
    BY DEF TxIngest, DispatchIdleWorker, ReadLeg, ReadEof, TxShutdown, SetSize, SetLeg, StartWorker,
           InputReady, AtLimit, Foot,
           T!TxIngest, T!DispatchIdleWorker, T!ReadLeg, T!ReadEof, T!TxShutdown, T!SetSize, T!SetLeg,
           T!StartWorker, T!InputReady, T!AtLimit, T!Foot
<1>3. ASSUME NEW w \in Conn, TxWorker(w) PROVE T!TxWorker(w)
    BY <1>3
       DEF TxWorker, StartNet, GoIdle, ResetSize, ResetLeg, Loop, TxPush, WritevDone, FinishPush, Writev,
           T!TxWorker, T!StartNet, T!GoIdle, T!ResetSize, T!ResetLeg, T!Loop, T!TxPush, T!WritevDone,
           T!FinishPush, T!Writev
<1>4. ASSUME NEW w \in Conn, TxFails(w) PROVE T!TxFails(w)
    BY <1>4 DEF TxFails, NetFails, WritevFails, txVars, T!TxFails, T!NetFails, T!WritevFails, T!txVars
<1> QED
    BY <1>1, <1>2, <1>3, <1>4

LEMMA SameRx == RxNext => R!RxNext
<1> USE DEF wireVars, R!wireVars, At, Goto, Dies, R!At, R!Goto, R!Dies
<1>1. RxPoll => R!RxPoll
    BY DEF RxPoll, R!RxPoll
<1>2. ASSUME NEW w \in RxWorkers, RxOutside(w) PROVE R!RxOutside(w)
    BY <1>2
       DEF RxOutside, PhraseFails, ReadFails, WriteFails, SpuriousWakeup,
           R!RxOutside, R!PhraseFails, R!ReadFails, R!WriteFails, R!SpuriousWakeup
<1>3. ASSUME NEW w \in RxWorkers,
             CondInit(w) \/ OuterLoop(w) \/ Accept(w) \/ PhraseOk(w) \/ InnerLoop(w)
      PROVE  R!RxThread(w)
    BY <1>3
       DEF CondInit, OuterLoop, Accept, Taken, PhraseOk, Answer, InnerLoop,
           R!RxThread, R!CondInit, R!OuterLoop, R!Accept, R!Taken, R!PhraseOk, R!Answer, R!InnerLoop
<1>4. ASSUME NEW w \in RxWorkers,
             ReadHeader(w) \/ HeaderEofStale(w) \/ HeaderEofStray(w) \/ HeaderEofHuge(w)
      PROVE  R!RxThread(w)
    BY <1>4
       DEF ReadHeader, HeaderEofStale, HeaderEofStray, HeaderEofHuge, AtEof, Cut, Stray, Foot,
           R!RxThread, R!ReadHeader, R!HeaderEofStale, R!HeaderEofStray, R!HeaderEofHuge, R!AtEof,
           R!Cut, R!Stray, R!Foot
<1>5. ASSUME NEW w \in RxWorkers,
             ReadPayload(w) \/ Relay(w) \/ Sequence(w) \/ Write(w) \/ MarkOpcode(w) \/ Advance(w)
                \/ Broadcast(w)
      PROVE  R!RxThread(w)
    BY <1>5
       DEF ReadPayload, Relay, Sequence, Write, MarkOpcode, Advance, Broadcast, Genuine,
           R!RxThread, R!ReadPayload, R!Relay, R!Sequence, R!Write, R!MarkOpcode, R!Advance,
           R!Broadcast, R!Genuine
<1> QED
    BY <1>1, <1>2, <1>3, <1>4, <1>5 DEF RxNext, RxThread, R!RxNext

-----------------------------------------------------------------------------
(* What each process sees of the other *)

\* A receiver accepts, answers, takes the first packet of a wire, or is not seen.
LEMMA RxSeen ==
    ASSUME RxTypeOK, RxNext, UNCHANGED txVars
    PROVE  \/ T!Peer
           \/ \E c \in Conn : T!TakesFirst(c)
           \/ UNCHANGED T!vars
<1> USE DEF txVars, T!txVars
<1>1. ASSUME NEW w \in RxWorkers, Accept(w) PROVE T!Peer
    BY <1>1 DEF Accept, Taken, T!Peer, T!Taken
<1>2. ASSUME NEW w \in RxWorkers, PhraseOk(w) PROVE T!Peer
    BY <1>2 DEF PhraseOk, Answer, T!Peer, T!Answer, RxTypeOK
<1>3. ASSUME NEW w \in RxWorkers, ReadHeader(w) PROVE \E c \in Conn : T!TakesFirst(c)
    BY <1>3 DEF ReadHeader, T!TakesFirst, RxTypeOK
<1>4. CASE UNCHANGED wireVars
    BY <1>4 DEF wireVars, T!vars, T!wireVars
<1> QED
    BY <1>1, <1>2, <1>3, <1>4
       DEF RxNext, RxPoll, RxThread, RxOutside, CondInit, OuterLoop, InnerLoop, HeaderEofStale,
           HeaderEofStray, HeaderEofHuge, ReadPayload, Relay, Sequence, Write, MarkOpcode, Advance,
           Broadcast, PhraseFails, ReadFails, WriteFails, SpuriousWakeup

LEMMA Views ==
    ASSUME RxTypeOK, [Next]_vars
    PROVE  \/ RxNext /\ UNCHANGED txVars
           \/ T!TxNext /\ UNCHANGED rxVars
           \/ UNCHANGED vars
BY SameTx DEF Next, TxNext, T!TxNext

LEMMA TxSees ==
    ASSUME RxTypeOK, [Next]_vars
    PROVE  [T!Next]_T!vars \/ \E c \in Conn : T!TakesFirst(c)
<1>1. CASE UNCHANGED vars
    BY <1>1 DEF vars, wireVars, txVars, T!vars, T!wireVars, T!txVars
<1> QED
    BY <1>1, Views, RxSeen DEF T!Next

-----------------------------------------------------------------------------
(* Types and the buffers, whenever the input comes *)

LEMMA SameTypes ==
    /\ TypeOK <=> T!TypeOK /\ RxTypeOK
    /\ TypeOK => R!TypeOK
    /\ R!WireTypeOK /\ R!RxTypeOK <=> WireTypeOK /\ RxTypeOK
<1>1. R!WireTypeOK /\ R!RxTypeOK <=> WireTypeOK /\ RxTypeOK
    BY DEF WireTypeOK, RxTypeOK, R!WireTypeOK, R!RxTypeOK, Packet, R!Packet, ConnState, R!ConnState,
           TxEnd, R!TxEnd, RxPc, R!RxPc, RxEnd, R!RxEnd, Genuine, R!Genuine, Foot, R!Foot, Huge, R!Huge
<1>2. TypeOK <=> T!TypeOK /\ RxTypeOK
    BY DEF TypeOK, T!TypeOK, WireTypeOK, T!WireTypeOK, TxTypeOK, T!TxTypeOK, Packet, T!Packet,
           ConnState, T!ConnState, TxEnd, T!TxEnd, Genuine, T!Genuine, Foot, T!Foot, Huge, T!Huge,
           Letter, T!Letter, WorkerPc, T!WorkerPc, IngestPc, T!IngestPc, Header, T!Header
<1>3. TypeOK => R!FeedTypeOK
  <2> SUFFICES ASSUME TypeOK PROVE R!FeedTypeOK
      OBVIOUS
  <2>1. \A w \in Conn : T!Framed(w) \in R!Packet
      BY <1>2, T!FramedType, ConnAssumption, TxAssumption
         DEF T!Packet, R!Packet, T!Genuine, R!Genuine, T!Foot, R!Foot, T!Huge, R!Huge
  <2>2. T!Blank \in R!Packet
      BY DEF T!Blank, R!Packet, R!Genuine, R!Foot, R!Huge
  <2>3. T!Lease \in [Conn -> R!Packet]
      BY <2>1, <2>2 DEF T!Lease
  <2> QED
      BY <2>3 DEF R!FeedTypeOK, TypeOK, TxTypeOK
<1> QED
    BY <1>1, <1>2, <1>3 DEF TypeOK, R!TypeOK

LEMMA SameTypesNext ==
    /\ TypeOK' <=> T!TypeOK' /\ RxTypeOK'
    /\ R!WireTypeOK' /\ R!RxTypeOK' <=> WireTypeOK' /\ RxTypeOK'
BY SameTypes, PTL

LEMMA TypeStep == TypeOK /\ [Next]_vars => TypeOK'
<1> SUFFICES ASSUME TypeOK, [Next]_vars PROVE TypeOK'
    OBVIOUS
<1>1. RxTypeOK /\ T!TypeOK /\ R!TypeOK
    BY SameTypes
<1>2. T!TypeOK'
    BY <1>1, TxSees, T!TypeStep, T!TakenType, ConnAssumption, TxAssumption
<1>3. RxTypeOK'
  <2>1. CASE RxNext
    <3>1. R!WireTypeOK' /\ R!RxTypeOK'
        BY <1>1, <2>1, SameRx, R!RxTypeStep, ConnAssumption, TxAssumption, RxAssumption
    <3> QED
        BY <3>1, SameTypesNext
  <2>2. CASE UNCHANGED rxVars
      BY <1>1, <2>2 DEF rxVars, RxTypeOK
  <2> QED
      BY <2>1, <2>2, <1>1, Views DEF vars
<1> QED
    BY <1>2, <1>3, SameTypesNext

LEMMA InitViews == Init => T!Init
BY DEF Init, WireInit, TxInit, T!Init, T!WireInit, T!TxInit

LEMMA InitTypeOK == Init => TypeOK
<1> SUFFICES ASSUME Init PROVE TypeOK
    OBVIOUS
<1>1. T!TypeOK
    BY InitViews, T!InitTypeOK, ConnAssumption, TxAssumption
<1>2. RxTypeOK
  <2>1. PICK c \in Conn : sock = [w \in RxWorkers |-> c]
      BY DEF Init, RxInit
  <2>2. /\ rpc = [w \in RxWorkers |-> "launched"] /\ pkt = [w \in RxWorkers |-> Blank]
        /\ restartme = [w \in RxWorkers |-> FALSE] /\ deaf = {} /\ next_leg = 0
        /\ done_mbox = FALSE /\ output_fd = 0 /\ out = <<>> /\ rxproc = "run"
      BY DEF Init, RxInit
  <2>3. Blank \in Packet
      BY DEF Blank, Packet, Genuine, Foot, Huge
  <2>4. sock \in [RxWorkers -> Conn]
      BY <2>1
  <2>5. /\ pkt \in [RxWorkers -> Packet] /\ rpc \in [RxWorkers -> RxPc]
        /\ restartme \in [RxWorkers -> BOOLEAN] /\ out \in Seq(Nat)
      BY <2>2, <2>3 DEF RxPc
  <2> QED
      BY <2>2, <2>4, <2>5 DEF RxTypeOK
<1> QED
    BY <1>1, <1>2, SameTypes

(***************************************************************************)
(* Both processes keep their types while they share wires.                 *)
(***************************************************************************)
THEOREM TypeCorrect == Spec => []TypeOK
BY InitTypeOK, TypeStep, PTL DEF Spec

(***************************************************************************)
(* A worker's buffer has one user at a time (tx.c:84), whenever the input  *)
(* comes and whatever a receiver does.                                     *)
(***************************************************************************)
THEOREM BufferHasOneUser == Spec => []T!BufferLease
<1>1. Init => T!LeaseInv
    BY InitViews, T!InitLeaseInv, ConnAssumption, TxAssumption
<1>2. TypeOK /\ T!LeaseInv /\ [Next]_vars => T!LeaseInv'
    BY TxSees, T!LeaseInvStep, T!TakenLease, ConnAssumption, TxAssumption DEF TypeOK
<1>3. T!LeaseInv => T!BufferLease
    BY DEF T!LeaseInv, T!BufferLease, T!Letters, T!Pushing, T!TypeOK, T!TxTypeOK
<1> QED
    BY <1>1, <1>2, <1>3, TypeCorrect, PTL DEF Spec

-----------------------------------------------------------------------------
(* The whole transfer, with input that comes after the workers are up *)

LEMMA StreamInvariance ==
    ASSUME LateInput
    PROVE  Spec => []T!StreamInv
<1>1. Init => T!StreamInv
    BY InitViews, T!InitStreamInv, ConnAssumption, TxAssumption
<1>2. TypeOK /\ T!StreamInv /\ [Next]_vars => T!StreamInv'
    BY TxSees, T!StreamInvStep, T!TakenStream, ConnAssumption, TxAssumption DEF TypeOK
<1> QED
    BY <1>1, <1>2, TypeCorrect, PTL DEF Spec

\* A step of the transmitter is one of the Feed that Receiver is behind.
LEMMA FeedSeen ==
    ASSUME LateInput, T!StreamInv, T!TxNext
    PROVE  [R!FeedNext]_<<R!wireVars, R!feedVars>>
<1>1. [T!F!FeedNext]_<<T!F!wireVars, T!F!feedVars>>
    BY T!TxFeeds, ConnAssumption, TxAssumption
<1>2. <<T!F!wireVars, T!F!feedVars>> = <<R!wireVars, R!feedVars>>
    BY DEF T!F!wireVars, T!F!feedVars, R!wireVars, R!feedVars
<1>3. T!F!FeedNext => R!FeedNext
    BY DEF T!F!FeedNext, T!F!Connect, T!F!LeaseTo, T!F!LeaseData, T!F!LeaseEnd, T!F!Push, T!F!Hangup,
           T!F!ProcessEnds, T!F!Writev, T!F!FeedMore, T!F!EndOfMillipede, T!F!Blank, T!F!Cut, T!F!TxEnd,
           T!F!Foot, T!F!wireVars, T!F!feedVars,
           R!FeedNext, R!Connect, R!LeaseTo, R!LeaseData, R!LeaseEnd, R!Push, R!Hangup,
           R!ProcessEnds, R!Writev, R!FeedMore, R!EndOfMillipede, R!Blank, R!Cut, R!TxEnd,
           R!Foot, R!wireVars, R!feedVars
<1> QED
    BY <1>1, <1>2, <1>3 DEF T!F!wireVars, T!F!feedVars, R!wireVars, R!feedVars

LEMMA ReceiverStep ==
    ASSUME LateInput, TypeOK, T!StreamInv, [Next]_vars
    PROVE  [R!Next]_R!vars
<1>1. UNCHANGED txVars => UNCHANGED R!feedVars
    BY DEF txVars, R!feedVars, T!Lease, T!Leased, T!Framed
<1>2. UNCHANGED rxVars => UNCHANGED R!rxVars
    BY DEF rxVars, R!rxVars
<1>3. CASE RxNext /\ UNCHANGED txVars
    BY <1>1, <1>3, SameRx DEF R!Next
<1>4. CASE T!TxNext /\ UNCHANGED rxVars
    BY <1>2, <1>4, FeedSeen DEF R!Next, R!vars, R!wireVars, R!feedVars
<1>5. CASE UNCHANGED vars
    BY <1>1, <1>2, <1>5 DEF vars, wireVars, R!vars, R!wireVars
<1> QED
    BY <1>3, <1>4, <1>5, Views DEF TypeOK

(***************************************************************************)
(* The two processes together implement the receiver behind Feed: the      *)
(* transmitter of tx.c may stand wherever Feed does.                       *)
(***************************************************************************)
THEOREM BehindFeed ==
    ASSUME LateInput
    PROVE  Spec => ImplementsReceiver
<1>1. Init => R!Init
  <2> SUFFICES ASSUME Init PROVE R!Init
      OBVIOUS
  <2>1. R!FeedInit
      BY DEF Init, TxInit, R!FeedInit, R!Blank, T!Lease, T!Leased, T!Blank
  <2>2. R!WireInit /\ R!RxInit
      BY DEF Init, WireInit, RxInit, R!WireInit, R!RxInit, R!Blank, Blank
  <2> QED
      BY <2>1, <2>2 DEF R!Init
<1>2. TypeOK /\ T!StreamInv /\ [Next]_vars => [R!Next]_R!vars
    BY ReceiverStep
<1> QED
    BY <1>1, <1>2, TypeCorrect, StreamInvariance, PTL DEF Spec, ImplementsReceiver, R!Spec

(***************************************************************************)
(* "Order is guaranteed and the pipe is transparent" (README.md:5): what   *)
(* the receiver puts out is the transmitter's input, in order, each piece  *)
(* once, and exit(0) of the receiver says that it is complete, for any     *)
(* number of workers, threads and legs and wherever either process ends.   *)
(***************************************************************************)
THEOREM Refinement ==
    ASSUME LateInput
    PROVE  Spec => ImplementsPipe
<1>1. R!Spec => R!ImplementsPipe
    BY R!Refinement, ConnAssumption, TxAssumption, RxAssumption
<1>2. R!ImplementsPipe => ImplementsPipe
    BY DEF R!ImplementsPipe, ImplementsPipe, R!P!Spec, P!Spec, R!P!Init, P!Init, R!P!Next, P!Next,
           R!P!Take, P!Take, R!P!End, P!End, R!P!Emit, P!Emit, R!P!Finish, P!Finish, R!DataLegs
<1> QED
    BY <1>1, <1>2, BehindFeed, PTL DEF ImplementsReceiver

(***************************************************************************)
(* The two processes cannot lock each other up over the shared wires.  As  *)
(* long as the transmitter has not exited early, the leg that rxworker()   *)
(* wants next is in the buffer of a transmitter worker that is to push it, *)
(* or with a receiver thread, or on its connection, and this thread can go *)
(* on or is about to be woken (rx.c:142-147); when the end leg is counted, *)
(* done_mbox is set.                                                       *)
(***************************************************************************)
THEOREM NeverLocksUp ==
    ASSUME LateInput
    PROVE  Spec => []R!NoLockup
<1>1. R!Spec => []R!NoLockup
    BY R!NeverLocksUp, ConnAssumption, TxAssumption, RxAssumption
<1> QED
    BY <1>1, BehindFeed, PTL DEF ImplementsReceiver
=============================================================================
