------------------------- MODULE TransmitterProofs -------------------------
(***************************************************************************)
(* Proofs about Transmitter, for any number of workers and legs, any leg   *)
(* limit, and input that may come before the workers are up.               *)
(***************************************************************************)
EXTENDS TransmitterInv, TLAPS

-----------------------------------------------------------------------------
(* Types *)

LEMMA FramedType == TypeOK => \A w \in Conn : Framed(w) \in Packet
BY DEF TypeOK, TxTypeOK, Framed, Packet, Header, Genuine, Foot, Huge

LEMMA TxEndsType ==
    ASSUME TypeOK, NEW s \in TxEnd, TxEnds(s)
    PROVE  WireTypeOK'
<1>1. PICK K \in SUBSET Conn :
         wire' = [c \in Conn |-> IF c \in K THEN Append(wire[c], Cut([w \in Conn |-> Framed(w)][c]))
                                 ELSE wire[c]]
    BY DEF TxEnds, ProcessEnds
<1>2. \A c \in Conn : Cut([w \in Conn |-> Framed(w)][c]) \in Packet
    BY FramedType DEF Cut, Packet
<1>3. \A c \in Conn : Append(wire[c], Cut([w \in Conn |-> Framed(w)][c])) \in Seq(Packet)
  <2> TAKE c \in Conn
  <2>1. wire[c] \in Seq(Packet)
      BY DEF TypeOK, WireTypeOK
  <2> QED
      BY <1>2, <2>1
<1>4. wire' \in [Conn -> Seq(Packet)]
    BY <1>1, <1>3 DEF TypeOK, WireTypeOK
<1> QED
    BY <1>4 DEF TxEnds, ProcessEnds, TypeOK, WireTypeOK, TxEnd

LEMMA InitTypeOK == Init => TypeOK
<1> SUFFICES ASSUME Init PROVE TypeOK
    OBVIOUS
<1>1. WireTypeOK
    BY DEF Init, WireInit, WireTypeOK, ConnState
<1>2. hdr \in [Conn -> Header]
    BY DEF Init, TxInit, Header
<1>3. 0 \in Conn /\ 0 \in 0..worker_count
    BY TxAssumption
<1> QED
    BY <1>1, <1>2, <1>3 DEF Init, TxInit, TypeOK, TxTypeOK, Letter, WorkerPc, IngestPc

LEMMA MainTypeStep ==
    ASSUME TypeOK, TxMain
    PROVE  TypeOK'
<1> USE DEF TypeOK, WireTypeOK, TxTypeOK
<1>1. CASE LaunchWorker
  <2>1. cursor \in Conn /\ cursor + 1 \in 0..worker_count
      BY <1>1, TxAssumption DEF LaunchWorker
  <2> QED
      BY <1>1, <2>1 DEF LaunchWorker, wireVars, Letter, WorkerPc
<1>2. CASE StartIngest
    BY <1>2, TxAssumption DEF StartIngest, wireVars, IngestPc
<1>3. CASE PollWorker
  <2>1. cursor' \in 0..worker_count
      BY <1>3, TxAssumption DEF PollWorker
  <2> QED
      BY <1>3, <2>1 DEF PollWorker, wireVars
<1>4. CASE PollEnd
  <2>1. WireTypeOK'
    <3>1. CASE done
        BY <1>4, <3>1, TxEndsType DEF PollEnd, TxEnd
    <3>2. CASE ~done
        BY <1>4, <3>2 DEF PollEnd, wireVars
    <3> QED
        BY <3>1, <3>2
  <2>2. cursor' \in 0..worker_count
      BY <1>4, TxAssumption DEF PollEnd
  <2> QED
      BY <1>4, <2>1, <2>2 DEF PollEnd
<1> QED
    BY <1>1, <1>2, <1>3, <1>4 DEF TxMain

LEMMA IngestTypeStep ==
    ASSUME TypeOK, TxIngest
    PROVE  TypeOK'
<1> USE DEF TypeOK, WireTypeOK, TxTypeOK
<1>1. CASE DispatchIdleWorker
    BY <1>1 DEF DispatchIdleWorker, wireVars, IngestPc
<1>2. CASE ReadLeg
    BY <1>2 DEF ReadLeg, wireVars, IngestPc
<1>3. CASE ReadEof \/ TxShutdown
    BY <1>3 DEF ReadEof, TxShutdown, wireVars, IngestPc
<1>4. CASE SetSize
  <2>1. hdr' \in [Conn -> Header]
      BY <1>4 DEF SetSize, Header
  <2> QED
      BY <1>4, <2>1 DEF SetSize, wireVars, IngestPc
<1>5. CASE SetLeg
  <2>1. hdr' \in [Conn -> Header]
      BY <1>5 DEF SetLeg, Header, Genuine
  <2> QED
      BY <1>5, <2>1 DEF SetLeg, wireVars, IngestPc
<1>6. CASE StartWorker
    BY <1>6 DEF StartWorker, wireVars, IngestPc, Letter
<1> QED
    BY <1>1, <1>2, <1>3, <1>4, <1>5, <1>6 DEF TxIngest

LEMMA WorkerTypeStep ==
    ASSUME TypeOK, NEW w \in Conn, TxWorker(w)
    PROVE  TypeOK'
<1> USE DEF TypeOK, WireTypeOK, TxTypeOK
<1>1. CASE StartNet(w)
    BY <1>1 DEF StartNet, Letter, WorkerPc, ConnState
<1>2. CASE GoIdle(w)
    BY <1>2 DEF GoIdle, Letter, WorkerPc, wireVars
<1>3. CASE ResetSize(w) \/ ResetLeg(w)
  <2>1. hdr' \in [Conn -> Header]
    <3>1. CASE ResetSize(w)
        BY <3>1 DEF ResetSize, Header
    <3>2. CASE ResetLeg(w)
        BY <3>2 DEF ResetLeg, Header
    <3> QED
        BY <1>3, <3>1, <3>2
  <2> QED
      BY <1>3, <2>1 DEF ResetSize, ResetLeg, WorkerPc, wireVars
<1>4. CASE Loop(w)
    BY <1>4 DEF Loop, WorkerPc, wireVars
<1>5. CASE TxPush(w)
    BY <1>5 DEF TxPush, Letter, WorkerPc, wireVars
<1>6. CASE WritevDone(w)
  <2>1. Append(wire[w], Framed(w)) \in Seq(Packet)
      BY FramedType
  <2>2. wire' \in [Conn -> Seq(Packet)]
      BY <1>6, <2>1 DEF WritevDone, Writev
  <2> QED
      BY <1>6, <2>2 DEF WritevDone, WorkerPc
<1>7. CASE FinishPush(w)
  <2>1. hdr' \in [Conn -> Header]
      BY <1>7 DEF FinishPush, Header
  <2> QED
      BY <1>7, <2>1 DEF FinishPush, Letter, WorkerPc, wireVars
<1> QED
    BY <1>1, <1>2, <1>3, <1>4, <1>5, <1>6, <1>7 DEF TxWorker

LEMMA TypeStep == TypeOK /\ [Next]_vars => TypeOK'
<1> SUFFICES ASSUME TypeOK, [Next]_vars PROVE TypeOK'
    OBVIOUS
<1>1. ASSUME NEW w \in Conn, TxFails(w) PROVE TypeOK'
    BY <1>1, TxEndsType DEF TxFails, NetFails, WritevFails, TxEnd, txVars, TypeOK, TxTypeOK
<1>2. CASE Peer
    BY <1>2 DEF Peer, Taken, Answer, ConnState, txVars, TypeOK, WireTypeOK, TxTypeOK
<1>3. CASE UNCHANGED vars
    BY <1>3 DEF vars, wireVars, txVars, TypeOK, WireTypeOK, TxTypeOK
<1> QED
    BY <1>1, <1>2, <1>3, MainTypeStep, IngestTypeStep, WorkerTypeStep DEF Next, TxNext

(***************************************************************************)
(* Every variable of the transmitter keeps its type; in particular only    *)
(* the letters E, L, c, i, d, P are ever seen, and tx_poll() and           *)
(* txlaunchworkers() stay within the workers there are.                    *)
(***************************************************************************)
THEOREM TypeCorrect == Spec => []TypeOK
BY InitTypeOK, TypeStep, PTL DEF Spec

-----------------------------------------------------------------------------
(* The lease on a buffer *)

LEMMA InitLeaseInv == Init => LeaseInv
BY InitTypeOK DEF Init, TxInit, LeaseInv, Launching, Letters, Filling

LEMMA LeaseInvStep == LeaseInv /\ [Next]_vars => LeaseInv'
<1> SUFFICES ASSUME LeaseInv, [Next]_vars PROVE LeaseInv'
    OBVIOUS
<1>1. TypeOK'
    BY TypeStep DEF LeaseInv
<1> USE DEF LeaseInv, TypeOK, TxTypeOK
<1>2. CASE LaunchWorker
  <2>1. cursor \in Conn /\ worker_count \in Nat /\ Conn = 0..(worker_count - 1)
      BY <1>2, TxAssumption DEF LaunchWorker
  <2>2. Launching' /\ ~Filling'
      BY <1>2, <2>1 DEF LaunchWorker, Launching, Filling
  <2>3. \A w \in Conn : Letters(w)'
      BY <1>2, <2>1 DEF LaunchWorker, Letters
  <2> QED
      BY <1>1, <2>2, <2>3
<1>3. CASE StartIngest
    BY <1>1, <1>3 DEF StartIngest, Launching, Letters, Filling
<1>4. CASE PollWorker \/ PollEnd
    BY <1>1, <1>4 DEF PollWorker, PollEnd, Launching, Letters, Filling
<1>5. CASE DispatchIdleWorker
    BY <1>1, <1>5 DEF DispatchIdleWorker, Launching, Letters, Filling
<1>6. CASE ReadLeg \/ ReadEof \/ TxShutdown
    BY <1>1, <1>6 DEF ReadLeg, ReadEof, TxShutdown, Launching, Letters, Filling
<1>7. CASE SetSize \/ SetLeg
    BY <1>1, <1>7 DEF SetSize, SetLeg, Launching, Letters, Filling
<1>8. CASE StartWorker
    BY <1>1, <1>8 DEF StartWorker, Launching, Letters, Filling
<1>9. ASSUME NEW w \in Conn, TxWorker(w) PROVE LeaseInv'
  <2>1. mpc' = mpc /\ ipc' = ipc /\ chosen' = chosen /\ done' = done /\ cursor' = cursor
        /\ ingest_leg_counter' = ingest_leg_counter
      BY <1>9 DEF TxWorker, StartNet, GoIdle, ResetSize, ResetLeg, Loop, TxPush, WritevDone,
         FinishPush
  <2>2. /\ \A v \in Conn : v # w => wpc'[v] = wpc[v] /\ state'[v] = state[v]
        /\ wpc[w] # "none"
        /\ state[w] = "i" => state'[w] = "i"
        /\ Letters(w)'
    <3>1. CASE StartNet(w) \/ GoIdle(w)
        BY <3>1 DEF StartNet, GoIdle, Letters
    <3>2. CASE ResetSize(w) \/ ResetLeg(w) \/ WritevDone(w)
        BY <3>2 DEF ResetSize, ResetLeg, WritevDone, Letters
    <3>3. CASE Loop(w)
        BY <3>3 DEF Loop, Letters
    <3>4. CASE TxPush(w) \/ FinishPush(w)
        BY <3>4 DEF TxPush, FinishPush, Letters
    <3> QED
        BY <1>9, <3>1, <3>2, <3>3, <3>4 DEF TxWorker
  <2>3. Launching'
      BY <2>1, <2>2 DEF Launching
  <2>4. \A v \in Conn : Letters(v)'
      BY <2>2 DEF Letters
  <2>5. Filling' => state'[chosen'] = "i"
      BY <2>1, <2>2 DEF Filling
  <2> QED
      BY <1>1, <2>3, <2>4, <2>5
<1>10. CASE UNCHANGED txVars
    BY <1>1, <1>10 DEF txVars, Launching, Letters, Filling
<1> QED
    BY <1>2, <1>3, <1>4, <1>5, <1>6, <1>7, <1>8, <1>9, <1>10
    DEF Next, TxNext, TxMain, TxIngest, TxFails, NetFails, WritevFails, Peer, vars

(***************************************************************************)
(* While txingest() fills the buffer and the header of a worker, txpush()  *)
(* of that worker does not run: the state letter is enough of a lock.      *)
(***************************************************************************)
THEOREM BufferHasOneUser == Spec => []BufferLease
<1>1. LeaseInv => BufferLease
    BY DEF LeaseInv, BufferLease, Letters, Pushing, TypeOK, TxTypeOK
<1> QED
    BY <1>1, InitLeaseInv, LeaseInvStep, PTL DEF Spec

-----------------------------------------------------------------------------
(* The leg limit *)

LEMMA InitLimitInv == Init => LimitInv
BY InitTypeOK, TxAssumption DEF Init, TxInit, LimitInv

LEMMA LimitInvStep == LimitInv /\ [Next]_vars => LimitInv'
<1> SUFFICES ASSUME LimitInv, [Next]_vars PROVE LimitInv'
    OBVIOUS
<1>1. TypeOK'
    BY TypeStep DEF LimitInv
<1> USE TxAssumption DEF LimitInv, TypeOK, TxTypeOK
<1>2. CASE UNCHANGED <<ipc, mpc, done, ingest_leg_counter>>
    BY <1>1, <1>2
<1>3. CASE LaunchWorker \/ PollWorker \/ PollEnd
    BY <1>2, <1>3 DEF LaunchWorker, PollWorker, PollEnd
<1>4. CASE StartIngest
    BY <1>1, <1>4 DEF StartIngest
<1>5. CASE DispatchIdleWorker
    BY <1>1, <1>5 DEF DispatchIdleWorker
<1>6. CASE ReadLeg
    BY <1>1, <1>6 DEF ReadLeg, AtLimit
<1>7. CASE ReadEof \/ TxShutdown
    BY <1>1, <1>7 DEF ReadEof, TxShutdown
<1>8. CASE SetSize \/ SetLeg
    BY <1>1, <1>8 DEF SetSize, SetLeg
<1>9. CASE StartWorker
    BY <1>1, <1>9 DEF StartWorker
<1>10. ASSUME NEW w \in Conn, TxWorker(w) PROVE LimitInv'
    BY <1>2, <1>10 DEF TxWorker, StartNet, GoIdle, ResetSize, ResetLeg, Loop, TxPush, WritevDone,
       FinishPush
<1>11. CASE UNCHANGED txVars
    BY <1>2, <1>11 DEF txVars
<1> QED
    BY <1>3, <1>4, <1>5, <1>6, <1>7, <1>8, <1>9, <1>10, <1>11
    DEF Next, TxNext, TxMain, TxIngest, TxFails, NetFails, WritevFails, Peer, vars

(***************************************************************************)
(* txingest() never hands out more than gleg_limit data legs.              *)
(***************************************************************************)
THEOREM LimitIsHeld == Spec => []LimitHeld
<1>1. LimitInv => LimitHeld
    BY TxAssumption DEF LimitInv, LimitHeld, TypeOK, TxTypeOK
<1> QED
    BY <1>1, InitLimitInv, LimitInvStep, PTL DEF Spec

-----------------------------------------------------------------------------
(* The stream, for a source that sends nothing before all workers are up *)

LEMMA AllUpStep ==
    ASSUME LateInput, StreamInv, [Next]_vars
    PROVE  AllUp'
<1> USE DEF StreamInv, LeaseInv, TypeOK, TxTypeOK
<1>1. CASE LaunchWorker
    BY <1>1 DEF LaunchWorker, Launching, AllUp
<1>2. CASE StartIngest \/ PollWorker \/ PollEnd \/ DispatchIdleWorker
    BY <1>2 DEF StartIngest, PollWorker, PollEnd, DispatchIdleWorker, AllUp
<1>3. CASE ReadLeg \/ ReadEof
    BY <1>3 DEF ReadLeg, ReadEof, InputReady, WorkerPc, AllUp
<1>4. CASE TxShutdown \/ SetSize \/ SetLeg \/ StartWorker
    BY <1>4 DEF TxShutdown, SetSize, SetLeg, StartWorker, AllUp
<1>5. ASSUME NEW w \in Conn, StartNet(w) \/ GoIdle(w) \/ ResetSize(w) \/ ResetLeg(w) PROVE AllUp'
    BY <1>5 DEF StartNet, GoIdle, ResetSize, ResetLeg, AllUp
<1>6. ASSUME NEW w \in Conn, Loop(w) \/ TxPush(w) \/ WritevDone(w) \/ FinishPush(w) PROVE AllUp'
    BY <1>6 DEF Loop, TxPush, WritevDone, FinishPush, AllUp
<1>7. CASE UNCHANGED txVars
    BY <1>7 DEF txVars, AllUp
<1> QED
    BY <1>1, <1>2, <1>3, <1>4, <1>5, <1>6, <1>7
    DEF Next, TxNext, TxMain, TxIngest, TxWorker, TxFails, NetFails, WritevFails, Peer, vars

LEMMA FilledStep ==
    ASSUME LateInput, StreamInv, [Next]_vars
    PROVE  Filled'
<1> USE DEF StreamInv, LeaseInv, LimitInv, TypeOK, TxTypeOK
<1>1. CASE LaunchWorker \/ StartIngest \/ PollWorker \/ PollEnd \/ DispatchIdleWorker
    BY <1>1 DEF LaunchWorker, StartIngest, PollWorker, PollEnd, DispatchIdleWorker, Filled
<1>2. CASE ReadLeg \/ ReadEof \/ TxShutdown
    BY <1>2 DEF ReadLeg, ReadEof, TxShutdown, Filled
<1>3. CASE SetSize
    BY <1>3 DEF SetSize, Filled, Header
<1>4. CASE SetLeg
    BY <1>4 DEF SetLeg, Filled, Header
<1>5. CASE StartWorker
    BY <1>5 DEF StartWorker, Filled
<1>6. ASSUME NEW w \in Conn, ResetSize(w) \/ ResetLeg(w) PROVE Filled'
    BY <1>6 DEF ResetSize, ResetLeg, AllUp, Filled
<1>7. ASSUME NEW w \in Conn, FinishPush(w) PROVE Filled'
  <2>1. Filling => w # chosen
      BY <1>7 DEF FinishPush, Letters
  <2> QED
      BY <1>7, <2>1 DEF FinishPush, Filled, Filling
<1>8. ASSUME NEW w \in Conn, StartNet(w) \/ GoIdle(w) \/ Loop(w) \/ TxPush(w) \/ WritevDone(w)
      PROVE  Filled'
    BY <1>8 DEF StartNet, GoIdle, Loop, TxPush, WritevDone, Filled
<1>9. CASE UNCHANGED txVars
    BY <1>9 DEF txVars, Filled
<1> QED
    BY <1>1, <1>2, <1>3, <1>4, <1>5, <1>6, <1>7, <1>8, <1>9
    DEF Next, TxNext, TxMain, TxIngest, TxWorker, TxFails, NetFails, WritevFails, Peer, vars

LEMMA ConnectedStep ==
    ASSUME StreamInv, [Next]_vars
    PROVE  Connected'
<1> USE DEF StreamInv, LeaseInv, TypeOK, WireTypeOK, TxTypeOK
<1>1. CASE LaunchWorker
  <2>1. cursor \in Conn /\ wpc[cursor] = "none"
      BY <1>1, TxAssumption DEF LaunchWorker, Launching
  <2> QED
      BY <1>1, <2>1 DEF LaunchWorker, Connected, wireVars
<1>2. CASE UNCHANGED <<wpc, conn>>
    BY <1>2 DEF Connected
<1>3. CASE StartIngest \/ PollWorker \/ PollEnd \/ TxIngest
    BY <1>2, <1>3 DEF StartIngest, PollWorker, PollEnd, TxEnds, ProcessEnds, TxIngest,
       DispatchIdleWorker, ReadLeg, ReadEof, TxShutdown, SetSize, SetLeg, StartWorker, wireVars
<1>4. ASSUME NEW w \in Conn, TxWorker(w) PROVE Connected'
  <2>1. CASE StartNet(w) \/ GoIdle(w)
      BY <2>1 DEF StartNet, GoIdle, Connected, wireVars
  <2>2. CASE ResetSize(w) \/ ResetLeg(w) \/ Loop(w) \/ TxPush(w) \/ FinishPush(w)
      BY <2>2 DEF ResetSize, ResetLeg, Loop, TxPush, FinishPush, Connected, wireVars
  <2>3. CASE WritevDone(w)
      BY <2>3 DEF WritevDone, Connected
  <2> QED
      BY <1>4, <2>1, <2>2, <2>3 DEF TxWorker
<1>5. ASSUME NEW w \in Conn, TxFails(w) PROVE Connected'
    BY <1>2, <1>5 DEF TxFails, NetFails, WritevFails, TxEnds, ProcessEnds, txVars
<1>6. CASE Peer
    BY <1>6 DEF Peer, Taken, Answer, Connected, txVars
<1>7. CASE UNCHANGED vars
    BY <1>2, <1>7 DEF vars, wireVars, txVars
<1> QED
    BY <1>1, <1>3, <1>4, <1>5, <1>6, <1>7 DEF Next, TxNext, TxMain

\* What a step does to the legs under way.
Still ==
    /\ \A v \in Conn : Leased(v)' => Leased(v) /\ Framed(v)' = Framed(v)
    /\ ipc' = "complete" <=> ipc = "complete"
    /\ UNCHANGED ingest_leg_counter

Starts == StartWorker /\ UNCHANGED wire

Writes(w) == WritevDone(w) /\ Still

LEMMA StillCases ==
    ASSUME LateInput, StreamInv, [Next]_vars
    PROVE  \/ Still /\ UNCHANGED <<wire, txproc>>
           \/ Starts
           \/ \E w \in Conn : Writes(w)
           \/ Still /\ txproc = "run" /\ \E s \in TxEnd : TxEnds(s)
<1> USE DEF StreamInv, LeaseInv, TypeOK, TxTypeOK
<1>1. CASE LaunchWorker
    BY <1>1 DEF LaunchWorker, wireVars, Still, Leased, Framed, Launching
<1>2. CASE StartIngest
    BY <1>2 DEF StartIngest, wireVars, Still, Leased, Framed, Launching
<1>3. CASE PollWorker
    BY <1>3 DEF PollWorker, wireVars, Still, Leased, Framed
<1>4. CASE PollEnd
  <2>1. Still /\ txproc = "run"
      BY <1>4 DEF PollEnd, Still, Leased, Framed
  <2>2. TxEnds("exit0") \/ UNCHANGED <<wire, txproc>>
      BY <1>4 DEF PollEnd, wireVars
  <2> QED
      BY <2>1, <2>2 DEF TxEnd
<1>5. CASE DispatchIdleWorker \/ ReadEof \/ TxShutdown
    BY <1>5 DEF DispatchIdleWorker, ReadEof, TxShutdown, wireVars, Still, Leased, Framed
<1>6. CASE ReadLeg \/ SetSize \/ SetLeg
  <2>1. Filling /\ ~Leased(chosen)
      BY <1>6 DEF ReadLeg, SetSize, SetLeg, Filling, Leased
  <2>2. /\ \A v \in Conn : v # chosen => hdr'[v] = hdr[v] /\ buffer'[v] = buffer[v]
        /\ UNCHANGED <<state, wpc, ingest_leg_counter, wire, txproc>>
        /\ ipc # "complete" /\ ipc' # "complete"
      BY <1>6 DEF ReadLeg, SetSize, SetLeg, wireVars
  <2> QED
      BY <2>1, <2>2 DEF Still, Leased, Framed
<1>7. CASE StartWorker
    BY <1>7 DEF StartWorker, Starts, wireVars
<1>8. ASSUME NEW w \in Conn, StartNet(w) \/ GoIdle(w) PROVE Still /\ UNCHANGED <<wire, txproc>>
    BY <1>8 DEF StartNet, GoIdle, Still, Leased, Framed, wireVars
<1>9. ASSUME NEW w \in Conn, ResetSize(w) \/ ResetLeg(w) PROVE Still /\ UNCHANGED <<wire, txproc>>
  <2>1. ingest_leg_counter = 0
      BY <1>9 DEF ResetSize, ResetLeg, AllUp
  <2>2. \A v \in Conn : ~Leased(v)
    <3> SUFFICES ASSUME NEW v \in Conn, Leased(v) PROVE FALSE
        OBVIOUS
    <3>1. Framed(v) \in Packet /\ Framed(v).leg_id < ingest_leg_counter
        BY FramedType DEF AllHonest, Honest
    <3> QED
        BY <2>1, <3>1 DEF Packet
  <2>3. /\ UNCHANGED <<state, ipc, ingest_leg_counter, wire, txproc>>
        /\ \A v \in Conn : wpc'[v] = "finish" <=> wpc[v] = "finish"
      BY <1>9 DEF ResetSize, ResetLeg, wireVars
  <2> QED
      BY <2>2, <2>3 DEF Still, Leased
<1>10. ASSUME NEW w \in Conn, Loop(w) \/ TxPush(w) PROVE Still /\ UNCHANGED <<wire, txproc>>
    BY <1>10 DEF Loop, TxPush, Still, Leased, Framed, Letters, wireVars
<1>11. ASSUME NEW w \in Conn, FinishPush(w) PROVE Still /\ UNCHANGED <<wire, txproc>>
  <2>1. /\ ~Leased(w)'
        /\ \A v \in Conn : v # w => hdr'[v] = hdr[v] /\ state'[v] = state[v] /\ wpc'[v] = wpc[v]
        /\ UNCHANGED <<buffer, ipc, ingest_leg_counter, wire, txproc>>
      BY <1>11 DEF FinishPush, Leased, wireVars
  <2> QED
      BY <2>1 DEF Still, Leased, Framed
<1>12. ASSUME NEW w \in Conn, WritevDone(w) PROVE Writes(w)
    BY <1>12 DEF WritevDone, Writes, Still, Leased, Framed
<1>13. ASSUME UNCHANGED txVars PROVE Still
    BY <1>13 DEF txVars, Still, Leased, Framed
<1>14. ASSUME NEW w \in Conn, TxFails(w) PROVE Still /\ txproc = "run" /\ \E s \in TxEnd : TxEnds(s)
    BY <1>13, <1>14 DEF TxFails, NetFails, WritevFails, TxEnd
<1>15. CASE Peer
    BY <1>13, <1>15 DEF Peer, Taken, Answer
<1>16. CASE UNCHANGED vars
    BY <1>13, <1>16 DEF vars, wireVars
<1> QED
    BY <1>1, <1>2, <1>3, <1>4, <1>5, <1>6, <1>7, <1>8, <1>9, <1>10, <1>11, <1>12, <1>14, <1>15, <1>16
    DEF Next, TxNext, TxMain, TxIngest, TxWorker

\* A process that ends may leave the legs being written on the wire, cut short.
LEMMA EndsWire ==
    ASSUME LeaseInv, NEW s \in TxEnd, TxEnds(s)
    PROVE  \A d \in Conn : \A i \in 1..Len(wire'[d]) :
              \/ i \in 1..Len(wire[d]) /\ wire'[d][i] = wire[d][i]
              \/ Leased(d) /\ i = Len(wire[d]) + 1 /\ wire'[d][i] = Cut(Framed(d))
<1>1. PICK K \in SUBSET {w \in Conn : wpc[w] = "writev"} :
         wire' = [c \in Conn |-> IF c \in K THEN Append(wire[c], Cut([w \in Conn |-> Framed(w)][c]))
                                 ELSE wire[c]]
    BY DEF TxEnds, ProcessEnds
<1> TAKE d \in Conn
<1> TAKE i \in 1..Len(wire'[d])
<1>2. wire[d] \in Seq(Packet) /\ Cut(Framed(d)) \in Packet
    BY FramedType DEF LeaseInv, TypeOK, WireTypeOK, Cut, Packet
<1>3. /\ Len(Append(wire[d], Cut(Framed(d)))) = Len(wire[d]) + 1
      /\ \A j \in 1..(Len(wire[d]) + 1) :
            Append(wire[d], Cut(Framed(d)))[j] = IF j <= Len(wire[d]) THEN wire[d][j] ELSE Cut(Framed(d))
    BY <1>2
<1>4. CASE d \in K
  <2>1. wire'[d] = Append(wire[d], Cut(Framed(d)))
      BY <1>1, <1>4
  <2>2. Leased(d)
      BY <1>4 DEF LeaseInv, Letters, Leased
  <2> QED
      BY <1>2, <1>3, <2>1, <2>2
<1>5. CASE d \notin K
    BY <1>1, <1>5
<1> QED
    BY <1>4, <1>5

LEMMA WritesWire ==
    ASSUME StreamInv, NEW w \in Conn, Writes(w)
    PROVE  /\ Leased(w) /\ ~Leased(w)' /\ txproc' = txproc
           /\ \A d \in Conn : \A i \in 1..Len(wire'[d]) :
                 \/ i \in 1..Len(wire[d]) /\ wire'[d][i] = wire[d][i]
                 \/ d = w /\ i = Len(wire[w]) + 1 /\ wire'[d][i] = Framed(w)
<1>1. wire[w] \in Seq(Packet) /\ Framed(w) \in Packet /\ wire \in [Conn -> Seq(Packet)]
    BY FramedType DEF StreamInv, LeaseInv, TypeOK, WireTypeOK
<1>2. /\ Len(Append(wire[w], Framed(w))) = Len(wire[w]) + 1
      /\ \A j \in 1..(Len(wire[w]) + 1) :
            Append(wire[w], Framed(w))[j] = IF j <= Len(wire[w]) THEN wire[w][j] ELSE Framed(w)
    BY <1>1
<1>3. wire' = [wire EXCEPT ![w] = Append(@, Framed(w))]
    BY DEF Writes, WritevDone, Writev
<1>4. Leased(w) /\ ~Leased(w)' /\ txproc' = txproc
    BY DEF Writes, WritevDone, Leased, StreamInv, LeaseInv, Letters, TypeOK, TxTypeOK
<1> QED
    BY <1>1, <1>2, <1>3, <1>4

LEMMA HonestStep ==
    ASSUME LateInput, StreamInv, [Next]_vars
    PROVE  AllHonest'
<1>1. AllHonest /\ TypeOK /\ LeaseInv
    BY DEF StreamInv, LeaseInv
\* Neither the counter nor the end of the input moves: what was honest stays so.
<1>2. ASSUME Still,
             \A d \in Conn : \A i \in 1..Len(wire'[d]) : Honest(wire'[d][i])
      PROVE  AllHonest'
  <2>1. \A p : Honest(p) => Honest(p)'
      BY <1>2 DEF Still, Honest
  <2>2. \A v \in Conn : Leased(v)' => Honest(Framed(v))'
      BY <1>1, <1>2, <2>1 DEF Still, AllHonest, Honest
  <2>3. \A d \in Conn : \A i \in 1..Len(wire'[d]) : Honest(wire[d][i])'
      BY <1>2 DEF Still, Honest
  <2> QED
      BY <2>2, <2>3 DEF AllHonest
<1>3. CASE Still /\ UNCHANGED <<wire, txproc>>
    BY <1>1, <1>2, <1>3 DEF AllHonest
<1>4. ASSUME NEW w \in Conn, Writes(w) PROVE AllHonest'
  <2>1. Still
      BY <1>4 DEF Writes
  <2> QED
      BY <1>1, <1>2, <1>4, <2>1, WritesWire DEF AllHonest
<1>5. ASSUME Still, NEW s \in TxEnd, TxEnds(s) PROVE AllHonest'
  <2>1. \A d \in Conn : Leased(d) => Honest(Cut(Framed(d)))
      BY <1>1 DEF AllHonest, Honest, Cut
  <2> QED
      BY <1>1, <1>2, <1>5, <2>1, EndsWire DEF AllHonest
<1>6. CASE Starts
  <2>1. /\ ipc = "start" /\ ingest_leg_counter \in Nat /\ ingest_leg_counter' = ingest_leg_counter + 1
        /\ ipc' = (IF done THEN "complete" ELSE "dispatch")
        /\ UNCHANGED <<wire, hdr, buffer, wpc>> /\ chosen \in Conn
        /\ \A v \in Conn : v # chosen => state'[v] = state[v]
      BY <1>1, <1>6 DEF Starts, StartWorker, TypeOK, TxTypeOK
  <2>2. ASSUME NEW p \in Packet, Honest(p) PROVE Honest(p)'
      BY <2>1, <2>2 DEF Honest, Packet
  <2>3. ASSUME NEW v \in Conn, v = chosen PROVE Honest(Framed(v))'
    <3>1. /\ hdr'[v].leg_id = ingest_leg_counter
          /\ hdr'[v].size = IF done THEN 0 ELSE Foot
          /\ hdr'[v].opcode = IF done THEN "end_of_millipede" ELSE "feed_more"
          /\ ~done => buffer'[v] = ingest_leg_counter
        BY <2>1, <2>3 DEF StreamInv, Filled
    <3> QED
        BY <2>1, <3>1 DEF Honest, Framed, Foot
  <2>4. \A v \in Conn : Leased(v)' => Honest(Framed(v))'
    <3> SUFFICES ASSUME NEW v \in Conn, v # chosen, Leased(v)' PROVE Honest(Framed(v))'
        BY <2>3
    <3>1. Leased(v) /\ Framed(v)' = Framed(v) /\ Framed(v) \in Packet
        BY <1>1, <2>1, FramedType DEF Leased, Framed
    <3>2. Honest(Framed(v))
        BY <1>1, <3>1 DEF AllHonest
    <3> QED
        BY <2>1, <3>1, <3>2 DEF Honest, Packet
  <2>5. \A d \in Conn : \A i \in 1..Len(wire'[d]) : Honest(wire[d][i])'
    <3> SUFFICES ASSUME NEW d \in Conn, NEW i \in 1..Len(wire[d]) PROVE Honest(wire[d][i])'
        BY <2>1
    <3>1. wire[d][i] \in Packet /\ Honest(wire[d][i])
        BY <1>1 DEF AllHonest, TypeOK, WireTypeOK
    <3> QED
        BY <2>1, <3>1 DEF Honest, Packet
  <2> QED
      BY <2>4, <2>5 DEF AllHonest
<1> QED
    BY <1>3, <1>4, <1>5, <1>6, StillCases

LEMMA OrderStep ==
    ASSUME LateInput, StreamInv, [Next]_vars
    PROVE  Ahead' /\ WireAscending'
<1>1. AllHonest /\ TypeOK /\ LeaseInv /\ Ahead /\ WireAscending
    BY DEF StreamInv, LeaseInv
<1>2. \A v \in Conn : Framed(v).leg_id = hdr[v].leg_id /\ Cut(Framed(v)).leg_id = hdr[v].leg_id
    BY DEF Framed, Cut
<1>3. ASSUME Still PROVE \A v \in Conn : Leased(v)' => Leased(v) /\ hdr'[v].leg_id = hdr[v].leg_id
    BY <1>3 DEF Still, Framed
<1>4. CASE Still /\ UNCHANGED <<wire, txproc>>
    BY <1>1, <1>3, <1>4 DEF Ahead, WireAscending
<1>5. ASSUME NEW w \in Conn, Writes(w) PROVE Ahead' /\ WireAscending'
  <2>1. Still /\ txproc = "run"
      BY <1>5 DEF Writes, WritevDone
  <2>2. Ahead'
      BY <1>1, <1>3, <1>5, <2>1, WritesWire DEF Ahead
  <2>3. \A i \in 1..Len(wire[w]) : wire[w][i].leg_id < Framed(w).leg_id
      BY <1>1, <1>2, <1>5, <2>1, WritesWire DEF Ahead
  <2>4. WireAscending'
    <3> SUFFICES ASSUME NEW d \in Conn, NEW i \in 1..Len(wire'[d]), NEW j \in 1..Len(wire'[d]), i < j
                 PROVE  wire'[d][i].leg_id < wire'[d][j].leg_id
        BY DEF WireAscending
    <3>0. Len(wire[d]) \in Nat /\ Len(wire'[d]) \in Nat
        BY <1>1, TypeStep DEF TypeOK, WireTypeOK
    <3>1. i \in 1..Len(wire[d]) /\ wire'[d][i] = wire[d][i]
        BY <1>5, <3>0, WritesWire
    <3>2. CASE j \in 1..Len(wire[d]) /\ wire'[d][j] = wire[d][j]
        BY <1>1, <3>1, <3>2 DEF WireAscending
    <3>3. CASE d = w /\ wire'[d][j] = Framed(w)
        BY <2>3, <3>1, <3>3
    <3> QED
        BY <1>5, <3>2, <3>3, WritesWire
  <2> QED
      BY <2>2, <2>4
<1>6. ASSUME Still, txproc = "run", NEW s \in TxEnd, TxEnds(s) PROVE Ahead' /\ WireAscending'
  <2>1. Ahead'
      BY <1>6 DEF Ahead, TxEnds, ProcessEnds, TxEnd
  <2>2. WireAscending'
    <3> SUFFICES ASSUME NEW d \in Conn, NEW i \in 1..Len(wire'[d]), NEW j \in 1..Len(wire'[d]), i < j
                 PROVE  wire'[d][i].leg_id < wire'[d][j].leg_id
        BY DEF WireAscending
    <3>0. Len(wire[d]) \in Nat /\ Len(wire'[d]) \in Nat
        BY <1>1, TypeStep DEF TypeOK, WireTypeOK
    <3>1. i \in 1..Len(wire[d]) /\ wire'[d][i] = wire[d][i]
        BY <1>1, <1>6, <3>0, EndsWire
    <3>2. CASE j \in 1..Len(wire[d]) /\ wire'[d][j] = wire[d][j]
        BY <1>1, <3>1, <3>2 DEF WireAscending
    <3>3. CASE Leased(d) /\ wire'[d][j] = Cut(Framed(d))
        BY <1>1, <1>2, <1>6, <3>1, <3>3 DEF Ahead
    <3> QED
        BY <1>1, <1>6, <3>2, <3>3, EndsWire
  <2> QED
      BY <2>1, <2>2
<1>7. CASE Starts
  <2>1. /\ ipc = "start" /\ UNCHANGED <<wire, txproc, hdr, wpc>> /\ chosen \in Conn
        /\ \A v \in Conn : v # chosen => state'[v] = state[v]
      BY <1>1, <1>7 DEF Starts, StartWorker, wireVars, TypeOK, TxTypeOK
  <2>2. hdr[chosen].leg_id = ingest_leg_counter
      BY <2>1 DEF StreamInv, Filled
  <2>3. \A v \in Conn : v # chosen => (Leased(v)' <=> Leased(v))
      BY <2>1 DEF Leased
  <2>4. \A i \in 1..Len(wire[chosen]) : wire[chosen][i].leg_id < ingest_leg_counter
      BY <1>1, <2>1 DEF AllHonest, Honest
  <2>5. Ahead'
      BY <1>1, <2>1, <2>2, <2>3, <2>4 DEF Ahead
  <2> QED
      BY <1>1, <2>1, <2>5 DEF WireAscending
<1> QED
    BY <1>4, <1>5, <1>6, <1>7, StillCases

LEMMA InitStreamInv == Init => StreamInv
<1> SUFFICES ASSUME Init PROVE StreamInv
    OBVIOUS
<1>1. LeaseInv /\ LimitInv
    BY InitLeaseInv, InitLimitInv
<1>2. \A c \in Conn : wire[c] = <<>> /\ ~Leased(c) /\ wpc[c] = "none" /\ conn[c] = "none"
    BY DEF Init, TxInit, WireInit, Leased
<1>3. ingest_leg_counter = 0 /\ ipc = "off"
    BY DEF Init, TxInit
<1> QED
    BY <1>1, <1>2, <1>3
    DEF StreamInv, AllUp, Filled, AllHonest, Ahead, WireAscending, Connected

LEMMA StreamInvStep ==
    ASSUME LateInput
    PROVE  StreamInv /\ [Next]_vars => StreamInv'
<1> SUFFICES ASSUME StreamInv, [Next]_vars PROVE StreamInv'
    OBVIOUS
<1>1. LeaseInv' /\ LimitInv'
    BY LeaseInvStep, LimitInvStep DEF StreamInv
<1> QED
    BY <1>1, AllUpStep, FilledStep, HonestStep, OrderStep, ConnectedStep DEF StreamInv

(***************************************************************************)
(* The invariant from which the next three theorems follow.                *)
(***************************************************************************)
THEOREM StreamInvariance ==
    ASSUME LateInput
    PROVE  Spec => []StreamInv
BY InitStreamInv, StreamInvStep, PTL DEF Spec

(***************************************************************************)
(* Unless the input is there before the workers, every packet that         *)
(* txpush() has written bears the piece of input it is numbered for.       *)
(***************************************************************************)
THEOREM StreamIsIntact ==
    ASSUME LateInput
    PROVE  Spec => []StreamIntact
<1>1. StreamInv => StreamIntact
    BY DEF StreamInv, AllHonest, Honest, StreamIntact
<1> QED
    BY <1>1, StreamInvariance, PTL

(***************************************************************************)
(* Each connection carries its legs in ascending order.                    *)
(***************************************************************************)
THEOREM WireAscends ==
    ASSUME LateInput
    PROVE  Spec => []WireAscending
<1>1. StreamInv => WireAscending
    BY DEF StreamInv
<1> QED
    BY <1>1, StreamInvariance, PTL

(***************************************************************************)
(* What a receiver does to a wire, taking the packet that comes first,     *)
(* disturbs none of this.                                                  *)
(***************************************************************************)
TakesFirst(c) ==
    /\ wire[c] # <<>>
    /\ wire' = [wire EXCEPT ![c] = Tail(@)]
    /\ UNCHANGED <<conn, txproc, txVars>>

LEMMA TakenType ==
    ASSUME TypeOK, NEW c \in Conn, TakesFirst(c)
    PROVE  TypeOK'
<1>1. Tail(wire[c]) \in Seq(Packet)
    BY DEF TakesFirst, TypeOK, WireTypeOK
<1>2. wire' \in [Conn -> Seq(Packet)]
    BY <1>1 DEF TakesFirst, TypeOK, WireTypeOK
<1> QED
    BY <1>2 DEF TakesFirst, TypeOK, WireTypeOK, TxTypeOK, txVars

LEMMA TakenLease ==
    ASSUME LeaseInv, NEW c \in Conn, TakesFirst(c)
    PROVE  LeaseInv'
<1>1. TypeOK'
    BY TakenType DEF LeaseInv
<1> QED
    BY <1>1 DEF LeaseInv, Launching, Letters, Filling, TakesFirst, txVars

LEMMA TakenStream ==
    ASSUME StreamInv, NEW c \in Conn, TakesFirst(c)
    PROVE  StreamInv'
<1>1. LeaseInv' /\ LimitInv' /\ AllUp' /\ Filled' /\ Connected'
  <2>1. LeaseInv'
      BY TakenLease DEF StreamInv
  <2>2. TypeOK'
      BY <2>1 DEF LeaseInv
  <2> QED
      BY <2>1, <2>2 DEF StreamInv, LimitInv, AllUp, Filled, Connected, TakesFirst, txVars
<1>2. \A w \in Conn : /\ Leased(w)' = Leased(w) /\ Framed(w)' = Framed(w) /\ hdr'[w] = hdr[w]
    BY DEF TakesFirst, txVars, Leased, Framed
<1>3. \A d \in Conn : \A i \in 1..Len(wire'[d]) :
         \E j \in 1..Len(wire[d]) : j = (IF d = c THEN i + 1 ELSE i) /\ wire'[d][i] = wire[d][j]
  <2>1. wire[c] \in Seq(Packet) /\ wire[c] # <<>> /\ wire'[c] = Tail(wire[c])
      BY DEF TakesFirst, StreamInv, LeaseInv, TypeOK, WireTypeOK
  <2>2. \A d \in Conn : d # c => wire'[d] = wire[d]
      BY DEF TakesFirst, StreamInv, LeaseInv, TypeOK, WireTypeOK
  <2>3. \A i \in 1..Len(wire'[c]) : i + 1 \in 1..Len(wire[c]) /\ wire'[c][i] = wire[c][i + 1]
      BY <2>1
  <2> QED
      BY <2>2, <2>3
<1>4. \A p \in Packet : Honest(p) => Honest(p)'
    BY DEF Honest, TakesFirst, txVars
<1>5. \A d \in Conn : wire[d] \in Seq(Packet)
    BY DEF StreamInv, LeaseInv, TypeOK, WireTypeOK
<1>6. AllHonest'
  <2>1. \A w \in Conn : Leased(w)' => Honest(Framed(w))'
      BY <1>2, <1>4, FramedType DEF StreamInv, AllHonest, Honest, TakesFirst, txVars
  <2>2. \A d \in Conn : \A i \in 1..Len(wire'[d]) : Honest(wire[d][i])'
      BY <1>3, <1>4, <1>5 DEF StreamInv, AllHonest, Honest, TakesFirst, txVars
  <2> QED
      BY <2>1, <2>2 DEF AllHonest
<1>7. Ahead'
    BY <1>2, <1>3 DEF StreamInv, Ahead, TakesFirst
<1>8. WireAscending'
  <2> SUFFICES ASSUME NEW d \in Conn, NEW i \in 1..Len(wire'[d]), NEW j \in 1..Len(wire'[d]), i < j
               PROVE  wire'[d][i].leg_id < wire'[d][j].leg_id
      BY DEF WireAscending
  <2>1. PICK k \in 1..Len(wire[d]) : k = (IF d = c THEN i + 1 ELSE i) /\ wire'[d][i] = wire[d][k]
      BY <1>3
  <2>2. PICK l \in 1..Len(wire[d]) : l = (IF d = c THEN j + 1 ELSE j) /\ wire'[d][j] = wire[d][l]
      BY <1>3
  <2>3. k < l
      BY <2>1, <2>2
  <2> QED
      BY <2>1, <2>2, <2>3 DEF StreamInv, WireAscending
<1> QED
    BY <1>1, <1>6, <1>7, <1>8 DEF StreamInv

-----------------------------------------------------------------------------
(* Refinement *)

\* What Feed sees of the transmitter, left as it is.
Unseen == UNCHANGED <<Lease, ingest_leg_counter, ipc = "complete">>

LEMMA LeaseKept ==
    ASSUME \A v \in Conn : (Leased(v)' <=> Leased(v)) /\ (Leased(v) => Framed(v)' = Framed(v)),
           UNCHANGED ingest_leg_counter, ipc' = "complete" <=> ipc = "complete"
    PROVE  Unseen
BY DEF Unseen, Lease

LEMMA FeedStutters ==
    ASSUME StreamInv, [Next]_vars, ~StartWorker, \A w \in Conn : ~WritevDone(w)
    PROVE  Unseen
<1> USE DEF StreamInv, LeaseInv, TypeOK, TxTypeOK
<1>1. CASE LaunchWorker
  <2>1. cursor \in Conn /\ wpc[cursor] = "none" /\ state[cursor] = "E"
      BY <1>1, TxAssumption DEF LaunchWorker, Launching, Letters
  <2>2. \A v \in Conn : v = cursor => ~Leased(v) /\ ~Leased(v)'
      BY <1>1, <2>1 DEF LaunchWorker, Leased
  <2>3. /\ \A v \in Conn : v # cursor => state'[v] = state[v] /\ wpc'[v] = wpc[v]
        /\ UNCHANGED <<hdr, buffer, ipc, ingest_leg_counter>>
      BY <1>1, <2>1 DEF LaunchWorker
  <2> QED
      BY <2>2, <2>3, LeaseKept DEF Leased, Framed
<1>2. CASE StartIngest \/ PollWorker \/ PollEnd
    BY <1>2, LeaseKept DEF StartIngest, PollWorker, PollEnd, Leased, Framed, Launching
<1>3. CASE DispatchIdleWorker \/ ReadEof \/ TxShutdown
    BY <1>3, LeaseKept DEF DispatchIdleWorker, ReadEof, TxShutdown, Leased, Framed
<1>4. CASE ReadLeg \/ SetSize \/ SetLeg
  <2>1. ~Leased(chosen)
      BY <1>4 DEF ReadLeg, SetSize, SetLeg, Filling, Leased
  <2>2. /\ \A v \in Conn : v # chosen => hdr'[v] = hdr[v] /\ buffer'[v] = buffer[v]
        /\ UNCHANGED <<state, wpc, ingest_leg_counter>>
        /\ ipc # "complete" /\ ipc' # "complete"
      BY <1>4 DEF ReadLeg, SetSize, SetLeg
  <2> QED
      BY <2>1, <2>2, LeaseKept DEF Leased, Framed
<1>5. ASSUME NEW w \in Conn, StartNet(w) \/ GoIdle(w) PROVE Unseen
    BY <1>5, LeaseKept DEF StartNet, GoIdle, Leased, Framed, Letters
<1>6. ASSUME NEW w \in Conn, ResetSize(w) \/ ResetLeg(w) PROVE Unseen
  <2>1. ingest_leg_counter = 0
      BY <1>6 DEF ResetSize, ResetLeg, AllUp
  <2>2. \A v \in Conn : ~Leased(v)
    <3> SUFFICES ASSUME NEW v \in Conn, Leased(v) PROVE FALSE
        OBVIOUS
    <3>1. Framed(v) \in Packet /\ Framed(v).leg_id < ingest_leg_counter
        BY FramedType DEF AllHonest, Honest
    <3> QED
        BY <2>1, <3>1 DEF Packet
  <2>3. /\ UNCHANGED <<state, ipc, ingest_leg_counter>>
        /\ \A v \in Conn : wpc'[v] = "finish" <=> wpc[v] = "finish"
      BY <1>6 DEF ResetSize, ResetLeg
  <2> QED
      BY <2>2, <2>3, LeaseKept DEF Leased
<1>7. ASSUME NEW w \in Conn, Loop(w) \/ TxPush(w) PROVE Unseen
    BY <1>7, LeaseKept DEF Loop, TxPush, Leased, Framed, Letters
<1>8. ASSUME NEW w \in Conn, FinishPush(w) PROVE Unseen
  <2>1. /\ ~Leased(w) /\ ~Leased(w)'
        /\ \A v \in Conn : v # w => hdr'[v] = hdr[v] /\ state'[v] = state[v] /\ wpc'[v] = wpc[v]
        /\ UNCHANGED <<buffer, ipc, ingest_leg_counter>>
      BY <1>8 DEF FinishPush, Leased
  <2> QED
      BY <2>1, LeaseKept DEF Leased, Framed
<1>9. CASE UNCHANGED txVars
    BY <1>9, LeaseKept DEF txVars, Leased, Framed
<1> QED
    BY <1>1, <1>2, <1>3, <1>4, <1>5, <1>6, <1>7, <1>8, <1>9
    DEF Next, TxNext, TxMain, TxIngest, TxWorker, TxFails, NetFails, WritevFails, Peer, vars

\* start_worker() leases the next leg.
LEMMA StartFeeds ==
    ASSUME StreamInv, StartWorker
    PROVE  F!LeaseData(chosen) \/ F!LeaseEnd(chosen)
<1> USE DEF StreamInv, LeaseInv, TypeOK, TxTypeOK
<1>1. chosen \in Conn /\ state[chosen] = "i" /\ wpc[chosen] \notin {"none", "start", "ok", "finish"}
    BY DEF StartWorker, Filling, Letters
<1>2. conn[chosen] = "open" /\ ~Leased(chosen) /\ Lease[chosen] = Blank
    BY <1>1 DEF Connected, Leased, Lease
<1>3. Leased(chosen)'
    BY <1>1 DEF StartWorker, Leased
<1>4. /\ Framed(chosen)' = Framed(chosen)
      /\ \A v \in Conn : v # chosen => (Leased(v)' <=> Leased(v)) /\ Framed(v)' = Framed(v)
    BY <1>1 DEF StartWorker, Leased, Framed
<1>5. Lease' = [Lease EXCEPT ![chosen] = Framed(chosen)]
    BY <1>1, <1>3, <1>4 DEF Lease, StartWorker
<1>6. CASE ~done
  <2>1. Framed(chosen) = FeedMore(ingest_leg_counter)
    <3>1. /\ hdr[chosen].leg_id = ingest_leg_counter /\ hdr[chosen].size = 1
          /\ hdr[chosen].opcode = "feed_more" /\ buffer[chosen] = ingest_leg_counter
        BY <1>6 DEF StartWorker, Filled, Foot
    <3> QED
        BY <3>1 DEF Framed, FeedMore, Foot
  <2> QED
      BY <1>2, <1>5, <1>6, <2>1 DEF StartWorker, Filled, F!LeaseData, F!LeaseTo, F!FeedMore, FeedMore,
         F!Foot, Foot, F!Blank, Blank, F!wireVars, wireVars
<1>7. CASE done
  <2>1. Framed(chosen) = EndOfMillipede(ingest_leg_counter)
    <3>1. /\ hdr[chosen].leg_id = ingest_leg_counter /\ hdr[chosen].size = 0
          /\ hdr[chosen].opcode = "end_of_millipede"
        BY <1>7 DEF StartWorker, Filled
    <3> QED
        BY <3>1 DEF Framed, EndOfMillipede
  <2> QED
      BY <1>2, <1>5, <1>7, <2>1 DEF StartWorker, F!LeaseEnd, F!LeaseTo, F!EndOfMillipede,
         EndOfMillipede, F!Blank, Blank, F!wireVars, wireVars
<1> QED
    BY <1>6, <1>7

\* writev() pushes it.
LEMMA WritevFeeds ==
    ASSUME StreamInv, NEW w \in Conn, WritevDone(w)
    PROVE  F!Push(w)
<1> USE DEF StreamInv, LeaseInv, TypeOK, TxTypeOK
<1>1. Leased(w) /\ ~Leased(w)' /\ Lease[w] = Framed(w)
    BY DEF WritevDone, Leased, Letters, Lease
<1>2. Framed(w) # Blank
  <2>1. Framed(w).opcode # Blank.opcode
      BY <1>1 DEF AllHonest, Honest, Blank
  <2> QED
      BY <2>1
<1>3. Lease' = [Lease EXCEPT ![w] = Blank]
    BY <1>1 DEF Lease, WritevDone, Leased, Framed
<1> QED
    BY <1>1, <1>2, <1>3 DEF WritevDone, Writev, F!Push, F!Writev, F!Blank, Blank

\* A process that ends hangs up.
LEMMA EndFeeds ==
    ASSUME StreamInv, txproc = "run", Unseen, NEW s \in TxEnd, TxEnds(s)
    PROVE  F!Hangup
<1> USE DEF StreamInv, LeaseInv, TypeOK, TxTypeOK
<1>1. PICK K \in SUBSET {c \in {w \in Conn : wpc[w] = "writev"} : [w \in Conn |-> Framed(w)][c].size > 0} :
         wire' = [c \in Conn |-> IF c \in K THEN Append(wire[c], Cut([w \in Conn |-> Framed(w)][c]))
                                 ELSE wire[c]]
    BY DEF TxEnds, ProcessEnds
<1>2. \A c \in K : Lease[c] = Framed(c)
    BY DEF Lease, Leased, Letters
<1>3. \A c \in K : Lease[c] # Blank
  <2> SUFFICES ASSUME NEW c \in K PROVE Framed(c).opcode # Blank.opcode
      BY <1>2
  <2>1. Leased(c)
      BY DEF Leased, Letters
  <2> QED
      BY <2>1 DEF AllHonest, Honest, Blank
<1>4. K \in SUBSET {c \in {v \in Conn : Lease[v] # Blank} : Lease[c].size > 0}
    BY <1>2, <1>3
<1>5. wire' = [c \in Conn |-> IF c \in K THEN Append(wire[c], Cut(Lease[c])) ELSE wire[c]]
    BY <1>1, <1>2
<1>6. txproc' = s /\ UNCHANGED conn
    BY DEF TxEnds, ProcessEnds
<1> QED
    BY <1>4, <1>5, <1>6 DEF F!Hangup, F!ProcessEnds, F!Cut, Cut, F!TxEnd, TxEnd, F!Blank, Blank,
       F!feedVars, Unseen

(***************************************************************************)
(* Whatever a thread of the transmitter does is a step of Feed's own side. *)
(***************************************************************************)
LEMMA TxFeeds ==
    ASSUME LateInput, StreamInv, TxNext
    PROVE  [F!FeedNext]_<<F!wireVars, F!feedVars>>
<1>1. CASE StartWorker
  <2>1. chosen \in Conn
      BY DEF StreamInv, LeaseInv, TypeOK, TxTypeOK
  <2> QED
      BY <1>1, <2>1, StartFeeds DEF F!FeedNext
<1>2. ASSUME NEW w \in Conn, WritevDone(w) PROVE F!FeedNext
    BY <1>2, WritevFeeds DEF F!FeedNext
<1>3. CASE ~StartWorker /\ \A w \in Conn : ~WritevDone(w)
  <2>1. Unseen
      BY <1>3, FeedStutters DEF Next
  <2>2. UNCHANGED F!feedVars
      BY <2>1 DEF Unseen, F!feedVars
  <2>3. CASE UNCHANGED wireVars
      BY <2>2, <2>3 DEF wireVars, F!wireVars
  <2>4. ASSUME NEW w \in Conn, StartNet(w) PROVE F!FeedNext
    <3>1. conn[w] = "none"
        BY <2>4 DEF StartNet, StreamInv, Connected
    <3>2. F!Connect(w)
        BY <2>2, <2>4, <3>1 DEF StartNet, F!Connect
    <3> QED
        BY <3>2 DEF F!FeedNext
  <2>5. ASSUME txproc = "run", NEW s \in TxEnd, TxEnds(s) PROVE F!FeedNext
      BY <2>1, <2>5, EndFeeds DEF F!FeedNext
  <2>6. CASE TxMain
      BY <2>3, <2>5, <2>6 DEF TxMain, LaunchWorker, StartIngest, PollWorker, PollEnd, TxEnd
  <2>7. CASE TxIngest
      BY <1>3, <2>3, <2>7 DEF TxIngest, DispatchIdleWorker, ReadLeg, ReadEof, TxShutdown, SetSize, SetLeg
  <2>8. ASSUME NEW w \in Conn, TxWorker(w) PROVE [F!FeedNext]_<<F!wireVars, F!feedVars>>
      BY <1>3, <2>3, <2>4, <2>8 DEF TxWorker, GoIdle, ResetSize, ResetLeg, Loop, TxPush, FinishPush
  <2>9. ASSUME NEW w \in Conn, TxFails(w) PROVE F!FeedNext
      BY <2>5, <2>9 DEF TxFails, NetFails, WritevFails, TxEnd
  <2> QED
      BY <2>6, <2>7, <2>8, <2>9 DEF TxNext
<1> QED
    BY <1>1, <1>2, <1>3

LEMMA FeedStepped ==
    ASSUME LateInput, StreamInv, [Next]_vars
    PROVE  [F!FeedStep]_<<F!wireVars, F!feedVars>>
<1>1. CASE TxNext
    BY <1>1, TxFeeds DEF F!FeedStep
<1>2. CASE Peer
  <2>1. Unseen
    <3>1. ~StartWorker /\ \A w \in Conn : ~WritevDone(w)
        BY <1>2 DEF Peer, Taken, Answer, txVars, StartWorker, WritevDone, StreamInv, LeaseInv, TypeOK,
           TxTypeOK
    <3> QED
        BY <3>1, FeedStutters
  <2> QED
      BY <1>2, <2>1 DEF Unseen, Peer, Taken, Answer, F!Taken, F!Answer, F!FeedStep, F!feedVars
<1>3. CASE UNCHANGED vars
    BY <1>3 DEF vars, txVars, wireVars, F!wireVars, F!feedVars, Lease, Leased, Framed
<1> QED
    BY <1>1, <1>2, <1>3 DEF Next

(***************************************************************************)
(* With input that comes after the workers are up, the transmitter of tx.c *)
(* implements the promise of module Feed, on which the receiver relies.    *)
(***************************************************************************)
THEOREM Refinement ==
    ASSUME LateInput
    PROVE  Spec => ImplementsFeed
<1>1. Init => F!WireInit /\ F!FeedInit
  <2> SUFFICES ASSUME Init PROVE F!WireInit /\ F!FeedInit
      OBVIOUS
  <2>1. Lease = [c \in Conn |-> Blank]
      BY DEF Init, TxInit, Lease, Leased
  <2> QED
      BY <2>1 DEF Init, TxInit, WireInit, F!WireInit, F!FeedInit, F!Blank, Blank
<1>2. StreamInv /\ [Next]_vars => [F!FeedStep]_<<F!wireVars, F!feedVars>>
    BY FeedStepped
<1> QED
    BY <1>1, <1>2, StreamInvariance, PTL DEF Spec, ImplementsFeed, F!FeedSpec
=============================================================================
