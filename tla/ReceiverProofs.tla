--------------------------- MODULE ReceiverProofs ---------------------------
(***************************************************************************)
(* Proofs about Receiver, for any number of connections, threads and legs. *)
(***************************************************************************)
EXTENDS ReceiverInv, TLAPS

-----------------------------------------------------------------------------
(* Types *)

LEMMA PacketFacts ==
    /\ Blank \in Packet
    /\ \A n \in Nat : FeedMore(n) \in Packet /\ EndOfMillipede(n) \in Packet
    /\ \A p \in Packet : Cut(p) \in Packet
BY DEF Packet, Cut, Blank, FeedMore, EndOfMillipede, Genuine, Foot, Huge

LEMMA InitTypeOK == Init => TypeOK
<1> SUFFICES ASSUME Init PROVE TypeOK
    OBVIOUS
<1>1. PICK c \in Conn : sock = [w \in RxWorkers |-> c]
    BY DEF Init, RxInit
<1>2. WireTypeOK
    BY DEF Init, WireInit, WireTypeOK, ConnState
<1>3. FeedTypeOK
    BY PacketFacts DEF Init, FeedInit, FeedTypeOK
<1>4. RxTypeOK
  <2>1. sock \in [RxWorkers -> Conn]
      BY <1>1
  <2>2. /\ rpc = [w \in RxWorkers |-> "launched"] /\ pkt = [w \in RxWorkers |-> Blank]
        /\ restartme = [w \in RxWorkers |-> FALSE] /\ deaf = {} /\ next_leg = 0
        /\ done_mbox = FALSE /\ output_fd = 0 /\ out = <<>> /\ rxproc = "run"
      BY DEF Init, RxInit
  <2>3. /\ pkt \in [RxWorkers -> Packet] /\ rpc \in [RxWorkers -> RxPc]
        /\ restartme \in [RxWorkers -> BOOLEAN]
      BY <2>2, PacketFacts DEF RxPc
  <2>4. out \in Seq(Nat)
      BY <2>2
  <2> QED
      BY <2>1, <2>2, <2>3, <2>4 DEF RxTypeOK
<1> QED
    BY <1>2, <1>3, <1>4 DEF TypeOK

\* What the transmitter's steps do to the connections and its own state.
LEMMA FeedTypeStep ==
    ASSUME TypeOK, FeedNext
    PROVE  WireTypeOK' /\ FeedTypeOK'
<1> USE DEF TypeOK, WireTypeOK, FeedTypeOK
<1>1. ASSUME NEW c \in Conn, Connect(c) PROVE WireTypeOK' /\ FeedTypeOK'
    BY <1>1 DEF Connect, feedVars, ConnState
<1>2. ASSUME NEW c \in Conn, LeaseData(c) PROVE WireTypeOK' /\ FeedTypeOK'
    BY <1>2, PacketFacts DEF LeaseData, LeaseTo, wireVars
<1>3. ASSUME NEW c \in Conn, LeaseEnd(c) PROVE WireTypeOK' /\ FeedTypeOK'
    BY <1>3, PacketFacts DEF LeaseEnd, LeaseTo, wireVars
<1>4. ASSUME NEW c \in Conn, Push(c) PROVE WireTypeOK' /\ FeedTypeOK'
  <2>1. Append(wire[c], lease[c]) \in Seq(Packet)
      OBVIOUS
  <2> QED
      BY <1>4, <2>1, PacketFacts DEF Push, Writev
<1>5. ASSUME Hangup PROVE WireTypeOK' /\ FeedTypeOK'
  <2>1. \A c \in Conn : Append(wire[c], Cut(lease[c])) \in Seq(Packet)
      BY PacketFacts
  <2>2. wire' \in [Conn -> Seq(Packet)]
      BY <1>5, <2>1 DEF Hangup, ProcessEnds
  <2> QED
      BY <1>5, <2>2 DEF Hangup, ProcessEnds, TxEnd, feedVars
<1> QED
    BY <1>1, <1>2, <1>3, <1>4, <1>5 DEF FeedNext

LEMMA RxTypeStep ==
    ASSUME TypeOK, RxNext
    PROVE  WireTypeOK' /\ RxTypeOK'
<1> USE DEF TypeOK, WireTypeOK, RxTypeOK, At, Goto, Dies
<1>1. CASE RxPoll
    BY <1>1 DEF RxPoll, wireVars, RxEnd
<1>2. ASSUME NEW w \in RxWorkers, CondInit(w) PROVE WireTypeOK' /\ RxTypeOK'
    BY <1>2 DEF CondInit, wireVars, RxPc
<1>3. ASSUME NEW w \in RxWorkers, OuterLoop(w) PROVE WireTypeOK' /\ RxTypeOK'
    BY <1>3 DEF OuterLoop, wireVars, RxPc
<1>4. ASSUME NEW w \in RxWorkers, Accept(w) PROVE WireTypeOK' /\ RxTypeOK'
    BY <1>4 DEF Accept, Taken, ConnState, RxPc
<1>5. ASSUME NEW w \in RxWorkers, PhraseOk(w) PROVE WireTypeOK' /\ RxTypeOK'
    BY <1>5 DEF PhraseOk, Answer, ConnState, RxPc
<1>6. ASSUME NEW w \in RxWorkers, PhraseFails(w) \/ ReadFails(w) \/ WriteFails(w)
      PROVE  WireTypeOK' /\ RxTypeOK'
    BY <1>6 DEF PhraseFails, ReadFails, WriteFails, wireVars, RxEnd
<1>7. ASSUME NEW w \in RxWorkers, InnerLoop(w) PROVE WireTypeOK' /\ RxTypeOK'
    BY <1>7 DEF InnerLoop, wireVars, RxPc
<1>8. ASSUME NEW w \in RxWorkers, ReadHeader(w) PROVE WireTypeOK' /\ RxTypeOK'
  <2>1. wire[sock[w]] \in Seq(Packet) /\ wire[sock[w]] # <<>>
      BY <1>8 DEF ReadHeader
  <2>2. Head(wire[sock[w]]) \in Packet /\ Tail(wire[sock[w]]) \in Seq(Packet)
      BY <2>1
  <2> QED
      BY <1>8, <2>2 DEF ReadHeader, RxPc
<1>9. ASSUME NEW w \in RxWorkers, HeaderEofStale(w) PROVE WireTypeOK' /\ RxTypeOK'
  <2>1. Cut(pkt[w]) \in Packet
      BY PacketFacts
  <2> QED
      BY <1>9, <2>1 DEF HeaderEofStale, wireVars, RxPc
<1>18. ASSUME NEW w \in RxWorkers, HeaderEofStray(w) PROVE WireTypeOK' /\ RxTypeOK'
  <2>1. \A l \in StrayLegs, s \in {0, Foot} : Stray(l, s) \in Packet
      BY RxAssumption DEF Packet, Foot, Stray
  <2>2. PICK p \in Packet : pkt' = [pkt EXCEPT ![w] = p]
      BY <1>18, <2>1 DEF HeaderEofStray
  <2> QED
      BY <1>18, <2>2 DEF HeaderEofStray, wireVars, RxPc
<1>19. ASSUME NEW w \in RxWorkers, HeaderEofHuge(w) PROVE WireTypeOK' /\ RxTypeOK'
    BY <1>19 DEF HeaderEofHuge, wireVars, RxEnd
<1>10. ASSUME NEW w \in RxWorkers, ReadPayload(w) PROVE WireTypeOK' /\ RxTypeOK'
    BY <1>10 DEF ReadPayload, wireVars, RxPc
<1>11. ASSUME NEW w \in RxWorkers, Relay(w) PROVE WireTypeOK' /\ RxTypeOK'
    BY <1>11 DEF Relay, wireVars, RxPc
<1>12. ASSUME NEW w \in RxWorkers, Sequence(w) PROVE WireTypeOK' /\ RxTypeOK'
    BY <1>12 DEF Sequence, wireVars, RxPc
<1>13. ASSUME NEW w \in RxWorkers, SpuriousWakeup(w) PROVE WireTypeOK' /\ RxTypeOK'
    BY <1>13 DEF SpuriousWakeup, wireVars, RxPc
<1>14. ASSUME NEW w \in RxWorkers, Write(w) PROVE WireTypeOK' /\ RxTypeOK'
  <2>1. pkt[w].data \in Nat
      BY DEF Packet
  <2>2. Append(out, pkt[w].data) \in Seq(Nat)
      BY <2>1
  <2> QED
      BY <1>14, <2>2 DEF Write, wireVars, RxPc
<1>15. ASSUME NEW w \in RxWorkers, MarkOpcode(w) PROVE WireTypeOK' /\ RxTypeOK'
    BY <1>15 DEF MarkOpcode, wireVars, RxPc, RxEnd
<1>16. ASSUME NEW w \in RxWorkers, Advance(w) PROVE WireTypeOK' /\ RxTypeOK'
    BY <1>16 DEF Advance, wireVars, RxPc
<1>17. ASSUME NEW w \in RxWorkers, Broadcast(w) PROVE WireTypeOK' /\ RxTypeOK'
    BY <1>17 DEF Broadcast, wireVars, RxPc
<1> QED
    BY <1>1, <1>2, <1>3, <1>4, <1>5, <1>6, <1>7, <1>8, <1>9, <1>10, <1>11, <1>12, <1>13,
       <1>14, <1>15, <1>16, <1>17, <1>18, <1>19 DEF RxNext, RxThread, RxOutside

LEMMA TypeStep == TypeOK /\ [Next]_vars => TypeOK'
<1> SUFFICES ASSUME TypeOK, [Next]_vars PROVE TypeOK'
    OBVIOUS
<1>1. CASE RxNext /\ UNCHANGED feedVars
    BY <1>1, RxTypeStep DEF TypeOK, FeedTypeOK, feedVars
<1>2. CASE FeedNext /\ UNCHANGED rxVars
    BY <1>2, FeedTypeStep DEF TypeOK, RxTypeOK, rxVars
<1>3. CASE UNCHANGED vars
    BY <1>3 DEF vars, TypeOK, WireTypeOK, FeedTypeOK, RxTypeOK, wireVars, feedVars, rxVars
<1> QED
    BY <1>1, <1>2, <1>3 DEF Next

(***************************************************************************)
(* Every variable of the receiver and of the stream it is fed keeps its    *)
(* type, whatever the threads of rx.c do.                                  *)
(***************************************************************************)
THEOREM TypeCorrect == Spec => []TypeOK
BY InitTypeOK, TypeStep, PTL DEF Spec

-----------------------------------------------------------------------------
(* The condition variable *)

(***************************************************************************)
(* The wanted leg is never left asleep with nobody about to broadcast:     *)
(* rxworker() compares and sleeps under rxmutex, and each increment of     *)
(* next_leg is followed by a broadcast of the thread that made it.         *)
(***************************************************************************)
THEOREM WakeupKept == Spec => []NoLostWakeup
<1>1. Init => NoLostWakeup
    BY DEF Init, RxInit, NoLostWakeup
<1>2. TypeOK /\ NoLostWakeup /\ [Next]_vars => NoLostWakeup'
  <2> SUFFICES ASSUME TypeOK, NoLostWakeup, [Next]_vars PROVE NoLostWakeup'
      OBVIOUS
  <2> USE DEF TypeOK, RxTypeOK, NoLostWakeup, At, Goto, Dies
  <2>1. CASE RxPoll
      BY <2>1 DEF RxPoll
  <2>2. ASSUME NEW w \in RxWorkers,
               OuterLoop(w) \/ Accept(w) \/ PhraseOk(w) \/ InnerLoop(w) \/ ReadPayload(w)
                  \/ Relay(w) \/ Write(w) \/ MarkOpcode(w)
        PROVE  NoLostWakeup'
      BY <2>2 DEF OuterLoop, Accept, PhraseOk, InnerLoop, ReadPayload, Relay, Write, MarkOpcode
  <2>3. ASSUME NEW w \in RxWorkers, ReadHeader(w) \/ HeaderEofStale(w) \/ HeaderEofStray(w)
        PROVE  NoLostWakeup'
    <3>1. \A v \in RxWorkers : v # w => pkt'[v] = pkt[v] /\ rpc'[v] = rpc[v]
        BY <2>3 DEF ReadHeader, HeaderEofStale, HeaderEofStray, AtEof
    <3>2. rpc[w] = "header" /\ rpc'[w] = "payload" /\ deaf' = deaf /\ next_leg' = next_leg
        BY <2>3 DEF ReadHeader, HeaderEofStale, HeaderEofStray, AtEof
    <3> QED
        BY <3>1, <3>2
  <2>4. ASSUME NEW w \in RxWorkers,
               HeaderEofHuge(w) \/ PhraseFails(w) \/ ReadFails(w) \/ WriteFails(w)
        PROVE  NoLostWakeup'
      BY <2>4 DEF HeaderEofHuge, PhraseFails, ReadFails, WriteFails
  <2>5. ASSUME NEW w \in RxWorkers, CondInit(w) PROVE NoLostWakeup'
      BY <2>5 DEF CondInit
  <2>6. ASSUME NEW w \in RxWorkers, Sequence(w) PROVE NoLostWakeup'
      BY <2>6 DEF Sequence
  <2>7. ASSUME NEW w \in RxWorkers, SpuriousWakeup(w) PROVE NoLostWakeup'
      BY <2>7 DEF SpuriousWakeup
  <2>8. ASSUME NEW w \in RxWorkers, Advance(w) PROVE NoLostWakeup'
      BY <2>8 DEF Advance
  <2>9. ASSUME NEW w \in RxWorkers, Broadcast(w) PROVE NoLostWakeup'
      BY <2>9 DEF Broadcast
  <2>10. CASE UNCHANGED rxVars
      BY <2>10 DEF rxVars
  <2> QED
      BY <2>1, <2>2, <2>3, <2>4, <2>5, <2>6, <2>7, <2>8, <2>9, <2>10
      DEF Next, RxNext, RxThread, RxOutside, vars
<1> QED
    BY <1>1, <1>2, TypeCorrect, PTL DEF Spec

-----------------------------------------------------------------------------
(* The legs *)

\* A thread in sight of the output has a whole leg.
LEMMA EmitterBears ==
    ASSUME IndInv, NEW w \in RxWorkers, Emitting(w)
    PROVE  Bears(w) /\ pkt[w].leg_id = next_leg
<1>1. pkt[w] \in Packet /\ restartme[w] \in BOOLEAN
    BY DEF IndInv, TypeOK, RxTypeOK
<1>2. ~(pkt[w].size > 0 /\ pkt[w].cut) /\ pkt[w].leg_id = next_leg
    BY <1>1 DEF IndInv, Located, LocatedAt, Emitting
<1>3. pkt[w].opcode \in Genuine /\ Sound(pkt[w])
    BY DEF IndInv, AllSound, Emitting
<1>4. ~pkt[w].cut
    BY <1>1, <1>2, <1>3 DEF Sound, Genuine, Foot, Packet
<1> QED
    BY <1>2, <1>3, <1>4 DEF Bears, Emitting

\* The leg it has is the next piece of the input, or the end.
LEMMA EmitterSound ==
    ASSUME IndInv, NEW w \in RxWorkers, Emitting(w)
    PROVE  /\ pkt[w].opcode = "feed_more" =>
                 pkt[w].size = Foot /\ pkt[w].data = next_leg /\ next_leg < DataLegs
           /\ pkt[w].opcode = "end_of_millipede" => ended /\ next_leg = fed - 1
           /\ next_leg < fed
<1>1. pkt[w].leg_id = next_leg
    BY EmitterBears
<1>2. Sound(pkt[w])
    BY DEF IndInv, AllSound, Emitting
<1> QED
    BY <1>1, <1>2 DEF Sound

LEMMA OneEmitter == IndInv => SoleEmitter
<1> SUFFICES ASSUME IndInv, NEW v \in RxWorkers, NEW w \in RxWorkers, Emitting(v), Emitting(w), v # w
             PROVE  FALSE
    BY DEF SoleEmitter
<1>1. Bears(v) /\ Bears(w) /\ pkt[v].leg_id = pkt[w].leg_id
    BY EmitterBears
<1> QED
    BY <1>1 DEF IndInv, OnePlace, BorneBorne

(***************************************************************************)
(* Most steps move no leg: they leave the wires, the leases and what the   *)
(* threads have read as they are.                                          *)
(***************************************************************************)
Quiet(w) ==
    \/ CondInit(w) \/ OuterLoop(w) \/ Accept(w) \/ PhraseOk(w) \/ InnerLoop(w)
    \/ ReadPayload(w) \/ Relay(w) \/ Sequence(w) \/ Write(w) \/ MarkOpcode(w) \/ Advance(w)
    \/ Broadcast(w) \/ HeaderEofHuge(w) \/ RxOutside(w)

LEMMA QuietKeeps ==
    ASSUME NEW w \in RxWorkers, Quiet(w)
    PROVE  UNCHANGED <<wire, pkt>>
BY DEF Quiet, CondInit, OuterLoop, Accept, Taken, PhraseOk, Answer, InnerLoop, ReadPayload, Relay,
       Sequence, Write, MarkOpcode, Advance, Broadcast, HeaderEofHuge, RxOutside, PhraseFails,
       ReadFails, WriteFails, SpuriousWakeup, wireVars

LEMMA NextCases ==
    ASSUME [Next]_vars
    PROVE  \/ UNCHANGED vars
           \/ RxPoll /\ UNCHANGED feedVars
           \/ \E w \in RxWorkers : Quiet(w) /\ UNCHANGED feedVars
           \/ \E w \in RxWorkers : ReadHeader(w) /\ UNCHANGED feedVars
           \/ \E w \in RxWorkers : HeaderEofStale(w) /\ UNCHANGED feedVars
           \/ \E w \in RxWorkers : HeaderEofStray(w) /\ UNCHANGED feedVars
           \/ \E c \in Conn : Connect(c) /\ UNCHANGED rxVars
           \/ \E c \in Conn : (LeaseData(c) \/ LeaseEnd(c)) /\ UNCHANGED rxVars
           \/ \E c \in Conn : Push(c) /\ UNCHANGED rxVars
           \/ Hangup /\ UNCHANGED rxVars
BY DEF Next, RxNext, RxThread, Quiet, FeedNext

-----------------------------------------------------------------------------
(* AllSound *)

LEMMA SoundStep ==
    ASSUME IndInv, [Next]_vars
    PROVE  AllSound'
<1> USE DEF IndInv, TypeOK, WireTypeOK, FeedTypeOK, RxTypeOK
<1>1. ASSUME UNCHANGED <<wire, lease, pkt, fed, ended>> PROVE AllSound'
    BY <1>1 DEF AllSound, Sound, DataLegs
<1>2. ASSUME NEW w \in RxWorkers, ReadHeader(w), UNCHANGED feedVars PROVE AllSound'
  <2>1. wire[sock[w]] \in Seq(Packet) /\ wire[sock[w]] # <<>> /\ sock[w] \in Conn
      BY <1>2 DEF ReadHeader
  <2>2. /\ Head(wire[sock[w]]) = wire[sock[w]][1] /\ 1 \in 1..Len(wire[sock[w]])
        /\ Len(Tail(wire[sock[w]])) = Len(wire[sock[w]]) - 1
        /\ \A i \in 1..Len(Tail(wire[sock[w]])) :
              i + 1 \in 1..Len(wire[sock[w]]) /\ Tail(wire[sock[w]])[i] = wire[sock[w]][i + 1]
      BY <2>1
  <2>3. \A p \in Packet : Sound(p) => Sound(p)'
      BY <1>2 DEF Sound, DataLegs, feedVars
  <2>4. \A c \in Conn : \A i \in 1..Len(wire'[c]) :
           wire'[c][i].opcode \in Genuine /\ Sound(wire'[c][i])
      BY <1>2, <2>1, <2>2 DEF ReadHeader, AllSound
  <2>5. \A v \in RxWorkers : pkt'[v].opcode \in Genuine => Sound(pkt'[v])
      BY <1>2, <2>1, <2>2 DEF ReadHeader, AllSound
  <2> QED
      BY <1>2, <2>4, <2>5 DEF AllSound, Sound, DataLegs, feedVars
<1>3. ASSUME NEW w \in RxWorkers, HeaderEofStale(w), UNCHANGED feedVars PROVE AllSound'
  <2>1. rpc[w] = "header" /\ wire' = wire
      BY <1>3 DEF HeaderEofStale, AtEof, At, wireVars
  <2>2. pkt[w].opcode # "end_of_millipede"
      BY <2>1 DEF Located, LocatedAt
  <2>3. Cut(pkt[w]).opcode \in Genuine => Sound(Cut(pkt[w]))
      BY <2>2 DEF Cut, Sound, Genuine, AllSound
  <2>4. \A v \in RxWorkers : pkt'[v].opcode \in Genuine => Sound(pkt'[v])
      BY <1>3, <2>3 DEF HeaderEofStale, AllSound
  <2> QED
      BY <1>3, <2>1, <2>4 DEF AllSound, Sound, DataLegs, feedVars
<1>4. ASSUME NEW w \in RxWorkers, HeaderEofStray(w), UNCHANGED feedVars PROVE AllSound'
  <2>1. \A v \in RxWorkers : pkt'[v].opcode \in Genuine => Sound(pkt'[v])
      BY <1>4 DEF HeaderEofStray, AllSound, Stray, Genuine
  <2> QED
      BY <1>4, <2>1 DEF HeaderEofStray, AllSound, Sound, DataLegs, feedVars, wireVars
<1>5. ASSUME NEW c \in Conn, LeaseData(c) \/ LeaseEnd(c), UNCHANGED rxVars PROVE AllSound'
  <2>1. ~ended /\ fed' = fed + 1 /\ wire' = wire /\ pkt' = pkt
      BY <1>5 DEF LeaseData, LeaseEnd, LeaseTo, wireVars, rxVars
  <2>3. lease'[c].opcode \in Genuine /\ Sound(lease[c])' /\ ~lease'[c].cut
    <3>1. CASE LeaseData(c)
        BY <3>1, <2>1 DEF LeaseData, LeaseTo, FeedMore, Sound, DataLegs, Genuine
    <3>2. CASE LeaseEnd(c)
        BY <3>2, <2>1 DEF LeaseEnd, LeaseTo, EndOfMillipede, Sound, DataLegs, Genuine
    <3> QED
        BY <1>5, <3>1, <3>2
  <2>4. \A d \in Conn : d # c => lease'[d] = lease[d]
      BY <1>5 DEF LeaseData, LeaseEnd, LeaseTo
  <2>5. \A d \in Conn : lease'[d] # Blank =>
           lease'[d].opcode \in Genuine /\ Sound(lease[d])' /\ ~lease'[d].cut
    <3> SUFFICES ASSUME NEW d \in Conn, d # c, lease'[d] # Blank
                 PROVE  lease'[d].opcode \in Genuine /\ Sound(lease[d])' /\ ~lease'[d].cut
        BY <2>3
    <3>1. lease'[d] = lease[d] /\ lease[d] \in Packet
        BY <2>4
    <3>2. lease[d].opcode \in Genuine /\ Sound(lease[d]) /\ ~lease[d].cut
        BY <3>1 DEF AllSound
    <3> QED
        BY <2>1, <3>1, <3>2, <1>5 DEF Sound, DataLegs, LeaseData, LeaseEnd, Genuine, Packet
  <2>6. \A d \in Conn : \A i \in 1..Len(wire'[d]) :
           wire'[d][i].opcode \in Genuine /\ Sound(wire[d][i])'
    <3> SUFFICES ASSUME NEW d \in Conn, NEW i \in 1..Len(wire[d])
                 PROVE  wire'[d][i].opcode \in Genuine /\ Sound(wire[d][i])'
        BY <2>1
    <3>1. wire[d][i].opcode \in Genuine /\ Sound(wire[d][i]) /\ wire[d][i] \in Packet
        BY DEF AllSound
    <3> QED
        BY <2>1, <3>1, <1>5 DEF Sound, DataLegs, LeaseData, LeaseEnd, Genuine, Packet
  <2>7. \A v \in RxWorkers : pkt'[v].opcode \in Genuine => Sound(pkt[v])'
      BY <2>1, <1>5 DEF AllSound, Sound, DataLegs, LeaseData, LeaseEnd, Genuine, Packet
  <2> QED
      BY <2>5, <2>6, <2>7 DEF AllSound
<1>6. ASSUME NEW c \in Conn, Push(c), UNCHANGED rxVars PROVE AllSound'
  <2>1. /\ Len(Append(wire[c], lease[c])) = Len(wire[c]) + 1
        /\ \A i \in 1..(Len(wire[c]) + 1) :
              Append(wire[c], lease[c])[i] = IF i <= Len(wire[c]) THEN wire[c][i] ELSE lease[c]
      OBVIOUS
  <2>2. lease[c].opcode \in Genuine /\ Sound(lease[c])
      BY <1>6 DEF Push, AllSound
  <2>3. \A d \in Conn : \A i \in 1..Len(wire'[d]) :
           wire'[d][i].opcode \in Genuine /\ Sound(wire'[d][i])
      BY <1>6, <2>1, <2>2 DEF Push, Writev, AllSound
  <2>4. \A d \in Conn : lease'[d] = lease[d] \/ lease'[d] = Blank
      BY <1>6 DEF Push
  <2> QED
      BY <1>6, <2>3, <2>4 DEF Push, AllSound, Sound, DataLegs, rxVars
<1>7. ASSUME Hangup, UNCHANGED rxVars PROVE AllSound'
  <2>1. PICK K \in SUBSET {c \in Conn : lease[c] # Blank /\ lease[c].size > 0} :
           wire' = [c \in Conn |-> IF c \in K THEN Append(wire[c], Cut(lease[c])) ELSE wire[c]]
      BY <1>7 DEF Hangup, ProcessEnds
  <2>2. \A d \in Conn : \A i \in 1..Len(wire'[d]) :
           wire'[d][i].opcode \in Genuine /\ Sound(wire'[d][i])
    <3> SUFFICES ASSUME NEW d \in Conn, NEW i \in 1..Len(wire'[d])
                 PROVE  wire'[d][i].opcode \in Genuine /\ Sound(wire'[d][i])
        OBVIOUS
    <3>1. CASE d \notin K
        BY <2>1, <3>1 DEF AllSound
    <3>2. CASE d \in K
      <4>1. /\ Len(Append(wire[d], Cut(lease[d]))) = Len(wire[d]) + 1
            /\ \A j \in 1..(Len(wire[d]) + 1) :
                  Append(wire[d], Cut(lease[d]))[j] =
                     IF j <= Len(wire[d]) THEN wire[d][j] ELSE Cut(lease[d])
          BY PacketFacts
      <4>2. Cut(lease[d]).opcode \in Genuine /\ Sound(Cut(lease[d]))
          BY <2>1, <3>2 DEF AllSound, Sound, Cut
      <4> QED
          BY <2>1, <3>2, <4>1, <4>2 DEF AllSound
    <3> QED
        BY <3>1, <3>2
  <2> QED
      BY <1>7, <2>2 DEF Hangup, AllSound, Sound, DataLegs, rxVars, feedVars
<1>8. ASSUME NEW w \in RxWorkers, Quiet(w), UNCHANGED feedVars PROVE AllSound'
    BY <1>1, <1>8, QuietKeeps DEF feedVars
<1>9. CASE RxPoll /\ UNCHANGED feedVars
    BY <1>1, <1>9 DEF RxPoll, feedVars, wireVars
<1>10. ASSUME NEW c \in Conn, Connect(c), UNCHANGED rxVars PROVE AllSound'
    BY <1>1, <1>10 DEF Connect, feedVars, rxVars
<1>11. CASE UNCHANGED vars
    BY <1>1, <1>11 DEF vars, wireVars, feedVars, rxVars
<1> QED
    BY <1>2, <1>3, <1>4, <1>5, <1>6, <1>7, <1>8, <1>9, <1>10, <1>11, NextCases

-----------------------------------------------------------------------------
(* OnePlace *)

\* A thread comes to bear a leg only by reading it.
LEMMA QuietBears ==
    ASSUME TypeOK, NEW w \in RxWorkers, Quiet(w), NEW v \in RxWorkers, Bears(v)'
    PROVE  Bears(v) /\ pkt'[v].leg_id = pkt[v].leg_id
<1> USE DEF TypeOK, RxTypeOK, At, Goto, Dies
<1>1. pkt' = pkt
    BY QuietKeeps
<1>2. rpc'[v] \in {"payload", "relay", "sequence", "waiting", "write", "mark", "advance"}
    BY DEF Bears
<1>3. CASE CondInit(w) \/ OuterLoop(w) \/ Accept(w) \/ PhraseOk(w) \/ InnerLoop(w)
    BY <1>1, <1>2, <1>3 DEF CondInit, OuterLoop, Accept, PhraseOk, InnerLoop, Bears
<1>4. CASE ReadPayload(w) \/ Relay(w) \/ Sequence(w) \/ SpuriousWakeup(w)
    BY <1>1, <1>2, <1>4 DEF ReadPayload, Relay, Sequence, SpuriousWakeup, Bears
<1>5. CASE Write(w) \/ MarkOpcode(w) \/ Advance(w) \/ Broadcast(w)
    BY <1>1, <1>2, <1>5 DEF Write, MarkOpcode, Advance, Broadcast, Bears
<1>6. CASE HeaderEofHuge(w) \/ PhraseFails(w) \/ ReadFails(w) \/ WriteFails(w)
    BY <1>1, <1>2, <1>6 DEF HeaderEofHuge, PhraseFails, ReadFails, WriteFails, Bears
<1> QED
    BY <1>3, <1>4, <1>5, <1>6 DEF Quiet, RxOutside

LEMMA PlaceStep ==
    ASSUME IndInv, [Next]_vars
    PROVE  OnePlace'
<1> USE DEF IndInv, TypeOK, WireTypeOK, FeedTypeOK, RxTypeOK
<1>1. ASSUME UNCHANGED <<wire, lease>>,
             \A v \in RxWorkers : Bears(v)' => Bears(v) /\ pkt'[v].leg_id = pkt[v].leg_id
      PROVE  OnePlace'
    BY <1>1 DEF OnePlace, LeaseLease, WireLease, WireWire, BorneLease, BorneWire, BorneBorne
<1>2. ASSUME NEW w \in RxWorkers, ReadHeader(w), UNCHANGED feedVars PROVE OnePlace'
  <2> DEFINE s == sock[w]
             q == wire[s]
  <2>1. q \in Seq(Packet) /\ q # <<>> /\ s \in Conn
      BY <1>2 DEF ReadHeader
  <2>2. /\ Head(q) = q[1] /\ 1 \in 1..Len(q) /\ Len(Tail(q)) = Len(q) - 1
        /\ \A i \in 1..Len(Tail(q)) : i + 1 \in 1..Len(q) /\ Tail(q)[i] = q[i + 1] /\ i + 1 # 1
      BY <2>1
  <2> HIDE DEF s, q
  <2>3. \A c \in Conn : wire'[c] = IF c = s THEN Tail(q) ELSE wire[c]
      BY <1>2 DEF ReadHeader, s, q
  <2>4. /\ \A v \in RxWorkers : v # w => pkt'[v] = pkt[v] /\ (Bears(v)' <=> Bears(v))
        /\ pkt'[w] = q[1] /\ (Bears(w)' => ~q[1].cut)
      BY <1>2, <2>1, <2>2 DEF ReadHeader, Bears, At, Goto, s, q
  <2>5. lease' = lease
      BY <1>2 DEF feedVars
  <2>6. \A c \in Conn : \A i \in 1..Len(wire'[c]) : \E k \in 1..Len(wire[c]) :
           /\ wire'[c][i] = wire[c][k]
           /\ c = s => k = i + 1
           /\ c # s => k = i
      BY <2>2, <2>3 DEF q
  <2>7. WireLease'
    <3> SUFFICES ASSUME NEW c \in Conn, NEW d \in Conn, NEW i \in 1..Len(wire'[c]),
                        lease'[d] # Blank, ~wire'[c][i].cut
                 PROVE  wire'[c][i].leg_id # lease'[d].leg_id
        BY DEF WireLease
    <3>1. PICK k \in 1..Len(wire[c]) : wire'[c][i] = wire[c][k]
        BY <2>6
    <3> QED
        BY <2>5, <3>1 DEF OnePlace, WireLease
  <2>8. WireWire'
    <3> SUFFICES ASSUME NEW c \in Conn, NEW d \in Conn,
                        NEW i \in 1..Len(wire'[c]), NEW j \in 1..Len(wire'[d]),
                        c # d \/ i # j, ~wire'[c][i].cut, ~wire'[d][j].cut
                 PROVE  wire'[c][i].leg_id # wire'[d][j].leg_id
        BY DEF WireWire
    <3>1. PICK k \in 1..Len(wire[c]) :
             wire'[c][i] = wire[c][k] /\ (c = s => k = i + 1) /\ (c # s => k = i)
        BY <2>6
    <3>2. PICK l \in 1..Len(wire[d]) :
             wire'[d][j] = wire[d][l] /\ (d = s => l = j + 1) /\ (d # s => l = j)
        BY <2>6
    <3>3. c # d \/ k # l
        BY <3>1, <3>2
    <3> QED
        BY <3>1, <3>2, <3>3 DEF OnePlace, WireWire
  <2>9. BorneLease'
    <3> SUFFICES ASSUME NEW v \in RxWorkers, NEW c \in Conn, Bears(v)', lease'[c] # Blank
                 PROVE  lease'[c].leg_id # pkt'[v].leg_id
        BY DEF BorneLease
    <3>1. CASE v # w
        BY <2>4, <2>5, <3>1 DEF OnePlace, BorneLease
    <3>2. CASE v = w
      <4>1. pkt'[v] = wire[s][1] /\ 1 \in 1..Len(wire[s]) /\ ~wire[s][1].cut
          BY <2>2, <2>4, <3>2 DEF q
      <4> QED
          BY <2>1, <2>5, <4>1 DEF OnePlace, WireLease
    <3> QED
        BY <3>1, <3>2
  <2>10. BorneWire'
    <3> SUFFICES ASSUME NEW v \in RxWorkers, NEW c \in Conn, NEW i \in 1..Len(wire'[c]),
                        Bears(v)', ~wire'[c][i].cut
                 PROVE  wire'[c][i].leg_id # pkt'[v].leg_id
        BY DEF BorneWire
    <3>1. PICK k \in 1..Len(wire[c]) :
             wire'[c][i] = wire[c][k] /\ (c = s => k = i + 1) /\ (c # s => k = i)
        BY <2>6
    <3>2. CASE v # w
        BY <2>4, <3>1, <3>2 DEF OnePlace, BorneWire
    <3>3. CASE v = w
      <4>1. c # s \/ k # 1
          BY <3>1
      <4>2. pkt'[v] = wire[s][1] /\ 1 \in 1..Len(wire[s]) /\ ~wire[s][1].cut
          BY <2>2, <2>4, <3>3 DEF q
      <4> QED
          BY <2>1, <3>1, <4>1, <4>2 DEF OnePlace, WireWire
    <3> QED
        BY <3>2, <3>3
  <2>11. BorneBorne'
    <3>1. \A v \in RxWorkers : v # w /\ Bears(v)' /\ Bears(w)' => pkt'[v].leg_id # pkt'[w].leg_id
      <4> SUFFICES ASSUME NEW v \in RxWorkers, v # w, Bears(v)', Bears(w)'
                   PROVE  pkt'[v].leg_id # pkt'[w].leg_id
          OBVIOUS
      <4>1. pkt'[w] = wire[s][1] /\ 1 \in 1..Len(wire[s]) /\ ~wire[s][1].cut
          BY <2>2, <2>4 DEF q
      <4> QED
          BY <2>1, <2>4, <4>1 DEF OnePlace, BorneWire
    <3>2. \A v, u \in RxWorkers : v # w /\ u # w /\ v # u /\ Bears(v)' /\ Bears(u)'
             => pkt'[v].leg_id # pkt'[u].leg_id
        BY <2>4 DEF OnePlace, BorneBorne
    <3> QED
        BY <3>1, <3>2 DEF BorneBorne
  <2>12. LeaseLease'
      BY <2>5 DEF OnePlace, LeaseLease
  <2> QED
      BY <2>7, <2>8, <2>9, <2>10, <2>11, <2>12 DEF OnePlace
<1>3. ASSUME NEW w \in RxWorkers, HeaderEofStale(w) \/ HeaderEofStray(w), UNCHANGED feedVars
      PROVE  OnePlace'
  <2>1. pkt'[w].cut
      BY <1>3 DEF HeaderEofStale, HeaderEofStray, Cut, Stray
  <2>2. \A v \in RxWorkers : v # w => pkt'[v] = pkt[v] /\ rpc'[v] = rpc[v]
      BY <1>3 DEF HeaderEofStale, HeaderEofStray, AtEof, Goto
  <2>3. UNCHANGED <<wire, lease>>
      BY <1>3 DEF HeaderEofStale, HeaderEofStray, wireVars, feedVars
  <2> QED
      BY <1>1, <2>1, <2>2, <2>3 DEF Bears
<1>4. ASSUME NEW c \in Conn, LeaseData(c) \/ LeaseEnd(c), UNCHANGED rxVars PROVE OnePlace'
  <2>1. /\ lease'[c].leg_id = fed
        /\ \A d \in Conn : d # c => lease'[d] = lease[d]
        /\ UNCHANGED <<wire, pkt, rpc>>
      BY <1>4 DEF LeaseData, LeaseEnd, LeaseTo, FeedMore, EndOfMillipede, wireVars, rxVars
  <2>2. \A d \in Conn : lease[d] # Blank => lease[d].leg_id < fed
      BY DEF AllSound, Sound
  <2>3. \A d \in Conn : \A i \in 1..Len(wire[d]) : wire[d][i].leg_id < fed
      BY DEF AllSound, Sound
  <2>4. \A v \in RxWorkers : Bears(v) => pkt[v].leg_id < fed
      BY DEF AllSound, Sound, Bears
  <2>5. OnePlace /\ fed \in Nat
      OBVIOUS
  <2> HIDE DEF IndInv, TypeOK, WireTypeOK, FeedTypeOK, RxTypeOK
  <2>6. LeaseLease'
      BY <2>1, <2>2, <2>5 DEF LeaseLease, OnePlace
  <2>7. WireLease'
      BY <2>1, <2>3, <2>5 DEF WireLease, OnePlace
  <2>8. BorneLease'
    <3>1. \A v \in RxWorkers : Bears(v)' <=> Bears(v)
        BY <2>1 DEF Bears
    <3> QED
        BY <2>1, <2>4, <2>5, <3>1 DEF BorneLease, OnePlace
  <2> QED
      BY <2>1, <2>5, <2>6, <2>7, <2>8 DEF OnePlace, WireWire, BorneWire, BorneBorne, Bears
<1>5. ASSUME NEW c \in Conn, Push(c), UNCHANGED rxVars PROVE OnePlace'
  <2>1. /\ lease[c] # Blank /\ lease'[c] = Blank
        /\ \A d \in Conn : d # c => lease'[d] = lease[d]
        /\ UNCHANGED <<pkt, rpc>>
      BY <1>5 DEF Push, rxVars
  <2>2. \A d \in Conn : \A i \in 1..Len(wire'[d]) :
           \/ i \in 1..Len(wire[d]) /\ wire'[d][i] = wire[d][i]
           \/ d = c /\ i = Len(wire[c]) + 1 /\ wire'[d][i] = lease[c]
    <3>1. /\ Len(Append(wire[c], lease[c])) = Len(wire[c]) + 1
          /\ \A i \in 1..(Len(wire[c]) + 1) :
                Append(wire[c], lease[c])[i] = IF i <= Len(wire[c]) THEN wire[c][i] ELSE lease[c]
        OBVIOUS
    <3> QED
        BY <1>5, <3>1 DEF Push, Writev
  <2>3. OnePlace /\ \A d \in Conn : Len(wire[d]) \in Nat
      OBVIOUS
  <2> HIDE DEF IndInv, TypeOK, WireTypeOK, FeedTypeOK, RxTypeOK
  <2>4. LeaseLease'
      BY <2>1, <2>3 DEF LeaseLease, OnePlace
  <2>5. WireLease'
    <3> SUFFICES ASSUME NEW d \in Conn, NEW e \in Conn, NEW i \in 1..Len(wire'[d]),
                        lease'[e] # Blank, ~wire'[d][i].cut
                 PROVE  wire'[d][i].leg_id # lease'[e].leg_id
        BY DEF WireLease
    <3>1. e # c /\ lease'[e] = lease[e]
        BY <2>1
    <3> QED
        BY <2>1, <2>2, <2>3, <3>1 DEF WireLease, LeaseLease, OnePlace
  <2>6. WireWire'
    <3> SUFFICES ASSUME NEW d \in Conn, NEW e \in Conn,
                        NEW i \in 1..Len(wire'[d]), NEW j \in 1..Len(wire'[e]),
                        d # e \/ i # j, ~wire'[d][i].cut, ~wire'[e][j].cut
                 PROVE  wire'[d][i].leg_id # wire'[e][j].leg_id
        BY DEF WireWire
    <3>1. CASE i \in 1..Len(wire[d]) /\ wire'[d][i] = wire[d][i]
        BY <2>1, <2>2, <2>3, <3>1 DEF WireWire, WireLease, OnePlace
    <3>2. CASE d = c /\ i = Len(wire[c]) + 1 /\ wire'[d][i] = lease[c]
        BY <2>1, <2>2, <2>3, <3>2 DEF WireLease, OnePlace
    <3> QED
        BY <2>2, <3>1, <3>2
  <2>7. \A v \in RxWorkers : Bears(v)' <=> Bears(v)
      BY <2>1 DEF Bears
  <2>8. BorneLease'
      BY <2>1, <2>3, <2>7 DEF BorneLease, OnePlace
  <2>9. BorneWire'
      BY <2>1, <2>2, <2>3, <2>7 DEF BorneWire, BorneLease, OnePlace
  <2>10. BorneBorne'
      BY <2>1, <2>3, <2>7 DEF BorneBorne, OnePlace
  <2> QED
      BY <2>4, <2>5, <2>6, <2>8, <2>9, <2>10 DEF OnePlace
<1>6. ASSUME Hangup, UNCHANGED rxVars PROVE OnePlace'
  <2>1. \A d \in Conn : \A i \in 1..Len(wire'[d]) :
           \/ i \in 1..Len(wire[d]) /\ wire'[d][i] = wire[d][i]
           \/ wire'[d][i].cut
    <3>1. PICK K \in SUBSET {c \in Conn : lease[c] # Blank /\ lease[c].size > 0} :
             wire' = [c \in Conn |-> IF c \in K THEN Append(wire[c], Cut(lease[c])) ELSE wire[c]]
        BY <1>6 DEF Hangup, ProcessEnds
    <3>2. \A d \in Conn :
             /\ Len(Append(wire[d], Cut(lease[d]))) = Len(wire[d]) + 1
             /\ \A j \in 1..(Len(wire[d]) + 1) :
                   Append(wire[d], Cut(lease[d]))[j] =
                      IF j <= Len(wire[d]) THEN wire[d][j] ELSE Cut(lease[d])
        BY PacketFacts
    <3>3. \A d \in Conn : Cut(lease[d]).cut
        BY DEF Cut
    <3> QED
        BY <3>1, <3>2, <3>3
  <2>2. UNCHANGED <<lease, pkt, rpc>>
      BY <1>6 DEF Hangup, feedVars, rxVars
  <2>3. OnePlace
      OBVIOUS
  <2> HIDE DEF IndInv, TypeOK, WireTypeOK, FeedTypeOK, RxTypeOK
  <2>4. WireLease'
      BY <2>1, <2>2, <2>3 DEF WireLease, OnePlace
  <2>5. WireWire'
    <3> SUFFICES ASSUME NEW d \in Conn, NEW e \in Conn,
                        NEW i \in 1..Len(wire'[d]), NEW j \in 1..Len(wire'[e]),
                        d # e \/ i # j, ~wire'[d][i].cut, ~wire'[e][j].cut
                 PROVE  wire'[d][i].leg_id # wire'[e][j].leg_id
        BY DEF WireWire
    <3>1. i \in 1..Len(wire[d]) /\ wire'[d][i] = wire[d][i]
        BY <2>1
    <3>2. j \in 1..Len(wire[e]) /\ wire'[e][j] = wire[e][j]
        BY <2>1
    <3> QED
        BY <2>3, <3>1, <3>2 DEF WireWire, OnePlace
  <2>6. \A v \in RxWorkers : Bears(v)' <=> Bears(v)
      BY <2>2 DEF Bears
  <2>7. BorneWire'
      BY <2>1, <2>2, <2>3, <2>6 DEF BorneWire, OnePlace
  <2> QED
      BY <2>2, <2>3, <2>4, <2>5, <2>6, <2>7 DEF OnePlace, LeaseLease, BorneLease, BorneBorne
<1>7. ASSUME NEW w \in RxWorkers, Quiet(w), UNCHANGED feedVars PROVE OnePlace'
    BY <1>1, <1>7, QuietKeeps, QuietBears DEF feedVars
<1>8. ASSUME UNCHANGED <<wire, lease, pkt, rpc>> PROVE OnePlace'
    BY <1>1, <1>8 DEF Bears
<1>9. CASE RxPoll /\ UNCHANGED feedVars
    BY <1>8, <1>9 DEF RxPoll, feedVars, wireVars
<1>10. ASSUME NEW c \in Conn, Connect(c), UNCHANGED rxVars PROVE OnePlace'
    BY <1>8, <1>10 DEF Connect, feedVars, rxVars
<1>11. CASE UNCHANGED vars
    BY <1>8, <1>11 DEF vars, wireVars, feedVars, rxVars
<1> QED
    BY <1>2, <1>3, <1>4, <1>5, <1>6, <1>7, <1>9, <1>10, <1>11, NextCases

-----------------------------------------------------------------------------
(* Located *)

LEMMA LocatedStep ==
    ASSUME IndInv, [Next]_vars
    PROVE  Located'
<1> USE DEF IndInv, TypeOK, RxTypeOK, At, Goto, Dies
\* A thread that does not move keeps what it knows while the counter stands.
<1>1. ASSUME NEW v \in RxWorkers, next_leg' = next_leg, done_mbox => done_mbox',
             rpc'[v] = rpc[v], pkt'[v] = pkt[v], restartme'[v] = restartme[v]
      PROVE  LocatedAt(v)'
    BY <1>1 DEF Located, LocatedAt, Emitting
<1>2. ASSUME NEW w \in RxWorkers, LocatedAt(w)', next_leg' = next_leg, done_mbox => done_mbox',
             \A v \in RxWorkers : v # w =>
                rpc'[v] = rpc[v] /\ pkt'[v] = pkt[v] /\ restartme'[v] = restartme[v]
      PROVE  Located'
    BY <1>1, <1>2 DEF Located
<1>3. ASSUME NEW w \in RxWorkers, CondInit(w) \/ OuterLoop(w) \/ InnerLoop(w) PROVE Located'
  <2>1. LocatedAt(w)'
      BY <1>3 DEF CondInit, OuterLoop, InnerLoop, Located, LocatedAt, Emitting
  <2> QED
      BY <1>2, <1>3, <2>1 DEF CondInit, OuterLoop, InnerLoop
<1>4. ASSUME NEW w \in RxWorkers, Accept(w) \/ PhraseOk(w) PROVE Located'
  <2>1. LocatedAt(w)'
      BY <1>4 DEF Accept, PhraseOk, Located, LocatedAt, Emitting
  <2> QED
      BY <1>2, <1>4, <2>1 DEF Accept, PhraseOk
<1>5. ASSUME NEW w \in RxWorkers, ReadHeader(w) \/ HeaderEofStale(w) \/ HeaderEofStray(w)
      PROVE  Located'
  <2>1. rpc'[w] = "payload"
      BY <1>5 DEF ReadHeader, HeaderEofStale, HeaderEofStray
  <2>4. ASSUME ReadHeader(w) PROVE pkt'[w].opcode \in Genuine
    <3>1. wire[sock[w]] \in Seq(Packet) /\ wire[sock[w]] # <<>> /\ sock[w] \in Conn
        BY <2>4 DEF ReadHeader, WireTypeOK
    <3>2. Head(wire[sock[w]]) = wire[sock[w]][1] /\ 1 \in 1..Len(wire[sock[w]])
        BY <3>1
    <3>3. pkt'[w] = wire[sock[w]][1]
        BY <2>4, <3>2 DEF ReadHeader
    <3> QED
        BY <3>1, <3>2, <3>3 DEF AllSound
  <2>5. ASSUME HeaderEofStale(w) \/ HeaderEofStray(w) PROVE pkt'[w].cut
      BY <2>5 DEF HeaderEofStale, HeaderEofStray, Cut, Stray
  <2>2. LocatedAt(w)'
      BY <1>5, <2>1, <2>4, <2>5 DEF LocatedAt, Emitting
  <2>3. /\ UNCHANGED <<next_leg, done_mbox, restartme>>
        /\ \A v \in RxWorkers : v # w => rpc'[v] = rpc[v] /\ pkt'[v] = pkt[v]
      BY <1>5 DEF ReadHeader, HeaderEofStale, HeaderEofStray
  <2> QED
      BY <1>2, <2>2, <2>3
<1>6. ASSUME NEW w \in RxWorkers, ReadPayload(w) \/ Relay(w) PROVE Located'
  <2>1. LocatedAt(w)'
      BY <1>6 DEF ReadPayload, Relay, Located, LocatedAt, Emitting
  <2> QED
      BY <1>2, <1>6, <2>1 DEF ReadPayload, Relay
<1>7. ASSUME NEW w \in RxWorkers, Sequence(w) \/ SpuriousWakeup(w) PROVE Located'
  <2>1. pkt[w].opcode = "end_of_millipede" => pkt[w].size = 0
      BY DEF AllSound, Sound, Genuine
  <2>2. LocatedAt(w)'
      BY <1>7, <2>1 DEF Sequence, SpuriousWakeup, Located, LocatedAt, Emitting
  <2> QED
      BY <1>2, <1>7, <2>2 DEF Sequence, SpuriousWakeup
<1>8. ASSUME NEW w \in RxWorkers, Write(w) \/ MarkOpcode(w) PROVE Located'
  <2>1. LocatedAt(w)'
      BY <1>8 DEF Write, MarkOpcode, Located, LocatedAt, Emitting
  <2> QED
      BY <1>2, <1>8, <2>1 DEF Write, MarkOpcode
<1>9. ASSUME NEW w \in RxWorkers, Advance(w) PROVE Located'
  <2>1. Emitting(w)
      BY <1>9 DEF Advance, Located, LocatedAt, Emitting
  <2>2. \A v \in RxWorkers : v # w => ~Emitting(v)
      BY <2>1, OneEmitter DEF SoleEmitter
  <2> QED
      BY <1>9, <2>2 DEF Advance, Located, LocatedAt, Emitting
<1>10. ASSUME NEW w \in RxWorkers, Broadcast(w) PROVE Located'
    BY <1>10 DEF Broadcast, Located, LocatedAt, Emitting
<1>11. ASSUME UNCHANGED <<rpc, pkt, restartme, next_leg, done_mbox>> PROVE Located'
    BY <1>1, <1>11 DEF Located
<1>12. ASSUME NEW w \in RxWorkers, HeaderEofHuge(w) \/ PhraseFails(w) \/ ReadFails(w) \/ WriteFails(w)
       PROVE  Located'
    BY <1>11, <1>12 DEF HeaderEofHuge, PhraseFails, ReadFails, WriteFails
<1>13. CASE RxPoll
    BY <1>11, <1>13 DEF RxPoll
<1>14. CASE UNCHANGED rxVars
    BY <1>11, <1>14 DEF rxVars
<1> QED
    BY <1>3, <1>4, <1>5, <1>6, <1>7, <1>8, <1>9, <1>10, <1>12, <1>13, <1>14
    DEF Next, RxNext, RxThread, RxOutside, vars

-----------------------------------------------------------------------------
(* RelayFirst *)

LEMMA RelayStep ==
    ASSUME IndInv, [Next]_vars
    PROVE  RelayFirst'
<1> USE DEF IndInv, TypeOK, RxTypeOK, At, Goto, Dies
<1>1. ASSUME NEW w \in RxWorkers,
             \/ CondInit(w) \/ OuterLoop(w) \/ InnerLoop(w) \/ Accept(w) \/ PhraseOk(w)
             \/ ReadPayload(w) \/ Sequence(w) \/ SpuriousWakeup(w)
      PROVE  RelayFirst'
    BY <1>1 DEF CondInit, OuterLoop, InnerLoop, Accept, PhraseOk, ReadPayload, Sequence,
                SpuriousWakeup, RelayFirst
<1>2. ASSUME NEW w \in RxWorkers, Write(w) \/ MarkOpcode(w) \/ Broadcast(w) PROVE RelayFirst'
    BY <1>2 DEF Write, MarkOpcode, Broadcast, RelayFirst
<1>3. ASSUME NEW w \in RxWorkers, ReadHeader(w) \/ HeaderEofStale(w) \/ HeaderEofStray(w)
      PROVE  RelayFirst'
  <2>1. /\ rpc'[w] = "payload" /\ UNCHANGED <<next_leg, output_fd>>
        /\ \A v \in RxWorkers : v # w => rpc'[v] = rpc[v] /\ pkt'[v] = pkt[v]
      BY <1>3 DEF ReadHeader, HeaderEofStale, HeaderEofStray
  <2> QED
      BY <2>1 DEF RelayFirst
<1>4. ASSUME NEW w \in RxWorkers, Relay(w) PROVE RelayFirst'
    BY <1>4 DEF Relay, RelayFirst
<1>5. ASSUME NEW w \in RxWorkers, Advance(w) PROVE RelayFirst'
  <2>1. pkt[w].leg_id = next_leg
      BY <1>5 DEF Advance, Located, LocatedAt, Emitting
  <2>2. output_fd = 1
      BY <1>5, <2>1 DEF Advance, RelayFirst
  <2> QED
      BY <1>5, <2>2 DEF Advance, RelayFirst
<1>6. ASSUME UNCHANGED <<rpc, pkt, next_leg, output_fd>> PROVE RelayFirst'
    BY <1>6 DEF RelayFirst
<1>7. ASSUME NEW w \in RxWorkers, HeaderEofHuge(w) \/ PhraseFails(w) \/ ReadFails(w) \/ WriteFails(w)
      PROVE  RelayFirst'
    BY <1>6, <1>7 DEF HeaderEofHuge, PhraseFails, ReadFails, WriteFails
<1>8. CASE RxPoll
    BY <1>6, <1>8 DEF RxPoll
<1>9. CASE UNCHANGED rxVars
    BY <1>6, <1>9 DEF rxVars
<1> QED
    BY <1>1, <1>2, <1>3, <1>4, <1>5, <1>7, <1>8, <1>9 DEF Next, RxNext, RxThread, RxOutside, vars

-----------------------------------------------------------------------------
(* Counted *)

LEMMA CountedStep ==
    ASSUME IndInv, [Next]_vars
    PROVE  Counted'
<1> USE DEF IndInv, TypeOK, FeedTypeOK, RxTypeOK, At, Goto, Dies
<1>1. ASSUME UNCHANGED <<out, next_leg, done_mbox, fed, ended>>,
             \A v \in RxWorkers : Written(v)' <=> Written(v)
      PROVE  Counted'
    BY <1>1 DEF Counted, DataLegs
<1>2. ASSUME NEW w \in RxWorkers, UNCHANGED feedVars,
             \/ CondInit(w) \/ OuterLoop(w) \/ InnerLoop(w) \/ Accept(w) \/ PhraseOk(w)
             \/ ReadPayload(w) \/ Relay(w) \/ Sequence(w) \/ SpuriousWakeup(w) \/ Broadcast(w)
      PROVE  Counted'
  <2>1. \A v \in RxWorkers : Written(v)' <=> Written(v)
      BY <1>2 DEF CondInit, OuterLoop, InnerLoop, Accept, PhraseOk, ReadPayload, Relay, Sequence,
                  SpuriousWakeup, Broadcast, Written
  <2> QED
      BY <1>1, <1>2, <2>1 DEF CondInit, OuterLoop, InnerLoop, Accept, PhraseOk, ReadPayload, Relay,
                  Sequence, SpuriousWakeup, Broadcast, feedVars
<1>3. ASSUME NEW w \in RxWorkers, UNCHANGED feedVars,
             ReadHeader(w) \/ HeaderEofStale(w) \/ HeaderEofStray(w)
      PROVE  Counted'
  <2>1. /\ rpc[w] = "header" /\ rpc'[w] = "payload" /\ UNCHANGED <<out, next_leg, done_mbox>>
        /\ \A v \in RxWorkers : v # w => rpc'[v] = rpc[v] /\ pkt'[v] = pkt[v]
      BY <1>3 DEF ReadHeader, HeaderEofStale, HeaderEofStray, AtEof
  <2> QED
      BY <1>1, <1>3, <2>1 DEF Written, feedVars
<1>4. ASSUME NEW w \in RxWorkers, UNCHANGED feedVars, Write(w) PROVE Counted'
  <2>1. pkt[w] \in Packet /\ restartme[w] \in BOOLEAN
      OBVIOUS
  <2>2. /\ rpc' = [rpc EXCEPT ![w] = "mark"] /\ rpc[w] = "write"
        /\ UNCHANGED <<pkt, next_leg, done_mbox, fed, ended>>
      BY <1>4 DEF Write, feedVars
  <2>3. CASE pkt[w].opcode = "feed_more"
    <3>1. Emitting(w)
        BY <2>2, <2>3 DEF Emitting, Genuine
    <3>2. \A v \in RxWorkers : ~Written(v)
        BY <2>2, <3>1, OneEmitter DEF SoleEmitter, Written, Emitting, Genuine
    <3>3. pkt[w].size = Foot /\ pkt[w].data = next_leg /\ next_leg < DataLegs
        BY <2>3, <3>1, EmitterSound
    <3>4. Len(out) = next_leg
        BY <3>2, <3>3 DEF Counted, DataLegs
    <3>5. out' = Append(out, next_leg)
        BY <1>4, <3>3 DEF Write, Foot
    <3>6. /\ Len(out') = next_leg + 1
          /\ \A i \in 1..Len(out') : out'[i] = i - 1
        BY <3>4, <3>5 DEF Counted
    <3>7. Written(w)'
        BY <2>2, <2>3 DEF Written
    <3> QED
        BY <2>2, <3>6, <3>7 DEF Counted, DataLegs
  <2>4. CASE pkt[w].opcode # "feed_more"
    <3>1. ~(pkt[w].size > 0)
        BY <2>1, <2>2, <2>4 DEF Located, LocatedAt, AllSound, Sound, Genuine
    <3>2. out' = out
        BY <1>4, <3>1 DEF Write
    <3>3. \A v \in RxWorkers : Written(v)' <=> Written(v)
        BY <2>2, <2>4 DEF Written
    <3> QED
        BY <1>1, <2>2, <3>2, <3>3
  <2> QED
      BY <2>3, <2>4
<1>5. ASSUME NEW w \in RxWorkers, UNCHANGED feedVars, MarkOpcode(w) PROVE Counted'
  <2>1. \A v \in RxWorkers : Written(v)' <=> Written(v)
      BY <1>5 DEF MarkOpcode, Written, Genuine
  <2>2. UNCHANGED <<out, next_leg, fed, ended>>
      BY <1>5 DEF MarkOpcode, feedVars
  <2>3. ASSUME pkt[w].opcode = "end_of_millipede" PROVE ended /\ next_leg >= DataLegs
    <3>1. Emitting(w)
        BY <1>5, <2>3 DEF MarkOpcode, Emitting, Genuine
    <3>2. ended /\ next_leg = fed - 1
        BY <2>3, <3>1, EmitterSound
    <3> QED
        BY <3>2 DEF DataLegs
  <2>4. done_mbox' => ended /\ next_leg >= DataLegs
    <3>1. done_mbox' = (done_mbox \/ pkt[w].opcode = "end_of_millipede")
        BY <1>5 DEF MarkOpcode
    <3> QED
        BY <2>3, <3>1 DEF Counted
  <2>5. DataLegs' = DataLegs
      BY <2>2 DEF DataLegs
  <2> QED
      BY <2>1, <2>2, <2>4, <2>5 DEF Counted
<1>6. ASSUME NEW w \in RxWorkers, UNCHANGED feedVars, Advance(w) PROVE Counted'
  <2>1. /\ rpc[w] = "advance" /\ rpc' = [rpc EXCEPT ![w] = "notify"] /\ next_leg' = next_leg + 1
        /\ UNCHANGED <<pkt, out, done_mbox, fed, ended>>
      BY <1>6 DEF Advance, feedVars
  <2>2. Emitting(w)
      BY <2>1 DEF Located, LocatedAt, Emitting
  <2>3. \A v \in RxWorkers : v # w => ~Written(v)
      BY <2>2, OneEmitter DEF SoleEmitter, Written, Emitting, Genuine
  <2>4. \A v \in RxWorkers : ~Written(v)'
      BY <2>1, <2>3 DEF Written
  <2>5. /\ pkt[w].opcode = "feed_more" => next_leg < DataLegs
        /\ pkt[w].opcode = "end_of_millipede" => ended /\ next_leg = fed - 1
        /\ next_leg < fed /\ pkt[w].opcode \in Genuine
      BY <2>2, EmitterSound DEF Emitting
  <2>6. CASE pkt[w].opcode = "feed_more"
    <3>1. Len(out) = next_leg + 1
        BY <2>1, <2>6 DEF Counted, Written
    <3> QED
        BY <2>1, <2>4, <2>5, <2>6, <3>1 DEF Counted, DataLegs
  <2>7. CASE pkt[w].opcode = "end_of_millipede"
    <3>1. \A v \in RxWorkers : ~Written(v)
        BY <2>3, <2>7 DEF Written
    <3> QED
        BY <2>1, <2>4, <2>5, <2>7, <3>1 DEF Counted, DataLegs
  <2> QED
      BY <2>5, <2>6, <2>7 DEF Genuine
<1>7. ASSUME NEW c \in Conn, LeaseData(c) \/ LeaseEnd(c), UNCHANGED rxVars PROVE Counted'
  <2>1. /\ ~ended /\ fed' = fed + 1 /\ UNCHANGED <<out, next_leg, done_mbox>>
        /\ \A v \in RxWorkers : Written(v)' <=> Written(v)
      BY <1>7 DEF LeaseData, LeaseEnd, LeaseTo, rxVars, Written
  <2>2. next_leg <= DataLegs /\ next_leg <= DataLegs' /\ next_leg <= fed + 1 /\ ~done_mbox
      BY <1>7, <2>1 DEF LeaseData, LeaseEnd, DataLegs, Counted
  <2> QED
      BY <2>1, <2>2 DEF Counted
<1>8. ASSUME UNCHANGED <<rpc, pkt, out, next_leg, done_mbox, fed, ended>> PROVE Counted'
    BY <1>1, <1>8 DEF Written
<1>9. ASSUME NEW w \in RxWorkers, UNCHANGED feedVars,
             HeaderEofHuge(w) \/ PhraseFails(w) \/ ReadFails(w) \/ WriteFails(w)
      PROVE  Counted'
    BY <1>8, <1>9 DEF HeaderEofHuge, PhraseFails, ReadFails, WriteFails, feedVars
<1>10. CASE RxPoll /\ UNCHANGED feedVars
    BY <1>8, <1>10 DEF RxPoll, feedVars
<1>11. ASSUME NEW c \in Conn, Connect(c) \/ Push(c) \/ Hangup, UNCHANGED rxVars PROVE Counted'
    BY <1>8, <1>11 DEF Connect, Push, Hangup, feedVars, rxVars
<1>12. CASE UNCHANGED vars
    BY <1>8, <1>12 DEF vars, feedVars, rxVars
<1>13. CASE Hangup /\ UNCHANGED rxVars
    BY <1>11, <1>13, ConnAssumption
<1> QED
    BY <1>2, <1>3, <1>4, <1>5, <1>6, <1>7, <1>9, <1>10, <1>11, <1>12, <1>13
    DEF Next, RxNext, RxThread, RxOutside, FeedNext

-----------------------------------------------------------------------------
(* The invariant and what follows from it *)

LEMMA InitIndInv == Init => IndInv
<1> SUFFICES ASSUME Init PROVE IndInv
    OBVIOUS
<1>1. TypeOK
    BY InitTypeOK
<1>2. /\ \A w \in RxWorkers : rpc[w] = "launched" /\ pkt[w] = Blank
      /\ \A c \in Conn : wire[c] = <<>> /\ lease[c] = Blank
      /\ next_leg = 0 /\ done_mbox = FALSE /\ out = <<>> /\ fed = 0 /\ ended = FALSE
    BY DEF Init, WireInit, FeedInit, RxInit
<1>3. AllSound
    BY <1>2 DEF AllSound, Blank, Genuine
<1>4. OnePlace
    BY <1>2 DEF OnePlace, LeaseLease, WireLease, WireWire, BorneLease, BorneWire, BorneBorne, Bears
<1>5. Located
    BY <1>2 DEF Located, LocatedAt, Emitting, Blank
<1>6. Counted /\ RelayFirst
    BY <1>2 DEF Counted, RelayFirst, Written, DataLegs
<1> QED
    BY <1>1, <1>2, <1>3, <1>4, <1>5, <1>6 DEF IndInv

LEMMA IndInvStep == IndInv /\ [Next]_vars => IndInv'
<1> SUFFICES ASSUME IndInv, [Next]_vars PROVE IndInv'
    OBVIOUS
<1>1. TypeOK'
    BY TypeStep DEF IndInv
<1>2. (fed = 0 => ~ended)'
  <2>1. fed \in Nat /\ (fed = 0 => ~ended)
      BY DEF IndInv, TypeOK, FeedTypeOK
  <2>2. CASE UNCHANGED <<fed, ended>>
      BY <2>1, <2>2
  <2>3. ASSUME NEW c \in Conn, LeaseData(c) \/ LeaseEnd(c) PROVE fed' # 0
      BY <2>1, <2>3 DEF LeaseData, LeaseEnd, LeaseTo
  <2> QED
      BY <2>2, <2>3 DEF Next, FeedNext, Connect, Push, Hangup, feedVars, vars
<1> QED
    BY <1>1, <1>2, SoundStep, PlaceStep, LocatedStep, CountedStep, RelayStep DEF IndInv

(***************************************************************************)
(* The invariant of module ReceiverInv holds in every state the receiver   *)
(* of rx.c can reach behind a transmitter that keeps its promise.          *)
(***************************************************************************)
THEOREM Invariance == Spec => []IndInv
BY InitIndInv, IndInvStep, PTL DEF Spec

(***************************************************************************)
(* The lock-free stretch of rxworker() from the sequencer to next_leg++ is *)
(* run by one thread at a time.                                            *)
(***************************************************************************)
THEOREM EmittersExclude == Spec => []SoleEmitter
BY Invariance, OneEmitter, PTL

LEMMA OpenWhenWritten == IndInv => OutputOpen
<1> SUFFICES ASSUME IndInv, NEW w \in RxWorkers, rpc[w] = "write", pkt[w].size > 0
             PROVE  output_fd = 1
    BY DEF OutputOpen
<1>1. pkt[w] \in Packet /\ restartme[w] \in BOOLEAN /\ next_leg \in Nat
    BY DEF IndInv, TypeOK, RxTypeOK
<1>2. pkt[w].opcode \in Genuine
    BY <1>1 DEF IndInv, Located, LocatedAt
<1>3. pkt[w].leg_id = next_leg
    BY <1>2 DEF IndInv, Located, LocatedAt, Emitting
<1> QED
    BY <1>1, <1>3 DEF IndInv, RelayFirst

(***************************************************************************)
(* output_fd is set before the first writev() to it, whichever thread      *)
(* bears leg 0.                                                            *)
(***************************************************************************)
THEOREM OutputIsOpen == Spec => []OutputOpen
BY Invariance, OpenWhenWritten, PTL

-----------------------------------------------------------------------------
(* Refinement *)

LEMMA PipeStep ==
    ASSUME IndInv, [Next]_vars
    PROVE  [P!Next]_<<DataLegs, ended, out, rxproc = "exit0">>
<1> DEFINE Stutter == UNCHANGED <<DataLegs, ended, out, rxproc = "exit0">>
<1>1. ASSUME UNCHANGED <<fed, ended, out>>, rxproc' = rxproc PROVE Stutter
    BY <1>1 DEF DataLegs
<1>2. ASSUME UNCHANGED <<fed, ended, out>>, rxproc = "run", rxproc' # "exit0" PROVE Stutter
    BY <1>2 DEF DataLegs
<1>3. ASSUME NEW c \in Conn, LeaseData(c), UNCHANGED rxVars PROVE P!Take
    BY <1>3 DEF P!Take, LeaseData, LeaseTo, DataLegs, rxVars, IndInv, TypeOK, FeedTypeOK
<1>4. ASSUME NEW c \in Conn, LeaseEnd(c), UNCHANGED rxVars PROVE P!End
    BY <1>4 DEF P!End, LeaseEnd, LeaseTo, DataLegs, rxVars, IndInv, TypeOK, FeedTypeOK
<1>5. CASE RxPoll /\ UNCHANGED feedVars
  <2>1. done_mbox /\ rxproc' = "exit0" /\ UNCHANGED <<out, fed, ended>>
      BY <1>5 DEF RxPoll, Dies, feedVars
  <2>2. ended /\ Len(out) = DataLegs
    <3> USE DEF IndInv, TypeOK, FeedTypeOK, RxTypeOK
    <3>1. ended /\ next_leg >= DataLegs /\ DataLegs = fed - 1 /\ next_leg <= fed
        BY <2>1 DEF Counted, DataLegs
    <3>2. \A w \in RxWorkers : ~Written(w)
      <4> SUFFICES ASSUME NEW w \in RxWorkers, Written(w) PROVE FALSE
          OBVIOUS
      <4>1. Emitting(w) /\ pkt[w].opcode = "feed_more"
          BY DEF Written, Emitting, Genuine
      <4>2. next_leg < DataLegs
          BY <4>1, EmitterSound
      <4> QED
          BY <3>1, <4>2
    <3> QED
        BY <3>1, <3>2 DEF Counted
  <2> QED
      BY <2>1, <2>2 DEF P!Next, P!Finish, DataLegs
<1>6. ASSUME NEW w \in RxWorkers, Write(w), UNCHANGED feedVars PROVE P!Emit \/ Stutter
  <2> USE DEF IndInv, TypeOK, FeedTypeOK, RxTypeOK
  <2>1. rpc[w] = "write" /\ rxproc = "run" /\ UNCHANGED <<fed, ended, rxproc>>
      BY <1>6 DEF Write, At, feedVars
  <2>2. CASE pkt[w].opcode = "feed_more"
    <3>1. Emitting(w)
        BY <2>1, <2>2 DEF Emitting, Genuine
    <3>2. \A v \in RxWorkers : ~Written(v)
        BY <2>1, <3>1, OneEmitter DEF SoleEmitter, Written, Emitting, Genuine
    <3>3. pkt[w].size = Foot /\ pkt[w].data = next_leg /\ next_leg < DataLegs
        BY <2>2, <3>1, EmitterSound
    <3>4. Len(out) = next_leg
        BY <3>2, <3>3 DEF Counted, DataLegs
    <3>5. out' = Append(out, Len(out))
        BY <1>6, <3>3, <3>4 DEF Write, Foot
    <3> QED
        BY <2>1, <3>3, <3>4, <3>5 DEF P!Emit, DataLegs
  <2>3. CASE pkt[w].opcode # "feed_more"
    <3>1. pkt[w] \in Packet /\ restartme[w] \in BOOLEAN
        OBVIOUS
    <3>2. ~(pkt[w].size > 0)
        BY <2>1, <2>3, <3>1 DEF Located, LocatedAt, AllSound, Sound, Genuine
    <3> QED
        BY <1>1, <1>6, <2>1, <3>2 DEF Write
  <2> QED
      BY <2>2, <2>3
<1>7. ASSUME NEW w \in RxWorkers, UNCHANGED feedVars,
             \/ CondInit(w) \/ OuterLoop(w) \/ Accept(w) \/ PhraseOk(w) \/ InnerLoop(w)
             \/ ReadHeader(w) \/ HeaderEofStale(w) \/ HeaderEofStray(w) \/ ReadPayload(w)
             \/ Relay(w) \/ Sequence(w) \/ SpuriousWakeup(w) \/ Advance(w) \/ Broadcast(w)
      PROVE  Stutter
    BY <1>1, <1>7 DEF CondInit, OuterLoop, Accept, PhraseOk, InnerLoop, ReadHeader, HeaderEofStale,
       HeaderEofStray, ReadPayload, Relay, Sequence, SpuriousWakeup, Advance, Broadcast, feedVars
<1>8. ASSUME NEW w \in RxWorkers, UNCHANGED feedVars,
             \/ HeaderEofHuge(w) \/ PhraseFails(w) \/ ReadFails(w) \/ WriteFails(w) \/ MarkOpcode(w)
      PROVE  Stutter
  <2>1. UNCHANGED <<fed, ended, out>> /\ rxproc = "run" /\ rxproc' # "exit0"
      BY <1>8 DEF HeaderEofHuge, AtEof, PhraseFails, ReadFails, WriteFails, MarkOpcode, At, Dies,
         feedVars
  <2> QED
      BY <1>2, <2>1
<1>9. ASSUME NEW c \in Conn, Connect(c) \/ Push(c), UNCHANGED rxVars PROVE Stutter
    BY <1>1, <1>9 DEF Connect, Push, feedVars, rxVars
<1>10. CASE Hangup /\ UNCHANGED rxVars
    BY <1>1, <1>10 DEF Hangup, feedVars, rxVars
<1>11. CASE UNCHANGED vars
    BY <1>1, <1>11 DEF vars, feedVars, rxVars
<1> QED
    BY <1>3, <1>4, <1>5, <1>6, <1>7, <1>8, <1>9, <1>10, <1>11
    DEF Next, RxNext, RxThread, RxOutside, FeedNext, P!Next

(***************************************************************************)
(* The receiver of rx.c implements an ordered pipe: pieces come out in the *)
(* order they went in, none lost, none twice, and exit(0) is reached only  *)
(* with the whole stream written.                                          *)
(***************************************************************************)
THEOREM Refinement == Spec => ImplementsPipe
<1>1. Init => P!Init
    BY DEF Init, FeedInit, RxInit, P!Init, DataLegs
<1>2. IndInv /\ [Next]_vars => [P!Next]_<<DataLegs, ended, out, rxproc = "exit0">>
    BY PipeStep
<1> QED
    BY <1>1, <1>2, Invariance, PTL DEF Spec, ImplementsPipe, P!Spec

-----------------------------------------------------------------------------
(* What the steps that move legs do *)

LEMMA ReadFacts ==
    ASSUME TypeOK, NEW w \in RxWorkers, ReadHeader(w)
    PROVE  /\ sock[w] \in Conn /\ 1 \in 1..Len(wire[sock[w]]) /\ pkt'[w] = wire[sock[w]][1]
           /\ \A c \in Conn : c # sock[w] => wire'[c] = wire[c]
           /\ \A i \in 1..Len(wire'[sock[w]]) :
                 i + 1 \in 1..Len(wire[sock[w]]) /\ wire'[sock[w]][i] = wire[sock[w]][i + 1]
           /\ \A i \in 1..Len(wire[sock[w]]) : i # 1 =>
                 i - 1 \in 1..Len(wire'[sock[w]]) /\ wire'[sock[w]][i - 1] = wire[sock[w]][i]
           /\ \A v \in RxWorkers : v # w => pkt'[v] = pkt[v] /\ rpc'[v] = rpc[v]
           /\ rpc[w] = "header" /\ rpc'[w] = "payload"
           /\ UNCHANGED <<sock, restartme, deaf, next_leg, done_mbox, conn, txproc>>
<1> USE DEF TypeOK, WireTypeOK, RxTypeOK
<1>1. PICK c \in Conn, q \in Seq(Packet) : c = sock[w] /\ q = wire[c] /\ q # <<>>
    BY DEF ReadHeader
<1>2. /\ Head(q) = q[1] /\ 1 \in 1..Len(q) /\ Len(Tail(q)) = Len(q) - 1
      /\ \A i \in 1..Len(Tail(q)) : i + 1 \in 1..Len(q) /\ Tail(q)[i] = q[i + 1]
    BY <1>1
<1>3. \A i \in 1..Len(q) : i # 1 => i - 1 \in 1..Len(Tail(q)) /\ Tail(q)[i - 1] = q[i]
    BY <1>2
<1>4. /\ wire'[c] = Tail(q) /\ \A d \in Conn : d # c => wire'[d] = wire[d]
    BY <1>1 DEF ReadHeader
<1>5. /\ pkt'[w] = q[1] /\ rpc[w] = "header" /\ rpc'[w] = "payload"
      /\ \A v \in RxWorkers : v # w => pkt'[v] = pkt[v] /\ rpc'[v] = rpc[v]
      /\ UNCHANGED <<sock, restartme, deaf, next_leg, done_mbox, conn, txproc>>
    BY <1>1, <1>2 DEF ReadHeader, At, Goto
<1> QED BY <1>1, <1>2, <1>3, <1>4, <1>5

LEMMA EofFacts ==
    ASSUME TypeOK, NEW w \in RxWorkers, HeaderEofStale(w) \/ HeaderEofStray(w)
    PROVE  /\ pkt'[w].cut /\ wire[sock[w]] = <<>> /\ txproc # "run"
           /\ \A v \in RxWorkers : v # w => pkt'[v] = pkt[v] /\ rpc'[v] = rpc[v]
           /\ rpc[w] = "header" /\ rpc'[w] = "payload"
           /\ UNCHANGED <<sock, restartme, deaf, next_leg, done_mbox, wire, conn, txproc>>
BY DEF HeaderEofStale, HeaderEofStray, AtEof, At, Goto, Cut, Stray, wireVars, TypeOK, RxTypeOK

LEMMA LeaseFacts ==
    ASSUME TypeOK, NEW c \in Conn, LeaseData(c) \/ LeaseEnd(c)
    PROVE  /\ lease[c] = Blank /\ lease'[c] # Blank /\ lease'[c].leg_id = fed
           /\ \A d \in Conn : d # c => lease'[d] = lease[d]
           /\ txproc = "run" /\ conn[c] = "open" /\ ~ended /\ fed' = fed + 1
           /\ UNCHANGED <<wire, conn, txproc>>
BY DEF LeaseData, LeaseEnd, LeaseTo, FeedMore, EndOfMillipede, Blank, wireVars, TypeOK, FeedTypeOK

LEMMA PushFacts ==
    ASSUME TypeOK, NEW c \in Conn, Push(c)
    PROVE  /\ lease[c] # Blank /\ lease'[c] = Blank /\ txproc = "run"
           /\ \A d \in Conn : d # c => lease'[d] = lease[d] /\ wire'[d] = wire[d]
           /\ Len(wire[c]) \in Nat /\ Len(wire'[c]) = Len(wire[c]) + 1
           /\ \A i \in 1..Len(wire[c]) : wire'[c][i] = wire[c][i]
           /\ wire'[c][Len(wire[c]) + 1] = lease[c]
           /\ UNCHANGED <<conn, txproc, fed, ended>>
<1> USE DEF TypeOK, WireTypeOK, FeedTypeOK
<1>1. PICK q \in Seq(Packet), p \in Packet : q = wire[c] /\ p = lease[c]
    OBVIOUS
<1>2. /\ Len(q) \in Nat /\ Len(Append(q, p)) = Len(q) + 1 /\ Append(q, p)[Len(q) + 1] = p
      /\ \A i \in 1..Len(q) : Append(q, p)[i] = q[i]
    BY <1>1
<1>3. wire'[c] = Append(q, p) /\ \A d \in Conn : d # c => wire'[d] = wire[d]
    BY <1>1 DEF Push, Writev
<1>4. /\ lease[c] # Blank /\ lease'[c] = Blank /\ txproc = "run"
      /\ \A d \in Conn : d # c => lease'[d] = lease[d]
      /\ UNCHANGED <<conn, txproc, fed, ended>>
    BY DEF Push
<1> QED BY <1>1, <1>2, <1>3, <1>4

\* A wire may get one packet more, cut, that was about to be written.
LEMMA HangupFacts ==
    ASSUME TypeOK, Hangup
    PROVE  /\ txproc = "run" /\ txproc' # "run" /\ UNCHANGED <<conn, lease, fed, ended>>
           /\ \A c \in Conn :
                 \/ wire'[c] = wire[c]
                 \/ /\ lease[c] # Blank /\ Len(wire[c]) \in Nat /\ Len(wire'[c]) = Len(wire[c]) + 1
                    /\ \A i \in 1..Len(wire[c]) : wire'[c][i] = wire[c][i]
                    /\ wire'[c][Len(wire[c]) + 1].cut
                    /\ wire'[c][Len(wire[c]) + 1].leg_id = lease[c].leg_id
<1> USE DEF TypeOK, WireTypeOK, FeedTypeOK
<1>1. txproc = "run" /\ txproc' # "run" /\ UNCHANGED <<conn, lease, fed, ended>>
    BY DEF Hangup, ProcessEnds, TxEnd, feedVars
<1>2. PICK K \in SUBSET {c \in Conn : lease[c] # Blank /\ lease[c].size > 0} :
         wire' = [c \in Conn |-> IF c \in K THEN Append(wire[c], Cut(lease[c])) ELSE wire[c]]
    BY DEF Hangup, ProcessEnds
<1>3. ASSUME NEW c \in Conn, c \in K
      PROVE  /\ lease[c] # Blank /\ Len(wire[c]) \in Nat /\ Len(wire'[c]) = Len(wire[c]) + 1
             /\ \A i \in 1..Len(wire[c]) : wire'[c][i] = wire[c][i]
             /\ wire'[c][Len(wire[c]) + 1].cut
             /\ wire'[c][Len(wire[c]) + 1].leg_id = lease[c].leg_id
  <2>1. PICK q \in Seq(Packet), p \in Packet : q = wire[c] /\ p = Cut(lease[c])
      BY PacketFacts
  <2>2. /\ Len(q) \in Nat /\ Len(Append(q, p)) = Len(q) + 1 /\ Append(q, p)[Len(q) + 1] = p
        /\ \A i \in 1..Len(q) : Append(q, p)[i] = q[i]
      BY <2>1
  <2>3. wire'[c] = Append(q, p) /\ lease[c] # Blank
      BY <1>2, <1>3, <2>1
  <2>4. p.cut /\ p.leg_id = lease[c].leg_id
      BY <2>1 DEF Cut
  <2> QED BY <2>1, <2>2, <2>3, <2>4
<1>4. ASSUME NEW c \in Conn, c \notin K PROVE wire'[c] = wire[c]
    BY <1>2, <1>4
<1> QED BY <1>1, <1>3, <1>4

\* Whoever is a step's own thread, a quiet step leaves the others' places except for a broadcast.
LEMMA QuietPlaces ==
    ASSUME TypeOK, NEW w \in RxWorkers, Quiet(w)
    PROVE  /\ \A v \in RxWorkers : v # w =>
                 /\ sock'[v] = sock[v] /\ restartme'[v] = restartme[v]
                 /\ rpc'[v] = rpc[v] \/ (rpc[v] = "waiting" /\ rpc'[v] = "sequence")
           /\ done_mbox => done_mbox'
           /\ txproc' = txproc
           /\ ~Advance(w) => next_leg' = next_leg
<1> USE DEF TypeOK, RxTypeOK, At, Goto, Dies, wireVars
<1>1. CASE CondInit(w) \/ OuterLoop(w) \/ Accept(w) \/ PhraseOk(w) \/ InnerLoop(w)
    BY <1>1 DEF CondInit, OuterLoop, Accept, Taken, PhraseOk, Answer, InnerLoop
<1>2. CASE ReadPayload(w) \/ Relay(w) \/ Sequence(w) \/ SpuriousWakeup(w)
    BY <1>2 DEF ReadPayload, Relay, Sequence, SpuriousWakeup
<1>3. CASE Write(w) \/ MarkOpcode(w) \/ Advance(w) \/ Broadcast(w)
    BY <1>3 DEF Write, MarkOpcode, Advance, Broadcast
<1>4. CASE HeaderEofHuge(w) \/ PhraseFails(w) \/ ReadFails(w) \/ WriteFails(w)
    BY <1>4 DEF HeaderEofHuge, PhraseFails, ReadFails, WriteFails
<1> QED
    BY <1>1, <1>2, <1>3, <1>4 DEF Quiet, RxOutside

\* A quiet step other than Advance leaves every leg with its thread.
LEMMA QuietHolds ==
    ASSUME IndInv, NEW w \in RxWorkers, Quiet(w), ~Advance(w), NEW v \in RxWorkers, Bears(v)
    PROVE  Bears(v)' /\ pkt'[v] = pkt[v]
<1> USE DEF IndInv, TypeOK, RxTypeOK, At, Goto, Dies
<1>1. pkt' = pkt
    BY QuietKeeps
<1>2. rpc[v] \in {"payload", "relay", "sequence", "waiting", "write", "mark", "advance"}
    BY DEF Bears
<1>3. CASE CondInit(w) \/ OuterLoop(w) \/ Accept(w) \/ PhraseOk(w) \/ InnerLoop(w)
    BY <1>1, <1>2, <1>3 DEF CondInit, OuterLoop, Accept, PhraseOk, InnerLoop, Bears
<1>4. CASE ReadPayload(w) \/ Relay(w) \/ SpuriousWakeup(w)
    BY <1>1, <1>2, <1>4 DEF ReadPayload, Relay, SpuriousWakeup, Bears
<1>5. CASE Sequence(w)
  <2>1. v = w => ~restartme[w]
    BY <1>5 DEF Sequence, Located, LocatedAt, Bears
  <2> QED
    BY <1>1, <1>2, <1>5, <2>1 DEF Sequence, Bears
<1>6. CASE Write(w) \/ MarkOpcode(w) \/ Broadcast(w)
    BY <1>1, <1>2, <1>6 DEF Write, MarkOpcode, Broadcast, Bears
<1>7. CASE HeaderEofHuge(w) \/ PhraseFails(w) \/ ReadFails(w) \/ WriteFails(w)
    BY <1>1, <1>2, <1>7 DEF HeaderEofHuge, PhraseFails, ReadFails, WriteFails, Bears
<1> QED
    BY <1>3, <1>4, <1>5, <1>6, <1>7 DEF Quiet, RxOutside

\* What is over stays over.
LEMMA HungUpStays == ASSUME TypeOK, [Next]_vars, HungUpEarly PROVE HungUpEarly'
<1>1. txproc # "run"
    BY DEF HungUpEarly
<1>2. ASSUME UNCHANGED <<txproc, lease, ended>> PROVE HungUpEarly'
    BY <1>2 DEF HungUpEarly
<1>3. ASSUME NEW w \in RxWorkers, Quiet(w), UNCHANGED feedVars PROVE HungUpEarly'
    BY <1>2, <1>3, QuietPlaces DEF feedVars
<1>4. ASSUME NEW w \in RxWorkers, ReadHeader(w) \/ HeaderEofStale(w) \/ HeaderEofStray(w), UNCHANGED feedVars
      PROVE  HungUpEarly'
    BY <1>2, <1>4, ReadFacts, EofFacts DEF feedVars
<1>5. CASE RxPoll /\ UNCHANGED feedVars
    BY <1>2, <1>5 DEF RxPoll, feedVars, wireVars
<1>6. CASE UNCHANGED vars
    BY <1>2, <1>6 DEF vars, wireVars, feedVars
<1>7. \A c \in Conn : ~Connect(c) /\ ~LeaseData(c) /\ ~LeaseEnd(c) /\ ~Push(c)
    BY <1>1 DEF Connect, LeaseData, LeaseEnd, LeaseTo, Push
<1>8. ~Hangup
    BY <1>1 DEF Hangup
<1> QED
    BY <1>3, <1>4, <1>5, <1>6, <1>7, <1>8, NextCases

LEMMA ExhaustedStays == ASSUME TypeOK, [Next]_vars, NEW c \in Conn, Exhausted(c) PROVE Exhausted(c)'
<1>1. CASE HungUpEarly
    BY <1>1, HungUpStays DEF Exhausted
<1>2. CASE txproc # "run" /\ wire[c] = <<>>
  <2>1. ASSUME UNCHANGED txproc, wire'[c] = wire[c] PROVE Exhausted(c)'
      BY <1>2, <2>1 DEF Exhausted
  <2>2. ASSUME NEW w \in RxWorkers, Quiet(w) PROVE Exhausted(c)'
      BY <2>1, <2>2, QuietPlaces, QuietKeeps
  <2>3. ASSUME NEW w \in RxWorkers, ReadHeader(w) PROVE Exhausted(c)'
    <3>1. c # sock[w]
        BY <1>2, <2>3 DEF ReadHeader
    <3> QED BY <2>1, <2>3, <3>1, ReadFacts
  <2>4. ASSUME NEW w \in RxWorkers, HeaderEofStale(w) \/ HeaderEofStray(w) PROVE Exhausted(c)'
      BY <2>1, <2>4, EofFacts
  <2>5. CASE RxPoll
      BY <2>1, <2>5 DEF RxPoll, wireVars
  <2>6. CASE UNCHANGED vars
      BY <2>1, <2>6 DEF vars, wireVars
  <2>7. \A d \in Conn : ~Connect(d) /\ ~LeaseData(d) /\ ~LeaseEnd(d) /\ ~Push(d)
      BY <1>2 DEF Connect, LeaseData, LeaseEnd, LeaseTo, Push
  <2>8. ~Hangup
      BY <1>2 DEF Hangup
  <2> QED
      BY <2>2, <2>3, <2>4, <2>5, <2>6, <2>7, <2>8, NextCases
<1> QED BY <1>1, <1>2 DEF Exhausted

-----------------------------------------------------------------------------
(* NoneLost *)

LEMMA NoneLostStep ==
    ASSUME FlowInv, [Next]_vars
    PROVE  NoneLost'
<1> USE DEF FlowInv
<1>0. IndInv /\ TypeOK /\ fed \in Nat /\ next_leg \in Nat
    BY DEF IndInv, TypeOK, FeedTypeOK, RxTypeOK
<1> SUFFICES ASSUME ~HungUpEarly', NEW l \in 0..fed', next_leg' <= l, l < fed' PROVE Somewhere(l)'
    BY DEF NoneLost
<1>1. ~HungUpEarly
    BY <1>0, HungUpStays
<1>2. ASSUME next_leg <= l, l < fed PROVE Somewhere(l)
    BY <1>0, <1>1, <1>2 DEF NoneLost
\* Legs that are neither read nor written stay where they are.
<1>3. ASSUME UNCHANGED <<wire, lease, fed>>, next_leg <= next_leg',
             \A v \in RxWorkers : Bears(v) => Bears(v)' /\ pkt'[v].leg_id = pkt[v].leg_id
      PROVE  Somewhere(l)'
  <2>1. next_leg' \in Nat
      BY <1>0, TypeStep DEF TypeOK, RxTypeOK
  <2>2. Somewhere(l)
      BY <1>0, <1>2, <1>3, <2>1
  <2> QED BY <1>3, <2>2 DEF Somewhere, ToWrite, OnWire
<1>4. ASSUME NEW w \in RxWorkers, Quiet(w), UNCHANGED feedVars, ~Advance(w) PROVE Somewhere(l)'
    BY <1>0, <1>3, <1>4, QuietKeeps, QuietHolds, QuietPlaces DEF feedVars
<1>5. ASSUME NEW w \in RxWorkers, Advance(w), UNCHANGED feedVars PROVE Somewhere(l)'
  <2>1. Emitting(w)
      BY <1>0, <1>5 DEF Advance, At, IndInv, Located, LocatedAt, Emitting
  <2>2. pkt[w].leg_id = next_leg
      BY <1>0, <2>1, EmitterBears
  <2>3. /\ UNCHANGED <<wire, lease, fed, pkt>> /\ next_leg' = next_leg + 1
        /\ \A v \in RxWorkers : v # w => rpc'[v] = rpc[v]
      BY <1>0, <1>5 DEF Advance, Goto, feedVars, wireVars, TypeOK, RxTypeOK
  <2>4. Somewhere(l) /\ l # next_leg
      BY <1>0, <1>2, <2>3
  <2>5. \A v \in RxWorkers : Bears(v) /\ v # w => Bears(v)'
      BY <2>3 DEF Bears
  <2> QED BY <2>2, <2>3, <2>4, <2>5 DEF Somewhere, ToWrite, OnWire
<1>6. ASSUME NEW w \in RxWorkers, ReadHeader(w), UNCHANGED feedVars PROVE Somewhere(l)'
  <2>1. Somewhere(l) /\ lease' = lease
      BY <1>0, <1>2, <1>6, ReadFacts DEF feedVars
  <2>2. ASSUME NEW c \in Conn, ToWrite(l, c) PROVE Somewhere(l)'
      BY <2>1, <2>2 DEF Somewhere, ToWrite
  <2>3. ASSUME NEW v \in RxWorkers, Bears(v), pkt[v].leg_id = l PROVE Somewhere(l)'
    <3>1. v # w
        BY <1>0, <1>6, <2>3, ReadFacts DEF Bears
    <3>2. Bears(v)' /\ pkt'[v] = pkt[v]
        BY <1>0, <1>6, <2>3, <3>1, ReadFacts DEF Bears
    <3> QED BY <2>3, <3>2 DEF Somewhere
  <2>4. ASSUME NEW c \in Conn, NEW i \in 1..Len(wire[c]), wire[c][i].leg_id = l, ~wire[c][i].cut
        PROVE  Somewhere(l)'
    <3>1. CASE c # sock[w]
      <4>1. wire'[c] = wire[c]
          BY <1>0, <1>6, <3>1, ReadFacts
      <4> QED BY <2>4, <4>1 DEF Somewhere, OnWire
    <3>2. CASE c = sock[w] /\ i # 1
      <4>1. i - 1 \in 1..Len(wire'[c]) /\ wire'[c][i - 1] = wire[c][i]
          BY <1>0, <1>6, <3>2, ReadFacts
      <4> QED BY <2>4, <4>1 DEF Somewhere, OnWire
    <3>3. CASE c = sock[w] /\ i = 1
      <4>1. pkt'[w] = wire[c][i] /\ rpc'[w] = "payload"
          BY <1>0, <1>6, <3>3, ReadFacts
      <4>2. wire[c][i].opcode \in Genuine
          BY <1>0 DEF IndInv, AllSound
      <4> QED BY <2>4, <4>1, <4>2 DEF Somewhere, Bears
    <3> QED BY <3>1, <3>2, <3>3
  <2> QED BY <2>1, <2>2, <2>3, <2>4 DEF Somewhere, OnWire
<1>7. ASSUME NEW w \in RxWorkers, HeaderEofStale(w) \/ HeaderEofStray(w), UNCHANGED feedVars
      PROVE  Somewhere(l)'
  <2>1. \A v \in RxWorkers : Bears(v) => Bears(v)' /\ pkt'[v].leg_id = pkt[v].leg_id
      BY <1>0, <1>7, EofFacts DEF Bears
  <2> QED BY <1>0, <1>3, <1>7, <2>1, EofFacts DEF feedVars
<1>8. ASSUME UNCHANGED <<wire, lease, fed, next_leg, rpc, pkt>> PROVE Somewhere(l)'
    BY <1>0, <1>3, <1>8 DEF Bears
<1>9. ASSUME NEW c \in Conn, LeaseData(c) \/ LeaseEnd(c), UNCHANGED rxVars PROVE Somewhere(l)'
  <2>1. CASE l = fed
      BY <1>0, <1>9, <2>1, LeaseFacts DEF Somewhere, ToWrite
  <2>2. CASE l # fed
    <3>1. UNCHANGED <<next_leg, rpc, pkt, wire>> /\ fed' = fed + 1
        BY <1>0, <1>9, LeaseFacts DEF rxVars
    <3>2. Somewhere(l)
        BY <1>0, <1>2, <2>2, <3>1
    <3>3. \A d \in Conn : ToWrite(l, d) => ToWrite(l, d)'
        BY <1>0, <1>9, LeaseFacts DEF ToWrite
    <3> QED BY <3>1, <3>2, <3>3 DEF Somewhere, OnWire, Bears
  <2> QED BY <2>1, <2>2
<1>10. ASSUME NEW c \in Conn, Push(c), UNCHANGED rxVars PROVE Somewhere(l)'
  <2>1. UNCHANGED <<next_leg, rpc, pkt, fed>>
      BY <1>0, <1>10, PushFacts DEF rxVars
  <2>2. Somewhere(l)
      BY <1>0, <1>2, <2>1
  <2>3. ASSUME NEW d \in Conn, ToWrite(l, d) PROVE Somewhere(l)'
    <3>1. CASE d # c
        BY <1>0, <1>10, <2>3, <3>1, PushFacts DEF Somewhere, ToWrite
    <3>2. CASE d = c
      <4>1. Len(wire[c]) + 1 \in 1..Len(wire'[c]) /\ wire'[c][Len(wire[c]) + 1] = lease[c]
          BY <1>0, <1>10, PushFacts
      <4>2. ~lease[c].cut /\ lease[c].leg_id = l
          BY <1>0, <2>3, <3>2 DEF ToWrite, IndInv, AllSound
      <4> QED BY <4>1, <4>2 DEF Somewhere, OnWire
    <3> QED BY <3>1, <3>2
  <2>4. ASSUME NEW d \in Conn, NEW i \in 1..Len(wire[d]), wire[d][i].leg_id = l, ~wire[d][i].cut
        PROVE  Somewhere(l)'
    <3>1. i \in 1..Len(wire'[d]) /\ wire'[d][i] = wire[d][i]
        BY <1>0, <1>10, PushFacts
    <3> QED BY <2>4, <3>1 DEF Somewhere, OnWire
  <2> QED BY <2>1, <2>2, <2>3, <2>4 DEF Somewhere, OnWire, Bears
<1>11. ASSUME Hangup, UNCHANGED rxVars PROVE Somewhere(l)'
  <2>1. \A c \in Conn : lease[c] = Blank
      BY <1>0, <1>11, HangupFacts DEF HungUpEarly
  <2>2. \A c \in Conn : wire'[c] = wire[c]
      BY <1>0, <1>11, <2>1, HangupFacts
  <2>3. UNCHANGED <<lease, fed, next_leg, rpc, pkt>>
      BY <1>0, <1>11, HangupFacts DEF rxVars
  <2>4. Somewhere(l)
      BY <1>0, <1>2, <2>3
  <2> QED BY <2>2, <2>3, <2>4 DEF Somewhere, ToWrite, OnWire, Bears
<1>12. CASE RxPoll /\ UNCHANGED feedVars
    BY <1>8, <1>12 DEF RxPoll, feedVars, wireVars
<1>13. ASSUME NEW c \in Conn, Connect(c), UNCHANGED rxVars PROVE Somewhere(l)'
    BY <1>8, <1>13 DEF Connect, feedVars, rxVars
<1>14. CASE UNCHANGED vars
    BY <1>8, <1>14 DEF vars, wireVars, feedVars, rxVars
<1> QED
    BY <1>4, <1>5, <1>6, <1>7, <1>9, <1>10, <1>11, <1>12, <1>13, <1>14, NextCases

-----------------------------------------------------------------------------
(* NoneLate *)

LEMMA NoneLateStep ==
    ASSUME FlowInv, [Next]_vars
    PROVE  NoneLate'
<1>0. /\ IndInv /\ TypeOK /\ NoneLate /\ fed \in Nat /\ next_leg \in Nat /\ next_leg <= fed
      /\ lease \in [Conn -> Packet] /\ wire \in [Conn -> Seq(Packet)] /\ pkt \in [RxWorkers -> Packet]
    BY DEF FlowInv, IndInv, Counted, TypeOK, FeedTypeOK, RxTypeOK, WireTypeOK
<1>1. ASSUME UNCHANGED <<wire, lease, next_leg>>,
             \A v \in RxWorkers : Bears(v)' => Bears(v) /\ pkt'[v].leg_id = pkt[v].leg_id
      PROVE  NoneLate'
    BY <1>0, <1>1 DEF NoneLate
<1>2. ASSUME NEW w \in RxWorkers, Quiet(w), UNCHANGED feedVars, ~Advance(w) PROVE NoneLate'
    BY <1>0, <1>1, <1>2, QuietKeeps, QuietBears, QuietPlaces DEF feedVars
<1>3. ASSUME NEW w \in RxWorkers, Advance(w), UNCHANGED feedVars PROVE NoneLate'
  <2>1. Emitting(w)
      BY <1>0, <1>3 DEF Advance, At, IndInv, Located, LocatedAt, Emitting
  <2>2. Bears(w) /\ pkt[w].leg_id = next_leg
      BY <1>0, <2>1, EmitterBears
  <2>3. UNCHANGED <<wire, lease, pkt>> /\ next_leg' = next_leg + 1 /\ ~Bears(w)'
      BY <1>0, <1>3 DEF Advance, Goto, feedVars, wireVars, TypeOK, RxTypeOK, Bears
  <2>4. \A v \in RxWorkers : Bears(v)' => Bears(v) /\ v # w
      BY <1>0, <1>3, <2>3, QuietBears DEF Quiet
  <2>5. \A c \in Conn : lease[c] # Blank => lease[c].leg_id # next_leg
      BY <1>0, <2>2 DEF IndInv, OnePlace, BorneLease
  <2>6. \A c \in Conn : \A i \in 1..Len(wire[c]) : ~wire[c][i].cut => wire[c][i].leg_id # next_leg
      BY <1>0, <2>2 DEF IndInv, OnePlace, BorneWire
  <2>7. \A v \in RxWorkers : Bears(v) /\ v # w => pkt[v].leg_id # next_leg
      BY <1>0, <2>2 DEF IndInv, OnePlace, BorneBorne
  <2>8. \A p \in Packet : next_leg <= p.leg_id /\ p.leg_id # next_leg => next_leg + 1 <= p.leg_id
      BY <1>0 DEF Packet
  <2>9. \A c \in Conn : lease'[c] # Blank => next_leg' <= lease'[c].leg_id
      BY <1>0, <2>3, <2>5, <2>8 DEF NoneLate
  <2>10. \A c \in Conn : \A i \in 1..Len(wire'[c]) : ~wire'[c][i].cut => next_leg' <= wire'[c][i].leg_id
    <3> SUFFICES ASSUME NEW c \in Conn, NEW i \in 1..Len(wire[c]), ~wire[c][i].cut
                 PROVE  next_leg + 1 <= wire[c][i].leg_id
        BY <2>3
    <3>1. wire[c][i] \in Packet
        BY <1>0
    <3> QED BY <1>0, <2>6, <2>8, <3>1 DEF NoneLate
  <2>11. \A v \in RxWorkers : Bears(v)' => next_leg' <= pkt'[v].leg_id
      BY <1>0, <2>3, <2>4, <2>7, <2>8 DEF NoneLate
  <2> QED BY <2>9, <2>10, <2>11 DEF NoneLate
<1>4. ASSUME NEW w \in RxWorkers, ReadHeader(w), UNCHANGED feedVars PROVE NoneLate'
  <2>1. ASSUME NEW c \in Conn, NEW i \in 1..Len(wire'[c])
        PROVE  \E k \in 1..Len(wire[c]) : wire'[c][i] = wire[c][k]
    <3>1. CASE c # sock[w]
      <4>1. wire'[c] = wire[c]
          BY <1>0, <1>4, <3>1, ReadFacts
      <4> QED BY <4>1
    <3>2. CASE c = sock[w]
      <4>1. i + 1 \in 1..Len(wire[c]) /\ wire'[c][i] = wire[c][i + 1]
          BY <1>0, <1>4, <3>2, ReadFacts
      <4> QED BY <4>1
    <3> QED BY <3>1, <3>2
  <2>2. UNCHANGED <<lease, next_leg>>
      BY <1>0, <1>4, ReadFacts DEF feedVars
  <2>3. \A v \in RxWorkers : v # w /\ Bears(v)' => Bears(v) /\ pkt'[v] = pkt[v]
      BY <1>0, <1>4, ReadFacts DEF Bears
  <2>4. Bears(w)' => next_leg <= pkt'[w].leg_id
    <3>1. /\ sock[w] \in Conn /\ 1 \in 1..Len(wire[sock[w]]) /\ pkt'[w] = wire[sock[w]][1]
        BY <1>0, <1>4, ReadFacts
    <3> QED BY <1>0, <3>1 DEF NoneLate, Bears
  <2> QED BY <1>0, <2>1, <2>2, <2>3, <2>4 DEF NoneLate
<1>5. ASSUME NEW w \in RxWorkers, HeaderEofStale(w) \/ HeaderEofStray(w), UNCHANGED feedVars
      PROVE  NoneLate'
  <2>1. \A v \in RxWorkers : Bears(v)' => Bears(v) /\ pkt'[v].leg_id = pkt[v].leg_id
      BY <1>0, <1>5, EofFacts DEF Bears
  <2> QED BY <1>0, <1>1, <1>5, <2>1, EofFacts DEF feedVars
<1>6. ASSUME UNCHANGED <<wire, lease, next_leg, rpc, pkt>> PROVE NoneLate'
    BY <1>0, <1>1, <1>6 DEF Bears
<1>7. ASSUME NEW c \in Conn, LeaseData(c) \/ LeaseEnd(c), UNCHANGED rxVars PROVE NoneLate'
  <2>1. UNCHANGED <<wire, next_leg, rpc, pkt>>
      BY <1>0, <1>7, LeaseFacts DEF rxVars
  <2>2. \A d \in Conn : lease'[d] # Blank => next_leg <= lease'[d].leg_id
      BY <1>0, <1>7, LeaseFacts DEF NoneLate
  <2> QED BY <1>0, <2>1, <2>2 DEF NoneLate, Bears
<1>8. ASSUME NEW c \in Conn, Push(c), UNCHANGED rxVars PROVE NoneLate'
  <2>1. UNCHANGED <<next_leg, rpc, pkt>>
      BY <1>0, <1>8 DEF rxVars
  <2>2. \A d \in Conn : lease'[d] # Blank => next_leg <= lease'[d].leg_id
      BY <1>0, <1>8, PushFacts DEF NoneLate
  <2>3. \A d \in Conn : \A i \in 1..Len(wire'[d]) : ~wire'[d][i].cut => next_leg <= wire'[d][i].leg_id
    <3> SUFFICES ASSUME NEW d \in Conn, NEW i \in 1..Len(wire'[d]), ~wire'[d][i].cut
                 PROVE  next_leg <= wire'[d][i].leg_id
        OBVIOUS
    <3>1. CASE i \in 1..Len(wire[d])
      <4>1. wire'[d][i] = wire[d][i]
          BY <1>0, <1>8, <3>1, PushFacts
      <4> QED BY <1>0, <3>1, <4>1 DEF NoneLate
    <3>2. CASE i \notin 1..Len(wire[d])
      <4>1. wire'[d][i] = lease[c] /\ lease[c] # Blank
          BY <1>0, <1>8, <3>2, PushFacts
      <4> QED BY <1>0, <4>1 DEF NoneLate
    <3> QED BY <3>1, <3>2
  <2> QED BY <1>0, <2>1, <2>2, <2>3 DEF NoneLate, Bears
<1>9. ASSUME Hangup, UNCHANGED rxVars PROVE NoneLate'
  <2>1. UNCHANGED <<lease, next_leg, rpc, pkt>>
      BY <1>0, <1>9, HangupFacts DEF rxVars
  <2>2. \A d \in Conn : \A i \in 1..Len(wire'[d]) : ~wire'[d][i].cut => next_leg <= wire'[d][i].leg_id
    <3> SUFFICES ASSUME NEW d \in Conn, NEW i \in 1..Len(wire'[d]), ~wire'[d][i].cut
                 PROVE  next_leg <= wire'[d][i].leg_id
        OBVIOUS
    <3>1. i \in 1..Len(wire[d]) /\ wire'[d][i] = wire[d][i]
        BY <1>0, <1>9, HangupFacts
    <3> QED BY <1>0, <3>1 DEF NoneLate
  <2> QED BY <1>0, <2>1, <2>2 DEF NoneLate, Bears
<1>10. CASE RxPoll /\ UNCHANGED feedVars
    BY <1>6, <1>10 DEF RxPoll, feedVars, wireVars
<1>11. ASSUME NEW c \in Conn, Connect(c), UNCHANGED rxVars PROVE NoneLate'
    BY <1>6, <1>11 DEF Connect, feedVars, rxVars
<1>12. CASE UNCHANGED vars
    BY <1>6, <1>12 DEF vars, wireVars, feedVars, rxVars
<1> QED
    BY <1>2, <1>3, <1>4, <1>5, <1>7, <1>8, <1>9, <1>10, <1>11, <1>12, NextCases

-----------------------------------------------------------------------------
(* Ascending *)

LEMMA AscendingStep ==
    ASSUME FlowInv, [Next]_vars
    PROVE  Ascending'
<1>0. /\ IndInv /\ TypeOK /\ Ascending /\ fed \in Nat
      /\ lease \in [Conn -> Packet] /\ wire \in [Conn -> Seq(Packet)] /\ pkt \in [RxWorkers -> Packet]
      /\ sock \in [RxWorkers -> Conn]
    BY DEF FlowInv, IndInv, TypeOK, FeedTypeOK, RxTypeOK, WireTypeOK
\* As long as the transmitter runs nothing is cut.
<1>1. txproc = "run" => \A c \in Conn : \A i \in 1..Len(wire[c]) : ~wire[c][i].cut
    BY DEF FlowInv, Loyal, HungUpEarly
<1>2. ASSUME UNCHANGED <<wire, lease>>,
             \A v \in RxWorkers : Bears(v)' =>
                Bears(v) /\ pkt'[v].leg_id = pkt[v].leg_id /\ sock'[v] = sock[v]
      PROVE  Ascending'
    BY <1>0, <1>2 DEF Ascending
<1>3. ASSUME NEW w \in RxWorkers, Quiet(w), UNCHANGED feedVars PROVE Ascending'
  <2>1. \A v \in RxWorkers : Bears(v)' => Bears(v) /\ pkt'[v].leg_id = pkt[v].leg_id
      BY <1>0, <1>3, QuietBears
  <2>2. Bears(w)' => sock'[w] = sock[w]
    <3>1. CASE Accept(w)
        BY <1>0, <3>1 DEF Accept, Goto, Bears, TypeOK, RxTypeOK
    <3>2. CASE ~Accept(w)
        BY <1>3, <3>2 DEF Quiet, CondInit, OuterLoop, PhraseOk, InnerLoop, ReadPayload, Relay, Sequence,
              Write, MarkOpcode, Advance, Broadcast, HeaderEofHuge, RxOutside, PhraseFails, ReadFails,
              WriteFails, SpuriousWakeup
    <3> QED BY <3>1, <3>2
  <2>3. \A v \in RxWorkers : v # w => sock'[v] = sock[v]
      BY <1>0, <1>3, QuietPlaces
  <2> QED BY <1>2, <1>3, <2>1, <2>2, <2>3, QuietKeeps DEF feedVars
<1>4. ASSUME NEW w \in RxWorkers, ReadHeader(w), UNCHANGED feedVars PROVE Ascending'
  <2>1. PICK s \in Conn : s = sock[w]
      BY <1>0
  <2>2. /\ 1 \in 1..Len(wire[s]) /\ pkt'[w] = wire[s][1] /\ UNCHANGED <<lease, sock>>
        /\ \A c \in Conn : c # s => wire'[c] = wire[c]
        /\ \A i \in 1..Len(wire'[s]) : i + 1 \in 1..Len(wire[s]) /\ wire'[s][i] = wire[s][i + 1]
      BY <1>0, <1>4, <2>1, ReadFacts DEF feedVars
  <2>3. \A v \in RxWorkers : v # w /\ Bears(v)' => Bears(v) /\ pkt'[v] = pkt[v]
      BY <1>0, <1>4, ReadFacts DEF Bears
  <2>4. ASSUME NEW c \in Conn, NEW i \in 1..Len(wire'[c]), NEW j \in 1..Len(wire'[c]), i < j
        PROVE  wire'[c][i].leg_id < wire'[c][j].leg_id
    <3>1. CASE c # s
        BY <1>0, <2>2, <2>4, <3>1 DEF Ascending
    <3>2. CASE c = s
      <4>1. i + 1 \in 1..Len(wire[s]) /\ j + 1 \in 1..Len(wire[s]) /\ i + 1 < j + 1
          BY <2>2, <2>4, <3>2
      <4> QED BY <1>0, <2>2, <3>2, <4>1 DEF Ascending
    <3> QED BY <3>1, <3>2
  <2>5. ASSUME NEW c \in Conn, NEW i \in 1..Len(wire'[c]), lease'[c] # Blank, ~wire'[c][i].cut
        PROVE  wire'[c][i].leg_id < lease'[c].leg_id
    <3>1. CASE c # s
        BY <1>0, <2>2, <2>5, <3>1 DEF Ascending
    <3>2. CASE c = s
        BY <1>0, <2>2, <2>5, <3>2 DEF Ascending
    <3> QED BY <3>1, <3>2
  <2>6. ASSUME NEW v \in RxWorkers, Bears(v)'
        PROVE  /\ \A i \in 1..Len(wire'[sock'[v]]) : pkt'[v].leg_id < wire'[sock'[v]][i].leg_id
               /\ lease'[sock'[v]] # Blank => pkt'[v].leg_id < lease'[sock'[v]].leg_id
    <3>1. CASE v # w
      <4>1. Bears(v) /\ pkt'[v] = pkt[v] /\ sock'[v] = sock[v] /\ sock[v] \in Conn
          BY <1>0, <2>2, <2>3, <2>6, <3>1
      <4>2. CASE sock[v] # s
          BY <1>0, <2>2, <4>1, <4>2 DEF Ascending
      <4>3. CASE sock[v] = s
          BY <1>0, <2>2, <4>1, <4>3 DEF Ascending
      <4> QED BY <4>2, <4>3
    <3>2. CASE v = w
      <4>1. sock'[v] = s /\ ~wire[s][1].cut
          BY <2>1, <2>2, <2>6, <3>2 DEF Bears
      <4>2. \A i \in 1..Len(wire'[s]) : i + 1 \in 1..Len(wire[s]) /\ 1 < i + 1
          BY <2>2
      <4>3. \A i \in 1..Len(wire'[s]) : wire[s][1].leg_id < wire'[s][i].leg_id
          BY <1>0, <2>2, <4>2 DEF Ascending
      <4>4. lease[s] # Blank => wire[s][1].leg_id < lease[s].leg_id
          BY <1>0, <2>2, <4>1 DEF Ascending
      <4> QED BY <2>2, <3>2, <4>1, <4>3, <4>4
    <3> QED BY <3>1, <3>2
  <2> QED BY <2>4, <2>5, <2>6 DEF Ascending
<1>5. ASSUME NEW w \in RxWorkers, HeaderEofStale(w) \/ HeaderEofStray(w), UNCHANGED feedVars
      PROVE  Ascending'
  <2>1. \A v \in RxWorkers : Bears(v)' => Bears(v) /\ pkt'[v].leg_id = pkt[v].leg_id
      BY <1>0, <1>5, EofFacts DEF Bears
  <2> QED BY <1>0, <1>2, <1>5, <2>1, EofFacts DEF feedVars
<1>6. ASSUME UNCHANGED <<wire, lease, sock, rpc, pkt>> PROVE Ascending'
    BY <1>0, <1>2, <1>6 DEF Bears
<1>7. ASSUME NEW c \in Conn, LeaseData(c) \/ LeaseEnd(c), UNCHANGED rxVars PROVE Ascending'
  <2>1. /\ lease'[c].leg_id = fed /\ UNCHANGED <<wire, sock, rpc, pkt>>
        /\ \A d \in Conn : d # c => lease'[d] = lease[d]
      BY <1>0, <1>7, LeaseFacts DEF rxVars
  <2>2. \A d \in Conn : \A i \in 1..Len(wire[d]) : wire[d][i].leg_id < fed
      BY <1>0 DEF IndInv, AllSound, Sound
  <2>3. \A v \in RxWorkers : Bears(v) => pkt[v].leg_id < fed
      BY <1>0 DEF IndInv, AllSound, Sound, Bears
  <2>4. \A v \in RxWorkers : Bears(v)' <=> Bears(v)
      BY <2>1 DEF Bears
  <2>5. \A d \in Conn : \A i \in 1..Len(wire'[d]) :
           lease'[d] # Blank /\ ~wire'[d][i].cut => wire'[d][i].leg_id < lease'[d].leg_id
      BY <1>0, <2>1, <2>2 DEF Ascending
  <2>6. \A v \in RxWorkers : Bears(v)' =>
           /\ \A i \in 1..Len(wire'[sock'[v]]) : pkt'[v].leg_id < wire'[sock'[v]][i].leg_id
           /\ lease'[sock'[v]] # Blank => pkt'[v].leg_id < lease'[sock'[v]].leg_id
      BY <1>0, <2>1, <2>3, <2>4 DEF Ascending
  <2> QED BY <1>0, <2>1, <2>5, <2>6 DEF Ascending
<1>8. ASSUME NEW c \in Conn, Push(c), UNCHANGED rxVars PROVE Ascending'
  <2>1. /\ lease[c] # Blank /\ lease'[c] = Blank /\ txproc = "run" /\ UNCHANGED <<sock, rpc, pkt>>
        /\ \A d \in Conn : d # c => lease'[d] = lease[d] /\ wire'[d] = wire[d]
        /\ Len(wire[c]) \in Nat /\ Len(wire'[c]) = Len(wire[c]) + 1
        /\ \A i \in 1..Len(wire[c]) : wire'[c][i] = wire[c][i]
        /\ wire'[c][Len(wire[c]) + 1] = lease[c]
      BY <1>0, <1>8, PushFacts DEF rxVars
  <2>2. \A v \in RxWorkers : Bears(v)' <=> Bears(v)
      BY <2>1 DEF Bears
  <2>3. ASSUME NEW d \in Conn, NEW i \in 1..Len(wire'[d]), NEW j \in 1..Len(wire'[d]), i < j
        PROVE  wire'[d][i].leg_id < wire'[d][j].leg_id
    <3>1. CASE d # c
        BY <1>0, <2>1, <2>3, <3>1 DEF Ascending
    <3>2. CASE d = c /\ j \in 1..Len(wire[c])
      <4>1. i \in 1..Len(wire[c])
          BY <2>1, <2>3, <3>2
      <4> QED BY <1>0, <2>1, <2>3, <3>2, <4>1 DEF Ascending
    <3>3. CASE d = c /\ j \notin 1..Len(wire[c])
      <4>1. i \in 1..Len(wire[c]) /\ j = Len(wire[c]) + 1
          BY <2>1, <2>3, <3>3
      <4>2. ~wire[c][i].cut
          BY <1>1, <2>1, <4>1
      <4> QED BY <1>0, <2>1, <3>3, <4>1, <4>2 DEF Ascending
    <3> QED BY <3>1, <3>2, <3>3
  <2>4. ASSUME NEW d \in Conn, NEW i \in 1..Len(wire'[d]), lease'[d] # Blank, ~wire'[d][i].cut
        PROVE  wire'[d][i].leg_id < lease'[d].leg_id
      BY <1>0, <2>1, <2>4 DEF Ascending
  <2>5. ASSUME NEW v \in RxWorkers, Bears(v)'
        PROVE  /\ \A i \in 1..Len(wire'[sock'[v]]) : pkt'[v].leg_id < wire'[sock'[v]][i].leg_id
               /\ lease'[sock'[v]] # Blank => pkt'[v].leg_id < lease'[sock'[v]].leg_id
    <3>1. Bears(v) /\ sock'[v] = sock[v] /\ pkt'[v] = pkt[v] /\ sock[v] \in Conn
        BY <1>0, <2>1, <2>2, <2>5
    <3>2. CASE sock[v] # c
        BY <1>0, <2>1, <3>1, <3>2 DEF Ascending
    <3>3. CASE sock[v] = c
      <4>1. \A i \in 1..Len(wire'[c]) : i \in 1..Len(wire[c]) \/ i = Len(wire[c]) + 1
          BY <2>1
      <4> QED BY <1>0, <2>1, <3>1, <3>3, <4>1 DEF Ascending
    <3> QED BY <3>2, <3>3
  <2> QED BY <2>3, <2>4, <2>5 DEF Ascending
<1>9. ASSUME Hangup, UNCHANGED rxVars PROVE Ascending'
  <2>1. /\ UNCHANGED <<lease, sock, rpc, pkt>> /\ txproc = "run"
        /\ \A c \in Conn :
              \/ wire'[c] = wire[c]
              \/ /\ lease[c] # Blank /\ Len(wire[c]) \in Nat /\ Len(wire'[c]) = Len(wire[c]) + 1
                 /\ \A i \in 1..Len(wire[c]) : wire'[c][i] = wire[c][i]
                 /\ wire'[c][Len(wire[c]) + 1].cut
                 /\ wire'[c][Len(wire[c]) + 1].leg_id = lease[c].leg_id
      BY <1>0, <1>9, HangupFacts DEF rxVars
  <2>2. \A v \in RxWorkers : Bears(v)' <=> Bears(v)
      BY <2>1 DEF Bears
  <2>3. ASSUME NEW c \in Conn, NEW i \in 1..Len(wire'[c])
        PROVE  \/ i \in 1..Len(wire[c]) /\ wire'[c][i] = wire[c][i]
               \/ /\ lease[c] # Blank /\ Len(wire[c]) \in Nat /\ i = Len(wire[c]) + 1
                  /\ wire'[c][i].cut /\ wire'[c][i].leg_id = lease[c].leg_id /\ Len(wire'[c]) = i
      BY <2>1
  <2>4. ASSUME NEW c \in Conn, NEW i \in 1..Len(wire'[c]), NEW j \in 1..Len(wire'[c]), i < j
        PROVE  wire'[c][i].leg_id < wire'[c][j].leg_id
    <3>1. i \in 1..Len(wire[c]) /\ wire'[c][i] = wire[c][i] /\ ~wire[c][i].cut
        BY <1>1, <2>1, <2>3, <2>4
    <3>2. CASE j \in 1..Len(wire[c]) /\ wire'[c][j] = wire[c][j]
        BY <1>0, <2>4, <3>1, <3>2 DEF Ascending
    <3>3. CASE lease[c] # Blank /\ wire'[c][j].leg_id = lease[c].leg_id
        BY <1>0, <3>1, <3>3 DEF Ascending
    <3> QED BY <2>3, <3>2, <3>3
  <2>5. ASSUME NEW c \in Conn, NEW i \in 1..Len(wire'[c]), lease'[c] # Blank, ~wire'[c][i].cut
        PROVE  wire'[c][i].leg_id < lease'[c].leg_id
    <3>1. i \in 1..Len(wire[c]) /\ wire'[c][i] = wire[c][i]
        BY <2>3, <2>5
    <3> QED BY <1>0, <2>1, <2>5, <3>1 DEF Ascending
  <2>6. ASSUME NEW v \in RxWorkers, Bears(v)'
        PROVE  /\ \A i \in 1..Len(wire'[sock'[v]]) : pkt'[v].leg_id < wire'[sock'[v]][i].leg_id
               /\ lease'[sock'[v]] # Blank => pkt'[v].leg_id < lease'[sock'[v]].leg_id
    <3>1. Bears(v) /\ sock'[v] = sock[v] /\ pkt'[v] = pkt[v] /\ sock[v] \in Conn
        BY <1>0, <2>1, <2>2, <2>6
    <3>2. ASSUME NEW i \in 1..Len(wire'[sock[v]]) PROVE pkt[v].leg_id < wire'[sock[v]][i].leg_id
      <4>1. CASE i \in 1..Len(wire[sock[v]]) /\ wire'[sock[v]][i] = wire[sock[v]][i]
          BY <1>0, <3>1, <4>1 DEF Ascending
      <4>2. CASE lease[sock[v]] # Blank /\ wire'[sock[v]][i].leg_id = lease[sock[v]].leg_id
          BY <1>0, <3>1, <4>2 DEF Ascending
      <4> QED BY <2>3, <3>1, <4>1, <4>2
    <3> QED BY <1>0, <2>1, <3>1, <3>2 DEF Ascending
  <2> QED BY <2>4, <2>5, <2>6 DEF Ascending
<1>10. CASE RxPoll /\ UNCHANGED feedVars
    BY <1>6, <1>10 DEF RxPoll, feedVars, wireVars
<1>11. ASSUME NEW c \in Conn, Connect(c), UNCHANGED rxVars PROVE Ascending'
    BY <1>6, <1>11 DEF Connect, feedVars, rxVars
<1>12. CASE UNCHANGED vars
    BY <1>6, <1>12 DEF vars, wireVars, feedVars, rxVars
<1> QED
    BY <1>3, <1>4, <1>5, <1>7, <1>8, <1>9, <1>10, <1>11, <1>12, NextCases

-----------------------------------------------------------------------------
(* OneThread *)

\* Only accept() gives a thread a connection, and only the answer lets it read legs there.
LEMMA ThreadStep ==
    ASSUME IndInv, NEW w \in RxWorkers, Quiet(w), ~Accept(w), ~PhraseOk(w)
    PROVE  /\ UNCHANGED <<sock, conn>>
           /\ \A v \in RxWorkers : (Serves(v)' => Serves(v)) /\ (rpc'[v] = "phrase" => rpc[v] = "phrase")
           /\ InnerLoop(w) \/ \A v \in RxWorkers : Serves(v) => Serves(v)'
<1> USE DEF IndInv, TypeOK, RxTypeOK, At, Goto, Dies, wireVars
<1>1. CASE CondInit(w) \/ OuterLoop(w) \/ InnerLoop(w)
    BY <1>1 DEF CondInit, OuterLoop, InnerLoop, Serves
<1>2. CASE ReadPayload(w) \/ Relay(w) \/ Sequence(w) \/ SpuriousWakeup(w)
    BY <1>2 DEF ReadPayload, Relay, Sequence, SpuriousWakeup, Serves
<1>3. CASE Write(w) \/ MarkOpcode(w) \/ Advance(w) \/ Broadcast(w)
    BY <1>3 DEF Write, MarkOpcode, Advance, Broadcast, Serves
<1>4. CASE HeaderEofHuge(w) \/ PhraseFails(w) \/ ReadFails(w) \/ WriteFails(w)
    BY <1>4 DEF HeaderEofHuge, PhraseFails, ReadFails, WriteFails, Serves
<1> QED
    BY <1>1, <1>2, <1>3, <1>4 DEF Quiet, RxOutside

LEMMA AcceptFacts ==
    ASSUME TypeOK, NEW w \in RxWorkers, Accept(w)
    PROVE  \E c \in Conn :
             /\ conn[c] \in {"syn", "alien"} /\ sock'[w] = c /\ conn'[c] \in {"accepted", "foreign"}
             /\ \A d \in Conn : d # c => conn'[d] = conn[d]
             /\ rpc[w] = "accept" /\ rpc'[w] = "phrase"
             /\ \A v \in RxWorkers : v # w => sock'[v] = sock[v] /\ rpc'[v] = rpc[v]
             /\ UNCHANGED <<wire, pkt, restartme, next_leg, done_mbox, txproc>>
<1> USE DEF TypeOK, RxTypeOK, WireTypeOK
<1>1. PICK c \in Conn : Taken(c) /\ sock' = [sock EXCEPT ![w] = c]
    BY DEF Accept
<1>2. /\ conn[c] \in {"syn", "alien"} /\ conn'[c] \in {"accepted", "foreign"}
      /\ \A d \in Conn : d # c => conn'[d] = conn[d]
    BY <1>1 DEF Taken
<1>3. /\ rpc[w] = "accept" /\ rpc'[w] = "phrase"
      /\ \A v \in RxWorkers : v # w => rpc'[v] = rpc[v]
      /\ UNCHANGED <<wire, pkt, restartme, next_leg, done_mbox, txproc>>
    BY <1>1 DEF Accept, At, Goto, Taken
<1>4. sock'[w] = c /\ \A v \in RxWorkers : v # w => sock'[v] = sock[v]
    BY <1>1
<1> QED BY <1>2, <1>3, <1>4

LEMMA PhraseFacts ==
    ASSUME TypeOK, NEW w \in RxWorkers, PhraseOk(w)
    PROVE  /\ conn[sock[w]] = "accepted" /\ conn'[sock[w]] = "open" /\ sock[w] \in Conn
           /\ \A d \in Conn : d # sock[w] => conn'[d] = conn[d]
           /\ rpc[w] = "phrase" /\ rpc'[w] = "inner"
           /\ \A v \in RxWorkers : v # w => rpc'[v] = rpc[v]
           /\ UNCHANGED <<wire, sock, pkt, restartme, next_leg, done_mbox, txproc>>
BY DEF PhraseOk, Answer, At, Goto, TypeOK, RxTypeOK, WireTypeOK

LEMMA OneThreadStep ==
    ASSUME FlowInv, [Next]_vars
    PROVE  OneThread'
<1>0. /\ IndInv /\ TypeOK /\ OneThread /\ sock \in [RxWorkers -> Conn]
      /\ wire \in [Conn -> Seq(Packet)]
    BY DEF FlowInv, IndInv, TypeOK, RxTypeOK, WireTypeOK
<1>1. ASSUME \A v \in RxWorkers : /\ Serves(v)' => Serves(v) /\ sock'[v] = sock[v]
                                  /\ rpc'[v] = "phrase" => rpc[v] = "phrase" /\ sock'[v] = sock[v],
             \A c \in Conn : /\ conn[c] \in {"accepted", "foreign", "open"} => conn'[c] = conn[c]
                             /\ lease'[c] # Blank \/ wire'[c] # <<>> =>
                                   lease[c] # Blank \/ wire[c] # <<>> \/ conn[c] = "open"
      PROVE  OneThread'
  <2>1. \A v, w \in RxWorkers : v # w /\ Attached(v)' /\ Attached(w)' => sock'[v] # sock'[w]
      BY <1>0, <1>1 DEF OneThread, Attached
  <2>2. \A w \in RxWorkers : Serves(w)' => conn'[sock'[w]] = "open"
      BY <1>0, <1>1 DEF OneThread
  <2>3. \A w \in RxWorkers : rpc'[w] = "phrase" => conn'[sock'[w]] \in {"accepted", "foreign"}
      BY <1>0, <1>1 DEF OneThread
  <2>4. \A c \in Conn : lease'[c] # Blank \/ wire'[c] # <<>> => conn'[c] = "open"
      BY <1>0, <1>1 DEF OneThread
  <2> QED BY <2>1, <2>2, <2>3, <2>4 DEF OneThread
<1>2. ASSUME NEW w \in RxWorkers, Quiet(w), UNCHANGED feedVars, ~Accept(w), ~PhraseOk(w) PROVE OneThread'
  <2>1. UNCHANGED <<sock, conn, wire, lease>>
      BY <1>0, <1>2, ThreadStep, QuietKeeps DEF feedVars
  <2> QED BY <1>0, <1>1, <1>2, <2>1, ThreadStep
<1>3. ASSUME NEW w \in RxWorkers, Accept(w), UNCHANGED feedVars PROVE OneThread'
  <2>1. PICK c \in Conn :
             /\ conn[c] \in {"syn", "alien"} /\ sock'[w] = c /\ conn'[c] \in {"accepted", "foreign"}
             /\ \A d \in Conn : d # c => conn'[d] = conn[d]
             /\ rpc[w] = "accept" /\ rpc'[w] = "phrase"
             /\ \A v \in RxWorkers : v # w => sock'[v] = sock[v] /\ rpc'[v] = rpc[v]
             /\ UNCHANGED wire
      BY <1>0, <1>3, AcceptFacts
  <2>2. \A v \in RxWorkers : v # w /\ Attached(v)' => Attached(v) /\ sock'[v] # c
      BY <1>0, <2>1 DEF OneThread, Attached, Serves
  <2>3. \A v, u \in RxWorkers : v # u /\ Attached(v)' /\ Attached(u)' => sock'[v] # sock'[u]
      BY <1>0, <2>1, <2>2 DEF OneThread
  <2>4. ~Serves(w)'
      BY <2>1 DEF Serves
  <2>5. \A v \in RxWorkers : Serves(v)' => conn'[sock'[v]] = "open"
    <3> SUFFICES ASSUME NEW v \in RxWorkers, Serves(v)' PROVE conn'[sock'[v]] = "open"
        OBVIOUS
    <3>1. v # w /\ Serves(v) /\ sock'[v] = sock[v] /\ sock[v] \in Conn
        BY <1>0, <2>1, <2>4 DEF Serves
    <3>2. conn[sock[v]] = "open"
        BY <1>0, <3>1 DEF OneThread
    <3> QED BY <2>1, <3>1, <3>2
  <2>6. \A v \in RxWorkers : rpc'[v] = "phrase" => conn'[sock'[v]] \in {"accepted", "foreign"}
    <3> SUFFICES ASSUME NEW v \in RxWorkers, v # w, rpc'[v] = "phrase"
                 PROVE  conn'[sock'[v]] \in {"accepted", "foreign"}
        BY <2>1
    <3>1. rpc[v] = "phrase" /\ sock'[v] = sock[v] /\ sock[v] \in Conn
        BY <1>0, <2>1
    <3>2. conn[sock[v]] \in {"accepted", "foreign"}
        BY <1>0, <3>1 DEF OneThread
    <3> QED BY <2>1, <3>1, <3>2
  <2>7. \A d \in Conn : lease'[d] # Blank \/ wire'[d] # <<>> => conn'[d] = "open"
      BY <1>0, <1>3, <2>1 DEF OneThread, feedVars
  <2> QED BY <2>3, <2>5, <2>6, <2>7 DEF OneThread
<1>4. ASSUME NEW w \in RxWorkers, PhraseOk(w), UNCHANGED feedVars PROVE OneThread'
  <2>1. /\ conn[sock[w]] = "accepted" /\ conn'[sock[w]] = "open" /\ sock[w] \in Conn
        /\ \A d \in Conn : d # sock[w] => conn'[d] = conn[d]
        /\ rpc[w] = "phrase" /\ rpc'[w] = "inner"
        /\ \A v \in RxWorkers : v # w => rpc'[v] = rpc[v]
        /\ UNCHANGED <<wire, sock, lease>>
      BY <1>0, <1>4, PhraseFacts DEF feedVars
  <2>2. \A v \in RxWorkers : Attached(v)' => Attached(v)
      BY <2>1 DEF Attached, Serves
  <2>3. \A v, u \in RxWorkers : v # u /\ Attached(v)' /\ Attached(u)' => sock'[v] # sock'[u]
      BY <1>0, <2>1, <2>2 DEF OneThread
  <2>4. \A v \in RxWorkers : Serves(v)' => conn'[sock'[v]] = "open"
    <3> SUFFICES ASSUME NEW v \in RxWorkers, Serves(v)', v # w PROVE conn'[sock'[v]] = "open"
        BY <2>1
    <3>1. Serves(v) /\ sock'[v] = sock[v] /\ sock[v] \in Conn
        BY <1>0, <2>1 DEF Serves
    <3>2. conn[sock[v]] = "open"
        BY <1>0, <3>1 DEF OneThread
    <3> QED BY <2>1, <3>1, <3>2
  <2>5. \A v \in RxWorkers : rpc'[v] = "phrase" => conn'[sock'[v]] \in {"accepted", "foreign"}
    <3> SUFFICES ASSUME NEW v \in RxWorkers, v # w, rpc'[v] = "phrase"
                 PROVE  conn'[sock'[v]] \in {"accepted", "foreign"}
        BY <2>1
    <3>1. rpc[v] = "phrase" /\ sock'[v] = sock[v] /\ sock[v] \in Conn
        BY <1>0, <2>1
    <3>2. sock[v] # sock[w]
        BY <1>0, <2>1, <3>1 DEF OneThread, Attached
    <3> QED BY <1>0, <2>1, <3>1, <3>2 DEF OneThread
  <2>6. \A d \in Conn : lease'[d] # Blank \/ wire'[d] # <<>> => conn'[d] = "open"
      BY <1>0, <2>1 DEF OneThread
  <2> QED BY <2>3, <2>4, <2>5, <2>6 DEF OneThread
<1>5. ASSUME NEW w \in RxWorkers, ReadHeader(w), UNCHANGED feedVars PROVE OneThread'
  <2>1. UNCHANGED <<sock, conn, lease>>
      BY <1>0, <1>5, ReadFacts DEF feedVars
  <2>2. \A v \in RxWorkers : (Serves(v)' => Serves(v)) /\ (rpc'[v] = "phrase" => rpc[v] = "phrase")
      BY <1>0, <1>5, ReadFacts DEF Serves
  <2>3. \A c \in Conn : wire'[c] # <<>> => wire[c] # <<>>
      BY <1>0, <1>5, ReadFacts DEF ReadHeader
  <2> QED BY <1>1, <2>1, <2>2, <2>3
<1>6. ASSUME NEW w \in RxWorkers, HeaderEofStale(w) \/ HeaderEofStray(w), UNCHANGED feedVars
      PROVE  OneThread'
  <2>1. UNCHANGED <<sock, conn, lease, wire>>
      BY <1>0, <1>6, EofFacts DEF feedVars
  <2>2. \A v \in RxWorkers : (Serves(v)' => Serves(v)) /\ (rpc'[v] = "phrase" => rpc[v] = "phrase")
      BY <1>0, <1>6, EofFacts DEF Serves
  <2> QED BY <1>1, <2>1, <2>2
<1>7. ASSUME UNCHANGED <<rpc, sock>>,
             \A c \in Conn : /\ conn[c] \in {"accepted", "foreign", "open"} => conn'[c] = conn[c]
                             /\ lease'[c] # Blank \/ wire'[c] # <<>> =>
                                   lease[c] # Blank \/ wire[c] # <<>> \/ conn[c] = "open"
      PROVE  OneThread'
    BY <1>1, <1>7 DEF Serves
<1>8. ASSUME NEW c \in Conn, Connect(c), UNCHANGED rxVars PROVE OneThread'
    BY <1>0, <1>7, <1>8 DEF Connect, feedVars, rxVars, TypeOK, WireTypeOK
<1>9. ASSUME NEW c \in Conn, LeaseData(c) \/ LeaseEnd(c), UNCHANGED rxVars PROVE OneThread'
  <2>1. \A d \in Conn : lease'[d] # Blank => lease[d] # Blank \/ conn[d] = "open"
      BY <1>0, <1>9, LeaseFacts
  <2> QED BY <1>0, <1>7, <1>9, <2>1, LeaseFacts DEF rxVars
<1>10. ASSUME NEW c \in Conn, Push(c), UNCHANGED rxVars PROVE OneThread'
  <2>1. \A d \in Conn : lease'[d] # Blank \/ wire'[d] # <<>> => lease[d] # Blank \/ wire[d] # <<>>
      BY <1>0, <1>10, PushFacts
  <2> QED BY <1>0, <1>7, <1>10, <2>1, PushFacts DEF rxVars
<1>11. ASSUME Hangup, UNCHANGED rxVars PROVE OneThread'
  <2>1. \A d \in Conn : lease'[d] # Blank \/ wire'[d] # <<>> => lease[d] # Blank \/ wire[d] # <<>>
      BY <1>0, <1>11, HangupFacts
  <2> QED BY <1>0, <1>7, <1>11, <2>1, HangupFacts DEF rxVars
<1>12. CASE RxPoll /\ UNCHANGED feedVars
    BY <1>7, <1>12 DEF RxPoll, feedVars, wireVars
<1>13. CASE UNCHANGED vars
    BY <1>7, <1>13 DEF vars, wireVars, feedVars, rxVars
<1> QED
    BY <1>2, <1>3, <1>4, <1>5, <1>6, <1>8, <1>9, <1>10, <1>11, <1>12, <1>13, NextCases

-----------------------------------------------------------------------------
(* Loyal *)

\* The parts of Loyal, each for one thread or connection.
Dropped(w) == restartme[w] \/ (rpc[w] \in {"payload", "relay", "sequence", "waiting"} /\ pkt[w].cut)

LEMMA LoyalParts ==
    Loyal <=>
      /\ \A c \in Conn : \A i \in 1..Len(wire[c]) : wire[c][i].cut => HungUpEarly
      /\ \A w \in RxWorkers : Dropped(w) => Exhausted(sock[w])
      /\ \A w \in RxWorkers : rpc[w] \in {"accept", "phrase"} => ~restartme[w]
      /\ ~done_mbox => \A c \in Conn : conn[c] = "open" =>
            Exhausted(c) \/ \E w \in RxWorkers : Serves(w) /\ sock[w] = c
BY DEF Loyal, Dropped

\* A thread drops a leg that arrived cut, and resets the flag before it accepts.
LEMMA DroppedStep ==
    ASSUME IndInv, NEW w \in RxWorkers, Quiet(w), ~Accept(w), NEW v \in RxWorkers
    PROVE  /\ Dropped(v)' => Dropped(v)
           /\ rpc'[v] \in {"accept", "phrase"} => ~restartme'[v] \/ rpc'[v] = rpc[v]
           /\ restartme'[v] => restartme[v] \/ rpc[v] = "payload"
<1> USE DEF IndInv, TypeOK, RxTypeOK, At, Goto, Dies, wireVars
<1>1. CASE CondInit(w) \/ OuterLoop(w) \/ PhraseOk(w) \/ InnerLoop(w)
    BY <1>1 DEF CondInit, OuterLoop, PhraseOk, InnerLoop, Dropped
<1>2. CASE ReadPayload(w)
  <2>1. CASE v # w
      BY <1>2, <2>1 DEF ReadPayload, Dropped
  <2>2. CASE v = w
      BY <1>2, <2>2 DEF ReadPayload, Dropped
  <2> QED BY <2>1, <2>2
<1>3. CASE Relay(w) \/ Sequence(w) \/ SpuriousWakeup(w)
    BY <1>3 DEF Relay, Sequence, SpuriousWakeup, Dropped
<1>4. CASE Write(w) \/ MarkOpcode(w) \/ Advance(w) \/ Broadcast(w)
    BY <1>4 DEF Write, MarkOpcode, Advance, Broadcast, Dropped
<1>5. CASE HeaderEofHuge(w) \/ PhraseFails(w) \/ ReadFails(w) \/ WriteFails(w)
    BY <1>5 DEF HeaderEofHuge, PhraseFails, ReadFails, WriteFails, Dropped
<1> QED
    BY <1>1, <1>2, <1>3, <1>4, <1>5 DEF Quiet, RxOutside

LEMMA LoyalStep ==
    ASSUME FlowInv, [Next]_vars
    PROVE  Loyal'
<1>0. /\ IndInv /\ TypeOK /\ OneThread /\ sock \in [RxWorkers -> Conn] /\ restartme \in [RxWorkers -> BOOLEAN]
      /\ wire \in [Conn -> Seq(Packet)]
    BY DEF FlowInv, IndInv, TypeOK, RxTypeOK, WireTypeOK
<1>1. /\ \A c \in Conn : \A i \in 1..Len(wire[c]) : wire[c][i].cut => HungUpEarly
      /\ \A w \in RxWorkers : Dropped(w) => Exhausted(sock[w])
      /\ \A w \in RxWorkers : rpc[w] \in {"accept", "phrase"} => ~restartme[w]
      /\ ~done_mbox => \A c \in Conn : conn[c] = "open" =>
            Exhausted(c) \/ \E w \in RxWorkers : Serves(w) /\ sock[w] = c
    BY LoyalParts DEF FlowInv
<1>2. /\ HungUpEarly => HungUpEarly'
      /\ \A c \in Conn : Exhausted(c) => Exhausted(c)'
    BY <1>0, HungUpStays, ExhaustedStays
<1>3. ASSUME \A c \in Conn : \A i \in 1..Len(wire'[c]) : wire'[c][i].cut => HungUpEarly',
             \A w \in RxWorkers : Dropped(w)' => Exhausted(sock[w])',
             \A w \in RxWorkers : rpc'[w] \in {"accept", "phrase"} => ~restartme'[w],
             ~done_mbox' => \A c \in Conn : conn'[c] = "open" =>
                Exhausted(c)' \/ \E w \in RxWorkers : Serves(w)' /\ sock'[w] = c
      PROVE  Loyal'
    BY <1>3 DEF Loyal, Dropped
<1>5. ASSUME NEW w \in RxWorkers, Accept(w), UNCHANGED feedVars PROVE Loyal'
  <2>1. PICK c \in Conn :
             /\ conn[c] \in {"syn", "alien"} /\ sock'[w] = c /\ conn'[c] \in {"accepted", "foreign"}
             /\ \A d \in Conn : d # c => conn'[d] = conn[d]
             /\ rpc[w] = "accept" /\ rpc'[w] = "phrase"
             /\ \A v \in RxWorkers : v # w => sock'[v] = sock[v] /\ rpc'[v] = rpc[v]
             /\ UNCHANGED <<wire, pkt, restartme, next_leg, done_mbox, txproc>>
      BY <1>0, <1>5, AcceptFacts
  <2>2. \A d \in Conn : \A i \in 1..Len(wire'[d]) : wire'[d][i].cut => HungUpEarly'
      BY <1>1, <1>2, <2>1
  <2>3. \A v \in RxWorkers : Dropped(v)' => Exhausted(sock[v])'
    <3> SUFFICES ASSUME NEW v \in RxWorkers, Dropped(v)' PROVE Exhausted(sock[v])'
        OBVIOUS
    <3>1. v # w /\ Dropped(v)
        BY <1>1, <2>1 DEF Dropped
    <3>2. PICK d \in Conn : d = sock[v] /\ d = sock'[v]
        BY <1>0, <2>1, <3>1
    <3>3. Exhausted(d)'
        BY <1>1, <1>2, <3>1, <3>2
    <3> QED BY <3>2, <3>3 DEF Exhausted
  <2>4. \A v \in RxWorkers : rpc'[v] \in {"accept", "phrase"} => ~restartme'[v]
      BY <1>1, <2>1
  <2>5. ~done_mbox' => \A d \in Conn : conn'[d] = "open" =>
           Exhausted(d)' \/ \E v \in RxWorkers : Serves(v)' /\ sock'[v] = d
    <3> SUFFICES ASSUME ~done_mbox, NEW d \in Conn, conn'[d] = "open", ~Exhausted(d)'
                 PROVE  \E v \in RxWorkers : Serves(v)' /\ sock'[v] = d
        BY <2>1
    <3>1. conn[d] = "open" /\ ~Exhausted(d)
        BY <1>2, <2>1
    <3>2. PICK v \in RxWorkers : Serves(v) /\ sock[v] = d
        BY <1>1, <3>1
    <3>3. v # w
        BY <2>1, <3>2 DEF Serves
    <3>4. Serves(v)' /\ sock'[v] = d
        BY <2>1, <3>2, <3>3 DEF Serves
    <3> QED BY <3>4
  <2> QED BY <1>3, <2>2, <2>3, <2>4, <2>5
<1>6. ASSUME NEW w \in RxWorkers, Quiet(w), ~Accept(w), UNCHANGED feedVars PROVE Loyal'
  <2>1. UNCHANGED wire /\ (done_mbox => done_mbox')
      BY <1>0, <1>6, QuietKeeps, QuietPlaces
  <2>2. UNCHANGED sock
      BY <1>0, <1>6, ThreadStep, PhraseFacts
  <2>3. \A d \in Conn : \A i \in 1..Len(wire'[d]) : wire'[d][i].cut => HungUpEarly'
      BY <1>1, <1>2, <2>1
  <2>4. \A v \in RxWorkers : Dropped(v)' => Exhausted(sock[v])'
    <3> SUFFICES ASSUME NEW v \in RxWorkers, Dropped(v)' PROVE Exhausted(sock[v])'
        OBVIOUS
    <3>1. Dropped(v)
        BY <1>0, <1>6, DroppedStep
    <3>2. PICK d \in Conn : d = sock[v] /\ d = sock'[v]
        BY <1>0, <2>2
    <3>3. Exhausted(d)'
        BY <1>1, <1>2, <3>1, <3>2
    <3> QED BY <3>2, <3>3 DEF Exhausted
  <2>5. \A v \in RxWorkers : rpc'[v] \in {"accept", "phrase"} => ~restartme'[v]
    <3> SUFFICES ASSUME NEW v \in RxWorkers, rpc'[v] \in {"accept", "phrase"}, restartme'[v] PROVE FALSE
        OBVIOUS
    <3>1. rpc'[v] = rpc[v] /\ (restartme[v] \/ rpc[v] = "payload")
        BY <1>0, <1>6, DroppedStep
    <3> QED BY <1>1, <3>1
  <2>6. ~done_mbox' => \A d \in Conn : conn'[d] = "open" =>
           Exhausted(d)' \/ \E v \in RxWorkers : Serves(v)' /\ sock'[v] = d
    <3> SUFFICES ASSUME ~done_mbox, NEW d \in Conn, conn'[d] = "open", ~Exhausted(d)'
                 PROVE  \E v \in RxWorkers : Serves(v)' /\ sock'[v] = d
        BY <2>1
    <3>1. ASSUME PhraseOk(w), d = sock[w] PROVE \E v \in RxWorkers : Serves(v)' /\ sock'[v] = d
        BY <1>0, <2>2, <3>1, PhraseFacts DEF Serves
    <3>2. ASSUME ~(PhraseOk(w) /\ d = sock[w]) PROVE \E v \in RxWorkers : Serves(v)' /\ sock'[v] = d
      <4>1. conn[d] = "open" /\ ~Exhausted(d)
          BY <1>0, <1>2, <1>6, <3>2, ThreadStep, PhraseFacts
      <4>2. PICK v \in RxWorkers : Serves(v) /\ sock[v] = d
          BY <1>1, <4>1
      <4>3. Serves(v)'
        <5>1. CASE InnerLoop(w) /\ v = w
          <6>1. ~restartme[w]
              BY <1>1, <4>1, <4>2, <5>1 DEF Dropped
          <6> QED BY <1>0, <5>1, <6>1 DEF InnerLoop, At, Goto, Serves, TypeOK, RxTypeOK
        <5>2. CASE InnerLoop(w) /\ v # w
            BY <1>0, <4>2, <5>2 DEF InnerLoop, Goto, Serves, TypeOK, RxTypeOK
        <5>3. CASE PhraseOk(w)
            BY <1>0, <4>2, <5>3, PhraseFacts DEF Serves
        <5>4. CASE ~InnerLoop(w) /\ ~PhraseOk(w)
            BY <1>0, <1>6, <4>2, <5>4, ThreadStep
        <5> QED BY <5>1, <5>2, <5>3, <5>4
      <4> QED BY <2>2, <4>2, <4>3
    <3> QED BY <3>1, <3>2
  <2> QED BY <1>3, <2>3, <2>4, <2>5, <2>6
<1>7. ASSUME NEW w \in RxWorkers, ReadHeader(w), UNCHANGED feedVars PROVE Loyal'
  <2>1. PICK s \in Conn : s = sock[w]
      BY <1>0
  <2>2. /\ 1 \in 1..Len(wire[s]) /\ pkt'[w] = wire[s][1]
        /\ \A c \in Conn : c # s => wire'[c] = wire[c]
        /\ \A i \in 1..Len(wire'[s]) : i + 1 \in 1..Len(wire[s]) /\ wire'[s][i] = wire[s][i + 1]
        /\ \A v \in RxWorkers : v # w => pkt'[v] = pkt[v] /\ rpc'[v] = rpc[v]
        /\ rpc[w] = "header" /\ rpc'[w] = "payload"
        /\ UNCHANGED <<sock, restartme, done_mbox, conn>>
      BY <1>0, <1>7, <2>1, ReadFacts
  <2>3. ASSUME NEW c \in Conn, NEW i \in 1..Len(wire'[c]), wire'[c][i].cut PROVE HungUpEarly'
    <3>1. CASE c # s
        BY <1>1, <1>2, <2>2, <2>3, <3>1
    <3>2. CASE c = s
        BY <1>1, <1>2, <2>2, <2>3, <3>2
    <3> QED BY <3>1, <3>2
  <2>4. ASSUME NEW v \in RxWorkers, Dropped(v)' PROVE Exhausted(sock[v])'
    <3>1. ASSUME Dropped(v) PROVE Exhausted(sock[v])'
      <4>1. PICK d \in Conn : d = sock[v] /\ d = sock'[v]
          BY <1>0, <2>2
      <4>2. Exhausted(d)'
          BY <1>1, <1>2, <3>1, <4>1
      <4> QED BY <4>1, <4>2 DEF Exhausted
    <3>2. ASSUME ~Dropped(v) PROVE Exhausted(sock[v])'
      <4>1. v = w
          BY <2>2, <2>4, <3>2 DEF Dropped
      <4>2. wire[s][1].cut
          BY <2>2, <2>4, <3>2, <4>1 DEF Dropped
      <4>3. HungUpEarly'
          BY <1>1, <1>2, <2>2, <4>2
      <4> QED BY <4>3 DEF Exhausted
    <3> QED BY <3>1, <3>2
  <2>5. \A v \in RxWorkers : rpc'[v] \in {"accept", "phrase"} => ~restartme'[v]
      BY <1>1, <2>2
  <2>6. \A v \in RxWorkers : Serves(v) => Serves(v)'
      BY <2>2 DEF Serves
  <2>7. ~done_mbox' => \A d \in Conn : conn'[d] = "open" =>
           Exhausted(d)' \/ \E v \in RxWorkers : Serves(v)' /\ sock'[v] = d
      BY <1>1, <1>2, <2>2, <2>6
  <2> QED BY <1>3, <2>3, <2>4, <2>5, <2>7
<1>8. ASSUME NEW w \in RxWorkers, HeaderEofStale(w) \/ HeaderEofStray(w), UNCHANGED feedVars
      PROVE  Loyal'
  <2>1. /\ wire[sock[w]] = <<>> /\ txproc # "run"
        /\ \A v \in RxWorkers : v # w => pkt'[v] = pkt[v] /\ rpc'[v] = rpc[v]
        /\ rpc[w] = "header" /\ rpc'[w] = "payload"
        /\ UNCHANGED <<sock, restartme, done_mbox, wire, conn, txproc>>
      BY <1>0, <1>8, EofFacts
  <2>2. \A c \in Conn : \A i \in 1..Len(wire'[c]) : wire'[c][i].cut => HungUpEarly'
      BY <1>1, <1>2, <2>1
  <2>3. ASSUME NEW v \in RxWorkers, Dropped(v)' PROVE Exhausted(sock[v])'
    <3>1. CASE v = w
        BY <2>1, <3>1 DEF Exhausted
    <3>2. CASE v # w
      <4>1. PICK d \in Conn : d = sock[v] /\ d = sock'[v]
          BY <1>0, <2>1
      <4>2. Exhausted(d)'
          BY <1>1, <1>2, <2>1, <2>3, <3>2, <4>1 DEF Dropped
      <4> QED BY <4>1, <4>2 DEF Exhausted
    <3> QED BY <3>1, <3>2
  <2>4. \A v \in RxWorkers : rpc'[v] \in {"accept", "phrase"} => ~restartme'[v]
      BY <1>1, <2>1
  <2>5. \A v \in RxWorkers : Serves(v) => Serves(v)'
      BY <2>1 DEF Serves
  <2>6. ~done_mbox' => \A d \in Conn : conn'[d] = "open" =>
           Exhausted(d)' \/ \E v \in RxWorkers : Serves(v)' /\ sock'[v] = d
      BY <1>1, <1>2, <2>1, <2>5
  <2> QED BY <1>3, <2>2, <2>3, <2>4, <2>6
\* The transmitter's steps, and those that move nothing.
<1>9. ASSUME UNCHANGED <<rpc, pkt, sock, restartme, done_mbox>>,
             \A c \in Conn : \A i \in 1..Len(wire'[c]) : wire'[c][i].cut => HungUpEarly',
             \A c \in Conn : conn'[c] = "open" => conn[c] = "open"
      PROVE  Loyal'
  <2>1. \A v \in RxWorkers : (Dropped(v)' <=> Dropped(v)) /\ (Serves(v)' <=> Serves(v))
      BY <1>9 DEF Dropped, Serves
  <2>2. ASSUME NEW v \in RxWorkers, Dropped(v)' PROVE Exhausted(sock[v])'
    <3>1. PICK d \in Conn : d = sock[v] /\ d = sock'[v]
        BY <1>0, <1>9
    <3>2. Exhausted(d)'
        BY <1>1, <1>2, <2>1, <2>2, <3>1
    <3> QED BY <3>1, <3>2 DEF Exhausted
  <2>3. ~done_mbox' => \A d \in Conn : conn'[d] = "open" =>
           Exhausted(d)' \/ \E v \in RxWorkers : Serves(v)' /\ sock'[v] = d
      BY <1>1, <1>2, <1>9, <2>1
  <2>4. \A v \in RxWorkers : rpc'[v] \in {"accept", "phrase"} => ~restartme'[v]
      BY <1>1, <1>9
  <2> QED BY <1>3, <1>9, <2>2, <2>3, <2>4
<1>10. ASSUME UNCHANGED wire
       PROVE  \A c \in Conn : \A i \in 1..Len(wire'[c]) : wire'[c][i].cut => HungUpEarly'
    BY <1>1, <1>2, <1>10
<1>11. ASSUME NEW c \in Conn, Connect(c), UNCHANGED rxVars PROVE Loyal'
  <2>1. UNCHANGED wire /\ \A d \in Conn : conn'[d] = "open" => conn[d] = "open"
      BY <1>0, <1>11 DEF Connect, TypeOK, WireTypeOK
  <2> QED BY <1>9, <1>10, <1>11, <2>1 DEF rxVars
<1>12. ASSUME NEW c \in Conn, LeaseData(c) \/ LeaseEnd(c), UNCHANGED rxVars PROVE Loyal'
    BY <1>0, <1>9, <1>10, <1>12, LeaseFacts DEF rxVars
<1>13. ASSUME NEW c \in Conn, Push(c), UNCHANGED rxVars PROVE Loyal'
  <2>1. ASSUME NEW d \in Conn, NEW i \in 1..Len(wire'[d]), wire'[d][i].cut PROVE HungUpEarly'
    <3>1. CASE i \in 1..Len(wire[d])
      <4>1. wire'[d][i] = wire[d][i]
          BY <1>0, <1>13, <3>1, PushFacts
      <4> QED BY <1>1, <1>2, <2>1, <3>1, <4>1
    <3>2. CASE i \notin 1..Len(wire[d])
      <4>1. d = c
          BY <1>0, <1>13, <3>2, PushFacts
      <4>2. i = Len(wire[c]) + 1
          BY <1>0, <1>13, <3>2, <4>1, PushFacts
      <4>3. wire'[d][i] = lease[c] /\ lease[c] # Blank
          BY <1>0, <1>13, <4>1, <4>2, PushFacts
      <4> QED BY <1>0, <2>1, <4>3 DEF IndInv, AllSound
    <3> QED BY <3>1, <3>2
  <2> QED BY <1>0, <1>9, <1>13, <2>1, PushFacts DEF rxVars
<1>14. ASSUME Hangup, UNCHANGED rxVars PROVE Loyal'
  <2>1. ASSUME NEW d \in Conn, NEW i \in 1..Len(wire'[d]), wire'[d][i].cut PROVE HungUpEarly'
    <3>1. CASE wire'[d] = wire[d]
        BY <1>1, <1>2, <2>1, <3>1
    <3>2. CASE wire'[d] # wire[d]
        BY <1>0, <1>14, <3>2, HangupFacts DEF HungUpEarly
    <3> QED BY <3>1, <3>2
  <2> QED BY <1>0, <1>9, <1>14, <2>1, HangupFacts DEF rxVars
<1>15. CASE RxPoll /\ UNCHANGED feedVars
    BY <1>9, <1>10, <1>15 DEF RxPoll, feedVars, wireVars
<1>16. CASE UNCHANGED vars
    BY <1>9, <1>10, <1>16 DEF vars, wireVars, feedVars, rxVars
<1> QED
    BY <1>5, <1>6, <1>7, <1>8, <1>11, <1>12, <1>13, <1>14, <1>15, <1>16, NextCases

-----------------------------------------------------------------------------
(* Finishing *)

LEMMA FinishingStep ==
    ASSUME FlowInv, [Next]_vars
    PROVE  Finishing'
<1>0. /\ IndInv /\ TypeOK /\ Finishing /\ fed \in Nat /\ next_leg \in Nat /\ next_leg <= fed
      /\ done_mbox => ended /\ next_leg >= fed - 1
      /\ rpc \in [RxWorkers -> RxPc]
    BY DEF FlowInv, IndInv, Counted, DataLegs, TypeOK, FeedTypeOK, RxTypeOK
<1>1. ASSUME UNCHANGED <<next_leg, done_mbox, fed, ended>>,
             \A v \in RxWorkers : rpc[v] = "advance" => rpc'[v] = "advance"
      PROVE  Finishing'
    BY <1>0, <1>1 DEF Finishing
<1>2. ASSUME NEW w \in RxWorkers, UNCHANGED feedVars,
             \/ CondInit(w) \/ OuterLoop(w) \/ InnerLoop(w) \/ Accept(w) \/ PhraseOk(w)
             \/ ReadPayload(w) \/ Relay(w) \/ Sequence(w) \/ SpuriousWakeup(w) \/ Broadcast(w) \/ Write(w)
      PROVE  Finishing'
    BY <1>0, <1>1, <1>2
       DEF CondInit, OuterLoop, InnerLoop, Accept, PhraseOk, ReadPayload, Relay, Sequence, SpuriousWakeup,
           Broadcast, Write, At, Goto, feedVars
<1>3. ASSUME NEW w \in RxWorkers, UNCHANGED feedVars,
             HeaderEofHuge(w) \/ PhraseFails(w) \/ ReadFails(w) \/ WriteFails(w)
      PROVE  Finishing'
    BY <1>0, <1>1, <1>3 DEF HeaderEofHuge, PhraseFails, ReadFails, WriteFails, feedVars
<1>4. ASSUME NEW w \in RxWorkers, UNCHANGED feedVars, MarkOpcode(w) PROVE Finishing'
  <2>1. /\ done_mbox' = (done_mbox \/ pkt[w].opcode = "end_of_millipede") /\ UNCHANGED <<next_leg, fed, ended>>
        /\ pkt[w].opcode \in Genuine => rpc'[w] = "advance"
        /\ \A v \in RxWorkers : rpc[v] = "advance" => rpc'[v] = "advance"
      BY <1>0, <1>4 DEF MarkOpcode, At, Goto, feedVars
  <2> QED BY <1>0, <2>1 DEF Finishing, Genuine
<1>5. ASSUME NEW w \in RxWorkers, UNCHANGED feedVars, Advance(w) PROVE Finishing'
  <2>1. Emitting(w) /\ (pkt[w].opcode = "end_of_millipede" => done_mbox)
      BY <1>0, <1>5 DEF Advance, At, IndInv, Located, LocatedAt, Emitting
  <2>2. pkt[w].opcode = "feed_more" => next_leg < DataLegs
      BY <1>0, <2>1, EmitterSound
  <2>3. next_leg' = next_leg + 1 /\ UNCHANGED <<done_mbox, fed, ended>>
      BY <1>5 DEF Advance, feedVars
  <2>4. ended /\ next_leg + 1 = fed => done_mbox
      BY <1>0, <2>1, <2>2 DEF DataLegs, Emitting, Genuine
  <2> QED BY <1>0, <2>3, <2>4 DEF Finishing
<1>6. ASSUME NEW w \in RxWorkers, UNCHANGED feedVars,
             ReadHeader(w) \/ HeaderEofStale(w) \/ HeaderEofStray(w)
      PROVE  Finishing'
    BY <1>0, <1>1, <1>6, ReadFacts, EofFacts DEF feedVars
<1>7. ASSUME NEW c \in Conn, LeaseData(c) \/ LeaseEnd(c), UNCHANGED rxVars PROVE Finishing'
  <2>1. ~done_mbox' /\ UNCHANGED next_leg /\ fed' = fed + 1
      BY <1>0, <1>7, LeaseFacts DEF rxVars
  <2> QED BY <1>0, <2>1 DEF Finishing
<1>8. ASSUME UNCHANGED <<rpc, next_leg, done_mbox, fed, ended>> PROVE Finishing'
    BY <1>1, <1>8
<1>9. ASSUME NEW c \in Conn, Connect(c) \/ Push(c), UNCHANGED rxVars PROVE Finishing'
    BY <1>8, <1>9 DEF Connect, Push, feedVars, rxVars
<1>10. CASE Hangup /\ UNCHANGED rxVars
    BY <1>8, <1>10 DEF Hangup, feedVars, rxVars
<1>11. CASE RxPoll /\ UNCHANGED feedVars
    BY <1>8, <1>11 DEF RxPoll, feedVars
<1>12. CASE UNCHANGED vars
    BY <1>8, <1>12 DEF vars, feedVars, rxVars
<1> QED
    BY <1>2, <1>3, <1>4, <1>5, <1>6, <1>7, <1>9, <1>10, <1>11, <1>12
    DEF Next, RxNext, RxThread, RxOutside, FeedNext

-----------------------------------------------------------------------------
(* No lockup *)

LEMMA InitFlowInv == Init => FlowInv
<1> SUFFICES ASSUME Init PROVE FlowInv
    OBVIOUS
<1>1. IndInv
    BY InitIndInv
<1>2. /\ \A w \in RxWorkers : rpc[w] = "launched" /\ pkt[w] = Blank /\ restartme[w] = FALSE
      /\ \A c \in Conn : wire[c] = <<>> /\ lease[c] = Blank /\ conn[c] = "none"
      /\ next_leg = 0 /\ done_mbox = FALSE /\ fed = 0 /\ ended = FALSE
    BY DEF Init, WireInit, FeedInit, RxInit
<1>3. NoneLost /\ NoneLate
    BY <1>2 DEF NoneLost, NoneLate, Bears
<1>4. Ascending /\ OneThread
    BY <1>2 DEF Ascending, OneThread, Attached, Serves, Bears
<1>5. Loyal /\ Finishing
    BY <1>2 DEF Loyal, Finishing
<1> QED BY <1>1, <1>3, <1>4, <1>5 DEF FlowInv

LEMMA FlowInvStep == FlowInv /\ [Next]_vars => FlowInv'
<1> SUFFICES ASSUME FlowInv, [Next]_vars PROVE FlowInv'
    OBVIOUS
<1>1. IndInv'
    BY IndInvStep DEF FlowInv
<1> QED
    BY <1>1, NoneLostStep, NoneLateStep, AscendingStep, OneThreadStep, LoyalStep, FinishingStep DEF FlowInv

(***************************************************************************)
(* No leg is lost, late or out of order on its connection, and no thread   *)
(* of rx.c leaves a connection on which legs are still to come.            *)
(***************************************************************************)
THEOREM FlowInvariance == Spec => []FlowInv
BY InitFlowInv, FlowInvStep, PTL DEF Spec

LEMMA WantedFlows ==
    ASSUME FlowInv, NoLostWakeup
    PROVE  NoLockup
<1>0. /\ IndInv /\ TypeOK /\ fed \in Nat /\ next_leg \in Nat /\ sock \in [RxWorkers -> Conn]
      /\ wire \in [Conn -> Seq(Packet)] /\ pkt \in [RxWorkers -> Packet]
    BY DEF FlowInv, IndInv, TypeOK, FeedTypeOK, RxTypeOK, WireTypeOK
<1>1. ended /\ next_leg = fed => done_mbox
    BY DEF FlowInv, Finishing
<1> DEFINE Moves(w) ==
             /\ \/ Bears(w) /\ pkt[w].leg_id = next_leg
                \/ Serves(w) /\ OnWire(next_leg, sock[w])
             /\ rpc[w] = "waiting" => w \in deaf \/ \E v \in RxWorkers : rpc[v] = "notify"
<1> SUFFICES ASSUME ~HungUpEarly, next_leg < fed
             PROVE  \/ txproc = "run" /\ \E c \in Conn : ToWrite(next_leg, c)
                    \/ \E w \in RxWorkers : Moves(w)
    BY <1>1 DEF NoLockup
<1>2. Somewhere(next_leg)
    BY <1>0 DEF FlowInv, NoneLost
<1>3. ASSUME NEW c \in Conn, ToWrite(next_leg, c) PROVE txproc = "run"
    BY <1>3 DEF HungUpEarly, ToWrite
<1>4. ASSUME NEW w \in RxWorkers, Bears(w), pkt[w].leg_id = next_leg PROVE Moves(w)
    BY <1>4 DEF NoLostWakeup
<1>5. ASSUME NEW c \in Conn, OnWire(next_leg, c) PROVE \E w \in RxWorkers : Moves(w)
  <2>1. PICK i \in 1..Len(wire[c]) : wire[c][i].leg_id = next_leg
      BY <1>5 DEF OnWire
  <2>2. wire[c] # <<>> /\ conn[c] = "open" /\ ~Exhausted(c)
    <3>1. wire[c] # <<>>
        BY <2>1
    <3> QED BY <3>1 DEF FlowInv, OneThread, Exhausted
  <2>3. CASE done_mbox
    <3>1. PICK w \in RxWorkers : rpc[w] = "advance"
        BY <2>3 DEF FlowInv, Finishing
    <3>2. Emitting(w)
        BY <1>0, <3>1 DEF IndInv, Located, LocatedAt, Emitting
    <3>3. Bears(w) /\ pkt[w].leg_id = next_leg
        BY <1>0, <3>2, EmitterBears
    <3> QED BY <1>4, <3>3
  <2>4. CASE ~done_mbox
    <3>1. PICK w \in RxWorkers : Serves(w) /\ sock[w] = c
        BY <2>2, <2>4 DEF FlowInv, Loyal
    \* A thread that waits has a leg that was on the connection before this one.
    <3>2. rpc[w] # "waiting"
      <4> SUFFICES ASSUME rpc[w] = "waiting" PROVE FALSE
          OBVIOUS
      <4>1. ~pkt[w].cut
          BY <2>2, <3>1 DEF FlowInv, Loyal
      <4>2. Bears(w)
          BY <1>0, <4>1 DEF IndInv, Located, LocatedAt, Bears
      <4>3. next_leg <= pkt[w].leg_id
          BY <4>2 DEF FlowInv, NoneLate
      <4>4. pkt[w].leg_id < next_leg
          BY <2>1, <3>1, <4>2 DEF FlowInv, Ascending
      <4>5. pkt[w].leg_id \in Nat
          BY <1>0 DEF Packet
      <4> QED BY <1>0, <4>3, <4>4, <4>5
    <3>3. Moves(w)
        BY <1>5, <3>1, <3>2
    <3> QED BY <3>3
  <2> QED BY <2>3, <2>4
<1> QED BY <1>2, <1>3, <1>4, <1>5 DEF Somewhere

(***************************************************************************)
(* rxworker() cannot lock up, for any number of threads, connections and   *)
(* legs: the leg that the sequencer wants is never stuck behind a thread   *)
(* that waits, nor on a connection that nobody reads.                      *)
(***************************************************************************)
THEOREM NeverLocksUp == Spec => []NoLockup
BY FlowInvariance, WakeupKept, WantedFlows, PTL
=============================================================================
