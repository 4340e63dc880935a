--------------------------- MODULE FramingProofs ---------------------------
(***************************************************************************)
(* Proofs about the bytes of one connection, for every size of the buffer, *)
(* every MAXBSIZE, every input and every way to cut input and stream: what *)
(* BufferFill makes of the input, and what Framing makes of its legs.      *)
(***************************************************************************)
EXTENDS Framing, Integers, TLAPS

-----------------------------------------------------------------------------
(* The input: bufferfill() *)

\* What is still asked for is what the buffer has room for, and the loop goes
\* on only while there is some.
Room ==
    /\ remainder = kfootsize - accumulator
    /\ bpc = "read" => remainder > 0

\* A leg is cut short only by the end of the input; the end is announced only there.
Ending ==
    /\ bpc = "filled" /\ accumulator = 0 => pos = InputLen
    /\ bpc = "shutdown" => accumulator = 0 /\ pos = InputLen

IndInv == FillTypeOK /\ Room /\ InPlace /\ CutByMode /\ Ending

LEMMA InitInv == FillInit => IndInv
BY BufferFillAssumption
   DEF FillInit, IndInv, FillTypeOK, Room, InPlace, CutByMode, Ending

(***************************************************************************)
(* A read puts its bytes behind those that are there.                      *)
(***************************************************************************)
LEMMA ReadKeeps ==
    ASSUME IndInv, NEW n \in 1..kfootsize, Read(n)
    PROVE  IndInv'
<1>1. /\ n \in Nat /\ n > 0 /\ n <= remainder /\ pos + n <= InputLen
      /\ accumulator \in Nat /\ remainder \in Nat /\ pos \in Nat /\ handed \in Nat
      /\ accumulator + n <= kfootsize
    BY BufferFillAssumption DEF IndInv, FillTypeOK, Room, Read, Asked, Least
<1>2. /\ pos' = pos + n /\ accumulator' = accumulator + n /\ remainder' = remainder - n
      /\ charmode' = charmode /\ handed' = handed /\ dest' = Stored(n)
      /\ bpc' = IF Enough(n) THEN "filled" ELSE "read"
    BY DEF Read
<1>3. FillTypeOK'
  <2>1. dest' \in [0..(kfootsize - 1) -> Nat]
      BY <1>1, <1>2, BufferFillAssumption DEF Stored, IndInv, FillTypeOK
  <2> QED
      BY <1>1, <1>2, <2>1, BufferFillAssumption DEF IndInv, FillTypeOK, Room
<1>4. Room'
    BY <1>1, <1>2, BufferFillAssumption DEF IndInv, Room, Enough
<1>5. InPlace'
  <2>1. pos' = handed' + accumulator'
      BY <1>1, <1>2 DEF IndInv, InPlace
  <2>2. ASSUME NEW i \in 0..(accumulator' - 1)
        PROVE  dest'[i] = handed' + i
    <3>1. /\ i \in Nat /\ i < accumulator + n /\ i \in 0..(kfootsize - 1)
          /\ dest'[i] = IF i \in accumulator..(accumulator + n - 1) THEN pos + (i - accumulator) ELSE dest[i]
        BY <1>1, <1>2, BufferFillAssumption DEF Stored
    <3>2. CASE i < accumulator
        BY <3>1, <3>2, <1>1, <1>2 DEF IndInv, InPlace
    <3>3. CASE i >= accumulator
        BY <3>1, <3>3, <1>1, <1>2 DEF IndInv, InPlace
    <3> QED BY <3>1, <3>2, <3>3, <1>1
  <2> QED BY <2>1, <2>2 DEF InPlace
<1>6. CutByMode' /\ Ending'
    BY <1>1, <1>2, BufferFillAssumption DEF IndInv, CutByMode, Ending, Enough, Room
<1> QED BY <1>3, <1>4, <1>5, <1>6 DEF IndInv

(***************************************************************************)
(* The other steps, none of which touches the buffer.                      *)
(***************************************************************************)
LEMMA NextKeeps == IndInv /\ [FillNext]_fillVars => IndInv'
<1> SUFFICES ASSUME IndInv, [FillNext]_fillVars PROVE IndInv'
    OBVIOUS
<1> USE BufferFillAssumption
<1>1. ASSUME NEW n \in 1..kfootsize, Read(n) PROVE IndInv'
    BY <1>1, ReadKeeps
<1>2. CASE ReadEof
    BY <1>2 DEF ReadEof, IndInv, FillTypeOK, Room, InPlace, CutByMode, Ending
<1>3. CASE ReadFails
    BY <1>3 DEF ReadFails, IndInv, FillTypeOK, Room, InPlace, CutByMode, Ending
<1>4. CASE Handover
    BY <1>4 DEF Handover, IndInv, FillTypeOK, Room, InPlace, CutByMode, Ending
<1>5. CASE Shutdown
    BY <1>5 DEF Shutdown, IndInv, FillTypeOK, Room, InPlace, CutByMode, Ending
<1>6. CASE UNCHANGED fillVars
    BY <1>6 DEF fillVars, IndInv, FillTypeOK, Room, InPlace, CutByMode, Ending
<1> QED BY <1>1, <1>2, <1>3, <1>4, <1>5, <1>6 DEF FillNext

LEMMA Inductive == FillSpec => []IndInv
BY InitInv, NextKeeps, PTL DEF FillSpec

(***************************************************************************)
(* The counters of bufferfill() stay within the buffer, whatever read()    *)
(* returns (plumbing.c:25-74).                                             *)
(***************************************************************************)
THEOREM InputTypeCorrect == FillSpec => []FillTypeOK
<1>1. IndInv => FillTypeOK BY DEF IndInv
<1> QED BY <1>1, Inductive, PTL

(***************************************************************************)
(* No byte of the input is lost, doubled or out of place.                  *)
(***************************************************************************)
THEOREM BytesInPlace == FillSpec => []InPlace
<1>1. IndInv => InPlace BY DEF IndInv
<1> QED BY <1>1, Inductive, PTL

(***************************************************************************)
(* In charmode bufferfill() never waits while it holds input; otherwise    *)
(* only the end of the input makes a short leg (plumbing.c:43-66).         *)
(***************************************************************************)
THEOREM CutsAreByMode == FillSpec => []CutByMode
<1>1. IndInv => CutByMode BY DEF IndInv
<1> QED BY <1>1, Inductive, PTL

(***************************************************************************)
(* txingest() announces the end only after every byte (tx.c:111-113).      *)
(***************************************************************************)
THEOREM EndIsTheEnd == FillSpec => []EndsAtEof
<1>1. IndInv => EndsAtEof
    BY BufferFillAssumption DEF IndInv, FillTypeOK, InPlace, Ending, EndsAtEof
<1> QED BY <1>1, Inductive, PTL

-----------------------------------------------------------------------------
(* The stream: its invariant *)

\* The legs lie one behind the other in what has been written, each has the
\* bytes of the input that are its own, and only the last has none.
LegInv ==
    /\ written = Overhead(Len(legs)) + handed
    /\ \A k \in 1..Len(legs) :
          /\ legs[k].header = IF k = 1 THEN PhraseLen ELSE EndAt(k - 1)
          /\ EndAt(k) <= written /\ Len(legs[k].payload) <= kfootsize
          /\ \A i \in 1..Len(legs[k].payload) : legs[k].payload[i] = PayloadAt(k) - Overhead(k) + i - 1
          /\ \A j \in 1..Len(legs) : j < k => EndAt(j) <= legs[k].header
          /\ Len(legs[k].payload) = 0 => k = Len(legs) /\ bpc = "shutdown"
    /\ written = IF Len(legs) = 0 THEN PhraseLen ELSE EndAt(Len(legs))

\* Whatever the fields are that the thread goes by: its buffer holds what the
\* stream had between start and where it is, behind all that was put out.
BufferInv ==
    /\ out[1] <= out[2] /\ out[2] <= rpos
    /\ At("payload") \/ At("emit") =>
          rx_remainder <= pkt.size /\ pkt.size <= kfootsize /\ rpos = start + pkt.size - rx_remainder
          /\ out[2] <= start
    /\ At("emit") => rx_remainder = 0

\* The leg that is being received, and where the one before it ended.
Current == next_leg + 1
Behind == IF next_leg = 0 THEN PhraseLen ELSE EndAt(next_leg)

\* The thread goes by the header of the next leg ...
Fresh ==
    /\ Current <= Len(legs) /\ pkt = Header(Current)
    /\ fpc = "checks" => rpos = PayloadAt(Current)
    /\ fpc \in {"payload", "emit"} => start = PayloadAt(Current)

\* ... or the connection has ended and it goes by that of the leg before, for
\* which nothing will come.
Stale == conn = "over" /\ fpc \in {"checks", "payload"} /\ pkt.size > 0 /\ pkt.size <= kfootsize

\* Where the thread has come to, as long as every header came in one piece.
RecvInv ==
    /\ next_leg <= Len(legs)
    /\ next_leg > 0 => out = <<PayloadAt(next_leg), EndAt(next_leg)>>
    /\ At("phrase") => rpos = 0 /\ next_leg = 0 /\ pkt = Junk
    /\ fpc = "header" => /\ rpos = Behind
                         /\ pkt = Junk \/ (pkt.size > 0 /\ pkt.size <= kfootsize)
    /\ fpc \in {"checks", "payload", "emit"} => Fresh \/ Stale
    /\ fpc = "done" => next_leg = Len(legs) /\ bpc = "shutdown"

FrameInv == IndInv /\ TypeOK /\ LegInv /\ BufferInv /\ (~astray => RecvInv)

LEMMA SeqFacts ==
    ASSUME NEW S, NEW s \in Seq(S)
    PROVE  /\ Len(s) \in Nat /\ DOMAIN s = 1..Len(s)
           /\ \A k \in 1..Len(s) : s[k] \in S
           /\ Len(s) = 0 <=> s = <<>>
OBVIOUS

\* A sequence with one element more.
LEMMA AppendFacts ==
    ASSUME NEW S, NEW s \in Seq(S), NEW e \in S
    PROVE  /\ Append(s, e) \in Seq(S)
           /\ Len(Append(s, e)) = Len(s) + 1
           /\ Append(s, e)[Len(s) + 1] = e
           /\ \A k \in 1..Len(s) : Append(s, e)[k] = s[k]
OBVIOUS

LEMMA SeqGrows ==
    ASSUME NEW S, NEW T, S \subseteq T, NEW s \in Seq(S)
    PROVE  s \in Seq(T)
OBVIOUS

LEMMA EmptySeq == \A S : <<>> \in Seq(S)
OBVIOUS

LEMMA LegTypes ==
    ASSUME TypeOK
    PROVE  /\ Len(legs) \in Nat /\ DOMAIN legs = 1..Len(legs) /\ written \in Nat
           /\ \A k \in 1..Len(legs) :
                 /\ legs[k].header \in 0..written
                 /\ legs[k].payload \in Seq(Nat) /\ Len(legs[k].payload) \in Nat
                 /\ Len(legs[k].payload) = 0 <=> legs[k].payload = <<>>
                 /\ PayloadAt(k) \in Nat /\ EndAt(k) \in Nat
<1>1. legs \in Seq(Leg) /\ written \in Nat
    BY DEF TypeOK
<1>0. Len(legs) \in Nat /\ DOMAIN legs = 1..Len(legs) /\ \A k \in 1..Len(legs) : legs[k] \in Leg
    BY <1>1, SeqFacts
<1>2. ASSUME NEW k \in 1..Len(legs)
      PROVE  /\ legs[k].header \in 0..written
             /\ legs[k].payload \in Seq(Nat) /\ Len(legs[k].payload) \in Nat
             /\ Len(legs[k].payload) = 0 <=> legs[k].payload = <<>>
             /\ PayloadAt(k) \in Nat /\ EndAt(k) \in Nat
  <2>1. legs[k] \in Leg
      BY <1>0, <1>2
  <2>2. legs[k].header \in 0..written /\ legs[k].payload \in Seq(Nat)
      BY <2>1 DEF Leg
  <2>3. Len(legs[k].payload) \in Nat /\ (Len(legs[k].payload) = 0 <=> legs[k].payload = <<>>)
      BY <2>2, SeqFacts
  <2>4. legs[k].header \in Nat
      BY <2>2
  <2>5. PayloadAt(k) \in Nat /\ EndAt(k) \in Nat
      BY <2>3, <2>4 DEF PayloadAt, EndAt, HeaderLen
  <2> QED BY <2>2, <2>3, <2>5
<1> QED BY <1>1, <1>0, <1>2

LEMMA InitFrameInv == Init => FrameInv
<1> SUFFICES ASSUME Init PROVE FrameInv
    OBVIOUS
<1>1. IndInv /\ handed = 0 /\ bpc = "read" /\ FillTypeOK
    BY InitInv DEF Init, FillInit, IndInv
<1>2. legs = <<>> /\ Len(legs) = 0 /\ legs \in Seq(Leg)
    BY EmptySeq DEF Init
<1>3. /\ written = 2 /\ conn = "up" /\ rpos = 0 /\ rx_remainder = 0 /\ start = 0
      /\ fpc = "phrase" /\ rproc = "run" /\ next_leg = 0 /\ out = <<0, 0>> /\ astray = FALSE /\ pkt = Junk
    BY DEF Init, PhraseLen
<1>4. pkt \in [leg_id : Nat \cup {-1}, size : 0..Junk.size, opcode : Genuine \cup {"junk"}]
    BY <1>3, BufferFillAssumption DEF Junk
<1>5. TypeOK
  <2>1. written \in Nat /\ rpos \in 0..written /\ start \in 0..written /\ rx_remainder \in 0..kfootsize
      BY <1>3, BufferFillAssumption
  <2>2. out \in (0..written) \X (0..written)
      BY <1>3
  <2>3. /\ conn \in {"up", "closed", "over"} /\ next_leg \in Nat /\ astray \in BOOLEAN
        /\ fpc \in {"phrase", "header", "checks", "payload", "emit", "restart", "done"}
        /\ rproc \in {"run", "phrase", "size", "ebadrpc", "checksum"}
      BY <1>3
  <2> QED BY <1>1, <1>2, <1>4, <2>1, <2>2, <2>3 DEF TypeOK
<1>6. LegInv
    BY <1>1, <1>2, <1>3 DEF LegInv, Overhead, PhraseLen, HeaderLen
<1>7. BufferInv /\ RecvInv
    BY <1>2, <1>3 DEF BufferInv, RecvInv, At
<1> QED BY <1>1, <1>5, <1>6, <1>7 DEF FrameInv

-----------------------------------------------------------------------------
(* The transmitter's steps *)

\* What has been received fits in what has been written, also when that grows.
LEMMA TypesGrow ==
    ASSUME TypeOK, written' \in Nat, written <= written', UNCHANGED <<conn, rxVars>>,
           FillTypeOK', legs' \in Seq(Leg')
    PROVE  TypeOK'
<1>1. rpos' \in 0..written' /\ start' \in 0..written' /\ out' \in (0..written') \X (0..written')
  <2>1. written \in Nat /\ 0..written \subseteq 0..written'
      BY DEF TypeOK
  <2> QED BY <2>1 DEF TypeOK, rxVars
<1>2. /\ conn' \in {"up", "closed", "over"}
      /\ fpc' \in {"phrase", "header", "checks", "payload", "emit", "restart", "done"}
      /\ rx_remainder' \in 0..kfootsize /\ next_leg' \in Nat /\ astray' \in BOOLEAN
      /\ rproc' \in {"run", "phrase", "size", "ebadrpc", "checksum"}
    BY DEF TypeOK, rxVars
<1>3. pkt' \in [leg_id : Nat \cup {-1}, size : 0..Junk'.size, opcode : Genuine \cup {"junk"}]
    BY DEF TypeOK, rxVars, Junk
<1> QED BY <1>1, <1>2, <1>3 DEF TypeOK, Genuine, Junk

LEMMA SpansGrow ==
    ASSUME written \in Nat, written' \in Nat, written <= written'
    PROVE  Leg \subseteq Leg'
<1>1. 0..written \subseteq 0..written'
    OBVIOUS
<1> QED BY <1>1 DEF Leg

\* A leg whose payload follows the input handed over so far is written behind the others.
LEMMA WriteKeeps ==
    ASSUME FrameInv, IndInv', NEW p \in Seq(Nat), Writev(p), UNCHANGED <<conn, rxVars>>,
           Len(p) <= kfootsize, handed' = handed + Len(p), bpc # "shutdown",
           Len(p) = 0 => bpc' = "shutdown",
           \A i \in 1..Len(p) : p[i] = handed + i - 1
    PROVE  FrameInv'
<1>0. PICK n \in Nat : n = Len(legs) + 1
    BY LegTypes DEF FrameInv
<1>1. TypeOK /\ LegInv /\ Len(legs) \in Nat /\ n = Len(legs) + 1 /\ written \in Nat
      /\ Len(p) \in Nat /\ handed \in Nat /\ next_leg \in Nat /\ kfootsize \in Nat
  <2>1. TypeOK /\ LegInv /\ FillTypeOK
      BY DEF FrameInv, TypeOK
  <2>2. next_leg \in Nat /\ handed \in Nat /\ kfootsize \in Nat
      BY <2>1, BufferFillAssumption DEF TypeOK, FillTypeOK
  <2>3. Len(p) \in Nat
      OBVIOUS
  <2> QED BY <1>0, <2>1, <2>2, <2>3, LegTypes
<1>2. legs \in Seq(Leg)
    BY <1>1 DEF TypeOK
<1>3. /\ written' = written + 4 + Len(p) /\ written' \in Nat /\ written <= written'
      /\ legs' = Append(legs, [header |-> written, payload |-> p])
    BY <1>1 DEF Writev, HeaderLen
<1>4. legs \in Seq(Leg')
    BY <1>1, <1>2, <1>3, SpansGrow, SeqGrows
<1>5. [header |-> written, payload |-> p] \in Leg'
    BY <1>1, <1>3 DEF Leg
<1>6. /\ legs' \in Seq(Leg') /\ Len(legs') = n
      /\ legs'[n] = [header |-> written, payload |-> p]
      /\ \A k \in 1..Len(legs) : legs'[k] = legs[k]
    BY <1>1, <1>3, <1>4, <1>5, AppendFacts
<1>7. TypeOK'
    BY <1>1, <1>3, <1>6, TypesGrow DEF IndInv
<1>8. /\ legs'[n].header = written /\ legs'[n].payload = p
      /\ \A k \in 1..Len(legs) : PayloadAt(k)' = PayloadAt(k) /\ EndAt(k)' = EndAt(k) /\ Header(k)' = Header(k)
      /\ \A k \in 1..Len(legs) : legs'[k].header = legs[k].header /\ legs'[k].payload = legs[k].payload
    BY <1>6 DEF PayloadAt, EndAt, Header
<1>9. PayloadAt(n)' = written + 4 /\ EndAt(n)' = written + 4 + Len(p)
    BY <1>8 DEF PayloadAt, EndAt, HeaderLen
<1>10. LegInv'
  <2>1. written' = Overhead(n) + handed'
    <3>1. written = 2 + Len(legs) * 4 + handed /\ Overhead(n) = 2 + (Len(legs) + 1) * 4
        BY <1>1 DEF LegInv, Overhead, PhraseLen, HeaderLen
    <3> QED BY <1>1, <1>3, <3>1
  <2>2. ASSUME NEW k \in 1..n
        PROVE  /\ legs'[k].header = IF k = 1 THEN PhraseLen ELSE EndAt(k - 1)'
               /\ EndAt(k)' <= written' /\ Len(legs'[k].payload) <= kfootsize
               /\ \A i \in 1..Len(legs'[k].payload) : legs'[k].payload[i] = PayloadAt(k)' - Overhead(k) + i - 1
               /\ \A j \in 1..n : j < k => EndAt(j)' <= legs'[k].header
               /\ Len(legs'[k].payload) = 0 => k = n /\ bpc' = "shutdown"
    <3>1. CASE k \in 1..Len(legs)
      <4>1. k - 1 \in 1..Len(legs) \/ k = 1
          BY <1>1, <3>1
      <4>2. \A j \in 1..n : j < k => j \in 1..Len(legs)
          BY <1>1, <3>1
      <4>3. EndAt(k) \in Nat /\ PayloadAt(k) \in Nat
          BY <1>1, <3>1, LegTypes
      <4>4. /\ legs[k].header = IF k = 1 THEN PhraseLen ELSE EndAt(k - 1)
            /\ EndAt(k) <= written /\ Len(legs[k].payload) <= kfootsize
            /\ \A i \in 1..Len(legs[k].payload) : legs[k].payload[i] = PayloadAt(k) - Overhead(k) + i - 1
            /\ \A j \in 1..Len(legs) : j < k => EndAt(j) <= legs[k].header
            /\ Len(legs[k].payload) # 0
          BY <1>1, <3>1 DEF LegInv
      <4>5. EndAt(k)' <= written'
          BY <1>1, <1>3, <1>8, <3>1, <4>3, <4>4
      <4> QED BY <1>8, <3>1, <4>1, <4>2, <4>4, <4>5
    <3>2. CASE k = n
      <4>1. legs'[n].header = IF n = 1 THEN PhraseLen ELSE EndAt(n - 1)'
        <5>1. n = 1 <=> Len(legs) = 0
            BY <1>1
        <5>2. n # 1 => n - 1 = Len(legs) /\ Len(legs) \in 1..Len(legs)
            BY <1>1
        <5> QED BY <1>1, <1>8, <5>1, <5>2 DEF LegInv
      <4>2. EndAt(n)' <= written'
          BY <1>1, <1>3, <1>9
      <4>3. \A i \in 1..Len(p) : p[i] = PayloadAt(n)' - Overhead(n) + i - 1
        <5>1. written = 2 + Len(legs) * 4 + handed /\ Overhead(n) = 2 + (Len(legs) + 1) * 4
            BY <1>1 DEF LegInv, Overhead, PhraseLen, HeaderLen
        <5>2. PayloadAt(n)' - Overhead(n) = handed
            BY <1>1, <1>9, <5>1
        <5> QED BY <1>1, <5>2
      <4>4. \A j \in 1..n : j < n => j \in 1..Len(legs)
          BY <1>1
      <4>5. \A j \in 1..n : j < n => EndAt(j)' <= written
          BY <1>1, <1>8, <4>4 DEF LegInv
      <4> QED BY <1>8, <3>2, <4>1, <4>2, <4>3, <4>5
    <3> QED BY <1>1, <3>1, <3>2
  <2>3. written' = EndAt(n)' /\ n # 0
      BY <1>1, <1>3, <1>9
  <2> QED BY <1>6, <2>1, <2>2, <2>3 DEF LegInv, Overhead
<1>11. /\ out' = out /\ fpc' = fpc /\ rpos' = rpos /\ pkt' = pkt /\ astray' = astray /\ rproc' = rproc
       /\ rx_remainder' = rx_remainder /\ start' = start /\ next_leg' = next_leg /\ conn' = conn
    BY DEF rxVars
<1>12. BufferInv'
    BY <1>11 DEF FrameInv, BufferInv, At
<1>13. ASSUME ~astray' PROVE RecvInv'
  <2>1. RecvInv
      BY <1>11, <1>13 DEF FrameInv
  <2>2. fpc # "done"
      BY <2>1 DEF RecvInv
  <2>3. next_leg <= n /\ (next_leg > 0 => next_leg \in 1..Len(legs)) /\ Current' = Current
      BY <1>1, <1>11, <2>1 DEF RecvInv, Current
  <2>4. Behind' = Behind /\ (next_leg > 0 => <<PayloadAt(next_leg), EndAt(next_leg)>>' = <<PayloadAt(next_leg), EndAt(next_leg)>>)
      BY <1>1, <1>8, <1>11, <2>3 DEF Behind
  <2>5. Fresh => Fresh'
    <3>1. Current <= Len(legs) => Current \in 1..Len(legs) /\ Current <= n
        BY <1>1 DEF Current
    <3> QED BY <1>1, <1>6, <1>8, <1>11, <2>3, <3>1 DEF Fresh
  <2>6. Stale => Stale'
      BY <1>11 DEF Stale
  <2> QED BY <1>6, <1>11, <2>1, <2>2, <2>3, <2>4, <2>5, <2>6 DEF RecvInv, Junk, At
<1> QED BY <1>7, <1>10, <1>12, <1>13 DEF FrameInv

LEMMA TransmitKeeps ==
    ASSUME FrameInv, Transmit \/ Ends
    PROVE  FrameInv'
<1>1. IndInv'
  <2>1. FillNext
      BY DEF Transmit, Ends, Fill, PushLeg, PushEnd, FillNext
  <2> QED BY <2>1, NextKeeps DEF FrameInv
<1>2. /\ TypeOK /\ LegInv /\ InPlace
      /\ accumulator \in 0..kfootsize /\ handed \in Nat /\ dest \in [0..(kfootsize - 1) -> Nat]
    BY BufferFillAssumption DEF FrameInv, IndInv, FillTypeOK
<1>3. CASE Fill \/ Ends
  <2>1. /\ handed' = handed /\ bpc # "shutdown" /\ bpc' # "shutdown"
      BY <1>3 DEF Fill, Ends, Read, ReadEof, ReadFails
  <2>2. UNCHANGED <<written, legs, conn, rxVars>>
      BY <1>3 DEF Fill, Ends
  <2>3. TypeOK'
    <3>1. written \in Nat /\ written' = written /\ Leg' = Leg /\ legs' = legs /\ legs \in Seq(Leg) /\ FillTypeOK'
        BY <1>1, <1>2, <2>2 DEF TypeOK, IndInv, Leg
    <3>2. written' \in Nat /\ written <= written' /\ legs' \in Seq(Leg')
        BY <3>1
    <3> QED BY <1>2, <2>2, <3>1, <3>2, TypesGrow
  <2>4. LegInv'
      BY <1>2, <2>1, <2>2 DEF LegInv, EndAt, PayloadAt, Overhead
  <2>5. BufferInv'
      BY <2>2 DEF FrameInv, BufferInv, rxVars, At
  <2>6. ~astray' => RecvInv'
      BY <2>1, <2>2 DEF FrameInv, RecvInv, rxVars, EndAt, PayloadAt, Current, Behind, Fresh, Stale, Header, Junk, At
  <2> QED BY <1>1, <2>3, <2>4, <2>5, <2>6 DEF FrameInv
<1>4. CASE PushLeg
  <2> DEFINE p == [i \in 1..accumulator |-> dest[i - 1]]
  <2>1. accumulator \in Nat /\ \A i \in 1..accumulator : i - 1 \in 0..(kfootsize - 1) /\ i - 1 \in 0..(accumulator - 1)
      BY <1>2, BufferFillAssumption
  <2>2. p \in Seq(Nat) /\ Len(p) = accumulator
      BY <1>2, <2>1
  <2>3. \A i \in 1..accumulator : p[i] = handed + i - 1
      BY <1>2, <2>1 DEF InPlace
  <2>4. Writev(p) /\ handed' = handed + accumulator /\ UNCHANGED <<conn, rxVars>> /\ bpc # "shutdown"
      BY <1>4 DEF PushLeg, Handover
  <2>5. accumulator <= kfootsize /\ accumulator # 0
      BY <1>2, <1>4, BufferFillAssumption DEF PushLeg, Handover
  <2> HIDE DEF p
  <2> QED BY <1>1, <2>2, <2>3, <2>4, <2>5, WriteKeeps
<1>5. CASE PushEnd
  <2>1. <<>> \in Seq(Nat) /\ Len(<<>>) = 0
      OBVIOUS
  <2>2. Writev(<<>>) /\ handed' = handed /\ UNCHANGED <<conn, rxVars>> /\ bpc # "shutdown" /\ bpc' = "shutdown"
      BY <1>5 DEF PushEnd, Shutdown
  <2>3. 0 <= kfootsize /\ handed' = handed + 0 /\ \A i \in 1..0 : <<>>[i] = handed + i - 1
      BY <1>2, <2>2, BufferFillAssumption
  <2> QED BY <1>1, <2>1, <2>2, <2>3, WriteKeeps
<1> QED BY <1>3, <1>4, <1>5 DEF Transmit

-----------------------------------------------------------------------------
(* TCP and the receiver *)

\* A step that neither fills nor writes has only the receiver's part to keep.
LEMMA ReceiverPart ==
    ASSUME FrameInv, UNCHANGED <<fillVars, written, legs>>
    PROVE  /\ IndInv' /\ FillTypeOK' /\ LegInv' /\ written' \in Nat /\ legs' \in Seq(Leg')
           /\ bpc' = bpc
           /\ \A k : PayloadAt(k)' = PayloadAt(k) /\ EndAt(k)' = EndAt(k) /\ Header(k)' = Header(k)
<1>1. IndInv' /\ FillTypeOK'
    BY NextKeeps DEF FrameInv, IndInv
<1>2. Leg' = Leg
    BY DEF Leg
<1>3. \A k : PayloadAt(k)' = PayloadAt(k) /\ EndAt(k)' = EndAt(k) /\ Header(k)' = Header(k)
    BY DEF PayloadAt, EndAt, Header
<1>4. LegInv'
    BY DEF FrameInv, LegInv, fillVars, PayloadAt, EndAt, Overhead
<1>5. written' \in Nat /\ legs' \in Seq(Leg') /\ bpc' = bpc
    BY <1>2 DEF FrameInv, TypeOK, fillVars
<1> QED BY <1>1, <1>2, <1>3, <1>4, <1>5

LEMMA TcpKeeps ==
    ASSUME FrameInv, Close \/ UNCHANGED vars
    PROVE  FrameInv'
<1>1. /\ UNCHANGED <<fillVars, written, legs, rxVars>> /\ TypeOK
      /\ conn' = conn \/ (conn = "up" /\ conn' = "closed")
    BY DEF Close, vars, FrameInv
<1>2. TypeOK'
    BY <1>1, ReceiverPart DEF TypeOK, rxVars, Junk, Genuine
<1>3. BufferInv'
    BY <1>1 DEF FrameInv, BufferInv, rxVars, At
<1>4. ASSUME ~astray' PROVE RecvInv'
  <2>1. RecvInv
      BY <1>1, <1>4 DEF FrameInv, rxVars
  <2>2. (Fresh => Fresh') /\ (Stale => Stale') /\ Behind' = Behind
      BY <1>1 DEF Fresh, Stale, Behind, Current, rxVars, PayloadAt, EndAt, Header
  <2> QED BY <1>1, <2>1, <2>2, ReceiverPart DEF RecvInv, rxVars, Junk, At
<1> QED BY <1>1, <1>2, <1>3, <1>4, ReceiverPart DEF FrameInv

\* What the thread's variables are made of, and what a read does to its place.
LEMMA RecvTypes ==
    ASSUME TypeOK
    PROVE  /\ written \in Nat /\ rpos \in Nat /\ rpos <= written /\ start \in Nat /\ start <= written
           /\ rx_remainder \in Nat /\ rx_remainder <= kfootsize /\ next_leg \in Nat /\ kfootsize \in Nat
           /\ pkt.size \in Nat /\ pkt.opcode \in Genuine \cup {"junk"} /\ pkt.leg_id \in Nat \cup {-1}
           /\ out[1] \in Nat /\ out[2] \in Nat
           /\ pkt = [leg_id |-> pkt.leg_id, size |-> pkt.size, opcode |-> pkt.opcode]
BY BufferFillAssumption DEF TypeOK, Junk

LEMMA GotFacts ==
    ASSUME TypeOK, NEW n \in Nat, NEW asked \in Nat, Got(n, asked)
    PROVE  /\ n <= asked /\ rpos' = rpos + n /\ rpos' \in 0..written
           /\ conn' \in {"up", "closed", "over"}
           /\ n = 0 => conn' = "over"
           /\ n > 0 => conn' = conn /\ conn # "over"
BY RecvTypes DEF Got, Least, TypeOK

\* The header that is read is that of the leg after those put out.
LEMMA NextHeader ==
    ASSUME TypeOK, LegInv, RecvInv, rpos = Behind, rpos < written
    PROVE  Current \in 1..Len(legs) /\ Here = Header(Current) /\ rpos = legs[Current].header
<1>1. Len(legs) \in Nat /\ next_leg \in Nat /\ next_leg <= Len(legs) /\ DOMAIN legs = 1..Len(legs)
  <2>1. next_leg \in Nat
      BY RecvTypes
  <2>2. next_leg <= Len(legs)
      BY DEF RecvInv
  <2> QED BY <2>1, <2>2, LegTypes
<1>2. next_leg # Len(legs)
  <2>1. rpos # written
      BY RecvTypes
  <2>2. written = IF Len(legs) = 0 THEN PhraseLen ELSE EndAt(Len(legs))
      BY DEF LegInv
  <2>3. next_leg = Len(legs) => Behind = written
      BY <2>2 DEF Behind
  <2> QED BY <2>1, <2>3
<1>3. Current \in 1..Len(legs) /\ (next_leg > 0 => next_leg \in 1..Len(legs))
      /\ (Current = 1 <=> next_leg = 0) /\ Current - 1 = next_leg
  <2>1. PICK m \in Nat : m = Len(legs)
      BY <1>1
  <2>2. PICK l \in Nat : l = next_leg
      BY <1>1
  <2>3. l <= m /\ l # m
      BY <1>1, <1>2, <2>1, <2>2
  <2>4. l + 1 \in 1..m /\ (l > 0 => l \in 1..m) /\ (l + 1 = 1 <=> l = 0) /\ (l + 1) - 1 = l
      BY <2>3
  <2> QED BY <2>1, <2>2, <2>4 DEF Current
<1>4. legs[Current].header = rpos
    BY <1>1, <1>3 DEF LegInv, Behind
<1>5. \A j \in 1..Len(legs) : legs[j].header \in Nat /\ EndAt(j) \in Nat /\ legs[j].header < EndAt(j)
  <2> SUFFICES ASSUME NEW j \in 1..Len(legs)
               PROVE  legs[j].header \in Nat /\ EndAt(j) \in Nat /\ legs[j].header < EndAt(j)
      OBVIOUS
  <2>1. legs[j].header \in Nat /\ Len(legs[j].payload) \in Nat
      BY LegTypes
  <2> QED BY <2>1 DEF EndAt, PayloadAt, HeaderLen
<1>6. \A k \in DOMAIN legs : legs[k].header = rpos => k = Current
  <2> SUFFICES ASSUME NEW k \in 1..Len(legs), legs[k].header = rpos PROVE k = Current
      BY <1>1
  <2>1. \A i, j \in 1..Len(legs) : i < j => EndAt(i) <= legs[j].header
      BY DEF LegInv
  <2>2. k < Current => FALSE
      BY <1>3, <1>4, <1>5, <2>1
  <2>3. k > Current => FALSE
      BY <1>3, <1>4, <1>5, <2>1
  <2> QED BY <1>3, <2>2, <2>3
<1>7. {k \in DOMAIN legs : legs[k].header = rpos} = {Current}
    BY <1>1, <1>3, <1>4, <1>6
<1> QED BY <1>3, <1>4, <1>7 DEF Here

\* Steps of the thread that put nothing out.
Reading == ReadPhrase \/ ReadHeader \/ CheckHeader \/ ReadPayload \/ PayloadEof

LEMMA ReadingKeeps ==
    ASSUME FrameInv, Reading, BufferInv', ~astray' => RecvInv',
           rpos' \in 0..written, start' \in 0..written, rx_remainder' \in 0..kfootsize,
           pkt' \in [leg_id : Nat \cup {-1}, size : 0..Junk.size, opcode : Genuine \cup {"junk"}],
           conn' \in {"up", "closed", "over"}, astray' \in BOOLEAN
    PROVE  FrameInv'
<1>1. UNCHANGED <<fillVars, written, legs, next_leg, out>> /\ TypeOK
    BY DEF Reading, ReadPhrase, ReadHeader, CheckHeader, ReadPayload, PayloadEof, FrameInv
<1>2. /\ fpc' \in {"phrase", "header", "checks", "payload", "emit", "restart", "done"}
      /\ rproc' \in {"run", "phrase", "size", "ebadrpc", "checksum"}
    BY <1>1 DEF Reading, ReadPhrase, ReadHeader, CheckHeader, AfterHeader, ReadPayload, PayloadEof,
                AfterEof, TypeOK
<1>3. next_leg' \in Nat /\ out' \in (0..written') \X (0..written')
    BY <1>1 DEF TypeOK
<1>4. TypeOK'
    BY <1>1, <1>2, <1>3, ReceiverPart DEF TypeOK, Junk, Genuine
<1> QED BY <1>1, <1>4, ReceiverPart DEF FrameInv

LEMMA PhraseKeeps ==
    ASSUME FrameInv, ReadPhrase
    PROVE  FrameInv'
<1>1. TypeOK /\ BufferInv /\ (~astray => RecvInv)
    BY DEF FrameInv
<1>2. PICK n \in 0..PhraseLen :
          /\ Got(n, PhraseLen)
          /\ IF n = PhraseLen THEN fpc' = "header" /\ UNCHANGED rproc
                              ELSE rproc' = "phrase" /\ UNCHANGED fpc
    BY DEF ReadPhrase
<1>3. UNCHANGED <<fillVars, written, legs, pkt, rx_remainder, start, next_leg, out, astray>> /\ At("phrase")
    BY DEF ReadPhrase
<1>4. n \in 0..2 /\ n \in Nat /\ PhraseLen = 2 /\ PhraseLen \in Nat
    BY DEF PhraseLen
<1>5. rpos' = rpos + n /\ rpos' \in 0..written /\ conn' \in {"up", "closed", "over"}
    BY <1>1, <1>2, <1>4, GotFacts
<1>6. BufferInv'
    BY <1>1, <1>2, <1>3, <1>4, <1>5, RecvTypes DEF BufferInv, At
<1>7. ASSUME ~astray' PROVE RecvInv'
  <2>1. RecvInv /\ next_leg = 0 /\ pkt = Junk /\ rpos = 0 /\ fpc = "phrase"
      BY <1>1, <1>3, <1>7 DEF RecvInv, At
  <2>2. pkt' = Junk' /\ next_leg' = 0 /\ next_leg' <= Len(legs')
      BY <1>3, <2>1 DEF Junk, RecvInv
  <2>3. CASE n = PhraseLen
    <3>1. rpos' = Behind' /\ fpc' = "header"
        BY <1>2, <1>4, <1>5, <2>1, <2>2, <2>3 DEF Behind
    <3> QED BY <2>2, <3>1 DEF RecvInv, At
  <2>4. CASE n # PhraseLen
      BY <1>2, <2>1, <2>2, <2>4 DEF RecvInv, At
  <2> QED BY <2>3, <2>4
<1> QED BY <1>1, <1>3, <1>5, <1>6, <1>7, ReadingKeeps DEF TypeOK, Reading

LEMMA HeaderKeeps ==
    ASSUME FrameInv, ReadHeader
    PROVE  FrameInv'
<1>1. TypeOK /\ LegInv /\ BufferInv /\ (~astray => RecvInv)
    BY DEF FrameInv
<1>2. PICK n \in 0..HeaderLen :
          /\ Got(n, HeaderLen)
          /\ pkt' = [leg_id |-> Field("leg_id", 2, n), size |-> Field("size", 3, n),
                     opcode |-> Field("opcode", 4, n)]
          /\ astray' = (astray \/ n \in 1..(HeaderLen - 1) \/ (n = 0 /\ pkt = Junk))
    BY DEF ReadHeader
<1>3. UNCHANGED <<fillVars, written, legs, rx_remainder, start, next_leg, out, rproc>>
      /\ At("header") /\ fpc' = "checks"
    BY DEF ReadHeader
<1>4. n \in 0..4 /\ n \in Nat /\ HeaderLen = 4 /\ HeaderLen \in Nat
    BY DEF HeaderLen
<1>5. /\ rpos' = rpos + n /\ rpos' \in 0..written /\ conn' \in {"up", "closed", "over"}
      /\ n = 0 => conn' = "over"
    BY <1>1, <1>2, <1>4, GotFacts
<1>6. BufferInv'
    BY <1>1, <1>3, <1>4, <1>5, RecvTypes DEF BufferInv, At
<1>7. pkt' \in [leg_id : Nat \cup {-1}, size : 0..Junk.size, opcode : Genuine \cup {"junk"}]
  <2>1. \A k \in DOMAIN legs : Header(k) \in [leg_id : Nat \cup {-1}, size : 0..Junk.size, opcode : Genuine \cup {"junk"}]
    <3> SUFFICES ASSUME NEW k \in DOMAIN legs
                 PROVE  Header(k) \in [leg_id : Nat \cup {-1}, size : 0..Junk.size, opcode : Genuine \cup {"junk"}]
        OBVIOUS
    <3>1. k \in 1..Len(legs) /\ Len(legs) \in Nat /\ Len(legs[k].payload) \in Nat /\ Len(legs[k].payload) <= kfootsize
        BY <1>1, LegTypes DEF LegInv
    <3>2. k - 1 \in Nat /\ Len(legs[k].payload) \in 0..(kfootsize + 1)
        BY <3>1, BufferFillAssumption
    <3> QED BY <3>2 DEF Header, Junk, Genuine
  <2>2. Junk \in [leg_id : Nat \cup {-1}, size : 0..Junk.size, opcode : Genuine \cup {"junk"}]
      BY BufferFillAssumption DEF Junk
  <2>3. Here \in [leg_id : Nat \cup {-1}, size : 0..Junk.size, opcode : Genuine \cup {"junk"}]
    <3> DEFINE at == {k \in DOMAIN legs : legs[k].header = rpos}
    <3>1. CASE at = {}
        BY <2>2, <3>1 DEF Here
    <3>2. CASE at # {}
      <4>1. (CHOOSE k \in at : TRUE) \in DOMAIN legs
          BY <3>2
      <4> QED BY <2>1, <3>2, <4>1 DEF Here
    <3> QED BY <3>1, <3>2
  <2>4. pkt \in [leg_id : Nat \cup {-1}, size : 0..Junk.size, opcode : Genuine \cup {"junk"}]
      BY <1>1 DEF TypeOK
  <2> HIDE DEF Here, Junk
  <2>5. /\ Field("leg_id", 2, n) \in Nat \cup {-1}
        /\ Field("size", 3, n) \in 0..Junk.size
        /\ Field("opcode", 4, n) \in Genuine \cup {"junk"}
      BY <2>2, <2>3, <2>4 DEF Field
  <2>6. pkt' = [leg_id |-> Field("leg_id", 2, n), size |-> Field("size", 3, n),
                opcode |-> Field("opcode", 4, n)]
      BY <1>2
  <2> QED BY <2>5, <2>6
<1>8. ASSUME ~astray' PROVE RecvInv'
  <2>1. /\ ~astray /\ RecvInv /\ fpc = "header" /\ rpos = Behind
        /\ n = 4 \/ (n = 0 /\ pkt # Junk)
    <3>0. 1..(HeaderLen - 1) = 1..3
        BY <1>4
    <3>1. ~astray /\ ~(n \in 1..3) /\ ~(n = 0 /\ pkt = Junk)
        BY <1>2, <1>8, <3>0, Zenon
    <3>2. n = 4 \/ n = 0
        BY <1>4, <3>1
    <3>3. fpc = "header" /\ RecvInv
        BY <1>1, <1>3, <3>1 DEF At
    <3>4. rpos = Behind
        BY <3>3 DEF RecvInv
    <3> QED BY <3>1, <3>2, <3>3, <3>4
  <2>2. Current' = Current
      BY <1>3 DEF Current
  <2>3. CASE n = 4
    <3>1. rpos < written
        BY <1>1, <1>5, <2>3, RecvTypes
    <3>2. Current \in 1..Len(legs) /\ Here = Header(Current) /\ rpos = legs[Current].header
        BY <1>1, <2>1, <3>1, NextHeader
    <3>3. pkt' = Header(Current)
      <4>1. pkt' = [leg_id |-> Here.leg_id, size |-> Here.size, opcode |-> Here.opcode]
          BY <1>2, <2>3 DEF Field
      <4> QED BY <3>2, <4>1 DEF Header
    <3>4. Header(Current)' = Header(Current) /\ PayloadAt(Current)' = rpos'
        BY <1>3, <1>5, <2>2, <2>3, <3>2 DEF Header, PayloadAt, HeaderLen
    <3>5. Current <= Len(legs')
        BY <1>3, <1>1, <3>2, LegTypes
    <3>6. Fresh'
        BY <1>3, <2>2, <3>3, <3>4, <3>5 DEF Fresh
    <3> QED BY <1>3, <2>1, <3>6, ReceiverPart DEF RecvInv, At
  <2>4. CASE n = 0 /\ pkt # Junk
    <3>1. pkt'.size = pkt.size
        BY <1>2, <2>4 DEF Field
    <3>2. Stale'
        BY <1>3, <1>5, <2>1, <2>4, <3>1 DEF Stale, RecvInv
    <3> QED BY <1>3, <2>1, <3>2, ReceiverPart DEF RecvInv, At
  <2> QED BY <2>1, <2>3, <2>4
<1>9. start' \in 0..written /\ rx_remainder' \in 0..kfootsize /\ astray' \in BOOLEAN
    BY <1>1, <1>2, <1>3 DEF TypeOK
<1> QED BY <1>5, <1>6, <1>7, <1>8, <1>9, ReadingKeeps DEF Reading

LEMMA CheckKeeps ==
    ASSUME FrameInv, CheckHeader
    PROVE  FrameInv'
<1>1. TypeOK /\ LegInv /\ BufferInv /\ (~astray => RecvInv)
    BY DEF FrameInv
<1>2. UNCHANGED <<fillVars, written, legs, conn, rpos, next_leg, out, astray>> /\ At("checks") /\ fpc = "checks"
    BY DEF CheckHeader, At
<1>3. rpos' \in 0..written /\ conn' \in {"up", "closed", "over"} /\ astray' \in BOOLEAN
    BY <1>1, <1>2 DEF TypeOK
<1>4. ASSUME ~astray' PROVE RecvInv /\ (Fresh \/ Stale) /\ pkt.size <= kfootsize
  <2>1. RecvInv /\ (Fresh \/ Stale)
      BY <1>1, <1>2, <1>4 DEF RecvInv
  <2>2. ASSUME Fresh PROVE pkt.size <= kfootsize
    <3>1. Current \in 1..Len(legs) /\ pkt = Header(Current)
        BY <1>1, <2>2, LegTypes, RecvTypes DEF Fresh, Current
    <3> QED BY <1>1, <3>1 DEF LegInv, Header
  <2> QED BY <2>1, <2>2 DEF Stale
<1>5. CASE pkt.size > kfootsize /\ rproc' = "size" /\ UNCHANGED <<pkt, rx_remainder, start, fpc>>
  <2>1. BufferInv'
      BY <1>1, <1>2, <1>5 DEF BufferInv, At
  <2>2. ~astray' => FALSE
      BY <1>1, <1>4, <1>5, RecvTypes
  <2>3. /\ start' \in 0..written /\ rx_remainder' \in 0..kfootsize
        /\ pkt' \in [leg_id : Nat \cup {-1}, size : 0..Junk.size, opcode : Genuine \cup {"junk"}]
      BY <1>1, <1>5 DEF TypeOK
  <2> QED BY <1>3, <2>1, <2>2, <2>3, ReadingKeeps DEF Reading
<1>6. ASSUME NEW n \in 0..kfootsize, pkt.size \in {n, Junk.size}, pkt' = [pkt EXCEPT !.size = n],
             rx_remainder' = pkt'.size, start' = rpos, fpc' = AfterHeader, rproc' = rproc
      PROVE  FrameInv'
  <2>1. /\ pkt'.size = n /\ n \in Nat /\ n <= kfootsize
        /\ pkt' \in [leg_id : Nat \cup {-1}, size : 0..Junk.size, opcode : Genuine \cup {"junk"}]
    <3>1. n \in Nat /\ n <= kfootsize /\ n \in 0..Junk.size
        BY BufferFillAssumption DEF Junk
    <3>2. pkt \in [leg_id : Nat \cup {-1}, size : 0..Junk.size, opcode : Genuine \cup {"junk"}]
        BY <1>1 DEF TypeOK
    <3> QED BY <1>6, <3>1, <3>2
  <2>2. fpc' = IF n = 0 THEN "emit" ELSE "payload"
      BY <1>6, <2>1 DEF AfterHeader
  <2>3. BufferInv'
      BY <1>1, <1>2, <1>6, <2>1, <2>2, RecvTypes DEF BufferInv, At
  <2>4. ASSUME ~astray' PROVE RecvInv'
    <3>1. pkt.size = n /\ pkt' = pkt
        BY <1>1, <1>4, <1>6, <2>1, <2>4, RecvTypes DEF Junk
    <3>2. Current' = Current /\ PayloadAt(Current)' = PayloadAt(Current) /\ Header(Current)' = Header(Current)
        BY <1>2 DEF Current, PayloadAt, Header
    <3>3. Fresh => Fresh'
        BY <1>2, <1>6, <2>2, <3>1, <3>2 DEF Fresh
    <3>4. Stale => Stale'
        BY <1>2, <2>2, <3>1 DEF Stale
    <3> QED BY <1>2, <1>4, <2>2, <2>4, <3>3, <3>4, ReceiverPart DEF RecvInv, At
  <2>5. start' \in 0..written /\ rx_remainder' \in 0..kfootsize
      BY <1>1, <1>6, <2>1 DEF TypeOK
  <2> QED BY <1>3, <2>1, <2>3, <2>4, <2>5, ReadingKeeps DEF Reading
<1> QED BY <1>5, <1>6 DEF CheckHeader

LEMMA PayloadKeeps ==
    ASSUME FrameInv, ReadPayload \/ PayloadEof
    PROVE  FrameInv'
<1>1. TypeOK /\ BufferInv /\ (~astray => RecvInv)
    BY DEF FrameInv
<1>2. UNCHANGED <<fillVars, written, legs, pkt, start, next_leg, out, astray, rproc>> /\ At("payload") /\ fpc = "payload"
    BY DEF ReadPayload, PayloadEof, At
<1>3. /\ start' \in 0..written /\ astray' \in BOOLEAN
      /\ pkt' \in [leg_id : Nat \cup {-1}, size : 0..Junk.size, opcode : Genuine \cup {"junk"}]
    BY <1>1, <1>2 DEF TypeOK
<1>4. /\ rx_remainder <= pkt.size /\ pkt.size <= kfootsize /\ rpos = start + pkt.size - rx_remainder
      /\ out[1] <= out[2] /\ out[2] <= start
    BY <1>1, <1>2 DEF BufferInv
<1>5. ASSUME ReadPayload PROVE FrameInv'
  <2>1. PICK n \in 1..rx_remainder : Got(n, Least(rx_remainder, MAXBSIZE)) /\ rx_remainder' = rx_remainder - n
      BY <1>5 DEF ReadPayload
  <2>2. /\ Least(rx_remainder, MAXBSIZE) \in Nat /\ Least(rx_remainder, MAXBSIZE) <= rx_remainder
        /\ n \in Nat /\ n > 0 /\ n <= rx_remainder
      BY <1>1, <2>1, RecvTypes, BufferFillAssumption DEF Least
  <2>3. rpos' = rpos + n /\ rpos' \in 0..written /\ conn' = conn /\ conn # "over" /\ conn' \in {"up", "closed", "over"}
      BY <1>1, <2>1, <2>2, GotFacts
  <2>4. fpc' = IF rx_remainder' = 0 THEN "emit" ELSE "payload"
      BY <1>5 DEF ReadPayload
  <2>5. rx_remainder' \in 0..kfootsize /\ rx_remainder' <= pkt.size /\ rpos' = start + pkt.size - rx_remainder'
      BY <1>1, <1>4, <2>1, <2>2, <2>3, RecvTypes
  <2>6. BufferInv'
      BY <1>1, <1>2, <1>4, <2>3, <2>4, <2>5, RecvTypes DEF BufferInv, At
  <2>7. ASSUME ~astray' PROVE RecvInv'
    <3>1. RecvInv /\ Fresh
        BY <1>1, <1>2, <2>3, <2>7 DEF RecvInv, Stale
    <3>2. Fresh'
        BY <1>2, <2>4, <3>1 DEF Fresh, Current, PayloadAt, Header
    <3> QED BY <1>2, <2>4, <3>1, <3>2, ReceiverPart DEF RecvInv, At
  <2> QED BY <1>3, <2>3, <2>5, <2>6, <2>7, ReadingKeeps DEF Reading
<1>6. ASSUME PayloadEof PROVE FrameInv'
  <2>1. Got(0, rx_remainder) /\ fpc' = "restart" /\ rx_remainder' = rx_remainder
      BY <1>6 DEF PayloadEof, AfterEof
  <2>2. rpos' = rpos /\ conn' = "over" /\ rpos' \in 0..written /\ rx_remainder' \in 0..kfootsize
      BY <1>1, <2>1, RecvTypes DEF Got
  <2>3. BufferInv'
      BY <1>1, <1>2, <2>1, <2>2 DEF BufferInv, At
  <2>4. ~astray' => RecvInv'
      BY <1>1, <1>2, <2>1, ReceiverPart DEF RecvInv, At
  <2> QED BY <1>3, <2>2, <2>3, <2>4, ReadingKeeps DEF Reading
<1> QED BY <1>5, <1>6

\* A payload is put out whole, and goes on in the output where the last ended.
LEMMA EmitKeeps ==
    ASSUME FrameInv, Emit
    PROVE  FrameInv' /\ (next_leg' # next_leg /\ ~astray => GoesOn)
<1>1. TypeOK /\ LegInv /\ BufferInv /\ (~astray => RecvInv) /\ IndInv
    BY DEF FrameInv
<1>2. /\ UNCHANGED <<fillVars, written, legs, conn, rpos, rx_remainder, start, astray>>
      /\ At("emit") /\ fpc = "emit" /\ pkt.leg_id \in {next_leg, -1}
      /\ out' = <<start, start + pkt.size - rx_remainder>>
    BY DEF Emit, At, Junk
<1>3. PICK opcode \in Genuine \cup {"junk"} :
          /\ pkt.opcode \in {opcode, "junk"}
          /\ pkt' = [pkt EXCEPT !.leg_id = next_leg, !.opcode = opcode]
          /\ \/ /\ opcode \in Genuine /\ next_leg' = next_leg + 1 /\ UNCHANGED rproc
                /\ fpc' = IF opcode = "end_of_millipede" THEN "done" ELSE "header"
             \/ opcode = "junk" /\ rproc' = "ebadrpc" /\ UNCHANGED <<fpc, next_leg>>
             \/ opcode = "feed_more" /\ astray /\ rproc' = "checksum" /\ UNCHANGED <<fpc, next_leg>>
    BY DEF Emit
<1>4. /\ rx_remainder = 0 /\ rpos = start + pkt.size /\ pkt.size <= kfootsize
      /\ out' = <<start, rpos>> /\ out'[1] = start /\ out'[2] = rpos /\ start <= rpos
  <2>1. rx_remainder = 0 /\ rpos = start + pkt.size - rx_remainder /\ pkt.size <= kfootsize
      BY <1>1, <1>2 DEF BufferInv
  <2>2. start + pkt.size - rx_remainder = rpos /\ start <= rpos /\ rpos = start + pkt.size
      BY <1>1, <2>1, RecvTypes
  <2> QED BY <1>2, <2>1, <2>2
<1>5. /\ fpc' \in {"header", "done", "emit"} /\ (fpc' = "emit" => rproc' # "run")
      /\ next_leg' \in Nat /\ rproc' \in {"run", "phrase", "size", "ebadrpc", "checksum"}
    BY <1>1, <1>2, <1>3, RecvTypes DEF TypeOK
<1>6. TypeOK'
  <2>1. out' \in (0..written) \X (0..written)
      BY <1>1, <1>4, RecvTypes
  <2>2. pkt' \in [leg_id : Nat \cup {-1}, size : 0..Junk.size, opcode : Genuine \cup {"junk"}]
    <3>1. pkt \in [leg_id : Nat \cup {-1}, size : 0..Junk.size, opcode : Genuine \cup {"junk"}] /\ next_leg \in Nat
        BY <1>1 DEF TypeOK
    <3> QED BY <1>3, <3>1
  <2> QED BY <1>1, <1>2, <1>5, <2>1, <2>2, ReceiverPart DEF TypeOK, Junk, Genuine
<1>7. BufferInv'
    BY <1>2, <1>4, <1>5 DEF BufferInv, At
<1>8. ASSUME ~astray
      PROVE  /\ RecvInv /\ Current \in 1..Len(legs) /\ Current \in Nat /\ next_leg \in Nat /\ Len(legs) \in Nat
             /\ pkt = Header(Current) /\ start = PayloadAt(Current) /\ rpos = EndAt(Current)
             /\ next_leg' = Current
             /\ fpc' = "done" \/ fpc' = "header"
             /\ fpc' = "done" <=> Len(legs[Current].payload) = 0
             /\ pkt'.size = pkt.size
  <2>1. RecvInv /\ Fresh
      BY <1>1, <1>2, <1>8 DEF RecvInv, Stale
  <2>2. Current \in 1..Len(legs) /\ Current \in Nat /\ next_leg \in Nat /\ Len(legs) \in Nat
      BY <1>1, <2>1, LegTypes, RecvTypes DEF Fresh, Current
  <2>3. pkt = Header(Current) /\ start = PayloadAt(Current)
      BY <1>2, <2>1 DEF Fresh
  <2>4. rpos = EndAt(Current)
      BY <1>4, <2>3 DEF EndAt, Header
  <2>5. pkt.opcode \in Genuine /\ (pkt.opcode = "end_of_millipede" <=> Len(legs[Current].payload) = 0)
      BY <1>1, <2>2, <2>3, LegTypes DEF Header, Genuine
  <2>6. opcode = pkt.opcode
      BY <1>3, <2>5 DEF Genuine
  <2>7. next_leg' = Current /\ fpc' = IF opcode = "end_of_millipede" THEN "done" ELSE "header"
      BY <1>3, <1>8, <2>5, <2>6 DEF Current, Genuine
  <2>8. pkt'.size = pkt.size
      BY <1>1, <1>3 DEF TypeOK
  <2> QED BY <2>1, <2>2, <2>3, <2>4, <2>5, <2>6, <2>7, <2>8
<1>9. ASSUME ~astray' PROVE RecvInv'
  <2>1. ~astray
      BY <1>2, <1>9
  <2>2. /\ Current \in 1..Len(legs) /\ Current \in Nat /\ Len(legs) \in Nat /\ next_leg' = Current /\ pkt'.size = pkt.size
        /\ start = PayloadAt(Current) /\ rpos = EndAt(Current) /\ pkt = Header(Current)
        /\ fpc' = "done" \/ fpc' = "header"
        /\ fpc' = "done" <=> Len(legs[Current].payload) = 0
      BY <2>1, <1>8
  <2>3. next_leg' <= Len(legs') /\ next_leg' > 0
      BY <1>2, <2>2
  <2>4. PayloadAt(next_leg)' = PayloadAt(Current) /\ EndAt(next_leg)' = EndAt(Current)
      BY <1>2, <2>2 DEF PayloadAt, EndAt
  <2>5. out' = <<PayloadAt(next_leg)', EndAt(next_leg)'>> /\ rpos' = Behind'
      BY <1>2, <1>4, <2>2, <2>3, <2>4 DEF Behind
  <2>6. fpc' = "header" => pkt'.size > 0 /\ pkt'.size <= kfootsize
    <3>1. fpc' = "header" => Len(legs[Current].payload) # 0
        BY <2>2
    <3>2. pkt'.size = Len(legs[Current].payload) /\ pkt'.size \in Nat
        BY <1>1, <2>2, LegTypes DEF Header
    <3> QED BY <1>4, <2>2, <3>1, <3>2
  <2>7. fpc' = "done" => next_leg' = Len(legs') /\ bpc' = "shutdown"
      BY <1>1, <1>2, <2>2 DEF LegInv, fillVars
  <2> QED BY <2>2, <2>3, <2>5, <2>6, <2>7 DEF RecvInv, At
<1>10. ASSUME next_leg' # next_leg, ~astray PROVE GoesOn
  <2>1. /\ RecvInv /\ Current \in 1..Len(legs) /\ Current \in Nat /\ Len(legs) \in Nat /\ next_leg' = Current /\ next_leg \in Nat
        /\ start = PayloadAt(Current) /\ rpos = EndAt(Current)
        /\ fpc' = "done" <=> Len(legs[Current].payload) = 0
      BY <1>10, <1>8
  <2>2. out'[1] = HeaderLen + IF next_leg = 0 THEN PhraseLen ELSE out[2]
    <3>1. next_leg > 0 => out[2] = EndAt(next_leg)
        BY <2>1 DEF RecvInv
    <3>2. legs[Current].header = IF next_leg = 0 THEN PhraseLen ELSE EndAt(next_leg)
      <4>1. (Current = 1 <=> next_leg = 0) /\ Current - 1 = next_leg
          BY <2>1 DEF Current
      <4> QED BY <1>1, <2>1, <4>1 DEF LegInv
    <3>3. legs[Current].header \in Nat
        BY <1>1, <2>1, LegTypes
    <3> QED BY <1>4, <2>1, <3>1, <3>2, <3>3 DEF PayloadAt, HeaderLen
  <2>3. ASSUME NEW at \in out'[1]..(out'[2] - 1)
        PROVE  legs[next_leg'].payload[at - PayloadAt(next_leg') + 1] = at - Overhead(next_leg')
    <3>1. /\ PayloadAt(Current) \in Nat /\ EndAt(Current) \in Nat /\ Len(legs[Current].payload) \in Nat
          /\ EndAt(Current) = PayloadAt(Current) + Len(legs[Current].payload)
          /\ at \in PayloadAt(Current)..(EndAt(Current) - 1)
        BY <1>1, <1>4, <2>1, LegTypes DEF EndAt
    <3>2. at - PayloadAt(Current) + 1 \in 1..Len(legs[Current].payload) /\ at \in Int
        BY <3>1
    <3>3. legs[Current].payload[at - PayloadAt(Current) + 1]
              = PayloadAt(Current) - Overhead(Current) + (at - PayloadAt(Current) + 1) - 1
        BY <1>1, <2>1, <3>2 DEF LegInv
    <3>4. Overhead(Current) \in Int
        BY <2>1 DEF Overhead, PhraseLen, HeaderLen
    <3> QED BY <2>1, <3>1, <3>2, <3>3, <3>4
  <2>4. ASSUME fpc' = "done" PROVE out'[2] = Overhead(next_leg') + InputLen
    <3>1. Current = Len(legs) /\ bpc = "shutdown"
        BY <1>1, <2>1, <2>4 DEF LegInv
    <3>2. written = EndAt(Current) /\ written = Overhead(Current) + handed
        BY <1>1, <2>1, <3>1 DEF LegInv
    <3>3. handed = InputLen
        BY <1>1, <3>1, BufferFillAssumption DEF IndInv, FillTypeOK, InPlace, Ending
    <3> QED BY <1>4, <2>1, <3>2, <3>3
  <2> QED BY <2>2, <2>3, <2>4 DEF GoesOn
<1> QED BY <1>2, <1>6, <1>7, <1>9, <1>10, ReceiverPart DEF FrameInv

LEMMA FrameStep ==
    ASSUME FrameInv, [Next]_vars
    PROVE  FrameInv' /\ (next_leg' # next_leg /\ ~astray => GoesOn)
<1>1. CASE Transmit \/ Ends
    BY <1>1, TransmitKeeps DEF Transmit, Ends, Fill, PushLeg, PushEnd, rxVars
<1>2. CASE Close \/ UNCHANGED vars
    BY <1>2, TcpKeeps DEF Close, vars, rxVars
<1>3. CASE ReadPhrase
    BY <1>3, PhraseKeeps DEF ReadPhrase
<1>4. CASE ReadHeader
    BY <1>4, HeaderKeeps DEF ReadHeader
<1>5. CASE CheckHeader
    BY <1>5, CheckKeeps DEF CheckHeader
<1>6. CASE ReadPayload \/ PayloadEof
    BY <1>6, PayloadKeeps DEF ReadPayload, PayloadEof
<1>7. CASE Emit
    BY <1>7, EmitKeeps
<1> QED BY <1>1, <1>2, <1>3, <1>4, <1>5, <1>6, <1>7 DEF Next, Receive

LEMMA FrameInvariance == Spec => []FrameInv
BY FrameStep, InitFrameInv, PTL DEF Spec

-----------------------------------------------------------------------------
(***************************************************************************)
(* Every variable keeps its type; what is read never goes beyond what was  *)
(* written, nor a payload beyond the buffer, also by a header that was cut *)
(* (rx.c:61-75, rx.c:86-120).                                              *)
(***************************************************************************)
THEOREM StreamTypeCorrect == Spec => []TypeOK
<1>1. FrameInv => TypeOK BY DEF FrameInv
<1> QED BY <1>1, FrameInvariance, PTL

(***************************************************************************)
(* What is put out are whole payloads, in order, however TCP cuts the      *)
(* payloads and wherever the connection ends, as long as every header      *)
(* comes in one piece.  A thread that has gone on with a header that did   *)
(* not may put out anything, but in the order it came in, and no byte      *)
(* twice (rx.c:61-75, rx.c:86-120).                                        *)
(***************************************************************************)
THEOREM PayloadsAreExact == Spec => []PayloadsExact
<1>1. FrameInv => PayloadsExact BY DEF FrameInv, BufferInv, RecvInv, PayloadsExact
<1> QED BY <1>1, FrameInvariance, PTL

(***************************************************************************)
(* The output is the beginning of the input, and all of it once the end    *)
(* leg is out, as long as every header comes in one piece (plumbing.c:43-57, *)
(* rx.c:61-75, rx.c:86-120).                                               *)
(***************************************************************************)
THEOREM OutputFollowsInput == Spec => EndToEnd
<1>1. FrameInv /\ [Next]_vars => [next_leg' # next_leg /\ ~astray => GoesOn]_vars
    BY FrameStep
<1> QED BY <1>1, FrameInvariance, PTL DEF Spec, EndToEnd

(***************************************************************************)
(* The legs that are written are still those of bufferfill(): nothing that *)
(* TCP or the receiver does disturbs what it has read (plumbing.c:25-74).  *)
(***************************************************************************)
THEOREM InputStaysInPlace == Spec => [](InPlace /\ CutByMode)
<1>1. FrameInv => InPlace /\ CutByMode BY DEF FrameInv, IndInv
<1> QED BY <1>1, FrameInvariance, PTL
=============================================================================
