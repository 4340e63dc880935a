------------------------------- MODULE Framing -------------------------------
(***************************************************************************)
(* The bytes of one connection, from the input of the transmitter to the   *)
(* output of the receiver: BufferFill cuts the input into legs, the worker *)
(* writes them one behind the other, each behind a header, and a receiver  *)
(* thread takes the stream apart again (rx.c).  TCP delivers the stream in *)
(* pieces of its own choosing: a read() returns some of what is under way, *)
(* up to what was asked for.  Phrase and header are read with one call     *)
(* each, the payload in a loop.                                            *)
(*                                                                         *)
(* Scaling: the four bytes of the checkphrase count as two.  The header    *)
(* counts as four: preamble, leg_id, size, opcode; a header that is cut    *)
(* within a field has junk for that field.  One worker, so that the legs   *)
(* of the connection are all the legs; more are in Tx and Rx.  Checksums   *)
(* are off; they are in Checksum.                                          *)
(***************************************************************************)
EXTENDS BufferFill, Integers, Sequences

PhraseLen == 2
HeaderLen == 4

Genuine == {"feed_more", "end_of_millipede"}

VARIABLES
    written,          \* bytes that have been written
    legs,             \* legs[k]: the k-th leg written, with the place of its header in the
                      \* stream and its payload as input positions
    conn,             \* the connection: up, closed by the sender, or over for the receiver
    fpc,              \* where the receiver thread stands
    rpos,             \* bytes that it has read
    pkt, rx_remainder,   \* the header on the thread's stack
    start,            \* where in the stream the payload in the buffer began
    next_leg,         \* legs that were put out
    out,              \* where in the stream the last of them began and ended
    astray,           \* history: the thread has gone on with fields that are those of no leg
    rproc             \* the receiver runs, or the check that has ended it

rxVars == <<fpc, rpos, pkt, rx_remainder, start, next_leg, out, astray, rproc>>
vars == <<fillVars, written, legs, conn, rxVars>>

\* Where the payload of leg k starts, and where it ends.
PayloadAt(k) == legs[k].header + HeaderLen
EndAt(k) == PayloadAt(k) + Len(legs[k].payload)

\* What txpush() writes in front of it.
Header(k) == [leg_id |-> k - 1, size |-> Len(legs[k].payload),
              opcode |-> IF legs[k].payload = <<>> THEN "end_of_millipede" ELSE "feed_more"]

\* Fields that nothing is known of.  What they are is settled where they are used.
Junk == [leg_id |-> -1, size |-> kfootsize + 1, opcode |-> "junk"]

Leg == [header : 0..written, payload : Seq(Nat)]

\* Every variable has its type.
TypeOK ==
    /\ FillTypeOK
    /\ written \in Nat
    /\ legs \in Seq(Leg)
    /\ conn \in {"up", "closed", "over"}
    /\ fpc \in {"phrase", "header", "checks", "payload", "emit", "restart", "done"}
    /\ rpos \in 0..written
    /\ pkt \in [leg_id : Nat \cup {-1}, size : 0..Junk.size, opcode : Genuine \cup {"junk"}]
    /\ rx_remainder \in 0..kfootsize
    /\ start \in 0..written
    /\ next_leg \in Nat
    /\ out \in (0..written) \X (0..written)
    /\ astray \in BOOLEAN
    /\ rproc \in {"run", "phrase", "size", "ebadrpc", "checksum"}

Init ==
    /\ FillInit
    /\ written = PhraseLen /\ legs = <<>> /\ conn = "up"
    /\ fpc = "phrase" /\ rpos = 0
    /\ pkt = Junk /\ rx_remainder = 0 /\ start = 0
    /\ next_leg = 0 /\ out = <<0, 0>> /\ astray = FALSE /\ rproc = "run"

-----------------------------------------------------------------------------
(* The transmitter *)

Fill ==
    /\ (\E n \in 1..kfootsize : Read(n)) \/ ReadEof
    /\ UNCHANGED <<written, legs, conn, rxVars>>

\* txpush(): the header and then the payload.
Writev(payload) ==
    /\ legs' = Append(legs, [header |-> written, payload |-> payload])
    /\ written' = written + HeaderLen + Len(payload)

\* Mutant: the leg is written as long as the buffer is.
PushLegWhole ==
    /\ Handover
    /\ Writev([i \in 1..kfootsize |-> dest[i - 1]])
    /\ UNCHANGED <<conn, rxVars>>

\* The worker has the leg and writes it.
PushLeg ==
    /\ Handover
    /\ Writev([i \in 1..accumulator |-> dest[i - 1]])
    /\ UNCHANGED <<conn, rxVars>>

\* txshutdown(): a leg without a payload is the last.
PushEnd ==
    /\ Shutdown
    /\ Writev(<<>>)
    /\ UNCHANGED <<conn, rxVars>>

Ends == ReadFails /\ UNCHANGED <<written, legs, conn, rxVars>>

-----------------------------------------------------------------------------
(* TCP *)

\* The process at the other end has gone.
Close ==
    /\ conn = "up" /\ bpc \in {"shutdown", "dead"}
    /\ conn' = "closed"
    /\ UNCHANGED <<fillVars, written, legs, rxVars>>

\* read() of at most asked bytes returns n: it waits for one byte, or for the
\* end of the connection, which may come before all that was written.
Got(n, asked) ==
    /\ n = 0 => conn # "up"
    /\ n > 0 => conn # "over" /\ n <= Least(asked, written - rpos)
    /\ rpos' = rpos + n
    /\ conn' = IF n = 0 THEN "over" ELSE conn

-----------------------------------------------------------------------------
(* rxworker() *)

At(l) == rproc = "run" /\ fpc = l

\* The phrase has to come whole.
ReadPhrase ==
    /\ At("phrase")
    /\ \E n \in 0..PhraseLen :
          /\ Got(n, PhraseLen)
          /\ IF n = PhraseLen THEN fpc' = "header" /\ UNCHANGED rproc
                              ELSE rproc' = "phrase" /\ UNCHANGED fpc
    /\ UNCHANGED <<fillVars, written, legs, pkt, rx_remainder, start, next_leg, out, astray>>

\* The header that begins here, if the thread is where one does.
Here == LET at == {k \in DOMAIN legs : legs[k].header = rpos}
        IN  IF at = {} THEN Junk ELSE Header(CHOOSE k \in at : TRUE)

\* Field f, in place i of the header, when n came: it came; it may have come in
\* part; or it is left as it was.
Field(f, i, n) == IF i <= n THEN Here[f] ELSE IF i = n + 1 THEN Junk[f] ELSE pkt[f]

(***************************************************************************)
(* readv() is called once.  What it returns is only reported: a header     *)
(* that has come in part, or not at all because the connection has ended,  *)
(* is used like any other, with the fields that did not come as they were  *)
(* (rx.c:61-75).  The rest of the header is then taken for payload, and    *)
(* what comes after that for a header; assert(-1) lets any preamble pass.  *)
(***************************************************************************)
ReadHeader ==
    /\ At("header")
    /\ \E n \in 0..HeaderLen :
          /\ Got(n, HeaderLen)
          /\ pkt' = [leg_id |-> Field("leg_id", 2, n), size |-> Field("size", 3, n),
                     opcode |-> Field("opcode", 4, n)]
          /\ astray' = (astray \/ n \in 1..(HeaderLen - 1) \/ (n = 0 /\ pkt = Junk))
    /\ fpc' = "checks"
    /\ UNCHANGED <<fillVars, written, legs, rx_remainder, start, next_leg, out, rproc>>

\* Mutant: the loop is entered even when there is nothing to read.
AfterHeaderReads == "payload"

\* The payload loop is skipped by a leg without a payload.
AfterHeader == IF pkt'.size = 0 THEN "emit" ELSE "payload"

\* A size that the buffer cannot hold fails an assertion, as one that nobody
\* wrote may; or it is any other.
CheckHeader ==
    /\ At("checks")
    /\ \/ /\ \E n \in 0..kfootsize : pkt.size \in {n, Junk.size} /\ pkt' = [pkt EXCEPT !.size = n]
          /\ rx_remainder' = pkt'.size /\ start' = rpos /\ fpc' = AfterHeader
          /\ UNCHANGED rproc
       \/ pkt.size > kfootsize /\ rproc' = "size" /\ UNCHANGED <<pkt, rx_remainder, start, fpc>>
    /\ UNCHANGED <<fillVars, written, legs, conn, rpos, next_leg, out, astray>>

\* read(... MIN(remainder, MAXBSIZE)).
ReadPayload ==
    /\ At("payload")
    /\ \E n \in 1..rx_remainder :
          /\ Got(n, Least(rx_remainder, MAXBSIZE))
          /\ rx_remainder' = rx_remainder - n
    /\ fpc' = IF rx_remainder' = 0 THEN "emit" ELSE "payload"
    /\ UNCHANGED <<fillVars, written, legs, pkt, start, next_leg, out, astray, rproc>>

\* Mutant: what came before the connection ended is put out.
AfterEofEmits == "emit"

\* restartme: the leg is given up.
AfterEof == "restart"

PayloadEof ==
    /\ At("payload") /\ Got(0, rx_remainder)
    /\ fpc' = AfterEof
    /\ UNCHANGED <<fillVars, written, legs, pkt, rx_remainder, start, next_leg, out, astray, rproc>>

(***************************************************************************)
(* The sequencer waits for the leg's turn, for ever if it has passed; a    *)
(* number that nobody wrote may be the next.  Then size bytes of the       *)
(* buffer are written; those that remainder still counts have not come     *)
(* with this leg.  The opcode is looked at before the leg is counted, and  *)
(* so is a checksum, which only a header that nobody wrote has here.       *)
(***************************************************************************)
Emit ==
    /\ At("emit") /\ pkt.leg_id \in {next_leg, Junk.leg_id}
    /\ out' = <<start, start + pkt.size - rx_remainder>>
    /\ \E opcode \in Genuine \cup {"junk"} :
          /\ pkt.opcode \in {opcode, "junk"}
          /\ pkt' = [pkt EXCEPT !.leg_id = next_leg, !.opcode = opcode]
          /\ \/ /\ opcode \in Genuine /\ next_leg' = next_leg + 1 /\ UNCHANGED rproc
                /\ fpc' = IF opcode = "end_of_millipede" THEN "done" ELSE "header"
             \/ opcode = "junk" /\ rproc' = "ebadrpc" /\ UNCHANGED <<fpc, next_leg>>
             \/ opcode = "feed_more" /\ astray /\ rproc' = "checksum" /\ UNCHANGED <<fpc, next_leg>>
    /\ UNCHANGED <<fillVars, written, legs, conn, rpos, rx_remainder, start, astray>>

-----------------------------------------------------------------------------
Transmit == Fill \/ PushLeg \/ PushEnd

Receive == ReadPhrase \/ ReadHeader \/ CheckHeader \/ ReadPayload \/ PayloadEof \/ Emit

Next == Transmit \/ Ends \/ Close \/ Receive

Spec == Init /\ [][Next]_vars /\ WF_vars(Transmit) /\ WF_vars(Receive)

-----------------------------------------------------------------------------
(***************************************************************************)
(* However TCP cuts the payloads, and wherever the connection ends, what   *)
(* is put out are whole payloads, the first, the second and so on, as long *)
(* as every header comes in one piece (rx.c:61-75, rx.c:86-120).  Once one *)
(* has not, anything may be put out, headers too, but in the order it came *)
(* in, and no byte of the stream twice.                                    *)
(***************************************************************************)
PayloadsExact ==
    /\ ~astray /\ next_leg > 0 =>
          next_leg <= Len(legs) /\ out = <<PayloadAt(next_leg), EndAt(next_leg)>>
    /\ out[1] <= out[2] /\ out[2] <= rpos
    /\ At("payload") \/ At("emit") => out[2] <= start

\* Bytes of the stream before the payload of the k-th leg that are not input.
Overhead(k) == PhraseLen + k * HeaderLen

\* The leg that is put out goes on in the output where the last one ended.
GoesOn ==
    /\ out'[1] = HeaderLen + IF next_leg = 0 THEN PhraseLen ELSE out[2]
    /\ \A at \in out'[1]..(out'[2] - 1) :
          legs[next_leg'].payload[at - PayloadAt(next_leg') + 1] = at - Overhead(next_leg')
    /\ fpc' = "done" => out'[2] = Overhead(next_leg') + InputLen

(***************************************************************************)
(* From end to end: the output is the beginning of the input, and all of   *)
(* it when the receiver takes the stream for complete, in charmode too,    *)
(* however read() cuts the input and TCP the payloads, as long as every    *)
(* header comes in one piece (plumbing.c:43-57, rx.c:61-75, rx.c:86-120).  *)
(* Between the pieces that were put out there is a header and nothing      *)
(* else, and every byte of a piece is the byte of the input that the bytes *)
(* of the stream before it, phrase and headers not counted, make it.       *)
(***************************************************************************)
EndToEnd == [][next_leg' # next_leg /\ ~astray => GoesOn]_vars

(***************************************************************************)
(* A leg that is written is put out in the end, also when the connection   *)
(* is closed behind it, unless it has not come in full by then, or phrase  *)
(* or a header came in pieces (rx.c:36-38, rx.c:61-75, rx.c:86-120).       *)
(***************************************************************************)
AllPutOut == \A k \in 1..(InputLen + 1) :
    k \in DOMAIN legs ~> \/ next_leg >= k \/ rproc = "phrase" \/ astray
                         \/ conn = "over" /\ k \in DOMAIN legs /\ rpos < EndAt(k)
=============================================================================
