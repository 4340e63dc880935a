------------------------------ MODULE Checksum ------------------------------
(***************************************************************************)
(* The checks the program makes on its own stream: the chain of checksums  *)
(* (mix() in plumbing.c, txingest() in tx.c, rxworker() in rx.c) and the   *)
(* pseudo random bit stream (prbs.c, txpush(), rxworker()).                *)
(*                                                                         *)
(* Legs are ingested in order by one thread and checked in order by one    *)
(* thread at a time (SoleEmitter of Receiver), so each is one step.  A     *)
(* worker has one connection and a connection one receiver thread, so c    *)
(* names both ends' buffers, which keep what earlier legs left in them.    *)
(*                                                                         *)
(* Scaling: mix() adds 64-bit words into a 32-bit sum, so of a leg it      *)
(* sees the low four bytes of the first word; the checkphrase, also four   *)
(* bytes long, is read into the same place before the first leg.  Here a   *)
(* byte is below Radix, Sample stands for four bytes and Word for eight.   *)
(***************************************************************************)
EXTENDS Naturals, Sequences

CONSTANTS
    Conn,
    Radix, Sample, Word, kfootsize,
    Sizes,        \* sizes the legs of the input may have
    MaxLegs,
    Seeds,        \* what "prbs" may be on the command line, 0 when it is absent
    XorOf(_, _)   \* the exclusive or of two numbers

ASSUME ChecksumAssumption ==
    /\ Radix \in Nat \ {0, 1} /\ Sample \in 1..kfootsize /\ Word \in Nat \ {0} /\ kfootsize \in Nat
    /\ Sizes \subseteq 1..kfootsize /\ MaxLegs \in Nat
    /\ Seeds \subseteq Nat
    /\ \A a, b \in 0..(Radix - 1) : XorOf(a, b) \in 0..(Radix - 1)

\* In the code the buffer holds an even number of words, and Radix is a power of
\* two: the one round more has an inverse.
ASSUME FullRoundsAssumption == \E v \in 0..(Radix - 1) : (v * ((kfootsize \div Word) + 1)) % Radix = 1

VARIABLES
    gchecksums, gprbs_seed,    \* "checksums" and "prbs" on the command line; they do not change
    txbuf, rxbuf,          \* the buffers at both ends of each connection
    checksum,              \* checksum[c]: pkt.checksum of the worker
    saved_checksum, ingest_leg_counter, done,
    sent,                  \* legs under way, in order
    grx_saved_checksum,
    verdict,               \* "ok", or the check that ended the receiver
    causes                 \* history: what has happened that may make a sum disagree

options == <<gchecksums, gprbs_seed>>
vars == <<options, txbuf, rxbuf, checksum, saved_checksum, ingest_leg_counter, done, sent, grx_saved_checksum,
          verdict, causes>>

Places == 0..(kfootsize - 1)
Buffer == [Places -> 0..(Radix - 1)]

\* What the byte in place k counts for; the sum is Sample bytes wide.
Power[k \in Nat] == IF k = 0 THEN 1 ELSE Radix * Power[k - 1]
SumRange == Power[Sample]

\* The number that bytes are, low byte first.
Number(bytes) == LET w[k \in 0..Sample] == IF k = 0 THEN 0 ELSE w[k - 1] + bytes[k - 1] * Power[k - 1]
                 IN  w[Sample]

\* The part of the first word that fits the sum.
FirstWord(data) == Number([i \in 0..(Sample - 1) |-> data[i]])

\* Mutant: "<" for "<=" in the loop.
RoundsExact(n) == (n + Word - 1) \div Word

\* for (cursor = 0; cursor <= size; cursor += sizeof(unsigned long))
Rounds(n) == (n \div Word) + 1

\* Each round adds the first word and the cursor, in the width of the sum.
Accumulated(seed, word, n) ==
    LET acc[k \in Nat] == IF k = 0 THEN seed % SumRange
                          ELSE (acc[k - 1] + word + (k - 1) * Word) % SumRange
    IN  acc[Rounds(n)]

\* Mutant: the sum is as wide as the words.
mixWide(seed, data, n) ==
    LET acc[k \in Nat] == IF k = 0 THEN seed ELSE acc[k - 1] + FirstWord(data) + (k - 1) * Word
    IN  acc[Rounds(n)]

\* The cursor does not move the pointer: it is the first word that is added.
mix(seed, data, n) == Accumulated(seed, FirstWord(data), n)

\* permutation ^ (salt * i), with an odd salt.
prbs_gen(permutation) == [i \in Places |-> XorOf(permutation % Radix, (3 * i) % Radix)]

\* A leg under way; changed says where a byte of it is no longer what was sent.
Leg == [conn : Conn, leg_id : Nat, size : 0..kfootsize, opcode : {"feed_more", "end_of_millipede"},
        checksum : 0..(SumRange - 1), payload : Buffer, changed : {"no", "sample", "body"}]

\* Every variable has its type.
TypeOK ==
    /\ txbuf \in [Conn -> Buffer] /\ rxbuf \in [Conn -> Buffer]
    /\ checksum \in [Conn -> 0..(SumRange - 1)]
    /\ saved_checksum \in 0..(SumRange - 1) /\ grx_saved_checksum \in 0..(SumRange - 1)
    /\ ingest_leg_counter \in 0..(MaxLegs + 1)
    /\ sent \in Seq(Leg)
    /\ verdict \in {"ok", "checksum", "prbs"}
    /\ done \in BOOLEAN /\ causes \subseteq {"zero", "short", "late", "changed"}
    /\ gchecksums \in BOOLEAN /\ gprbs_seed \in Seeds

\* Both chains start from the same value.  The phrase is in the receiver's
\* buffer; the sender's comes from calloc().
Init ==
    /\ gchecksums \in BOOLEAN /\ gprbs_seed \in Seeds
    /\ txbuf = [c \in Conn |-> [i \in Places |-> 0]]
    /\ rxbuf = [c \in Conn |-> [i \in Places |-> IF i < Sample THEN 1 ELSE 0]]
    /\ checksum = [c \in Conn |-> 0]
    /\ saved_checksum = SumRange - 1 /\ grx_saved_checksum = SumRange - 1
    /\ ingest_leg_counter = 0 /\ done = FALSE
    /\ sent = <<>> /\ verdict = "ok"
    /\ causes = {}

Overwrite(buf, data, n) == [i \in Places |-> IF i < n THEN data[i] ELSE buf[i]]

\* The leg that the worker of c pushes: with prbs, its buffer is generated only now.
Pushed(c, buf, sum, n, op) ==
    LET content == IF gprbs_seed > 0 THEN prbs_gen(gprbs_seed + ingest_leg_counter) ELSE buf
    IN  /\ txbuf' = [txbuf EXCEPT ![c] = content]
        /\ checksum' = [checksum EXCEPT ![c] = sum]
        /\ sent' = Append(sent, [conn |-> c, leg_id |-> ingest_leg_counter, size |-> n, opcode |-> op,
                                 checksum |-> sum, payload |-> content, changed |-> "no"])
        /\ ingest_leg_counter' = ingest_leg_counter + 1
        /\ UNCHANGED <<options, rxbuf, grx_saved_checksum, verdict>>

(***************************************************************************)
(* txingest() has a leg of n bytes for the worker of c, read into its      *)
(* buffer unless prbs is on, and sums what the buffer holds.  Three things *)
(* the receiver's sum may then differ for: the sum is 0 ("zero"), the leg  *)
(* does not fill what mix() looks at ("short"), or the payload is only     *)
(* generated afterwards ("late").                                          *)
(***************************************************************************)
Ingest(c, data, n) ==
    LET buf == IF gprbs_seed > 0 THEN txbuf[c] ELSE Overwrite(txbuf[c], data, n)
        sum == IF gchecksums THEN mix(saved_checksum + ingest_leg_counter, buf, n) ELSE 0
    IN  /\ ~done /\ ingest_leg_counter < MaxLegs
        /\ n \in IF gprbs_seed > 0 THEN {kfootsize} ELSE Sizes
        /\ Pushed(c, buf, sum, n, "feed_more")
        /\ saved_checksum' = IF gchecksums THEN sum ELSE saved_checksum
        /\ causes' = causes \cup {cause \in {"zero", "short", "late"} :
               gchecksums /\ CASE cause = "zero" -> sum = 0
                               [] cause = "short" -> n < Sample
                               [] OTHER -> gprbs_seed > 0}
        /\ UNCHANGED done

\* txshutdown(): the end leg goes out with the sum of the worker's last leg.
Shutdown(c) ==
    /\ ~done /\ done' = TRUE
    /\ Pushed(c, txbuf[c], checksum[c], 0, "end_of_millipede")
    /\ UNCHANGED <<saved_checksum, causes>>

\* A byte of a leg under way becomes another.
Change(k, i, byte) ==
    /\ "changed" \notin causes
    /\ k \in 1..Len(sent) /\ i < sent[k].size /\ byte # sent[k].payload[i]
    /\ sent' = [sent EXCEPT ![k].payload[i] = byte, ![k].changed = IF i < Sample THEN "sample" ELSE "body"]
    /\ causes' = causes \cup {"changed"}
    /\ UNCHANGED <<options, txbuf, rxbuf, checksum, saved_checksum, ingest_leg_counter, done,
                   grx_saved_checksum, verdict>>

Arrived(p) == Overwrite(rxbuf[p.conn], p.payload, p.size)

RxSum(p) == mix(grx_saved_checksum + p.leg_id, Arrived(p), p.size)

\* Mutant: every sum that is there is checked, whatever the opcode.
CheckedAlways(p) == p.checksum # 0

\* Only data legs are checked, and 0 stands for no checksum.
Checked(p) == p.opcode = "feed_more" /\ p.checksum # 0

\* Mutant: the end leg is verified like any other.
PrbsFailsAlways(p) == gprbs_seed > 0 /\ Arrived(p) # prbs_gen(gprbs_seed + p.leg_id)

\* prbs_verify() of the whole buffer; the end leg, which has none, is excused.
PrbsFails(p) ==
    /\ gprbs_seed > 0 /\ p.opcode # "end_of_millipede"
    /\ Arrived(p) # prbs_gen(gprbs_seed + p.leg_id)

\* The receiver has leg p and it is its turn.
Verify(p) ==
    /\ rxbuf' = [rxbuf EXCEPT ![p.conn] = Arrived(p)]
    /\ verdict' = IF PrbsFails(p) THEN "prbs"
                  ELSE IF Checked(p) /\ RxSum(p) # p.checksum THEN "checksum" ELSE "ok"
    /\ grx_saved_checksum' = IF Checked(p) /\ verdict' = "ok" THEN RxSum(p) ELSE grx_saved_checksum
    /\ sent' = IF verdict' = "ok" THEN Tail(sent) ELSE sent
    /\ UNCHANGED <<options, txbuf, checksum, saved_checksum, ingest_leg_counter, done, causes>>

\* What lies beyond the sample is free in one place only.
Payloads == {b \in Buffer : \A i \in (Sample + 1)..(kfootsize - 1) : b[i] = 0}

Next ==
    \/ \E c \in Conn, data \in Payloads, n \in Sizes \cup {kfootsize} : Ingest(c, data, n)
    \/ \E c \in Conn : Shutdown(c)
    \/ \E k \in 1..(MaxLegs + 1), i \in Places, byte \in 0..(Radix - 1) : Change(k, i, byte)
    \/ sent # <<>> /\ verdict = "ok" /\ Verify(Head(sent))

Spec == Init /\ [][Next]_vars

-----------------------------------------------------------------------------
(***************************************************************************)
(* The receiver stops with a checksum mismatch only for a reason: payload  *)
(* was changed; or a leg had the sum 0, which the receiver takes for "no   *)
(* checksum" and leaves out of its chain (rx.c:185-195); or a leg was      *)
(* shorter than the word mix() reads, and what the two buffers held behind *)
(* it differs (plumbing.c:295); or prbs generated the payload after it was *)
(* summed (tx.c:103, tx.c:148).  Any other stream is accepted.             *)
(***************************************************************************)
AlarmExplained == verdict = "checksum" => causes # {}

(***************************************************************************)
(* A full leg whose sampled bytes were changed is not accepted while the   *)
(* chain is whole.  It rests on the odd number of rounds that "<=" gives a *)
(* full leg (plumbing.c:292); an even number would lose the change in the  *)
(* overflow of the sum.                                                    *)
(***************************************************************************)
FullLegGuarded ==
    [][gchecksums /\ causes = {"changed"} /\ Len(sent') < Len(sent) =>
          ~(Head(sent).changed = "sample" /\ Head(sent).size = kfootsize)]_vars

(***************************************************************************)
(* Any leg that arrives as it was sent passes prbs_verify(), the end leg   *)
(* with its empty payload too (rx.c:125).                                  *)
(***************************************************************************)
PrbsAccepted == verdict = "prbs" => "changed" \in causes
=============================================================================
