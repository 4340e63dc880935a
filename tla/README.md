# viamillipede in TLA+

viamillipede carries one byte stream over many TCP connections. A transmitter
cuts its input into *legs* of up to `kfootsize` bytes, numbers them, and lets up
to 16 worker threads write them to as many connections; a receiver with 16
threads puts the legs back in order on its output. This directory models the
program, checks the model with TLC, and proves its main properties with TLAPS.

## The system

| component | state | operations | depends on |
|---|---|---|---|
| ingest (`tx.c`, `txingest`) | `ingest_leg_counter`, `txconf.done`, `input_eof` | find an idle worker, fill its buffer, number the leg, hand it over; at end of input or at the leg limit hand over `end_of_millipede` | workers' state letters, `bufferfill` |
| transmit workers (`txworker_sm`, `txpush`, `tx_start_net`) | state letter, `pkt`, `buffer`, socket | connect and exchange phrases, wait for a leg, `writev` it, become idle | ingest, TCP |
| transmitter's `main` (`txlaunchworkers`, `tx_poll`) | worker cursor | launch workers, start ingest, poll until all are idle at end of input, `exit(0)` | workers, `input_eof` |
| target choice (`tx_tcp_connect_next`) | `target_port_cursor` | pick the next host and port | all workers, unlocked |
| receive workers (`rx.c`, `rxworker`) | `pkt`, `buffer`, socket, `restartme` | accept, check the phrase, read a leg, wait for its turn, write it, act on the opcode | `next_leg`, `seq_cv`, `done_mbox`, `output_fd` |
| receiver's `main` (`rx_poll`) | | exit once `done_mbox` is set | receive workers |
| relay set-up (`terminate.c`, `initiate_relay`) | `ginitiator_oneshot`, `input_fd`, `output_fd` | connect the ends to stdin/stdout or to sockets | both mains, receive workers |
| input chunking (`bufferfill`) | | read until the buffer is full or the input ends | |
| checksum chain (`mix`) | `saved_checksum`, `grx_saved_checksum` | chain a sum from leg to leg | order of legs |
| PRBS self test (`prbs.c`) | | generate and verify a known stream | |
| command line (`viamillipede.c`, `main`) | `txconf`, `rxconf`, `ioconf`, the `g...` options | try every option on every word | everything, as constants |

What is hard here: nothing but a state letter, sampled and stored by different
threads, keeps the ingest thread and a worker off the same buffer; nothing but
`next_leg` keeps two receiver threads off the same output; headers are stored
without any lock; the end of the stream is announced in one critical section
and handed over in another; either process may end at any moment and take all
its connections with it; and the receiver goes on with whatever its header
variable holds when a connection ends. At the edges, two more words are shared
without a lock (`target_port_cursor`, `ginitiator_oneshot`), reads may return
less than was asked for, and buffers keep what earlier legs left in them. `PROJECT.json` lists these hazards at
their lines, with the properties aimed at them.

What makes the parts correct:

- the receiver: its output is the input, in order, each piece once, and it says
  so with `exit(0)` only when all of it is out (`ImplementsPipe`); one thread at a
  time emits (`SoleEmitter`) to an output that is open (`OutputOpen`); no wake-up
  is lost (`NoLostWakeup`); the threads cannot lock up, each waiting for a leg that
  another holds back (`NoLockup`); a stream handed over whole is received
  (`Completes`);
- the transmitter: each buffer has one user (`BufferLease`), each connection
  carries whole, truly numbered legs in ascending order (`StreamIntact`,
  `WireAscending`), the leg limit is kept (`LimitHeld`), and all of that is the
  promise the receiver relies on (`ImplementsFeed`); the process ends
  (`EndsOrStrands`);
- start-up: indices of targets stay within a known distance of the array
  (`Overshoot`), targets are taken in turn when the launches are far enough apart
  (`RoundRobin`), and a worker's mutex is never left locked (`NoOrphanLock`);
- the relay: one ingest thread (`OneIngest`), reading and writing the real ends
  (`RealInput`, `RealOutput`), and processes that end (`AllEnd`);
- input chunking: every byte in its place (`InPlace`), full legs until the end and
  no waiting in charmode (`CutByMode`), and no standing still (`InputUsedUp`);
- framing: whole payloads in order (`PayloadsExact`), from end to end the input
  (`EndToEnd`), and all that came (`AllPutOut`);
- checksum and PRBS: no alarm without a cause (`AlarmExplained`, `PrbsAccepted`),
  and no silence where a full leg was changed in what is summed
  (`FullLegGuarded`);
- the command line: clauses mean the same in any order (`LastClauseWins`,
  `TargetsInOrder`), and ports survive their conversion (`PortsUsable`).

## Modules

    Pipe                            what the program is for
     ^ refined by
    Receiver  = Feed + Rx           the receiver behind an abstract transmitter
    Millipede = Tx + Rx             both processes in full
    Feed                            what a transmitter promises a receiver
     ^ refined by
    Transmitter = Tx + Peer         the transmitter before an abstract receiver
    Wire                            shared: packets, connections, ends of processes

    Startup = Targets + LetterLock  tx_start_net(), which Tx has as StartNet
    Framing = BufferFill + rxworker()   the bytes of one connection
    Relay, Checksum, Cli            one part each, in the detail that Tx and Rx abstract

- **Wire** — per connection the packets under way and how far the handshake has
  come; whether the transmitting process runs. Sizes are classes (0, `Foot` for
  1..kfootsize, `Huge` for more); `data` names the piece of input a payload
  carries; `cut` marks a payload that the end of the connection cuts short. When
  a process ends (`ProcessEnds`), any leg that was being written may be left on
  the wire with its header whole and its payload cut.
- **Tx** — the transmitter, one action per critical section, blocking call or
  unlocked store. `wpc[w]` is the place of a worker thread in `txworker_sm()`,
  `ipc` that of `txingest()`, `mpc` and `cursor` that of `main()`. The header
  stores of ingest (`SetSize`, `SetLeg`) and of a worker that comes up
  (`ResetSize`, `ResetLeg`) are steps of their own because no lock covers them.
  The letters `a`, `W`, `P` of a push are one letter, as every reader treats them
  alike. `NetFails` and `WritevFails` are the exits through `checkperror()` and
  assertions that come before any retry: `connect()` leaves `errno` set, so
  `tcp_connect()` exits at `plumbing.c:239` and the reconnect loop and the state
  `x` are never reached.
- **Rx** — the receiver. `rpc[w]` is the place of thread `w` in `rxworker()`.
  `Sequence` is one evaluation of the sequencer's condition; `Broadcast` is a step
  apart from `Advance`, as `rxmutex` is dropped in between. `CondInit` models the
  undefined effect of initialising a condition variable that has waiters: they
  either stay on it or are lost to later broadcasts (`deaf`). A closed connection
  in place of a header leaves the previous header (`HeaderEofStale`) or, if there
  was none, arbitrary memory (`HeaderEofStray`, `HeaderEofHuge`), whose opcode is
  assumed not to be one of the two genuine 64-bit values by accident.
- **Feed** — the transmitter seen from outside: legs numbered from 0, each leased
  to one answered connection and written there at most once, the last one
  carrying `end_of_millipede`; it may hang up at any time. Foreign connections
  (`Aliens`) bring another checkphrase.
- **Pipe** — pieces in, pieces out in that order, finished only when complete.
- **Targets** — `tx_tcp_connect_next()` with every load and store of
  `target_port_cursor` a step, and also the build that joins the two stores
  (`StoreOnce`). `apart` is history: the 10 ms between two launches have so far been
  enough for each earlier worker to make its choice. A target may refuse.
- **LetterLock** — the mutex around a state letter, which Tx treats as atomic. The
  unlock at `tx.c:276` by a thread that does not hold it either fails or releases
  the mutex.
- **Startup** — the two together. A worker's thread is at its own mutex before it
  chooses a target and once it is connected, never in between; the other threads
  are at that mutex at any time.
- **Relay** — processes that send, receive or both, from `rx()` and `tx()` in
  `main()` to its exit; `cpc[n][c]` is the place of caller `c` (`main` or a receiver
  thread) in `initiate_relay()`. How the processes were started is the variable
  `deployment`, which never changes, so that one run covers all command lines. No
  two processes send to the same one: a receiver has one stream to put in order.
  Streams are those of Tx and Rx, reduced to leg 0 and the end. A descriptor never
  set is `"zero"`, as statics are.
- **BufferFill** — `bufferfill()` read by read and the loop of `txingest()` around
  it; the leg limit is left to Tx. A byte is its position in the input.
- **Framing** — BufferFill's legs written to one connection as a stream of bytes,
  and `rxworker()` taking it apart in pieces; `legs` remembers where
  in the stream the header of each leg stands and what its payload is, `out` which
  piece of the stream was put out last, `next_leg` how many there were. A `read()`
  returns some of what was written and not yet read (`Got`), and 0 once the connection
  is closed, which may come before all that was written and is then so for good
  (`conn = "over"`). A phrase that comes in pieces fails its assertion
  (`rproc = "phrase"`). A header is the four fields preamble, `leg_id`, `size` and
  `opcode`; one that comes in part, or not at all, is used as the code uses it
  (`rx.c:61-75`): the fields that came are new, the others are those of the header
  before, and a field that came in part, or was never written, is `Junk`, any value,
  settled where the code looks at it. The thread goes on from there, takes the rest of the
  header for payload and what follows for a header, and may put out either, until a
  size, an opcode or a checksum ends it (`rproc`) or it waits for a leg whose turn has
  passed. `astray` is history: a field of such a header may have been nobody's. Rx
  picks up where a connection ends between legs.
- **Checksum** — the chain of sums and the pseudo random stream over a few
  connections, with the contents of the buffers at both ends. Bytes, words and
  sums are scaled down together: the sum holds as many bytes as `Sample`, the
  part of the first word that reaches it. The exclusive or is a constant, given by
  the instance. A byte under way may become any other (`Change`). `causes` is history: why the receiver's sums may differ from the
  sender's.
- **Cli** — the option loop as a table tried from the option after the last that
  matched, with every field of `txconf`, `rxconf` and `ioconf` that an option sets;
  `atoi()` and `strtoul()` are constants, as they read prefixes differently. The reference definition (`At`, `Unambiguous`) finds clauses by
  their names.
- **Transmitter**, **Receiver**, **Millipede** — the specifications and their
  properties. In Millipede each process takes any step it has at any time: the
  transmitter may fail (`TxFails`: a connection refused or reset, a write that fails)
  while the receiver runs, and takes its connections with it. **TransmitterInv**, **ReceiverInv** — the inductive invariants.
  **TransmitterProofs**, **ReceiverProofs**, **MillipedeProofs**,
  **StartupProofs**, **FramingProofs** (BufferFill too), **RelayProofs**,
  **ChecksumProofs**, **CliProofs** — the theorems. **MC...** — the instances for TLC.

Operators commented "Mutant" restate a definition with a plausible mistake; they
are used only to confirm that each property notices one.

## Runs

| run | instance | shows |
|---|---|---|
| `receiver` | 3 threads, 3 connections (1 foreign), 2 data legs | the inductive invariant `FlowInv`, which has types and `IndInv` in it, `NoLockup`, `SoleEmitter`, `NoLostWakeup`, `OutputOpen`, refinement of Pipe |
| `receiver_live` | 3 threads, 2 connections, 1 data leg, connections that bring nothing and late threads, fair | `Completes` |
| `transmitter` | 2 workers, leg limit 3, input for 4 legs | all transmitter safety properties, the inductive invariant, refinement of Feed |
| `transmitter_live` | 2 workers, 2 legs, input at any time, fair | `EndsOrStrands` |
| `millipede` | 2 workers, 2 threads, 2 data legs and the end leg, failures at any time | both processes together refine Pipe |
| `startup` | 3 workers, 2 targets, 2 more threads at the mutex | `Overshoot`, `RoundRobin`, `NoOrphanLock` |
| `relay` | 2 processes in all 36 deployments, fair | `OneIngest`, `RealInput`, `RealOutput`, `AllEnd` |
| `framing` | buffer of 3, reads of up to 2, input of 4, with and without charmode, headers of 4 fields cut anywhere, fair | the properties of BufferFill and Framing |
| `checksum` | 3 legs of 1, 3 or 4 bytes, 2 connections, any options, 1 byte changed | `AlarmExplained`, `PrbsAccepted`, `FullLegGuarded` |
| `cli` | all lines of up to 5 of 13 words, and of up to 9 words of `tx` clauses | `LastClauseWins`, `PortsUsable`, `TargetsInOrder` |
| `transmitter_startup` | 2 workers, input before they are up | **violated**: `StreamIntact` |
| `transmitter_exit` | 2 workers, 2 legs | **violated**: all legs pushed at `exit(0)` (`tx.c:411`) |

Bounds. Two connections with two legs and an end leg let legs overtake each
other, one connection carry two legs, and a worker be used again; one receiver
thread waits while another emits, and the third starts late, overwrites `seq_cv`, or
is on a foreign connection or one that brings it nothing. Two threads waiting while
a third emits would take three connections with legs; that a wake-up can then not go to the wrong
one is the theorem `WakeupKept`. In `millipede` two data legs and an end leg on two connections are
enough for legs to arrive in either order, and for the transmitter to fail with one out,
one under way and one in a buffer. A limit of 3
with input for 4 makes the limit bite after each worker has been used, and the
end of input come before it on other paths. `StrayLegs` are the leg numbers
uninitialised memory may show: 1 in `receiver` (to come, next and past), 0
elsewhere (the one that calls `initiate_relay()`). Receiver threads are
interchangeable and so are the transmitter's connections, in Receiver and in
Checksum (symmetry, in safety runs only). Three workers on two targets let one
store over another's reduction while a third loads. A buffer of 3 with reads of
2 needs two reads, of which the second is asked for less; 4 bytes are a full
leg and a short one, or up to four legs in charmode, with the end leg behind them. The
four bytes of the phrase count as two and the header as its four fields, so that
either can be split and a header be cut between any two fields or within one. A cut header's
rest is then at most the payload that the buffer holds, so that the thread can lose the
framing, find it again at another header, or be stopped by any of its checks. Legs of 1, 3 and 4 bytes are shorter than the sample, unaligned, and
full; with two connections and three legs a buffer is used again after a longer
leg, and a sum of two bits meets 0 and overflows often. Five words hold two
clauses with two arguments and one, in either order; 40000 is negative as a short,
70000 is too large for a port, `0x9` is a number to `strtoul()` only. Deadlock is not checked:
processes stop when they have ended, and a receiver whose transmitter is gone
waits for ever in `accept()` by design; what must not stop is stated as a
property (`NoLockup`, and the liveness properties).

Fairness. Weak fairness of every thread is what a preemptive scheduler gives,
since all waits in the code are polls with `usleep()`, blocking system calls or
condition waits; mutexes are held for single steps. `FeedFairness` asks the
transmitter to connect, to end its stream and to write what it has leased, and
nothing of the legs before the end. For the transmitter, the source sends or
ends and the far end answers. In Relay, clients come and sources deliver and
end. In Framing the transmitter and the receiver thread go on when they can, which
includes that what was written arrives at last unless the connection is closed
(`conn`): `Close` is never required, and may cut off what is under way. Failures
and spurious wake-ups are never required.

### What the two violated properties show

1. A worker publishes `i` at `tx.c:287` before it resets its header at 288-289;
   input that is already there may be dispatched in between and is sent with the
   size or number of the reset. With input that comes later (`LateInput`),
   everything holds.
2. `input_eof` is set at `tx.c:128` before the last worker leaves `i` at 133, and
   `tx_poll()` looks at workers one by one: `exit(0)` may come before the last leg
   is written. The receiver then never finishes, but never claims completion
   either (`millipede`).

### Exceptions the other properties make

Some properties hold only up to an exception, which is a behaviour of the code
that the model has and the property names.

- `EndsOrStrands`: in the window of (2) the worker meant for the last leg may see
  `done`, leave, and strand it; `tx_poll()` then spins for ever.
- `NoLockup`, `Completes`: a transmitter that hangs up with legs still to write
  (`HungUpEarly`) leaves the receiver waiting for them; see (2).
- `NoLostWakeup`, `NoLockup`: every receiver thread initialises the shared `seq_cv`; one
  that starts late may cut a waiting one off from it (`deaf`), and not all "sleepers awaken"
  (`rx.c:206`). `Completes` allows the stream to stand still for this reason only if the
  leg that everyone waits for stays with such a thread for ever (`Stranded`).
- `Completes`: a phrase that comes in pieces or is not ours, an answer, a read or an output
  that fails ends the process (`CutOff`). And a connection that has brought its thread no
  leg may end it: the thread goes on with a header that was never written, whose size
  (`rx.c:72`) or opcode (`rx.c:199`) fails a check before everything that was pushed on the
  other connections is out (`EndedByStray`). Nothing else ends a receiver.
- `PayloadsExact`, `EndToEnd`, `AllPutOut`: a header that comes in pieces, or the end of a
  connection in place of its first one, leaves the thread with fields that are nobody's
  (`astray`). From then on headers and other bytes may come out as payload; what comes
  out is still in the order of the stream, no byte twice, and that is all. A phrase in
  pieces ends the process before anything is put out.
- `Overshoot` rather than exact indices: the target cursor is shared without a
  lock, so the assertion at `tx.c:192` can fail and two workers can take one link.
  `RoundRobin` needs the launches to be `apart`. A target that refuses ends the
  process (`tcp_connect()` exits at `plumbing.c:239`); it is not bypassed.
- `NoOrphanLock` does not say that one thread at a time is at the letter: the
  unlock at `tx.c:276` may let a second one in. The accesses are single bytes.
- `OneIngest`, `RealInput`, `RealOutput` exclude `Contested` processes: where `main()`
  and the bearer of leg 0 both set a process up, they race for the one-shot flag.
  The outcome can be two ingest threads, leg 0 written to descriptor 0, or input
  read for a terminator whose client has not come. A tunnel between a terminator
  and an initiator has no contested process. `OneIngest` and `RealOutput` also
  exclude a process whose sender has two ingest threads, and which therefore gets
  two leg 0's (`TwiceFed`): only a contested sender does that to it.
- `AlarmExplained`: the chain raises alarms on unchanged streams when a sum is 0
  (taken for "no checksum"), when a leg is shorter than the word that is summed,
  and together with `prbs`. `FullLegGuarded` is about the first word of a leg
  because `mix()` adds that word again and again; the rest of a leg may change
  unnoticed.
- `LastClauseWins`, `TargetsInOrder` hold for lines in which no argument is spelt
  like an option; such an argument is read as that option (a `checkphrase` of
  `charmode` also turns charmode on). The port of `initiate` is not checked and
  kept modulo 65536. `threads 0` is accepted. `README.md:135` calls
  the option `checksums` by the name `checksum`, a word the program ignores.

## Proofs

All theorems hold for any number of connections, threads, workers and legs.
Assumptions are those of the modules: `Conn` is not empty (`ConnAssumption`),
`Conn = 0..worker_count-1` for the transmitter (`TxAssumption`), `StrayLegs` are
natural numbers (`RxAssumption`), `MaxLegs` is a natural number
(`FeedAssumption`); for the others, that sizes and counts are natural numbers, and
positive where the code divides by them (`BufferFillAssumption`,
`TargetsAssumption`, `ChecksumAssumption`), that the letter's owner is a worker and
none of its readers (`StartupAssumption`, `LetterLockAssumption`), that no two
processes send to the same one (`RelayAssumption`), and that words are strings and
numbers integers (`CliAssumption`). Checksum has one more, `FullRoundsAssumption`: the
number of rounds for a full buffer has an inverse modulo `Radix`.

*Receiver* (`ReceiverProofs`). `WakeupKept` is inductive almost as it stands: a
thread starts to wait only on a leg that is not next, and `next_leg` moves only
with a thread left at `notify`. The others need `IndInv`. That two threads do
not emit together follows from their legs having the same number, once it is
known that no two *places* hold the same leg, and the places are many: the
lease of a connection, every position on its wire, and the header of a thread
that has read but not written it. `IndInv` therefore says that every packet is
sound (its number below `fed`, its data its own number, the end leg last;
`AllSound`), that the places are pairwise distinct (`OnePlace`, one conjunct for
each pair of kinds), where a thread may hold which kind of header (`Located`),
that `Len(out)` is `next_leg` plus the one leg written and not yet counted
(`Counted`), and that leg 0 has passed the relay before `next_leg` moves
(`RelayFirst`). `EmittersExclude`, `OutputIsOpen` and the refinement of Pipe
follow.

That the threads cannot lock up (`NeverLocksUp`) needs more, as `IndInv` lets legs
vanish and threads leave. `FlowInv` adds that every leg from `next_leg` on is in
some place, unless the transmitter hung up early (`NoneLost`); that no place holds
a leg already counted (`NoneLate`); that on each connection the leg with its
thread precedes those on the wire, which ascend and precede the one leased
(`Ascending`); that a connection has one thread, and carries legs only when it is
answered (`OneThread`); that a thread leaves a connection only when nothing comes
on it any more, or the stream is at its end (`Loyal`); and when `done_mbox` is set
(`Finishing`). Then the wanted leg, if it was written, is with a thread or on the
wire of one. Were that thread waiting with a leg of its own, this leg would
precede the wanted one on their connection, and be one that was already counted,
which it cannot be. So it waits, if it does, with the wanted leg itself, and
`WakeupKept` has someone on the way to wake it.

*Transmitter* (`TransmitterProofs`). `BufferHasOneUser` rests on `LeaseInv`: which
letters can be seen at which place of a worker, and that only ingest takes a
worker out of `i`, so the one it has chosen stays idle. It holds whenever the
input comes. `LimitIsHeld` rests on `LimitInv`: the counter meets the limit
exactly. `StreamIsIntact`, `WireAscends` and the refinement of Feed assume
`LateInput` and rest on `StreamInv`: once there is input every worker is past its
reset (`AllUp`), the header under construction is right as far as it goes
(`Filled`), every leg leased or on a wire is honest (`AllHonest`), a worker's leg
comes after all it has written (`Ahead`), and connections are as far as their
workers (`Connected`). Without `LateInput` they are false, as `transmitter_startup`
shows.

*The whole transfer* (`MillipedeProofs`). The two processes share their wires, and
nothing is proved twice. A step of a transmitter thread is a step of Transmitter;
a step of a receiver thread, as the transmitter sees it, accepts a connection,
answers it, takes the first packet of a wire, or is not seen at all, and each of
these leaves `LeaseInv` and `StreamInv` as they are. With the types of both sides
(`TypeCorrect`) and with `BufferHasOneUser` that needs no assumption on the input.
Under `LateInput` every step is then a step of Feed or of Rx, so Millipede implements
Receiver's specification (`BehindFeed`), and what was proved of Receiver carries
over: Millipede implements Pipe (`Refinement`) and cannot lock up
(`NeverLocksUp`). There, a leg still to be written is one in the buffer of a
transmitter worker that is to push it, and the one way for it to stay there is
the stranded last leg of `EndsOrStrands`.

*Start-up* (`StartupProofs`). `Overshoot` needs `Held`: a worker between its load
and its store holds a value below `target_port_count` plus the number of workers
that have already stored (`Stepped`). That number only grows, and the worker
itself is not among them yet, so its own store is covered by the one it adds.
`RoundRobin` needs `InTurn`: as long as launches were `apart`, the worker that is
choosing is the last one launched, all before it have chosen, and cursor and
register are those of its turn, `w % target_port_count`, at every place between
its load and its last store; when it is through, the cursor stands at the turn of
the next. `NoOrphanLock` is inductive with the types: a stray unlock can only free
the mutex, and only a thread inside can hold it.

*The bytes of a connection* (`FramingProofs`). About `FillSpec`, with and without
charmode: the properties of `bufferfill()` are inductive together with what ties
the counters to each other (`Room`) and to the end of the input (`Ending`):
`remainder` is what the buffer has room for, so a read never reaches past it, and
an empty leg is seen only at the end. That the end is announced only after the
last byte (`EndsAtEof`) is proved as well. About the stream, for every way TCP may
cut it, headers included: the legs lie one behind the other, each with the bytes of
the input that its place in the stream makes its own, and they fill what was written
(`LegInv`); what is in the receiver's buffer lies behind what was put out, and is not
more than was read (`BufferInv`), whatever the header said. That much is all there is
once a header has come in pieces. As long as none has, a receiver thread that has put out
`k` legs stands, depending on where it is in its loop, at the end of the `k`-th, at the
payload of the next or as far inside it as `rx_remainder` says, with that leg's header
(`RecvInv`, `Fresh`), or, when the connection is over, reads a payload for the leg before it,
of which nothing comes any more (`Stale`). That the header found there is that of leg
`k + 1` (`NextHeader`) is where the order of the legs comes in: no other starts at that
place. `PayloadsExact` follows, and `EndToEnd`, an action property, from it and the two
states of the step `Emit`.

*Relay set-up* (`RelayProofs`), for any number of processes. The invariant says of
each process who can be inside `initiate_relay()` (`CallInv`, `BearerInv`): where
`main()` sets a process up, a bearer of leg 0 finds the flag set, because the peer
whose leg it bears could not start before (`SoleInv`); where it is left to leg 0,
there is one bearer at most, as one leg 0 was sent. What descriptors hold by then
(`FdInv`) and what was read and written (`UseInv`) follow from the place of the
caller that set them. `Contested` and `TwiceFed` processes are where this argument,
and with it the property, fails.

*Checksums and PRBS* (`ChecksumProofs`), for every width of byte, word and sum, every
number and size of legs, and whatever the exclusive or is. The loop of `mix()` is
followed by induction over its rounds: that the order of the natural numbers is
well-founded, a fact of the library, gives every set of them a least element, and
from that induction (`SetInduction`) and the existence of the recursive functions
that `Power`, `Number` and `Accumulated` are (`Recursion`). So every sum is in range
(`TypeCorrect`), different samples are different words (`PartialInjective`), and the
sums of words that differ by `d` differ by `d` times the round, in the width of the
sum (`SumsDiffer`). After the rounds of a full leg, a number that has an inverse,
that difference is not lost (`FullLegTells`): this is what `FullRoundsAssumption` is
for, and the code meets it, as `kfootsize` is an even number of words, the one round
more makes the rounds odd, and bytes have a power of two of values. `CheckInv` says of
the stream: while nothing but a change has happened, every leg under way continues
the chain from the sum of the leg before it, and the first from the sum that the
receiver has come to (`ChainInv`); that sum is the sum of some buffer, which the
sample of the payload agrees with or, where a change has spoilt it, does not
(`Summed`). `AlarmsAreExplained` needs of `mix()` only that it is a function of the
sampled bytes, which arrive when a leg is not shorter than they are (`SameSum`);
`SpoiltLegsStop` needs `FullLegTells`.

*Command line* (`CliProofs`), for every line. The invariant reads the line up to
`Done`, which counts the word the cursor is on once an option was taken from it:
every option is what the last of its clauses in that part says (`ValueInv`), and
the targets are those of the `tx` clauses in it, counted (`TargetInv`). No two
options have the same name, so one at most matches a word (`OneMatch`), and on an
unambiguous line none matches an option's last argument again. `PortsAreUsable`
needs no such line.

Only model-checked: liveness (`Completes`, `EndsOrStrands`, `AllEnd`,
`InputUsedUp`, `AllPutOut`), which is out of TLAPS's reach; of `Completes`, what can
be said without fairness is proved as `NoLockup`. Every invariant and every
action property that a passing run checks is a theorem as well.

## Not modelled

Left out for good: reporting (`txstatus()`, `rxinfo()`, the stopwatch and the rates
computed from it, `tcp_dump...()`), the signal handlers, which step `gverbose` or
report, socket options and DTrace probes, none of which has an effect on control;
and `chaos`, which the default build does not contain and whose `chaos_fail()`
nothing calls. (`stopwatch_stop()` carries the billion it borrowed into the
seconds and does not take it off the nanoseconds, so a reported time is one
second too long unless the nanoseconds had to borrow.) The
contents of a stray field are any value and not what the bytes of a payload or of the
stack would make of it, and Framing, where headers are cut, has one connection: with more
of them a thread that is astray would compete with honest ones for the turn of a
leg. A restarted transmitter that connects to a receiver
in mid-stream is outside the promise of Feed: `next_leg` is never reset. More than
`kthreadmax` targets on the command line are undefined behaviour, and Cli stops
there.
