-------------------------------- MODULE Feed --------------------------------
(***************************************************************************)
(* What the transmitter promises a receiver, as a specification: input is  *)
(* cut into legs numbered 0, 1, 2, ...; every leg is leased to exactly one *)
(* connection and written there at most once, in any order across          *)
(* connections; the leg numbered last carries end_of_millipede and no      *)
(* payload; and the transmitter may end at any moment, which closes every  *)
(* connection.  Module Tx is checked to implement it, module Receiver puts *)
(* the receiver of Rx behind it.                                           *)
(***************************************************************************)
EXTENDS Wire

CONSTANTS
    MaxLegs,  \* bound on the number of data legs
    Aliens    \* connections opened by someone with another checkphrase

ASSUME FeedAssumption == MaxLegs \in Nat /\ Aliens \subseteq Conn

VARIABLES
    lease,    \* lease[c]: the packet c is about to write, or Blank
    fed,      \* number of legs given out so far
    ended     \* the end_of_millipede leg has been given out

feedVars == <<lease, fed, ended>>

FeedTypeOK ==
    /\ lease \in [Conn -> Packet]
    /\ fed \in Nat
    /\ ended \in BOOLEAN

FeedInit ==
    /\ lease = [c \in Conn |-> Blank]
    /\ fed = 0
    /\ ended = FALSE

\* The number of legs that carry payload.
DataLegs == IF ended THEN fed - 1 ELSE fed

Connect(c) ==
    /\ txproc = "run"
    /\ conn[c] = "none"
    /\ conn' = [conn EXCEPT ![c] = IF c \in Aliens THEN "alien" ELSE "syn"]
    /\ UNCHANGED <<wire, txproc, feedVars>>

LeaseTo(c, p) ==
    /\ txproc = "run"
    /\ conn[c] = "open"
    /\ lease[c] = Blank
    /\ ~ended
    /\ lease' = [lease EXCEPT ![c] = p]
    /\ fed' = fed + 1
    /\ UNCHANGED wireVars

LeaseData(c) ==
    /\ fed < MaxLegs
    /\ LeaseTo(c, FeedMore(fed))
    /\ UNCHANGED ended

LeaseEnd(c) ==
    /\ LeaseTo(c, EndOfMillipede(fed))
    /\ ended' = TRUE

Push(c) ==
    /\ txproc = "run"
    /\ lease[c] # Blank
    /\ Writev(c, lease[c])
    /\ lease' = [lease EXCEPT ![c] = Blank]
    /\ UNCHANGED <<conn, txproc, fed, ended>>

Hangup ==
    /\ txproc = "run"
    /\ \E s \in TxEnd : ProcessEnds(s, {c \in Conn : lease[c] # Blank}, lease)
    /\ UNCHANGED feedVars

FeedNext ==
    \/ \E c \in Conn : Connect(c) \/ LeaseData(c) \/ LeaseEnd(c) \/ Push(c)
    \/ Hangup

\* The promise taken alone: the other side does no more than accept and answer.
FeedStep ==
    \/ FeedNext
    \/ \E c \in Conn : (Taken(c) \/ Answer(c)) /\ UNCHANGED feedVars

FeedSpec == WireInit /\ FeedInit /\ [][FeedStep]_<<wireVars, feedVars>>
=============================================================================
