------------------------------ MODULE MCRelay ------------------------------
(* A small instance of Relay for TLC. *)
EXTENDS Relay

CONSTANTS here, there, t1, t2

TwoNodes == {here, there}
TwoBearers == {t1, t2}

\* Every way to start two processes that send to each other, to themselves, or
\* one to the other, each with any kind of input and output.
Partners == {p \in UNION {[S -> Node] : S \in SUBSET Node} :
                IsInjective(p) /\ DOMAIN p \cup Range(p) = Node}
AllDeployments == [peer : Partners, io : [Node -> {"pipe", "terminate", "initiate"}]]
=============================================================================
