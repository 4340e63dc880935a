------------------------------- MODULE Targets -------------------------------
(***************************************************************************)
(* How a transmit worker picks the host and port it connects to            *)
(* (tx_tcp_connect_next() in tx.c).  All workers share target_port_cursor  *)
(* and step it without a lock:                                             *)
(*                                                                         *)
(*     chosen_target = target_port_cursor++;                               *)
(*     target_port_cursor %= target_port_count;                            *)
(*     assert(target_port_cursor < target_port_count);                     *)
(*                                                                         *)
(* Every load and every store is a step.  An optimising compiler may also  *)
(* join the two stores into one; StoreOnce is that build.                  *)
(***************************************************************************)
EXTENDS Naturals, FiniteSets

CONSTANTS
    worker_count,        \* "threads" on the command line
    target_port_count    \* number of "tx" clauses on the command line

Workers == 0..(worker_count - 1)
Targets == 0..(target_port_count - 1)

ASSUME TargetsAssumption ==
    worker_count \in Nat \ {0} /\ target_port_count \in Nat \ {0}

VARIABLES
    target_port_cursor,
    tpc,        \* tpc[w]: where worker w stands in tx_tcp_connect_next()
    chosen,     \* chosen[w]: chosen_target of w
    reg,        \* reg[w]: the cursor as w loaded it for %=
    proc,       \* the process: running, or how it ended
    apart       \* history: the 10 ms between two launches have always been enough
                \* for the earlier workers to make their choice

targetVars == <<target_port_cursor, tpc, chosen, reg, proc, apart>>

Pc == {"none", "load", "store", "mod", "wrap", "check", "connect", "up"}
End == {"assert", "nohost", "checkperror"}

\* Every variable has its type; a cursor is never negative.
TargetsTypeOK ==
    /\ target_port_cursor \in Nat
    /\ tpc \in [Workers -> Pc]
    /\ chosen \in [Workers -> Nat]
    /\ reg \in [Workers -> Nat]
    /\ proc \in {"run"} \cup End
    /\ apart \in BOOLEAN

TargetsInit ==
    /\ target_port_cursor = 0
    /\ tpc = [w \in Workers |-> "none"]
    /\ chosen = [w \in Workers |-> 0]
    /\ reg = [w \in Workers |-> 0]
    /\ proc = "run"
    /\ apart = TRUE

At(w, l) == proc = "run" /\ tpc[w] = l
Goto(w, l) == tpc' = [tpc EXCEPT ![w] = l]

\* txlaunchworkers() creates the threads in order, 10 ms apart.
Launch(w) ==
    /\ At(w, "none")
    /\ \A v \in 0..(w - 1) : tpc[v] # "none"
    /\ Goto(w, "load")
    /\ apart' = (apart /\ \A v \in 0..(w - 1) : tpc[v] \in {"connect", "up"})
    /\ UNCHANGED <<target_port_cursor, chosen, reg, proc>>

\* Mutant: the cursor is stepped down.
LoadBefore(w) ==
    /\ At(w, "load")
    /\ chosen' = [chosen EXCEPT ![w] = target_port_cursor - 1]
    /\ Goto(w, "store")
    /\ UNCHANGED <<target_port_cursor, reg, proc, apart>>

Load(w) ==
    /\ At(w, "load")
    /\ chosen' = [chosen EXCEPT ![w] = target_port_cursor]
    /\ Goto(w, "store")
    /\ UNCHANGED <<target_port_cursor, reg, proc, apart>>

\* Mutant: the cursor is stepped by two.
StoreNextSkips(w) ==
    /\ At(w, "store")
    /\ target_port_cursor' = chosen[w] + 2
    /\ Goto(w, "mod")
    /\ UNCHANGED <<chosen, reg, proc, apart>>

StoreNext(w) ==
    /\ At(w, "store")
    /\ target_port_cursor' = chosen[w] + 1
    /\ Goto(w, "mod")
    /\ UNCHANGED <<chosen, reg, proc, apart>>

StoreOnce(w) ==
    /\ At(w, "store")
    /\ target_port_cursor' = (chosen[w] + 1) % target_port_count
    /\ Goto(w, "connect")
    /\ UNCHANGED <<chosen, reg, proc, apart>>

LoadMod(w) ==
    /\ At(w, "mod")
    /\ reg' = [reg EXCEPT ![w] = target_port_cursor]
    /\ Goto(w, "wrap")
    /\ UNCHANGED <<target_port_cursor, chosen, proc, apart>>

StoreMod(w) ==
    /\ At(w, "wrap")
    /\ target_port_cursor' = reg[w] % target_port_count
    /\ Goto(w, "check")
    /\ UNCHANGED <<chosen, reg, proc, apart>>

\* The assertion loads the cursor once more.
Check(w) ==
    /\ At(w, "check")
    /\ IF target_port_cursor < target_port_count
       THEN Goto(w, "connect") /\ UNCHANGED proc
       ELSE proc' = "assert" /\ UNCHANGED tpc
    /\ UNCHANGED <<target_port_cursor, chosen, reg, apart>>

(***************************************************************************)
(* tcp_connect() to target_ports[chosen_target].  A slot that no "tx"      *)
(* clause has filled names no host.  When connect() fails, errno stays set *)
(* and the next checkperror() ends the process, so that tx_start_net()     *)
(* never sees the -1 its retry loop waits for.                             *)
(***************************************************************************)
TcpConnect(w) ==
    /\ At(w, "connect")
    /\ \/ chosen[w] \in Targets /\ Goto(w, "up") /\ UNCHANGED proc
       \/ chosen[w] \in Targets /\ proc' = "checkperror" /\ UNCHANGED tpc
       \/ chosen[w] \notin Targets /\ proc' = "nohost" /\ UNCHANGED tpc
    /\ UNCHANGED <<target_port_cursor, chosen, reg, apart>>

ConnectNext(w) ==
    \/ Launch(w) \/ Load(w) \/ StoreNext(w) \/ StoreOnce(w) \/ LoadMod(w) \/ StoreMod(w)
    \/ Check(w) \/ TcpConnect(w)

TargetsNext == \E w \in Workers : ConnectNext(w)

TargetsSpec == TargetsInit /\ [][TargetsNext]_targetVars

-----------------------------------------------------------------------------
\* Workers that have stepped the cursor past its range or may have done so.
Stepped == {w \in Workers : tpc[w] \notin {"none", "load", "store"}}

(***************************************************************************)
(* However the unlocked accesses interleave, an index overshoots the       *)
(* targets by less than the number of workers: with worker_count +         *)
(* target_port_count at most kthreadmax + 1 no access leaves the array     *)
(* target_ports (tx.c:190, tx.c:199).                                      *)
(***************************************************************************)
Overshoot ==
    /\ \A w \in Workers : chosen[w] <= target_port_count + worker_count - 2
    /\ target_port_cursor < target_port_count + Cardinality(Stepped)

(***************************************************************************)
(* As long as every launch has come after the earlier workers' choices,    *)
(* worker w has target w modulo the number of targets, so that as many     *)
(* "tx" clauses as threads put exactly one connection on each link         *)
(* (README.md, Options, tx).                                               *)
(***************************************************************************)
RoundRobin ==
    apart => \A w \in Workers :
        tpc[w] \in {"store", "connect", "up"} => chosen[w] = w % target_port_count
=============================================================================
