------------------------------- MODULE Startup -------------------------------
(***************************************************************************)
(* tx_start_net() of all transmit workers (tx.c): Targets is how each gets *)
(* its connection, LetterLock the mutex of one of them, "worker", that it  *)
(* unlocks at the end.  A worker's thread is in one place at a time: it is *)
(* at its mutex to publish 'c' before it chooses a target, and again once  *)
(* it is connected, never in between.  The other threads are at the mutex  *)
(* at any time.                                                            *)
(***************************************************************************)
EXTENDS Targets, LetterLock

ASSUME StartupAssumption == worker \in Workers

vars == <<targetVars, lockVars>>

TypeOK == TargetsTypeOK /\ LockTypeOK

Init == TargetsInit /\ LockInit

\* tx_tcp_connect_next()
ConnectStep(w) ==
    /\ w = worker => lpc[worker] = "out"
    /\ ConnectNext(w) /\ UNCHANGED lockVars

\* tx_state(), tx_state_set()
LetterStep(t) ==
    /\ proc = "run"
    /\ t = worker => tpc[worker] \in {"load", "up"}
    /\ Call(t) \/ Lock(t) \/ Unlock(t)
    /\ UNCHANGED targetVars

\* The unlock at the end of tx_start_net().
OnlineStep ==
    /\ proc = "run" /\ tpc[worker] = "up"
    /\ StrayUnlock /\ UNCHANGED targetVars

Next ==
    \/ \E w \in Workers : ConnectStep(w)
    \/ \E t \in Threads : LetterStep(t)
    \/ OnlineStep

Spec == Init /\ [][Next]_vars
=============================================================================
