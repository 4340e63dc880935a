----------------------------- MODULE LetterLock -----------------------------
(***************************************************************************)
(* The mutex of one transmit worker (tx.c).  tx_state() and tx_state_set() *)
(* hold it around one access to the worker's state letter; the ingest      *)
(* thread, main() and the worker itself call them.  tx_start_net() ends    *)
(* with an unlock of the same mutex that it has not locked, the lock being *)
(* in a retry loop that is never entered.  Unlocking a mutex one does not  *)
(* hold is undefined: it may fail and change nothing, or release the mutex *)
(* under the thread that holds it.                                         *)
(***************************************************************************)
EXTENDS Naturals, FiniteSets

CONSTANTS
    Readers,    \* threads that sample the letter: ingest, main, reports
    worker      \* the thread whose letter it is

ASSUME LetterLockAssumption == worker \notin Readers

Threads == Readers \cup {worker}

VARIABLES
    locked,     \* the mutex is held
    lpc,        \* lpc[t]: where thread t stands
    net         \* the worker has been through tx_start_net()

lockVars == <<locked, lpc, net>>

\* "out": elsewhere; "lock": waiting for the mutex; "in": between lock and unlock.
LockPc == {"out", "lock", "in"}

\* Every variable has its type.
LockTypeOK ==
    /\ locked \in BOOLEAN
    /\ lpc \in [Threads -> LockPc]
    /\ net \in BOOLEAN

LockInit ==
    /\ locked = FALSE
    /\ lpc = [t \in Threads |-> "out"]
    /\ net = FALSE

Inside == {t \in Threads : lpc[t] = "in"}

Call(t) ==
    /\ lpc[t] = "out"
    /\ lpc' = [lpc EXCEPT ![t] = "lock"]
    /\ UNCHANGED <<locked, net>>

Lock(t) ==
    /\ lpc[t] = "lock" /\ ~locked
    /\ locked' = TRUE
    /\ lpc' = [lpc EXCEPT ![t] = "in"]
    /\ UNCHANGED net

\* Mutant: an early return leaves the mutex locked.
UnlockForgotten(t) ==
    /\ lpc[t] = "in"
    /\ lpc' = [lpc EXCEPT ![t] = "out"]
    /\ UNCHANGED <<locked, net>>

Unlock(t) ==
    /\ lpc[t] = "in"
    /\ locked' = FALSE
    /\ lpc' = [lpc EXCEPT ![t] = "out"]
    /\ UNCHANGED net

\* The last statement of tx_start_net() but one.
StrayUnlock ==
    /\ ~net /\ lpc[worker] = "out"
    /\ net' = TRUE
    /\ locked' \in {locked, FALSE}
    /\ UNCHANGED lpc

LockNext == StrayUnlock \/ \E t \in Threads : Call(t) \/ Lock(t) \/ Unlock(t)

LockSpec == LockInit /\ [][LockNext]_lockVars

-----------------------------------------------------------------------------
(***************************************************************************)
(* The stray unlock takes exclusion away but never the lock itself: a      *)
(* mutex nobody is inside of is free, so that no caller of tx_state()      *)
(* stalls with txconf.mutex held (tx.c:32-44).                             *)
(***************************************************************************)
NoOrphanLock == Inside = {} => ~locked
=============================================================================
