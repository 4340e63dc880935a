--------------------------- MODULE StartupProofs ---------------------------
(***************************************************************************)
(* Proofs about the start of the transmit workers: the bound on            *)
(* target_port_cursor and on the indices chosen with it, for any number of *)
(* workers and targets and every interleaving of the unlocked accesses;    *)
(* the order the targets are handed out in when launches are far enough    *)
(* apart; and that the stray unlock of tx_start_net() never leaves a       *)
(* worker's mutex locked, for any number of threads.                       *)
(***************************************************************************)
EXTENDS Startup, FiniteSetTheorems, TLAPS

-----------------------------------------------------------------------------
(* The cursor *)

\* A worker about to store the cursor holds a value that was in bounds when it
\* was loaded; the bound only grows, because Stepped does.
Held == \A w \in Workers : tpc[w] = "store" => chosen[w] < target_port_count + Cardinality(Stepped)

TargetsInv == TargetsTypeOK /\ Overshoot /\ Held

LEMMA WorkersFinite ==
    /\ IsFiniteSet(Workers) /\ Cardinality(Workers) = worker_count
    /\ \A S \in SUBSET Workers : IsFiniteSet(S) /\ Cardinality(S) \in Nat
<1>1. worker_count - 1 \in Int /\ 0 \in Int /\ worker_count \in Nat \ {0}
    BY TargetsAssumption
<1>2. IsFiniteSet(Workers) /\ Cardinality(Workers) = worker_count
    BY <1>1, FS_Interval DEF Workers
<1> QED BY <1>2, FS_Subset, FS_CardinalityType

LEMMA TargetsInitially == TargetsInit => TargetsInv
<1> SUFFICES ASSUME TargetsInit PROVE TargetsInv
    OBVIOUS
<1>1. Stepped \in SUBSET Workers BY DEF Stepped
<1>2. Cardinality(Stepped) \in Nat BY <1>1, WorkersFinite
<1> QED BY <1>2, TargetsAssumption DEF TargetsInit, TargetsInv, TargetsTypeOK, Pc, Overshoot, Held

(***************************************************************************)
(* A step that leaves cursor and choices alone, or puts the cursor back in *)
(* range, and does not bring a worker to "store", keeps the bounds.        *)
(***************************************************************************)
LEMMA QuietStep ==
    ASSUME TargetsInv, TargetsTypeOK', Stepped \subseteq Stepped',
           target_port_cursor' = target_port_cursor \/ target_port_cursor' < target_port_count,
           chosen' = chosen,
           \A w \in Workers : tpc'[w] = "store" => tpc[w] = "store"
    PROVE  TargetsInv'
<1>1. Stepped \in SUBSET Workers /\ Stepped' \in SUBSET Workers BY DEF Stepped
<1>2. /\ Cardinality(Stepped) \in Nat /\ Cardinality(Stepped') \in Nat
      /\ Cardinality(Stepped) <= Cardinality(Stepped')
    BY <1>1, WorkersFinite, FS_Subset
<1>3. Overshoot'
    BY <1>2, TargetsAssumption DEF TargetsInv, TargetsTypeOK, Overshoot
<1>4. Held'
    BY <1>2, TargetsAssumption DEF TargetsInv, TargetsTypeOK, Held
<1> QED BY <1>3, <1>4 DEF TargetsInv

LEMMA LoadKeeps ==
    ASSUME TargetsInv, NEW w \in Workers, Load(w)
    PROVE  TargetsInv'
<1>1. TargetsTypeOK'
    BY DEF TargetsInv, TargetsTypeOK, Load, Goto, Pc
<1>2. Stepped' = Stepped /\ w \notin Stepped
    BY DEF TargetsInv, TargetsTypeOK, Load, At, Goto, Stepped
<1>3. Stepped \in SUBSET (Workers \ {w}) BY <1>2 DEF Stepped
<1>4. /\ IsFiniteSet(Workers \ {w}) /\ Cardinality(Workers \ {w}) = worker_count - 1
    BY WorkersFinite, FS_RemoveElement
<1>5. Cardinality(Stepped) \in Nat /\ Cardinality(Stepped) <= worker_count - 1
    BY <1>3, <1>4, FS_Subset, WorkersFinite
<1>6. /\ target_port_cursor' = target_port_cursor
      /\ \A v \in Workers : chosen'[v] = IF v = w THEN target_port_cursor ELSE chosen[v]
      /\ \A v \in Workers : v # w => tpc'[v] = tpc[v]
    BY DEF TargetsInv, TargetsTypeOK, Load, Goto
<1>7. Overshoot'
    BY <1>2, <1>5, <1>6, TargetsAssumption DEF TargetsInv, TargetsTypeOK, Overshoot
<1>8. Held'
    BY <1>2, <1>6 DEF TargetsInv, Overshoot, Held
<1> QED BY <1>1, <1>7, <1>8 DEF TargetsInv

LEMMA StoreNextKeeps ==
    ASSUME TargetsInv, NEW w \in Workers, StoreNext(w)
    PROVE  TargetsInv'
<1>1. TargetsTypeOK'
    BY DEF TargetsInv, TargetsTypeOK, StoreNext, Goto, Pc
<1>2. Stepped' = Stepped \cup {w} /\ w \notin Stepped
    BY DEF TargetsInv, TargetsTypeOK, StoreNext, At, Goto, Stepped
<1>3. Stepped \in SUBSET Workers BY DEF Stepped
<1>4. Cardinality(Stepped) \in Nat /\ Cardinality(Stepped') = Cardinality(Stepped) + 1
    BY <1>2, <1>3, WorkersFinite, FS_AddElement
<1>5. /\ target_port_cursor' = chosen[w] + 1 /\ chosen' = chosen
      /\ chosen[w] < target_port_count + Cardinality(Stepped)
      /\ \A v \in Workers : tpc'[v] = "store" => tpc[v] = "store"
    BY DEF TargetsInv, TargetsTypeOK, StoreNext, At, Goto, Held
<1>6. Overshoot'
    BY <1>4, <1>5, TargetsAssumption DEF TargetsInv, TargetsTypeOK, Overshoot
<1>7. Held'
    BY <1>4, <1>5, TargetsAssumption DEF TargetsInv, TargetsTypeOK, Held
<1> QED BY <1>1, <1>6, <1>7 DEF TargetsInv

LEMMA ModInRange ==
    \A n \in Nat : n % target_port_count \in Nat /\ n % target_port_count < target_port_count
BY TargetsAssumption

LEMMA TargetsKeep == TargetsInv /\ [TargetsNext]_targetVars => TargetsInv'
<1> SUFFICES ASSUME TargetsInv, [TargetsNext]_targetVars PROVE TargetsInv'
    OBVIOUS
<1> USE DEF Goto, At, Stepped, Pc
<1>1. ASSUME NEW w \in Workers, Launch(w) PROVE TargetsInv'
  <2>1. TargetsTypeOK' BY <1>1 DEF TargetsInv, TargetsTypeOK, Launch
  <2>2. /\ Stepped \subseteq Stepped' /\ target_port_cursor' = target_port_cursor /\ chosen' = chosen
        /\ \A v \in Workers : tpc'[v] = "store" => tpc[v] = "store"
      BY <1>1 DEF TargetsInv, TargetsTypeOK, Launch
  <2> QED BY <2>1, <2>2, QuietStep
<1>2. ASSUME NEW w \in Workers, Load(w) PROVE TargetsInv'
    BY <1>2, LoadKeeps
<1>3. ASSUME NEW w \in Workers, StoreNext(w) PROVE TargetsInv'
    BY <1>3, StoreNextKeeps
<1>4. ASSUME NEW w \in Workers, StoreOnce(w) PROVE TargetsInv'
  <2>1. chosen[w] + 1 \in Nat BY DEF TargetsInv, TargetsTypeOK
  <2>2. target_port_cursor' \in Nat /\ target_port_cursor' < target_port_count
      BY <1>4, <2>1, ModInRange DEF StoreOnce
  <2>3. TargetsTypeOK' BY <1>4, <2>2 DEF TargetsInv, TargetsTypeOK, StoreOnce
  <2>4. /\ Stepped \subseteq Stepped' /\ chosen' = chosen
        /\ \A v \in Workers : tpc'[v] = "store" => tpc[v] = "store"
      BY <1>4 DEF TargetsInv, TargetsTypeOK, StoreOnce
  <2> QED BY <2>2, <2>3, <2>4, QuietStep
<1>5. ASSUME NEW w \in Workers, LoadMod(w) PROVE TargetsInv'
  <2>1. TargetsTypeOK' BY <1>5 DEF TargetsInv, TargetsTypeOK, LoadMod
  <2>2. /\ Stepped \subseteq Stepped' /\ target_port_cursor' = target_port_cursor /\ chosen' = chosen
        /\ \A v \in Workers : tpc'[v] = "store" => tpc[v] = "store"
      BY <1>5 DEF TargetsInv, TargetsTypeOK, LoadMod
  <2> QED BY <2>1, <2>2, QuietStep
<1>6. ASSUME NEW w \in Workers, StoreMod(w) PROVE TargetsInv'
  <2>1. reg[w] \in Nat BY DEF TargetsInv, TargetsTypeOK
  <2>2. target_port_cursor' \in Nat /\ target_port_cursor' < target_port_count
      BY <1>6, <2>1, ModInRange DEF StoreMod
  <2>3. TargetsTypeOK' BY <1>6, <2>2 DEF TargetsInv, TargetsTypeOK, StoreMod
  <2>4. /\ Stepped \subseteq Stepped' /\ chosen' = chosen
        /\ \A v \in Workers : tpc'[v] = "store" => tpc[v] = "store"
      BY <1>6 DEF TargetsInv, TargetsTypeOK, StoreMod
  <2> QED BY <2>2, <2>3, <2>4, QuietStep
<1>7. ASSUME NEW w \in Workers, Check(w) PROVE TargetsInv'
  <2>1. TargetsTypeOK' BY <1>7 DEF TargetsInv, TargetsTypeOK, Check, End
  <2>2. /\ Stepped \subseteq Stepped' /\ target_port_cursor' = target_port_cursor /\ chosen' = chosen
        /\ \A v \in Workers : tpc'[v] = "store" => tpc[v] = "store"
      BY <1>7 DEF TargetsInv, TargetsTypeOK, Check
  <2> QED BY <2>1, <2>2, QuietStep
<1>8. ASSUME NEW w \in Workers, TcpConnect(w) PROVE TargetsInv'
  <2>1. TargetsTypeOK' BY <1>8 DEF TargetsInv, TargetsTypeOK, TcpConnect, End
  <2>2. /\ Stepped \subseteq Stepped' /\ target_port_cursor' = target_port_cursor /\ chosen' = chosen
        /\ \A v \in Workers : tpc'[v] = "store" => tpc[v] = "store"
      BY <1>8 DEF TargetsInv, TargetsTypeOK, TcpConnect
  <2> QED BY <2>1, <2>2, QuietStep
<1>9. CASE UNCHANGED targetVars
  <2>1. TargetsTypeOK' BY <1>9 DEF TargetsInv, TargetsTypeOK, targetVars
  <2>2. /\ Stepped \subseteq Stepped' /\ target_port_cursor' = target_port_cursor /\ chosen' = chosen
        /\ \A v \in Workers : tpc'[v] = "store" => tpc[v] = "store"
      BY <1>9 DEF targetVars
  <2> QED BY <2>1, <2>2, QuietStep
<1> QED BY <1>1, <1>2, <1>3, <1>4, <1>5, <1>6, <1>7, <1>8, <1>9 DEF TargetsNext, ConnectNext

-----------------------------------------------------------------------------
(* The order of the targets *)

LEMMA Quotient ==
    ASSUME NEW w \in Nat, NEW n \in Nat, n > 0
    PROVE  \E q \in Nat : w = n * q + (w % n)
BY SMTT(30)

LEMMA Remainder ==
    ASSUME NEW n \in Nat, n > 0, NEW q \in Nat, NEW r \in 0..(n - 1)
    PROVE  (n * q + r) % n = r
OBVIOUS

\* Stepping a cursor that wraps counts modulo the number of targets.
LEMMA NextTurn ==
    ASSUME NEW w \in Nat, NEW n \in Nat, n > 0
    PROVE  ((w % n) + 1) % n = (w + 1) % n
<1>1. PICK q \in Nat : w = n * q + (w % n) BY Quotient
<1>2. w % n \in 0..(n - 1) OBVIOUS
<1>3. CASE (w % n) + 1 < n
  <2>1. (w % n) + 1 \in 0..(n - 1) BY <1>2, <1>3
  <2>2. w + 1 = n * q + ((w % n) + 1) BY <1>1, <1>2
  <2>3. (w + 1) % n = (w % n) + 1 BY <2>1, <2>2, Remainder
  <2>4. ((w % n) + 1) % n = (w % n) + 1 BY <2>1
  <2> QED BY <2>3, <2>4
<1>4. CASE (w % n) + 1 = n
  <2>1. w + 1 = n * (q + 1) + 0 BY <1>1, <1>2, <1>4
  <2>2. q + 1 \in Nat /\ 0 \in 0..(n - 1) OBVIOUS
  <2>3. (n * (q + 1) + 0) % n = 0 BY <2>2, Remainder
  <2>4. n % n = 0 OBVIOUS
  <2> QED BY <2>1, <2>3, <2>4, <1>4
<1> QED BY <1>2, <1>3, <1>4

Turn(w) == w % target_port_count

\* Where the cursor stands while w, the worker launched last, makes its choice;
\* afterwards it is the next worker's turn.
TurnKept(w) ==
    /\ tpc[w] # "none" => \A v \in 0..(w - 1) : tpc[v] \in {"connect", "up"}
    /\ tpc[w] = "load" => target_port_cursor = Turn(w)
    /\ tpc[w] \notin {"none", "load"} => chosen[w] = Turn(w)
    /\ tpc[w] = "mod" => target_port_cursor = Turn(w) + 1
    /\ tpc[w] = "wrap" => reg[w] = Turn(w) + 1
    /\ /\ tpc[w] \in {"check", "connect", "up"}
       /\ \A v \in Workers : v > w => tpc[v] = "none"
       => target_port_cursor = Turn(w + 1)

InTurn == (tpc[0] = "none" => target_port_cursor = 0) /\ \A w \in Workers : TurnKept(w)

TurnInv == TargetsInv /\ (apart => InTurn)

\* The worker on its way to a choice is the last one launched.
LEMMA Latest ==
    ASSUME TargetsTypeOK, InTurn, NEW w \in Workers, tpc[w] \notin {"none", "connect", "up"}
    PROVE  /\ \A v \in Workers : v > w => tpc[v] = "none"
           /\ \A v \in Workers : v < w => tpc[v] \in {"connect", "up"}
BY DEF InTurn, TurnKept, Workers

LEMMA TurnFacts ==
    /\ 0 \in Workers /\ Workers \subseteq Nat
    /\ Turn(0) = 0 /\ Turn(0) \in Nat
    /\ \A w \in Nat : Turn(w) \in Nat /\ (Turn(w) + 1) % target_port_count = Turn(w + 1)
<1>1. target_port_count \in Nat /\ target_port_count > 0 /\ worker_count \in Nat /\ worker_count > 0
    BY TargetsAssumption
<1>2. \A w \in Nat : w % target_port_count \in Nat BY <1>1
<1>3. \A w \in Nat : ((w % target_port_count) + 1) % target_port_count = (w + 1) % target_port_count
    BY <1>1, NextTurn
<1> QED BY <1>1, <1>2, <1>3 DEF Turn, Workers

(***************************************************************************)
(* A worker that steps from one place of its choice to the next keeps the  *)
(* turns if it keeps its own: the others have chosen, or are not there.    *)
(***************************************************************************)
LEMMA OwnTurn ==
    ASSUME TargetsTypeOK, InTurn, NEW w \in Workers, tpc[w] \notin {"none", "connect", "up"},
           NEW l \in Pc \ {"none"}, tpc' = [tpc EXCEPT ![w] = l],
           \A v \in Workers : v # w => chosen'[v] = chosen[v],
           TurnKept(w)'
    PROVE  InTurn'
<1>1. /\ tpc'[w] = l /\ l # "none"
      /\ \A v \in Workers : v # w => tpc'[v] = tpc[v]
    BY DEF TargetsTypeOK, Pc
<1>2. \A v \in Workers : v # w => v < w \/ v > w
    BY TurnFacts
<1>3. ASSUME NEW v \in Workers, v > w PROVE TurnKept(v)'
    BY <1>1, <1>3, Latest, TurnFacts DEF TurnKept
<1>4. ASSUME NEW v \in Workers, v < w PROVE TurnKept(v)'
  <2>1. v # w /\ tpc[v] \in {"connect", "up"} /\ tpc'[v] = tpc[v] /\ chosen'[v] = chosen[v]
      BY <1>1, <1>4, Latest, TurnFacts
  <2>2. \A u \in 0..(v - 1) : tpc'[u] \in {"connect", "up"}
    <3>1. \A u \in 0..(v - 1) : u \in Workers /\ u # w
        BY <1>4, TargetsAssumption DEF Workers
    <3>2. \A u \in 0..(v - 1) : tpc[u] \in {"connect", "up"}
        BY <2>1 DEF InTurn, TurnKept
    <3> QED BY <3>1, <3>2, <1>1
  <2>3. chosen[v] = Turn(v)
      BY <2>1 DEF InTurn, TurnKept
  <2>4. w > v /\ tpc'[w] # "none"
      BY <1>1, <1>4, TurnFacts
  <2> QED BY <2>1, <2>2, <2>3, <2>4 DEF TurnKept
<1>5. tpc'[0] # "none"
    BY <1>1, <1>2, Latest, TurnFacts
<1> QED BY <1>2, <1>3, <1>4, <1>5 DEF InTurn

LEMMA TurnInitially == TargetsInit => TurnInv
<1> SUFFICES ASSUME TargetsInit PROVE TurnInv
    OBVIOUS
<1>1. TargetsInv BY TargetsInitially
<1>2. target_port_cursor = 0 /\ \A w \in Workers : tpc[w] = "none"
    BY DEF TargetsInit
<1>3. \A w \in Workers : TurnKept(w) BY <1>2 DEF TurnKept
<1> QED BY <1>1, <1>2, <1>3 DEF TurnInv, InTurn

\* The next worker comes when the cursor is at its turn.
LEMMA LaunchInTurn ==
    ASSUME TargetsTypeOK, InTurn, NEW w \in Workers, Launch(w),
           \A v \in 0..(w - 1) : tpc[v] \in {"connect", "up"}
    PROVE  InTurn'
<1>1. /\ tpc[w] = "none" /\ tpc'[w] = "load"
      /\ \A v \in Workers : v # w => tpc'[v] = tpc[v]
      /\ target_port_cursor' = target_port_cursor /\ chosen' = chosen /\ reg' = reg
    BY DEF Launch, At, Goto, TargetsTypeOK
<1>2. w \in Nat /\ \A v \in Workers : v \in Nat /\ (v # w => v < w \/ v > w)
    BY TurnFacts
<1>3. \A v \in 0..(w - 1) : v \in Workers /\ v # w
    BY TargetsAssumption DEF Workers
<1>4. \A v \in Workers : v > w => tpc[v] = "none"
  <2> SUFFICES ASSUME NEW v \in Workers, v > w, tpc[v] # "none" PROVE FALSE
      OBVIOUS
  <2>1. w \in 0..(v - 1) BY <1>2
  <2> QED BY <2>1, <1>1 DEF InTurn, TurnKept
<1>5. target_port_cursor = Turn(w)
  <2>1. CASE w = 0
      BY <2>1, <1>1, TurnFacts DEF InTurn
  <2>2. CASE w # 0
    <3>1. w - 1 \in Workers /\ w - 1 \in 0..(w - 1) /\ w - 1 \in Nat
        BY <2>2, <1>2, TargetsAssumption DEF Workers
    <3>2. tpc[w - 1] \in {"connect", "up"}
        BY <3>1
    <3>3. \A v \in Workers : v > w - 1 => tpc[v] = "none"
        BY <1>1, <1>2, <1>4
    <3>4. target_port_cursor = Turn((w - 1) + 1)
        BY <3>1, <3>2, <3>3 DEF InTurn, TurnKept
    <3>5. (w - 1) + 1 = w
        BY <1>2
    <3> QED BY <3>4, <3>5
  <2> QED BY <2>1, <2>2
<1>6. TurnKept(w)'
  <2>1. \A v \in 0..(w - 1) : tpc'[v] \in {"connect", "up"}
      BY <1>1, <1>3
  <2> QED BY <2>1, <1>1, <1>5 DEF TurnKept
<1>7. ASSUME NEW v \in Workers, v > w PROVE TurnKept(v)'
    BY <1>1, <1>2, <1>4, <1>7 DEF TurnKept
<1>8. ASSUME NEW v \in Workers, v < w PROVE TurnKept(v)'
  <2>1. v \in 0..(w - 1) /\ v # w /\ tpc[v] \in {"connect", "up"}
      BY <1>2, <1>8
  <2>2. tpc'[v] = tpc[v] /\ chosen[v] = Turn(v)
      BY <1>1, <2>1 DEF InTurn, TurnKept
  <2>3. \A u \in 0..(v - 1) : u \in 0..(w - 1)
      BY <1>2, <1>8
  <2>4. \A u \in 0..(v - 1) : tpc'[u] \in {"connect", "up"}
      BY <2>3, <1>1, <1>3
  <2>5. w > v /\ tpc'[w] # "none"
      BY <1>1, <1>2, <1>8
  <2> QED BY <2>1, <2>2, <2>4, <2>5, <1>1 DEF TurnKept
<1>9. tpc'[0] # "none"
  <2>1. CASE w = 0 BY <2>1, <1>1
  <2>2. CASE w # 0
    <3>1. 0 \in 0..(w - 1) BY <2>2, <1>2
    <3> QED BY <3>1, <1>1, <1>3
  <2> QED BY <2>1, <2>2
<1> QED BY <1>2, <1>6, <1>7, <1>8, <1>9 DEF InTurn

\* A worker with its choice made changes nothing that the others look at.
LEMMA SettledInTurn ==
    ASSUME TargetsTypeOK, InTurn, NEW w \in Workers, tpc[w] = "connect",
           tpc' = tpc \/ tpc' = [tpc EXCEPT ![w] = "up"],
           UNCHANGED <<target_port_cursor, chosen, reg>>
    PROVE  InTurn'
<1>1. /\ \A v \in Workers : tpc'[v] = tpc[v] \/ (tpc[v] = "connect" /\ tpc'[v] = "up")
      /\ \A v \in Workers : (tpc'[v] = "none") <=> (tpc[v] = "none")
    BY DEF TargetsTypeOK
<1>2. \A v \in Workers : \A u \in 0..(v - 1) : u \in Workers
    BY TargetsAssumption DEF Workers
<1>3. ASSUME NEW v \in Workers PROVE TurnKept(v)'
  <2>1. TurnKept(v) BY DEF InTurn
  <2> QED BY <2>1, <1>1, <1>2 DEF TurnKept
<1> QED BY <1>1, <1>3, TurnFacts DEF InTurn

\* The workers launched earlier have made their choice and keep it.
LEMMA OthersStay ==
    ASSUME TargetsTypeOK, NEW w \in Workers, NEW l, tpc' = [tpc EXCEPT ![w] = l],
           \A v \in 0..(w - 1) : tpc[v] \in {"connect", "up"}
    PROVE  tpc'[w] = l /\ \A v \in 0..(w - 1) : tpc'[v] \in {"connect", "up"}
<1>1. \A v \in 0..(w - 1) : v \in Workers /\ v # w
    BY TargetsAssumption DEF Workers
<1> QED BY <1>1 DEF TargetsTypeOK

LEMMA TurnKeeps == TurnInv /\ [TargetsNext]_targetVars => TurnInv'
<1> SUFFICES ASSUME TargetsTypeOK, TargetsTypeOK', apart => InTurn, [TargetsNext]_targetVars, apart' = TRUE
             PROVE  InTurn'
    BY TargetsKeep DEF TurnInv, TargetsInv, TargetsTypeOK
<1>a. /\ UNCHANGED apart => InTurn
      /\ \A w \in Workers : w \in Nat
    BY TurnFacts
<1>1. ASSUME NEW w \in Workers, Launch(w) PROVE InTurn'
  <2>1. apart /\ \A v \in 0..(w - 1) : tpc[v] \in {"connect", "up"}
      BY <1>1 DEF Launch
  <2> QED BY <1>1, <2>1, LaunchInTurn
<1>2. ASSUME NEW w \in Workers, Load(w) PROVE InTurn'
  <2>1. /\ InTurn /\ tpc[w] = "load" /\ tpc' = [tpc EXCEPT ![w] = "store"]
        /\ chosen' = [chosen EXCEPT ![w] = target_port_cursor]
      BY <1>2, <1>a DEF Load, At, Goto
  <2>2. TurnKept(w)'
    <3>1. target_port_cursor = Turn(w) /\ \A v \in 0..(w - 1) : tpc[v] \in {"connect", "up"}
        BY <2>1 DEF InTurn, TurnKept
    <3> QED BY <2>1, <3>1, OthersStay DEF TurnKept, TargetsTypeOK
  <2> QED BY <2>1, <2>2, OwnTurn DEF Pc, TargetsTypeOK
<1>3. ASSUME NEW w \in Workers, StoreNext(w) PROVE InTurn'
  <2>1. /\ InTurn /\ tpc[w] = "store" /\ tpc' = [tpc EXCEPT ![w] = "mod"]
        /\ target_port_cursor' = chosen[w] + 1 /\ chosen' = chosen
      BY <1>3, <1>a DEF StoreNext, At, Goto
  <2>2. TurnKept(w)'
    <3>1. chosen[w] = Turn(w) /\ \A v \in 0..(w - 1) : tpc[v] \in {"connect", "up"}
        BY <2>1 DEF InTurn, TurnKept
    <3> QED BY <2>1, <3>1, OthersStay DEF TurnKept, TargetsTypeOK
  <2> QED BY <2>1, <2>2, OwnTurn DEF Pc, TargetsTypeOK
<1>4. ASSUME NEW w \in Workers, StoreOnce(w) PROVE InTurn'
  <2>1. /\ InTurn /\ tpc[w] = "store" /\ tpc' = [tpc EXCEPT ![w] = "connect"]
        /\ target_port_cursor' = (chosen[w] + 1) % target_port_count /\ chosen' = chosen
      BY <1>4, <1>a DEF StoreOnce, At, Goto
  <2>2. TurnKept(w)'
    <3>1. chosen[w] = Turn(w) /\ \A v \in 0..(w - 1) : tpc[v] \in {"connect", "up"}
        BY <2>1 DEF InTurn, TurnKept
    <3>2. target_port_cursor' = Turn(w + 1)
        BY <2>1, <3>1, <1>a, TurnFacts
    <3> QED BY <2>1, <3>1, <3>2, OthersStay DEF TurnKept, TargetsTypeOK
  <2> QED BY <2>1, <2>2, OwnTurn DEF Pc, TargetsTypeOK
<1>5. ASSUME NEW w \in Workers, LoadMod(w) PROVE InTurn'
  <2>1. /\ InTurn /\ tpc[w] = "mod" /\ tpc' = [tpc EXCEPT ![w] = "wrap"]
        /\ reg' = [reg EXCEPT ![w] = target_port_cursor] /\ chosen' = chosen
      BY <1>5, <1>a DEF LoadMod, At, Goto
  <2>2. TurnKept(w)'
    <3>1. /\ chosen[w] = Turn(w) /\ target_port_cursor = Turn(w) + 1
          /\ \A v \in 0..(w - 1) : tpc[v] \in {"connect", "up"}
        BY <2>1 DEF InTurn, TurnKept
    <3> QED BY <2>1, <3>1, OthersStay DEF TurnKept, TargetsTypeOK
  <2> QED BY <2>1, <2>2, OwnTurn DEF Pc, TargetsTypeOK
<1>6. ASSUME NEW w \in Workers, StoreMod(w) PROVE InTurn'
  <2>1. /\ InTurn /\ tpc[w] = "wrap" /\ tpc' = [tpc EXCEPT ![w] = "check"]
        /\ target_port_cursor' = reg[w] % target_port_count /\ chosen' = chosen
      BY <1>6, <1>a DEF StoreMod, At, Goto
  <2>2. TurnKept(w)'
    <3>1. /\ chosen[w] = Turn(w) /\ reg[w] = Turn(w) + 1
          /\ \A v \in 0..(w - 1) : tpc[v] \in {"connect", "up"}
        BY <2>1 DEF InTurn, TurnKept
    <3>2. target_port_cursor' = Turn(w + 1)
        BY <2>1, <3>1, <1>a, TurnFacts
    <3> QED BY <2>1, <3>1, <3>2, OthersStay DEF TurnKept, TargetsTypeOK
  <2> QED BY <2>1, <2>2, OwnTurn DEF Pc, TargetsTypeOK
<1>7. ASSUME NEW w \in Workers, Check(w) PROVE InTurn'
  <2>1. /\ InTurn /\ tpc[w] = "check"
        /\ target_port_cursor' = target_port_cursor /\ chosen' = chosen /\ reg' = reg
        /\ tpc' = tpc \/ tpc' = [tpc EXCEPT ![w] = "connect"]
      BY <1>7, <1>a DEF Check, At, Goto
  <2>2. CASE tpc' = tpc
      BY <2>1, <2>2 DEF InTurn, TurnKept
  <2>3. CASE tpc' = [tpc EXCEPT ![w] = "connect"]
    <3>1. /\ chosen[w] = Turn(w) /\ \A v \in 0..(w - 1) : tpc[v] \in {"connect", "up"}
        BY <2>1 DEF InTurn, TurnKept
    <3>2. target_port_cursor = Turn(w + 1)
        BY <2>1, Latest DEF InTurn, TurnKept
    <3>3. TurnKept(w)'
        BY <2>1, <2>3, <3>1, <3>2, OthersStay DEF TurnKept, TargetsTypeOK
    <3> QED BY <2>1, <2>3, <3>3, OwnTurn DEF Pc, TargetsTypeOK
  <2> QED BY <2>1, <2>2, <2>3
<1>8. ASSUME NEW w \in Workers, TcpConnect(w) PROVE InTurn'
  <2>1. /\ InTurn /\ tpc[w] = "connect" /\ UNCHANGED <<target_port_cursor, chosen, reg>>
        /\ tpc' = tpc \/ tpc' = [tpc EXCEPT ![w] = "up"]
      BY <1>8, <1>a DEF TcpConnect, At, Goto
  <2> QED BY <2>1, SettledInTurn
<1>9. CASE UNCHANGED targetVars
    BY <1>9, <1>a DEF targetVars, InTurn, TurnKept
<1> QED BY <1>1, <1>2, <1>3, <1>4, <1>5, <1>6, <1>7, <1>8, <1>9 DEF TargetsNext, ConnectNext

-----------------------------------------------------------------------------
(* The mutex *)

LockInv == LockTypeOK /\ NoOrphanLock

LEMMA LockInitially == LockInit => LockInv
BY DEF LockInit, LockInv, LockTypeOK, LockPc, NoOrphanLock

LEMMA LockKeeps == LockInv /\ [LockNext]_lockVars => LockInv'
<1> SUFFICES ASSUME LockInv, [LockNext]_lockVars PROVE LockInv'
    OBVIOUS
<1> USE DEF LockInv, LockTypeOK, LockPc
<1>1. CASE StrayUnlock
  <2>1. Inside' = Inside /\ (locked' = locked \/ locked' = FALSE)
      BY <1>1 DEF StrayUnlock, Inside
  <2>2. LockTypeOK' BY <1>1, <2>1 DEF StrayUnlock
  <2>3. NoOrphanLock' BY <2>1 DEF NoOrphanLock
  <2> QED BY <2>2, <2>3
<1>2. ASSUME NEW t \in Threads, Call(t) PROVE LockInv'
  <2>1. LockTypeOK' BY <1>2 DEF Call
  <2>2. Inside' = Inside /\ locked' = locked BY <1>2 DEF Call, Inside
  <2> QED BY <2>1, <2>2 DEF NoOrphanLock
<1>3. ASSUME NEW t \in Threads, Lock(t) PROVE LockInv'
  <2>1. LockTypeOK' BY <1>3 DEF Lock
  <2>2. t \in Inside' BY <1>3 DEF Lock, Inside
  <2> QED BY <2>1, <2>2 DEF NoOrphanLock
<1>4. ASSUME NEW t \in Threads, Unlock(t) PROVE LockInv'
    BY <1>4 DEF Unlock, NoOrphanLock
<1>5. CASE UNCHANGED lockVars
    BY <1>5 DEF lockVars, NoOrphanLock, Inside
<1> QED BY <1>1, <1>2, <1>3, <1>4, <1>5 DEF LockNext

-----------------------------------------------------------------------------
(* Both together *)

\* A step of the composition is a step of each part, or leaves it alone.
LEMMA PartSteps == [Next]_vars => [TargetsNext]_targetVars /\ [LockNext]_lockVars
BY DEF Next, vars, ConnectStep, LetterStep, OnlineStep, TargetsNext, LockNext

LEMMA Invariance == Spec => [](TargetsInv /\ TurnInv /\ LockInv)
<1>1. Init => TargetsInv /\ TurnInv /\ LockInv
    BY TargetsInitially, TurnInitially, LockInitially DEF Init
<1>2. (TargetsInv /\ TurnInv /\ LockInv) /\ [Next]_vars => (TargetsInv /\ TurnInv /\ LockInv)'
    BY PartSteps, TargetsKeep, TurnKeeps, LockKeeps
<1> QED BY <1>1, <1>2, PTL DEF Spec

(***************************************************************************)
(* Every variable keeps its type; no cursor or index is ever negative      *)
(* (tx.c:183-201).                                                         *)
(***************************************************************************)
THEOREM TypeCorrect == Spec => []TypeOK
<1>1. TargetsInv /\ LockInv => TypeOK BY DEF TargetsInv, LockInv, TypeOK
<1> QED BY <1>1, Invariance, PTL

(***************************************************************************)
(* The unlocked steps of target_port_cursor overshoot by less than the     *)
(* number of workers (tx.c:190-199).                                       *)
(***************************************************************************)
THEOREM OvershootBounded == Spec => []Overshoot
<1>1. TargetsInv => Overshoot BY DEF TargetsInv
<1> QED BY <1>1, Invariance, PTL

(***************************************************************************)
(* Launches that come after the earlier workers' choices hand the targets  *)
(* out in turn, for any number of threads and of "tx" clauses              *)
(* (tx.c:183-201).                                                         *)
(***************************************************************************)
THEOREM TargetsInTurn == Spec => []RoundRobin
<1>1. TurnInv => RoundRobin BY DEF TurnInv, InTurn, TurnKept, Turn, RoundRobin
<1> QED BY <1>1, Invariance, PTL

(***************************************************************************)
(* A mutex that no thread is inside of is free, wherever the stray unlock  *)
(* of tx.c:276 falls.                                                      *)
(***************************************************************************)
THEOREM LockNeverOrphaned == Spec => []NoOrphanLock
<1>1. LockInv => NoOrphanLock BY DEF LockInv
<1> QED BY <1>1, Invariance, PTL
=============================================================================
