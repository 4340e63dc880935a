----------------------------- MODULE CliProofs -----------------------------
(***************************************************************************)
(* Proofs about Cli, for every set of command lines, every reading of the  *)
(* numbers in them and every kthreadmax.                                   *)
(***************************************************************************)
EXTENDS Cli, FiniteSetTheorems, TLAPS

-----------------------------------------------------------------------------
(* The invariant *)

\* The words of a line; the program's own name is one.
Word == STRING \cup {"viamillipede"}

Target == [name : Word, port : Nat]

\* Every variable has its type, and the cursor stays on the line.
CursorInv ==
    /\ argv \in Seq(Word)
    /\ arg_cursor \in 1..(Len(argv) + 1)
    /\ untried \in 1..13
    /\ untried > 1 => arg_cursor <= Len(argv)
    /\ value \in [Numeric -> Int]
    /\ target_ports \in Seq(Target)
    /\ proc = "ready" => arg_cursor = Len(argv) + 1

\* The ports that have been taken.
PortInv ==
    /\ value["rx"] # 0 => value["rx"] \in 1..(USHRT_MAX - 1)
    /\ \A k \in 1..Len(target_ports) : target_ports[k].port \in 1..(USHRT_MAX - 1)

\* How far the line has been read: a word from which an option was taken counts.
Done == IF untried = 1 THEN arg_cursor - 1 ELSE arg_cursor

\* The clauses of option o that have been read.
Seen(o) == At(o) \cap 1..Done

\* What a clause of o at p sets.
Meant(o, p) ==
    LET n == Given(o, argv[p + o.arity])
    IN  IF o.name = "initiate" THEN n % 65536 ELSE n

\* Option o is what the last clause that was read says.
ValueInv(o) ==
    /\ o.name \in Numeric /\ o.arity > 0 =>
          value[o.name] = IF Seen(o) = {} THEN Default[o.name] ELSE Meant(o, Max(Seen(o)))
    /\ o.arity = 0 => value[o.name] = IF Seen(o) = {} THEN 0 ELSE 1
    /\ o.name = "checkphrase" => gcheckphrase = IF Seen(o) = {} THEN "yoes" ELSE argv[Max(Seen(o)) + 1]
    /\ o.name = "initiate" => initiate_host = IF Seen(o) = {} THEN "NULL" ELSE argv[Max(Seen(o)) + 1]

\* The targets are those of the clauses that were read.
TargetInv ==
    LET seen == Seen(Options[2]) IN
    /\ Len(target_ports) = Cardinality(seen)
    /\ \A p \in seen :
          target_ports[Cardinality(seen \cap 1..p)] = [name |-> argv[p + 1], port |-> atoi(argv[p + 2])]

\* Once an option was taken nothing else matches what the cursor is on.
ClauseInv ==
    Unambiguous =>
        /\ untried > 1 => Matching = {}
        /\ \A i \in 1..12 : ValueInv(Options[i])
        /\ TargetInv

CliInv == CursorInv /\ PortInv /\ ClauseInv

-----------------------------------------------------------------------------
(* The table of options *)

LEMMA Table ==
    /\ Len(Options) = 12 /\ DOMAIN Options = 1..12
    /\ Options[1] = [name |-> "rx", arity |-> 1] /\ Options[2] = [name |-> "tx", arity |-> 2]
    /\ Options[3] = [name |-> "threads", arity |-> 1] /\ Options[4] = [name |-> "verbose", arity |-> 1]
    /\ Options[5] = [name |-> "checksums", arity |-> 0] /\ Options[6] = [name |-> "delayus", arity |-> 1]
    /\ Options[7] = [name |-> "checkphrase", arity |-> 1] /\ Options[8] = [name |-> "terminate", arity |-> 1]
    /\ Options[9] = [name |-> "initiate", arity |-> 2] /\ Options[10] = [name |-> "charmode", arity |-> 0]
    /\ Options[11] = [name |-> "prbs", arity |-> 1] /\ Options[12] = [name |-> "leglimit", arity |-> 1]
BY DEF Options, Opt

LEMMA OptionName ==
    /\ Options[1].name = "rx" /\ Options[2].name = "tx" /\ Options[3].name = "threads"
    /\ Options[4].name = "verbose" /\ Options[5].name = "checksums" /\ Options[6].name = "delayus"
    /\ Options[7].name = "checkphrase" /\ Options[8].name = "terminate" /\ Options[9].name = "initiate"
    /\ Options[10].name = "charmode" /\ Options[11].name = "prbs" /\ Options[12].name = "leglimit"
BY Table

LEMMA OptionArity ==
    /\ \A i \in 1..12 : Options[i].arity \in 0..2
    /\ \A i \in 1..12 : Options[i].arity = 0 <=> i \in {5, 10}
    /\ \A i \in 1..12 : Options[i].arity = 2 <=> i \in {2, 9}
<1>1. /\ Options[1].arity = 1 /\ Options[2].arity = 2 /\ Options[3].arity = 1
      /\ Options[4].arity = 1 /\ Options[5].arity = 0 /\ Options[6].arity = 1
      /\ Options[7].arity = 1 /\ Options[8].arity = 1 /\ Options[9].arity = 2
      /\ Options[10].arity = 0 /\ Options[11].arity = 1 /\ Options[12].arity = 1
    BY Table
<1> QED BY <1>1

\* No two options have the same name.
LEMMA NamesDistinct == \A i, j \in 1..12 : Options[i].name = Options[j].name => i = j
BY OptionName

LEMMA NamesAre == Names = {Options[i].name : i \in 1..12}
BY Table DEF Names

LEMMA NumericAre == \A i \in 1..12 : Options[i].name \in Numeric <=> i \notin {2, 7}
<1>1. \A i \in 1..12 : Options[i].name \in Names
    BY NamesAre
<1>2. \A i \in 1..12 : Options[i].name \in {"tx", "checkphrase"} <=> i \in {2, 7}
    BY OptionName
<1> QED BY <1>1, <1>2 DEF Numeric

-----------------------------------------------------------------------------
(* Numbers *)

LEMMA MaxLast ==
    ASSUME NEW S, S \subseteq Int, NEW p \in Int, \A q \in S : q < p
    PROVE  Max(S \cup {p}) = p
<1>1. p \in S \cup {p} /\ \A y \in S \cup {p} : p >= y
    OBVIOUS
<1>2. \A x \in S \cup {p} : (\A y \in S \cup {p} : x >= y) => x = p
    OBVIOUS
<1> QED BY <1>1, <1>2 DEF Max

LEMMA GivenInt == \A o, w : Given(o, w) \in Int
BY CliAssumption DEF Given, atoi, strtoul

LEMMA PortRange ==
    ASSUME NEW n \in Int
    PROVE  Port(n) \in Nat /\ Port(n) = n % 65536
<1>1. n % 65536 \in Nat
    OBVIOUS
<1>2. (n - 65536) % 65536 = n % 65536
    OBVIOUS
<1>3. Port(n) = n % 65536
    BY <1>2 DEF Port
<1> QED BY <1>1, <1>3

LEMMA Between ==
    ASSUME NEW n \in Int
    PROVE  n \in 1..(USHRT_MAX - 1) <=> 0 < n /\ n < USHRT_MAX
<1>1. USHRT_MAX \in Int
    BY DEF USHRT_MAX
<1> QED BY <1>1

LEMMA PortSame ==
    ASSUME NEW n \in 1..(USHRT_MAX - 1)
    PROVE  Port(n) = n
<1>1. n \in Int /\ 0 < n /\ n < USHRT_MAX
    BY Between
<1>2. 0 < n /\ n < 65535
    BY <1>1 DEF USHRT_MAX
<1> QED BY <1>1, <1>2 DEF Port

\* What is asserted of a port.
LEMMA PortAsserted ==
    ASSUME NEW n \in Int, NEW o \in {"rx", "tx"}, Asserted(o, n)
    PROVE  n \in 1..(USHRT_MAX - 1)
<1>1. 0 < n /\ n < USHRT_MAX
    BY DEF Asserted
<1> QED BY <1>1, Between

-----------------------------------------------------------------------------
(* The steps *)

\* Option i is taken.
Takes(i) ==
    /\ arg_cursor \in 1..Len(argv) /\ Len(argv) \in Nat
    /\ Matching = {i} /\ Options[i].name = argv[arg_cursor]
    /\ arg_cursor + Options[i].arity <= Len(argv)
    /\ Asserted(Options[i].name, Given(Options[i], LastWord(Options[i])))
    /\ Sets(Options[i], Given(Options[i], LastWord(Options[i])))
    /\ arg_cursor' = arg_cursor + Options[i].arity
    /\ untried' = i + 1
    /\ proc = "parse" /\ UNCHANGED <<argv, proc>>

\* As no two options have the same name, one at most matches a word.
LEMMA OneMatch ==
    ASSUME CursorInv, NEW i \in Matching
    PROVE  i \in 1..12 /\ Matching = {i} /\ Min(Matching) = i /\ Options[i].name = argv[arg_cursor]
<1>1. untried \in Nat /\ untried >= 1
    BY DEF CursorInv
<1>2. \A j \in Matching : j \in 1..12 /\ Options[j].name = argv[arg_cursor]
    BY <1>1, Table DEF Matching
<1>3. Matching = {i}
    BY <1>2, NamesDistinct
<1>4. i \in Int /\ Min({i}) = i
    BY <1>2 DEF Min
<1> QED BY <1>2, <1>3, <1>4

LEMMA TakeOne ==
    ASSUME CursorInv, Take
    PROVE  \E i \in 1..12 : Takes(i)
<1>1. PICK i : i \in Matching
    BY DEF Take
<1>2. i \in 1..12 /\ Matching = {i} /\ Min(Matching) = i /\ Options[i].name = argv[arg_cursor]
    BY <1>1, OneMatch
<1>3. Len(argv) \in Nat /\ arg_cursor \in 1..(Len(argv) + 1)
    BY DEF CursorInv
<1>4. arg_cursor <= Len(argv) /\ proc = "parse" /\ UNCHANGED <<argv, proc>>
    BY DEF Take
<1>5. /\ arg_cursor + Options[i].arity <= Len(argv)
      /\ Asserted(Options[i].name, Given(Options[i], LastWord(Options[i])))
      /\ Sets(Options[i], Given(Options[i], LastWord(Options[i])))
      /\ arg_cursor' = arg_cursor + Options[i].arity
      /\ untried' = i + 1
    BY <1>2 DEF Take
<1> QED BY <1>2, <1>3, <1>4, <1>5 DEF Takes

\* An option that is taken is what its clause says, and the others stay.
LEMMA TakenValue ==
    ASSUME CursorInv, NEW i \in 1..12, Takes(i)
    PROVE  /\ value' \in [Numeric -> Int]
           /\ \A j \in 1..12 : j \notin {i, 2, 7} => value'[Options[j].name] = value[Options[j].name]
           /\ i \notin {2, 7} => value'[Options[i].name] = IF Options[i].arity = 0 THEN 1
                                                            ELSE Meant(Options[i], arg_cursor)
<1> DEFINE o == Options[i]
           n == Given(o, LastWord(o))
<1>1. value \in [Numeric -> Int] /\ n \in Int
    BY GivenInt DEF CursorInv
<1>2. CASE i \in {2, 7}
  <2>1. o.name \notin Numeric
      BY <1>2, NumericAre
  <2>2. value' = value
      BY <2>1 DEF Takes, Sets
  <2> QED BY <1>1, <1>2, <2>2
<1>3. CASE i \notin {2, 7}
  <2>1. o.name \in Numeric
      BY <1>3, NumericAre
  <2>2. PICK v : /\ v = CASE o.arity = 0 -> 1 [] o.name \in {"rx", "initiate"} -> Port(n) [] OTHER -> n
                 /\ value' = [value EXCEPT ![o.name] = v]
      BY <2>1 DEF Takes, Sets
  <2>3. v = IF o.arity = 0 THEN 1 ELSE Meant(o, arg_cursor)
    <3>1. CASE o.arity = 0
      <4>1. o.name \notin {"rx", "initiate"}
          BY <3>1, OptionName, OptionArity, NamesDistinct
      <4> QED BY <2>2, <3>1, <4>1
    <3>2. CASE i = 1
      <4>1. o.name = "rx" /\ o.arity # 0
          BY <3>2, OptionName, OptionArity
      <4>2. n \in 1..(USHRT_MAX - 1)
          BY <1>1, <4>1, PortAsserted DEF Takes
      <4>3. v = Port(n)
          BY <2>2, <4>1
      <4> QED BY <4>1, <4>2, <4>3, PortSame DEF Meant, LastWord
    <3>3. CASE i = 9
      <4>1. o.name = "initiate" /\ o.arity # 0
          BY <3>3, OptionName, OptionArity
      <4>2. v = Port(n)
          BY <2>2, <4>1
      <4>3. Port(n) = n % 65536
          BY <1>1, PortRange
      <4>4. Meant(o, arg_cursor) = n % 65536
          BY <4>1 DEF Meant, LastWord
      <4> QED BY <4>1, <4>2, <4>3, <4>4
    <3>4. CASE o.arity # 0 /\ i # 1 /\ i # 9
      <4>1. o.name \notin {"rx", "initiate"}
          BY <3>4, OptionName, NamesDistinct
      <4>2. v = n
          BY <2>2, <3>4, <4>1
      <4> QED BY <3>4, <4>1, <4>2 DEF Meant, LastWord
    <3> QED BY <3>1, <3>2, <3>3, <3>4
  <2>4. v \in Int
    <3>1. Meant(o, arg_cursor) \in Int
        BY GivenInt DEF Meant
    <3> QED BY <2>3, <3>1
  <2>5. \A j \in 1..12 : j # i => Options[j].name # o.name
      BY NamesDistinct
  <2>6. \A j \in 1..12 : j \notin {2, 7} => Options[j].name \in Numeric
      BY NumericAre
  <2> HIDE DEF o, n
  <2>7. value' \in [Numeric -> Int] /\ value'[o.name] = v
      BY <1>1, <2>1, <2>2, <2>4
  <2>8. \A m \in Numeric : m # o.name => value'[m] = value[m]
      BY <1>1, <2>1, <2>2
  <2> QED BY <2>3, <2>5, <2>6, <2>7, <2>8 DEF o
<1> QED BY <1>2, <1>3

\* A "tx" clause adds its target; its port is what it says.
LEMMA TakenTarget ==
    ASSUME CursorInv, NEW i \in 1..12, Takes(i)
    PROVE  /\ i # 2 => target_ports' = target_ports
           /\ i = 2 => /\ atoi(argv[arg_cursor + 2]) \in 1..(USHRT_MAX - 1)
                       /\ target_ports' = Append(target_ports, [name |-> argv[arg_cursor + 1],
                                                                port |-> atoi(argv[arg_cursor + 2])])
                       /\ argv[arg_cursor + 1] \in Word
<1>1. CASE i # 2
  <2>1. Options[i].name # "tx"
      BY <1>1, OptionName, NamesDistinct
  <2> QED BY <1>1, <2>1 DEF Takes, Sets
<1>2. CASE i = 2
  <2>1. Options[i].name = "tx" /\ Options[i].arity = 2
      BY <1>2, Table
  <2>2. Given(Options[i], LastWord(Options[i])) = atoi(argv[arg_cursor + 2])
      BY <2>1 DEF Given, LastWord
  <2>3. atoi(argv[arg_cursor + 2]) \in 1..(USHRT_MAX - 1)
      BY <2>1, <2>2, GivenInt, PortAsserted DEF Takes
  <2>4. target_ports' = WithTarget(atoi(argv[arg_cursor + 2]))
      BY <2>1, <2>2 DEF Takes, Sets
  <2>5. Port(atoi(argv[arg_cursor + 2])) = atoi(argv[arg_cursor + 2])
      BY <2>3, PortSame
  <2>6. argv[arg_cursor + 1] \in Word
    <3>1. arg_cursor + 1 \in 1..Len(argv)
        BY <2>1 DEF Takes
    <3> QED BY <3>1 DEF CursorInv
  <2> QED BY <1>2, <2>3, <2>4, <2>5, <2>6 DEF WithTarget
<1> QED BY <1>1, <1>2

LEMMA SeqFacts ==
    ASSUME NEW S, NEW s \in Seq(S), NEW e \in S
    PROVE  /\ Append(s, e) \in Seq(S)
           /\ Len(s) \in Nat /\ Len(Append(s, e)) = Len(s) + 1
           /\ Append(s, e)[Len(s) + 1] = e
           /\ \A k \in 1..Len(s) : Append(s, e)[k] = s[k]
OBVIOUS

\* A target in its place.
LEMMA TakenTargets ==
    ASSUME CursorInv, PortInv, Takes(2)
    PROVE  LET t == [name |-> argv[arg_cursor + 1], port |-> atoi(argv[arg_cursor + 2])] IN
           /\ target_ports' \in Seq(Target)
           /\ Len(target_ports) \in Nat /\ Len(target_ports') = Len(target_ports) + 1
           /\ target_ports'[Len(target_ports) + 1] = t /\ t.port \in 1..(USHRT_MAX - 1)
           /\ \A k \in 1..Len(target_ports) : target_ports'[k] = target_ports[k]
<1> DEFINE t == [name |-> argv[arg_cursor + 1], port |-> atoi(argv[arg_cursor + 2])]
<1>1. /\ atoi(argv[arg_cursor + 2]) \in 1..(USHRT_MAX - 1) /\ argv[arg_cursor + 1] \in Word
      /\ target_ports' = Append(target_ports, t)
    BY TakenTarget
<1>2. atoi(argv[arg_cursor + 2]) \in Nat
    BY <1>1, Between
<1>3. t \in Target /\ t.port \in 1..(USHRT_MAX - 1)
    BY <1>1, <1>2 DEF Target
<1>4. target_ports \in Seq(Target)
    BY DEF CursorInv
<1> HIDE DEF t
<1>5. QED BY <1>1, <1>3, <1>4, SeqFacts DEF t

LEMMA TakeCursor ==
    ASSUME CursorInv, PortInv, NEW i \in 1..12, Takes(i)
    PROVE  CursorInv' /\ PortInv'
<1>1. target_ports' \in Seq(Target)
    BY TakenTargets, TakenTarget DEF CursorInv
<1>2. value' \in [Numeric -> Int]
    BY TakenValue
<1>3. /\ argv' = argv /\ argv \in Seq(Word) /\ Len(argv) \in Nat
      /\ arg_cursor \in 1..Len(argv) /\ arg_cursor' = arg_cursor + Options[i].arity
      /\ arg_cursor + Options[i].arity <= Len(argv) /\ untried' = i + 1 /\ proc' # "ready"
    BY DEF CursorInv, Takes
<1>4. arg_cursor' \in 1..Len(argv) /\ untried' \in 1..13
  <2>1. Options[i].arity \in 0..2
      BY OptionArity
  <2>2. arg_cursor' \in 1..Len(argv)
      BY <1>3, <2>1
  <2>3. untried' \in 1..13
      BY <1>3
  <2> QED BY <2>2, <2>3
<1>5. CursorInv'
    BY <1>1, <1>2, <1>3, <1>4 DEF CursorInv
<1>6. value'["rx"] # 0 => value'["rx"] \in 1..(USHRT_MAX - 1)
  <2>1. CASE i = 1
    <3>1. Options[1] = [name |-> "rx", arity |-> 1] /\ Options[1].name = "rx" /\ Options[1].arity = 1
        BY Table
    <3>2. value'["rx"] = Meant(Options[1], arg_cursor)
        BY <2>1, <3>1, TakenValue
    <3>3. Meant(Options[1], arg_cursor) = Given(Options[1], LastWord(Options[1]))
        BY <3>1 DEF Meant, LastWord
    <3>4. Asserted("rx", Given(Options[1], LastWord(Options[1])))
        BY <2>1, <3>1 DEF Takes
    <3> QED BY <3>2, <3>3, <3>4, GivenInt, PortAsserted
  <2>2. CASE i # 1
    <3>1. value'[Options[1].name] = value[Options[1].name]
        BY <2>2, TakenValue
    <3> QED BY <3>1, OptionName DEF PortInv
  <2> QED BY <2>1, <2>2
<1>7. \A k \in 1..Len(target_ports') : target_ports'[k].port \in 1..(USHRT_MAX - 1)
  <2>1. CASE i = 2
    <3>1. /\ Len(target_ports) \in Nat /\ Len(target_ports') = Len(target_ports) + 1
          /\ target_ports'[Len(target_ports) + 1].port \in 1..(USHRT_MAX - 1)
          /\ \A k \in 1..Len(target_ports) : target_ports'[k] = target_ports[k]
        BY <2>1, TakenTargets
    <3>2. \A k \in 1..Len(target_ports) : target_ports[k].port \in 1..(USHRT_MAX - 1)
        BY DEF PortInv
    <3>3. \A k \in 1..(Len(target_ports) + 1) : k \in 1..Len(target_ports) \/ k = Len(target_ports) + 1
        BY <3>1
    <3> QED BY <3>1, <3>2, <3>3
  <2>2. CASE i # 2
      BY <2>2, TakenTarget DEF PortInv
  <2> QED BY <2>1, <2>2
<1> QED BY <1>5, <1>6, <1>7 DEF PortInv

-----------------------------------------------------------------------------
(* What has been read *)

\* The clauses of all options but i stay as they were read, and i has one more.
LEMMA SeenTake ==
    ASSUME CursorInv, ClauseInv, Unambiguous, NEW i \in 1..12, Takes(i)
    PROVE  /\ Unambiguous' /\ Matching' = {}
           /\ \A j \in 1..12 : j # i => Seen(Options[j])' = Seen(Options[j])
           /\ Seen(Options[i])' = Seen(Options[i]) \cup {arg_cursor}
           /\ Seen(Options[i]) \subseteq 1..(arg_cursor - 1)
<1>1. /\ argv' = argv /\ Len(argv) \in Nat /\ arg_cursor \in 1..Len(argv) /\ DOMAIN argv = 1..Len(argv)
      /\ arg_cursor' = arg_cursor + Options[i].arity /\ arg_cursor + Options[i].arity <= Len(argv)
      /\ untried' = i + 1 /\ Matching = {i} /\ Options[i].name = argv[arg_cursor]
    BY DEF CursorInv, Takes
<1>2. untried = 1 /\ Done = arg_cursor - 1
  <2>1. untried \in Nat /\ untried >= 1 /\ ~(untried > 1)
      BY <1>1 DEF CursorInv, ClauseInv
  <2>2. untried = 1
      BY <2>1
  <2> QED BY <2>2 DEF Done
<1>3. Options[i].arity \in 0..2 /\ Done' = arg_cursor + Options[i].arity
  <2>1. untried' # 1
      BY <1>1
  <2>2. Done' = arg_cursor'
      BY <2>1 DEF Done
  <2> QED BY <1>1, <2>2, OptionArity
<1>4. Unambiguous'
    BY <1>1 DEF Unambiguous, At
<1>5. \A j \in 1..12 : At(Options[j])' = At(Options[j])
    BY <1>1 DEF At
<1>6. \A q \in (arg_cursor + 1)..(arg_cursor + Options[i].arity) : q \in 1..Len(argv) /\ argv[q] \notin Names
  <2>1. arg_cursor \in At(Options[i]) /\ i \in DOMAIN Options
      BY <1>1, Table DEF At
  <2>2. \A q \in (arg_cursor + 1)..(arg_cursor + Options[i].arity) : q \in 1..Len(argv) /\ q <= Len(argv)
      BY <1>1, <1>3
  <2> QED BY <2>1, <2>2 DEF Unambiguous
<1>7. \A j \in 1..12 : Options[j].name \in Names
    BY NamesAre
<1>8. ASSUME NEW j \in 1..12, NEW q
      PROVE  q \in Seen(Options[j])' <=> q \in Seen(Options[j]) \/ (q = arg_cursor /\ j = i)
  <2>1. q \in Seen(Options[j])' <=> q \in At(Options[j]) /\ q \in 1..(arg_cursor + Options[i].arity)
      BY <1>3, <1>5 DEF Seen
  <2>2. q \in Seen(Options[j]) <=> q \in At(Options[j]) /\ q \in 1..(arg_cursor - 1)
      BY <1>2 DEF Seen
  <2>3. q \in At(Options[j]) <=> q \in 1..Len(argv) /\ argv[q] = Options[j].name
      BY <1>1 DEF At
  <2>4. CASE q = arg_cursor
    <3>1. q \in At(Options[j]) <=> j = i
        BY <1>1, <2>3, <2>4, NamesDistinct
    <3>2. q \in 1..(arg_cursor + Options[i].arity) /\ q \notin 1..(arg_cursor - 1)
        BY <1>1, <1>3, <2>4
    <3> QED BY <2>1, <2>2, <2>4, <3>1, <3>2
  <2>5. CASE q \in (arg_cursor + 1)..(arg_cursor + Options[i].arity)
    <3>1. q \notin At(Options[j])
        BY <1>6, <1>7, <2>3, <2>5
    <3>2. q # arg_cursor
        BY <1>1, <2>5
    <3> QED BY <2>1, <2>2, <3>1, <3>2
  <2>6. CASE q # arg_cursor /\ q \notin (arg_cursor + 1)..(arg_cursor + Options[i].arity)
    <3>1. q \in 1..(arg_cursor + Options[i].arity) <=> q \in 1..(arg_cursor - 1)
        BY <1>1, <1>3, <2>6
    <3> QED BY <2>1, <2>2, <2>6, <3>1
  <2> QED BY <2>4, <2>5, <2>6
<1>9. Matching' = {}
  <2> SUFFICES ASSUME NEW j \in Matching' PROVE FALSE
      OBVIOUS
  <2>1. j \in 1..12 /\ j > i /\ Options[j].name = argv[arg_cursor + Options[i].arity]
      BY <1>1, Table DEF Matching
  <2>2. CASE Options[i].arity = 0
    <3>1. arg_cursor + Options[i].arity = arg_cursor
        BY <1>1, <2>2
    <3>2. j = i
        BY <1>1, <2>1, <3>1, NamesDistinct
    <3> QED BY <2>1, <3>2
  <2>3. CASE Options[i].arity # 0
    <3>1. arg_cursor + Options[i].arity \in (arg_cursor + 1)..(arg_cursor + Options[i].arity)
        BY <1>1, <1>3, <2>3
    <3> QED BY <1>6, <1>7, <2>1, <3>1
  <2> QED BY <2>2, <2>3
<1>10. Seen(Options[i]) \subseteq 1..(arg_cursor - 1)
    BY <1>2 DEF Seen
<1> QED BY <1>4, <1>8, <1>9, <1>10

\* A word that no option matches is no clause.
LEMMA SeenNext ==
    ASSUME CursorInv, NextWord
    PROVE  \A j \in 1..12 : Seen(Options[j])' = Seen(Options[j])
<1>1. /\ argv' = argv /\ Len(argv) \in Nat /\ arg_cursor \in 1..Len(argv) /\ DOMAIN argv = 1..Len(argv)
      /\ arg_cursor' = arg_cursor + 1 /\ untried' = 1 /\ untried \in Nat /\ untried >= 1 /\ Matching = {}
    BY DEF CursorInv, NextWord
<1>2. Done' = arg_cursor
    BY <1>1 DEF Done
<1>3. \A j \in 1..12 : At(Options[j])' = At(Options[j])
    BY <1>1 DEF At
<1>4. CASE untried = 1
  <2>1. Done = arg_cursor - 1
      BY <1>4 DEF Done
  <2>2. \A j \in 1..12 : Options[j].name # argv[arg_cursor]
      BY <1>1, <1>4, Table DEF Matching
  <2>3. \A j \in 1..12 : arg_cursor \notin At(Options[j])
      BY <2>2 DEF At
  <2>4. \A q : q \in 1..arg_cursor <=> q \in 1..(arg_cursor - 1) \/ q = arg_cursor
      BY <1>1
  <2> QED BY <1>2, <1>3, <2>1, <2>3, <2>4 DEF Seen
<1>5. CASE untried # 1
  <2>1. Done = arg_cursor
      BY <1>5 DEF Done
  <2> QED BY <1>2, <1>3, <2>1 DEF Seen
<1> QED BY <1>4, <1>5

-----------------------------------------------------------------------------
(* The clauses *)

LEMMA TakeValues ==
    ASSUME CliInv, Unambiguous, NEW i \in 1..12, Takes(i), NEW j \in 1..12
    PROVE  ValueInv(Options[j])'
<1>1. CursorInv /\ ClauseInv /\ argv' = argv /\ ValueInv(Options[j])
    BY DEF CliInv, ClauseInv, Takes
<1>2. \A p : Meant(Options[j], p)' = Meant(Options[j], p)
    BY <1>1 DEF Meant
<1>3. CASE j # i
  <2>1. Seen(Options[j])' = Seen(Options[j])
      BY <1>1, <1>3, SeenTake
  <2>2. Options[j].name \in Numeric \/ Options[j].arity = 0 => value'[Options[j].name] = value[Options[j].name]
    <3>1. Options[j].name \in Numeric \/ Options[j].arity = 0 => j \notin {2, 7}
        BY NumericAre, OptionArity
    <3> QED BY <1>1, <1>3, <3>1, TakenValue
  <2>3. Options[j].name = "checkphrase" => gcheckphrase' = gcheckphrase
    <3>1. Options[j].name = "checkphrase" => Options[i].name # "checkphrase"
        BY <1>3, NamesDistinct
    <3> QED BY <3>1 DEF Takes, Sets
  <2>4. Options[j].name = "initiate" => initiate_host' = initiate_host
    <3>1. Options[j].name = "initiate" => Options[i].name # "initiate"
        BY <1>3, NamesDistinct
    <3> QED BY <3>1 DEF Takes, Sets
  <2> QED BY <1>1, <1>2, <2>1, <2>2, <2>3, <2>4 DEF ValueInv
<1>4. CASE j = i
  <2>1. /\ Seen(Options[i])' = Seen(Options[i]) \cup {arg_cursor}
        /\ Seen(Options[i]) \subseteq 1..(arg_cursor - 1)
      BY <1>1, SeenTake
  <2>2. Seen(Options[i])' # {} /\ Max(Seen(Options[i])') = arg_cursor
    <3>1. arg_cursor \in Int
        BY DEF Takes
    <3>2. Seen(Options[i]) \subseteq Int /\ \A q \in Seen(Options[i]) : q < arg_cursor
        BY <2>1, <3>1
    <3>3. Max(Seen(Options[i]) \cup {arg_cursor}) = arg_cursor
        BY <3>1, <3>2, MaxLast
    <3> QED BY <2>1, <3>3
  <2>3. Options[i].name \in Numeric /\ Options[i].arity > 0 =>
            value'[Options[i].name] = Meant(Options[i], arg_cursor)
    <3>1. Options[i].name \in Numeric => i \notin {2, 7}
        BY NumericAre
    <3>2. Options[i].arity \in 0..2
        BY OptionArity
    <3>3. Options[i].arity > 0 => Options[i].arity # 0
        BY <3>2
    <3> QED BY <1>1, <3>1, <3>3, TakenValue
  <2>4. Options[i].arity = 0 => value'[Options[i].name] = 1
    <3>1. Options[i].arity = 0 => i \notin {2, 7}
        BY OptionArity
    <3> QED BY <1>1, <3>1, TakenValue
  <2>5. Options[i].name = "checkphrase" => gcheckphrase' = argv[arg_cursor + 1]
    <3>1. Options[i].name = "checkphrase" => Options[i].arity = 1
        BY Table, OptionName, NamesDistinct
    <3> QED BY <3>1 DEF Takes, Sets, LastWord
  <2>6. Options[i].name = "initiate" => initiate_host' = argv[arg_cursor + 1]
      BY DEF Takes, Sets
  <2> QED BY <1>1, <1>2, <1>4, <2>2, <2>3, <2>4, <2>5, <2>6 DEF ValueInv
<1> QED BY <1>3, <1>4

\* A place behind all others is counted behind all others.
LEMMA CountLast ==
    ASSUME NEW p \in Nat, NEW S, S \subseteq 1..(p - 1), p > 0
    PROVE  /\ Cardinality(S) \in Nat /\ Cardinality(S \cup {p}) = Cardinality(S) + 1
           /\ (S \cup {p}) \cap 1..p = S \cup {p}
           /\ \A q \in S : (S \cup {p}) \cap 1..q = S \cap 1..q
           /\ \A q \in S : Cardinality(S \cap 1..q) \in 1..Cardinality(S)
<1>1. IsFiniteSet(S) /\ Cardinality(S) \in Nat /\ p \notin S
  <2>1. IsFiniteSet(1..(p - 1))
      BY FS_Interval
  <2>2. p \notin S
      OBVIOUS
  <2> QED BY <2>1, <2>2, FS_Subset, FS_CardinalityType
<1>2. Cardinality(S \cup {p}) = Cardinality(S) + 1
    BY <1>1, FS_AddElement
<1>3. (S \cup {p}) \cap 1..p = S \cup {p}
  <2>1. S \cup {p} \subseteq 1..p
      OBVIOUS
  <2> QED BY <2>1
<1>4. ASSUME NEW q \in S
      PROVE  /\ (S \cup {p}) \cap 1..q = S \cap 1..q
             /\ Cardinality(S \cap 1..q) \in 1..Cardinality(S)
  <2>1. q \in 1..q /\ p \notin 1..q
      OBVIOUS
  <2>2. /\ IsFiniteSet(S \cap 1..q) /\ Cardinality(S \cap 1..q) <= Cardinality(S)
        /\ Cardinality(S \cap 1..q) \in Nat
      BY <1>1, FS_Subset, FS_CardinalityType
  <2>3. Cardinality(S \cap 1..q) # 0
      BY <2>1, <2>2, FS_EmptySet
  <2>4. Cardinality(S \cap 1..q) \in 1..Cardinality(S)
      BY <1>1, <2>2, <2>3
  <2> QED BY <2>1, <2>4
<1> QED BY <1>1, <1>2, <1>3, <1>4

LEMMA TakeTargets ==
    ASSUME CliInv, Unambiguous, NEW i \in 1..12, Takes(i)
    PROVE  TargetInv'
<1>1. CursorInv /\ PortInv /\ ClauseInv /\ TargetInv /\ argv' = argv
    BY DEF CliInv, ClauseInv, Takes
<1>2. CASE i # 2
  <2>1. Seen(Options[2])' = Seen(Options[2]) /\ target_ports' = target_ports
      BY <1>1, <1>2, SeenTake, TakenTarget
  <2> QED BY <1>1, <2>1 DEF TargetInv
<1>3. CASE i = 2
  <2> DEFINE Clause(q) == [name |-> argv[q + 1], port |-> atoi(argv[q + 2])]
  <2>1. PICK S, p : S = Seen(Options[2]) /\ p = arg_cursor
      OBVIOUS
  <2>2. Seen(Options[2])' = S \cup {p} /\ S \subseteq 1..(p - 1) /\ p \in Nat /\ p > 0
      BY <1>1, <1>3, <2>1, SeenTake DEF Takes
  <2>3. PICK m : m = Len(target_ports)
      OBVIOUS
  <2>4. /\ m \in Nat /\ Len(target_ports') = m + 1
        /\ target_ports'[m + 1] = Clause(p)
        /\ \A k \in 1..m : target_ports'[k] = target_ports[k]
      BY <1>1, <1>3, <2>1, <2>3, TakenTargets
  <2>5. m = Cardinality(S) /\ \A q \in S : target_ports[Cardinality(S \cap 1..q)] = Clause(q)
      BY <1>1, <2>1, <2>3 DEF TargetInv
  <2> HIDE DEF Clause
  <2>6. Len(target_ports') = Cardinality(S \cup {p})
      BY <2>2, <2>4, <2>5, CountLast
  <2>7. ASSUME NEW q \in S \cup {p}
        PROVE  target_ports'[Cardinality((S \cup {p}) \cap 1..q)] = Clause(q)
    <3>1. CASE q = p
        BY <2>2, <2>4, <2>5, <3>1, CountLast
    <3>2. CASE q \in S
      <4>1. (S \cup {p}) \cap 1..q = S \cap 1..q /\ Cardinality(S \cap 1..q) \in 1..m
          BY <2>2, <2>5, <3>2, CountLast
      <4> QED BY <2>4, <2>5, <3>2, <4>1
    <3> QED BY <3>1, <3>2
  <2> USE DEF Clause
  <2> QED BY <1>1, <2>2, <2>6, <2>7 DEF TargetInv
<1> QED BY <1>2, <1>3

-----------------------------------------------------------------------------
(* The invariant holds *)

LEMMA SeqGrows ==
    ASSUME NEW S, NEW T, S \subseteq T, NEW s \in Seq(S)
    PROVE  s \in Seq(T)
OBVIOUS

LEMMA OneMore ==
    ASSUME NEW S, NEW e \in S, NEW s \in Seq(S)
    PROVE  <<e>> \o s \in Seq(S)
OBVIOUS

LEMMA CliInitially == Init => CliInv
<1> SUFFICES ASSUME Init PROVE CliInv
    OBVIOUS
<1>1. PICK line \in Lines : argv = <<"viamillipede">> \o line
    BY DEF Init
<1>2. /\ arg_cursor = 1 /\ untried = 1 /\ value = Default
      /\ gcheckphrase = "yoes" /\ initiate_host = "NULL" /\ target_ports = <<>> /\ proc = "parse"
    BY DEF Init
<1>3. argv \in Seq(Word) /\ Len(argv) \in Nat /\ arg_cursor \in 1..(Len(argv) + 1)
  <2>1. line \in Seq(Word)
    <3>1. line \in Seq(STRING) /\ STRING \subseteq Word
        BY CliAssumption DEF Word
    <3> QED BY <3>1, SeqGrows
  <2>2. "viamillipede" \in Word
      BY DEF Word
  <2>3. argv \in Seq(Word)
      BY <1>1, <2>1, <2>2, OneMore, Zenon
  <2> QED BY <1>2, <2>3
<1>4. Default \in [Numeric -> Int]
    BY DEF Default
<1>5. target_ports \in Seq(Target) /\ Len(target_ports) = 0
    BY <1>2
<1>6. CursorInv
    BY <1>2, <1>3, <1>4, <1>5 DEF CursorInv
<1>7. "rx" \in Numeric /\ Default["rx"] = 0
    BY NumericAre, OptionName DEF Default
<1>8. PortInv
    BY <1>2, <1>5, <1>7 DEF PortInv
<1>9. \A o : Seen(o) = {}
    BY <1>2 DEF Seen, Done
<1>10. ASSUME NEW i \in 1..12 PROVE ValueInv(Options[i])
  <2>1. Options[i].arity = 0 => Default[Options[i].name] = 0
    <3>1. Options[i].arity = 0 => Options[i].name \in Numeric /\ Options[i].name # "threads"
        BY NumericAre, OptionArity, OptionName
    <3> QED BY <3>1 DEF Default
  <2> QED BY <1>2, <1>9, <2>1 DEF ValueInv
<1>11. TargetInv
    BY <1>5, <1>9, FS_EmptySet DEF TargetInv
<1>12. ClauseInv
    BY <1>2, <1>10, <1>11 DEF ClauseInv
<1> QED BY <1>6, <1>8, <1>12 DEF CliInv

\* A step that sets nothing and leaves the clauses that were read as they are.
LEMMA NothingSet ==
    ASSUME CliInv, UNCHANGED <<argv, value, gcheckphrase, initiate_host, target_ports>>,
           \A j \in 1..12 : Seen(Options[j])' = Seen(Options[j]),
           untried' > 1 => untried > 1 /\ Matching' = Matching
    PROVE  PortInv' /\ ClauseInv'
<1>1. PortInv /\ ClauseInv
    BY DEF CliInv
<1>2. PortInv'
    BY <1>1 DEF PortInv
<1>3. Unambiguous' <=> Unambiguous
    BY DEF Unambiguous, At
<1>4. ASSUME Unambiguous, NEW i \in 1..12 PROVE ValueInv(Options[i])'
  <2>1. \A p : Meant(Options[i], p)' = Meant(Options[i], p)
      BY DEF Meant
  <2>2. ValueInv(Options[i]) /\ Seen(Options[i])' = Seen(Options[i])
      BY <1>1, <1>4 DEF ClauseInv
  <2> QED BY <2>1, <2>2 DEF ValueInv
<1>5. ASSUME Unambiguous PROVE TargetInv'
  <2>1. TargetInv /\ Seen(Options[2])' = Seen(Options[2])
      BY <1>1, <1>5 DEF ClauseInv
  <2> QED BY <2>1 DEF TargetInv
<1>6. Unambiguous => (untried' > 1 => Matching' = {})
    BY <1>1 DEF ClauseInv
<1> QED BY <1>2, <1>3, <1>4, <1>5, <1>6 DEF ClauseInv

LEMMA CliKeeps == CliInv /\ [Next]_vars => CliInv'
<1> SUFFICES ASSUME CliInv, [Next]_vars PROVE CliInv'
    OBVIOUS
<1>1. CursorInv /\ PortInv /\ ClauseInv
    BY DEF CliInv
<1>2. CASE Take
  <2>1. PICK i \in 1..12 : Takes(i)
      BY <1>1, <1>2, TakeOne
  <2>2. CursorInv' /\ PortInv'
      BY <1>1, <2>1, TakeCursor
  <2>3. Unambiguous' <=> Unambiguous
      BY <2>1 DEF Unambiguous, At, Takes
  <2>4. ASSUME Unambiguous PROVE Matching' = {} /\ TargetInv' /\ \A j \in 1..12 : ValueInv(Options[j])'
      BY <1>1, <2>1, <2>4, SeenTake, TakeTargets, TakeValues
  <2> QED BY <2>2, <2>3, <2>4 DEF CliInv, ClauseInv
<1>3. CASE NextWord
  <2>1. \A j \in 1..12 : Seen(Options[j])' = Seen(Options[j])
      BY <1>1, <1>3, SeenNext
  <2>2. UNCHANGED <<argv, value, gcheckphrase, initiate_host, target_ports, proc>> /\ untried' = 1 /\ proc # "ready"
        /\ arg_cursor' = arg_cursor + 1 /\ arg_cursor <= Len(argv)
      BY <1>3 DEF NextWord
  <2>3. CursorInv'
      BY <1>1, <2>2 DEF CursorInv
  <2>4. ~(untried' > 1)
      BY <2>2
  <2>5. PortInv' /\ ClauseInv'
      BY <2>1, <2>2, <2>4, NothingSet
  <2> QED BY <2>3, <2>5 DEF CliInv
<1>4. CASE Refuse \/ Finish \/ UNCHANGED vars
  <2>1. UNCHANGED <<argv, arg_cursor, untried, value, gcheckphrase, initiate_host, target_ports>>
      BY <1>4 DEF Refuse, Finish, vars
  <2>2. proc' = "ready" => arg_cursor = Len(argv) + 1
    <3>1. CASE Refuse
        BY <3>1 DEF Refuse
    <3>2. CASE Finish
        BY <1>1, <3>2 DEF Finish, CursorInv
    <3>3. CASE UNCHANGED vars
        BY <1>1, <3>3 DEF CursorInv, vars
    <3> QED BY <1>4, <3>1, <3>2, <3>3
  <2>3. CursorInv'
      BY <1>1, <2>1, <2>2 DEF CursorInv
  <2>4. \A j \in 1..12 : Seen(Options[j])' = Seen(Options[j])
      BY <2>1 DEF Seen, At, Done
  <2>5. untried' = untried /\ Matching' = Matching
      BY <2>1 DEF Matching
  <2>6. PortInv' /\ ClauseInv'
      BY <2>1, <2>4, <2>5, NothingSet
  <2> QED BY <2>3, <2>6 DEF CliInv
<1> QED BY <1>2, <1>3, <1>4 DEF Next

LEMMA CliInvariance == Spec => []CliInv
BY CliInitially, CliKeeps, PTL DEF Spec

\* Once the process is ready the whole line has been read.
LEMMA AllSeen ==
    ASSUME CliInv, proc = "ready"
    PROVE  \A o : Seen(o) = At(o)
<1>1. CursorInv
    BY DEF CliInv
<1>2. arg_cursor = Len(argv) + 1 /\ Len(argv) \in Nat /\ DOMAIN argv = 1..Len(argv)
    BY <1>1 DEF CursorInv
<1>3. untried = 1
    BY <1>1, <1>2 DEF CursorInv
<1>4. Done = Len(argv)
    BY <1>2, <1>3 DEF Done
<1> QED BY <1>2, <1>4 DEF Seen, At

-----------------------------------------------------------------------------
(***************************************************************************)
(* A process that starts has ports between 1 and USHRT_MAX - 1, whatever   *)
(* (short) did to them and however the words were read                     *)
(* (viamillipede.c:91-93, viamillipede.c:110-113).                         *)
(***************************************************************************)
THEOREM PortsAreUsable == Spec => []PortsUsable
<1>1. CliInv => PortsUsable
    BY DEF CliInv, PortInv, PortsUsable, CursorInv
<1> QED BY <1>1, CliInvariance, PTL

(***************************************************************************)
(* On a line in which no argument is spelt like an option, an option is    *)
(* what its last clause says, wherever that stands                         *)
(* (viamillipede.c:81-201).                                                *)
(***************************************************************************)
THEOREM ClausesInAnyOrder == Spec => []LastClauseWins
<1>1. CliInv => LastClauseWins
  <2> SUFFICES ASSUME CliInv, proc = "ready", Unambiguous
               PROVE  LastClauseWins
      BY DEF LastClauseWins
  <2>1. \A i \in 1..12 : ValueInv(Options[i]) /\ Seen(Options[i]) = At(Options[i])
      BY AllSeen DEF CliInv, ClauseInv
  <2> QED BY <2>1, Table DEF LastClauseWins, ValueInv, Meant
<1> QED BY <1>1, CliInvariance, PTL

(***************************************************************************)
(* On such a line the targets stand in the order of their "tx" clauses,    *)
(* one for each (viamillipede.c:98-120).                                   *)
(***************************************************************************)
THEOREM TargetsInLineOrder == Spec => []TargetsInOrder
<1>1. CliInv => TargetsInOrder
  <2> SUFFICES ASSUME CliInv, proc = "ready", Unambiguous
               PROVE  TargetsInOrder
      BY DEF TargetsInOrder
  <2>1. TargetInv /\ Seen(Options[2]) = At(Options[2]) /\ Options[2] = Opt("tx", 2)
      BY AllSeen, Table DEF CliInv, ClauseInv, Opt
  <2> QED BY <2>1 DEF TargetsInOrder, TargetInv
<1> QED BY <1>1, CliInvariance, PTL
=============================================================================
