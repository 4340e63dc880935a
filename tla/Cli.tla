-------------------------------- MODULE Cli --------------------------------
(***************************************************************************)
(* The command line (main() in viamillipede.c).  For the word under        *)
(* arg_cursor the options are tried in the order of Options.  One that     *)
(* matches moves arg_cursor on to its last argument, and the options after *)
(* it are then tried on that argument: the tests are not alternatives.     *)
(* "chaos" is there only in a build with CHAOS and is left out.            *)
(***************************************************************************)
EXTENDS Integers, Sequences, FiniteSetsExt

CONSTANTS
    Lines,               \* command lines, without the program's name
    Number, AnyBase,     \* the number that a word begins with, if it does, in base
                         \* ten and in the base that its prefix gives
    kthreadmax

ASSUME CliAssumption ==
    /\ Lines \subseteq Seq(STRING)
    /\ \A w \in DOMAIN Number : Number[w] \in Int
    /\ \A w \in DOMAIN AnyBase : AnyBase[w] \in Int
    /\ kthreadmax \in Nat

Opt(name, arity) == [name |-> name, arity |-> arity]
Options == << Opt("rx", 1), Opt("tx", 2), Opt("threads", 1), Opt("verbose", 1), Opt("checksums", 0),
              Opt("delayus", 1), Opt("checkphrase", 1), Opt("terminate", 1), Opt("initiate", 2),
              Opt("charmode", 0), Opt("prbs", 1), Opt("leglimit", 1) >>
Names == {Options[i].name : i \in DOMAIN Options}
Numeric == Names \ {"tx", "checkphrase"}

VARIABLES
    argv, arg_cursor,
    untried,        \* index of the first option not yet tried on the word
    value,          \* value[o]: the number that option o has set; an unsigned int or
                    \* long keeps a negative one modulo its width
    gcheckphrase, initiate_host, target_ports,
    proc

vars == <<argv, arg_cursor, untried, value, gcheckphrase, initiate_host, target_ports, proc>>

Default == [o \in Numeric |-> IF o = "threads" THEN 16 ELSE 0]

\* The program's own name is word 1, and is tried like the others.
Init ==
    /\ \E line \in Lines : argv = <<"viamillipede">> \o line
    /\ arg_cursor = 1 /\ untried = 1
    /\ value = Default /\ gcheckphrase = "yoes" /\ initiate_host = "NULL" /\ target_ports = <<>>
    /\ proc = "parse"

\* A word that is no number is 0.
atoi(w) == IF w \in DOMAIN Number THEN Number[w] ELSE 0
strtoul(w) == IF w \in DOMAIN AnyBase THEN AnyBase[w] ELSE 0

\* The number that w is to option o.
Given(o, w) == IF o.name \in {"prbs", "leglimit"} THEN strtoul(w) ELSE atoi(w)

USHRT_MAX == 65535

\* (short) of a port, kept in an unsigned short.
Port(p) == (IF p > 32767 THEN p - 65536 ELSE p) % 65536

\* Mutant: the lower end of the range is let through.
AssertedZero(o, n) ==
    CASE o \in {"rx", "tx"} -> 0 <= n /\ n < USHRT_MAX
      [] o = "threads" -> n <= 16
      [] OTHER -> TRUE

\* What is asserted of the number that follows option o.
Asserted(o, n) ==
    CASE o \in {"rx", "tx"} -> 0 < n /\ n < USHRT_MAX
      [] o = "threads" -> n <= 16
      [] OTHER -> TRUE

Matching == {i \in untried..Len(Options) : Options[i].name = argv[arg_cursor]}

\* Mutant: the number is taken from the first argument.
LastWordFirst(o) == argv[arg_cursor + IF o.arity > 0 THEN 1 ELSE 0]

\* The last argument of o.
LastWord(o) == argv[arg_cursor + o.arity]

\* Mutant: target_port_count is not stepped.
WithTargetOnly(n) == <<[name |-> argv[arg_cursor + 1], port |-> Port(n)]>>

\* The targets once those of a "tx" clause are there too.
WithTarget(n) == Append(target_ports, [name |-> argv[arg_cursor + 1], port |-> Port(n)])

\* What option o, with n as its number, sets.
Sets(o, n) ==
    /\ value' = IF o.name \notin Numeric THEN value
                ELSE [value EXCEPT ![o.name] = CASE o.arity = 0 -> 1
                                                 [] o.name \in {"rx", "initiate"} -> Port(n)
                                                 [] OTHER -> n]
    /\ gcheckphrase' = IF o.name = "checkphrase" THEN LastWord(o) ELSE gcheckphrase
    /\ initiate_host' = IF o.name = "initiate" THEN argv[arg_cursor + 1] ELSE initiate_host
    /\ target_ports' = IF o.name = "tx" THEN WithTarget(n) ELSE target_ports

\* The next option that matches has its arguments, and they are accepted.
Take ==
    /\ proc = "parse" /\ arg_cursor <= Len(argv) /\ Matching # {}
    /\ LET i == Min(Matching)
           o == Options[i]
       IN  /\ arg_cursor + o.arity <= Len(argv)
           /\ o.arity = 2 => argv[arg_cursor + 1] # ""
           /\ Asserted(o.name, Given(o, LastWord(o)))
           /\ o.name = "tx" => Len(target_ports) < kthreadmax
           /\ Sets(o, Given(o, LastWord(o)))
           /\ arg_cursor' = arg_cursor + o.arity
           /\ untried' = i + 1
    /\ UNCHANGED <<argv, proc>>

(***************************************************************************)
(* An argument is missing or refused: an assertion ends the process.       *)
(* "initiate" does not look for the end of argv and meets its null         *)
(* pointer; a target too many is written behind target_ports once its host *)
(* is accepted, before its port is looked at.  What either does is         *)
(* undefined.                                                              *)
(***************************************************************************)
Refuse ==
    /\ proc = "parse" /\ arg_cursor <= Len(argv) /\ Matching # {}
    /\ LET o == Options[Min(Matching)]
           missing == arg_cursor + o.arity > Len(argv)
           fishy == o.arity = 2 /\ arg_cursor < Len(argv) /\ argv[arg_cursor + 1] = ""
           refused == ~missing /\ ~Asserted(o.name, Given(o, LastWord(o)))
           overrun == o.name = "tx" /\ arg_cursor < Len(argv) /\ Len(target_ports) >= kthreadmax
       IN  /\ missing \/ fishy \/ refused \/ overrun
           /\ proc' = IF ~fishy /\ (overrun \/ (missing /\ o.name = "initiate"))
                      THEN "undefined" ELSE "assert"
    /\ UNCHANGED <<argv, arg_cursor, untried, value, gcheckphrase, initiate_host, target_ports>>

\* No option is left to try: on to the next word.  Words nobody knows are skipped.
NextWord ==
    /\ proc = "parse" /\ arg_cursor <= Len(argv) /\ Matching = {}
    /\ arg_cursor' = arg_cursor + 1 /\ untried' = 1
    /\ UNCHANGED <<argv, value, gcheckphrase, initiate_host, target_ports, proc>>

\* All words are done; terminate and initiate exclude each other.
Finish ==
    /\ proc = "parse" /\ arg_cursor > Len(argv)
    /\ proc' = IF value["terminate"] # 0 /\ value["initiate"] # 0 THEN "assert" ELSE "ready"
    /\ UNCHANGED <<argv, arg_cursor, untried, value, gcheckphrase, initiate_host, target_ports>>

Next == Take \/ Refuse \/ NextWord \/ Finish

Spec == Init /\ [][Next]_vars

-----------------------------------------------------------------------------
\* Positions of option o when every option's name stands for the option.
At(o) == {p \in DOMAIN argv : argv[p] = o.name}

\* No argument is spelt like an option.
Unambiguous == \A i \in DOMAIN Options : \A p \in At(Options[i]) :
    \A q \in (p + 1)..(p + Options[i].arity) : q <= Len(argv) => argv[q] \notin Names

(***************************************************************************)
(* When no argument is spelt like an option, clauses mean the same in any  *)
(* order: an option has the value its last clause gives it, or its         *)
(* default; only the unchecked port of "initiate" is kept modulo the width *)
(* of an unsigned short (viamillipede.c:81-201).                           *)
(***************************************************************************)
LastClauseWins ==
    proc = "ready" /\ Unambiguous =>
        \A i \in DOMAIN Options : LET o == Options[i] IN
              /\ o.name \in Numeric /\ o.arity > 0 =>
                    value[o.name] =
                        IF At(o) = {} THEN Default[o.name]
                        ELSE LET n == Given(o, argv[Max(At(o)) + o.arity])
                             IN  IF o.name = "initiate" THEN n % 65536 ELSE n
              /\ o.arity = 0 => (value[o.name] = 1) = (At(o) # {})
              /\ o.name = "checkphrase" => gcheckphrase = IF At(o) = {} THEN "yoes" ELSE argv[Max(At(o)) + 1]
              /\ o.name = "initiate" => initiate_host = IF At(o) = {} THEN "NULL" ELSE argv[Max(At(o)) + 1]

(***************************************************************************)
(* Under the same condition the k-th target is that of the k-th "tx"       *)
(* clause, which is the order links are used in (README.md:91,             *)
(* viamillipede.c:98-120).                                                 *)
(***************************************************************************)
TargetsInOrder ==
    proc = "ready" /\ Unambiguous =>
        LET at == At(Opt("tx", 2)) IN
        /\ Len(target_ports) = Cardinality(at)
        /\ \A p \in at :
              target_ports[Cardinality(at \cap 1..p)] = [name |-> argv[p + 1], port |-> atoi(argv[p + 2])]

(***************************************************************************)
(* A process that starts has ports between 1 and USHRT_MAX - 1, whatever   *)
(* (short) did to them, also when an argument was read as an option        *)
(* (viamillipede.c:91-93, viamillipede.c:110-113).                         *)
(***************************************************************************)
PortsUsable ==
    proc = "ready" =>
        /\ value["rx"] # 0 => value["rx"] \in 1..(USHRT_MAX - 1)
        /\ \A k \in DOMAIN target_ports : target_ports[k].port \in 1..(USHRT_MAX - 1)
=============================================================================
