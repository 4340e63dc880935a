--------------------------- MODULE ChecksumProofs ---------------------------
(***************************************************************************)
(* Proofs about Checksum, for every width of bytes, words and sum, every   *)
(* number of legs and connections, and whatever the exclusive or is.       *)
(*                                                                         *)
(* What the loop of mix() computes takes induction over its rounds.  The   *)
(* induction is stated for sets of numbers: it follows from the fact that  *)
(* "<" on Nat is well founded.                                             *)
(***************************************************************************)
EXTENDS Checksum, Integers, WellFoundedInduction, TLAPS

-----------------------------------------------------------------------------
(* Induction *)

\* A nonempty set of naturals has a least element.
LEMMA LeastElement ==
    ASSUME NEW T, T \subseteq Nat, T # {}
    PROVE  \E m \in T : \A k \in T : ~(k < m)
<1> DEFINE R == {ss \in Nat \X Nat : ss[1] < ss[2]}
<1>1. \E x \in T : \A y \in T : ~(<<y, x>> \in R)
  <2> HIDE DEF R
  <2>1. IsWellFoundedOn(R, Nat)
      BY NatLessThanWellFounded, Zenon DEF OpToRel, R
  <2> QED BY <2>1, WFMin, Zenon
<1> QED BY <1>1

\* Induction, for a property given as the set of numbers that have it.
LEMMA SetInduction ==
    ASSUME NEW T, 0 \in T, \A n \in Nat : n \in T => n + 1 \in T
    PROVE  \A n \in Nat : n \in T
<1> SUFFICES ASSUME Nat \ T # {} PROVE FALSE
    OBVIOUS
<1>1. PICK m \in Nat \ T : \A k \in Nat \ T : ~(k < m)
    BY LeastElement
<1>2. m # 0 /\ m - 1 \in Nat /\ m - 1 < m /\ (m - 1) + 1 = m
    BY <1>1
<1> QED BY <1>1, <1>2

\* f takes the steps that g says, from a up to n.
Computes(f, n, a, g) == f[0] = a /\ \A k \in 0..(n - 1) : f[k + 1] = g[<<k, f[k]>>]

\* The steps determine the values.
LEMMA ComputesOnce ==
    ASSUME NEW a, NEW g, NEW m \in Nat, NEW n \in Nat, NEW f, NEW h, Computes(f, m, a, g), Computes(h, n, a, g)
    PROVE  \A k \in Nat : k <= m /\ k <= n => f[k] = h[k]
<1> DEFINE T == {k \in Nat : k <= m /\ k <= n => f[k] = h[k]}
<1>1. 0 \in T
    BY DEF Computes
<1>2. ASSUME NEW k \in Nat, k \in T PROVE k + 1 \in T
  <2> SUFFICES ASSUME k + 1 <= m, k + 1 <= n PROVE f[k + 1] = h[k + 1]
      OBVIOUS
  <2>1. f[k] = h[k] /\ k \in 0..(m - 1) /\ k \in 0..(n - 1)
      BY <1>2
  <2> QED BY <2>1 DEF Computes
<1> HIDE DEF T
<1>3. \A k \in Nat : k \in T
    BY <1>1, <1>2, SetInduction
<1> QED BY <1>3 DEF T

\* Step functions on S, and the functions that follow one from a.
Steps(S) == [Nat \X S -> S]
Solves(f, S, a, g) == f \in [Nat -> S] /\ f[0] = a /\ \A k \in Nat : f[k + 1] = g[<<k, f[k]>>]

\* A recursive definition by such steps is met by a function.
LEMMA Recursion ==
    ASSUME NEW S, NEW a \in S, NEW g \in Steps(S)
    PROVE  \E f : Solves(f, S, a, g)
<1> USE DEF Steps
<1> DEFINE T == {n \in Nat : \E f \in [0..n -> S] : Computes(f, n, a, g)}
<1>1. 0 \in T
  <2>1. [i \in 0..0 |-> a] \in [0..0 -> S] /\ Computes([i \in 0..0 |-> a], 0, a, g)
      BY DEF Computes
  <2> QED BY <2>1
<1>2. ASSUME NEW n \in Nat, n \in T PROVE n + 1 \in T
  <2>1. PICK f \in [0..n -> S] : Computes(f, n, a, g)
      BY <1>2
  <2> DEFINE h == [i \in 0..(n + 1) |-> IF i = n + 1 THEN g[<<n, f[n]>>] ELSE f[i]]
  <2>2. h \in [0..(n + 1) -> S]
    <3>1. f[n] \in S /\ g[<<n, f[n]>>] \in S
        BY <2>1
    <3>2. \A i \in 0..(n + 1) : i # n + 1 => f[i] \in S
        BY <2>1
    <3> QED BY <3>1, <3>2
  <2>3. Computes(h, n + 1, a, g)
    <3>1. h[0] = a
        BY <2>1 DEF Computes
    <3>2. ASSUME NEW k \in 0..(n + 1 - 1) PROVE h[k + 1] = g[<<k, h[k]>>]
      <4>1. CASE k = n
        <5>1. h[n + 1] = g[<<n, f[n]>>] /\ h[n] = f[n]
            OBVIOUS
        <5> HIDE DEF h
        <5> QED BY <4>1, <5>1
      <4>2. CASE k # n
        <5>1. k \in 0..(n - 1) /\ k + 1 # n + 1 /\ k # n + 1 /\ k \in 0..(n + 1) /\ k + 1 \in 0..(n + 1)
            BY <4>2
        <5>2. f[k + 1] = g[<<k, f[k]>>]
            BY <2>1, <5>1 DEF Computes
        <5> QED BY <5>1, <5>2
      <4> QED BY <4>1, <4>2
    <3> HIDE DEF h
    <3> QED BY <3>1, <3>2 DEF Computes
  <2> HIDE DEF h
  <2> QED BY <2>2, <2>3
<1> HIDE DEF T
<1>3. \A n \in Nat : n \in T
    BY <1>1, <1>2, SetInduction
<1>4. \A n \in Nat : \E f \in [0..n -> S] : Computes(f, n, a, g)
    BY <1>3 DEF T
<1> DEFINE part == [n \in Nat |-> CHOOSE f \in [0..n -> S] : Computes(f, n, a, g)]
           F == [n \in Nat |-> part[n][n]]
<1>5. \A n \in Nat : part[n] \in [0..n -> S] /\ Computes(part[n], n, a, g)
    BY <1>4
<1> HIDE DEF part
<1>6. ASSUME NEW n \in Nat PROVE part[n + 1][n] = part[n][n]
  <2>1. PICK p, q : p = part[n + 1] /\ q = part[n]
      OBVIOUS
  <2>2. Computes(p, n + 1, a, g) /\ Computes(q, n, a, g) /\ n + 1 \in Nat
      BY <1>5, <2>1
  <2>3. \A k \in Nat : k <= n + 1 /\ k <= n => p[k] = q[k]
      BY <2>2, ComputesOnce
  <2> QED BY <2>1, <2>3
<1>7. F \in [Nat -> S]
    BY <1>5
<1>8. F[0] = a
    BY <1>5 DEF Computes
<1>9. ASSUME NEW k \in Nat PROVE F[k + 1] = g[<<k, F[k]>>]
  <2>1. part[k + 1][k + 1] = g[<<k, part[k + 1][k]>>]
      BY <1>5 DEF Computes
  <2> QED BY <1>6, <2>1
<1> HIDE DEF F
<1> QED BY <1>7, <1>8, <1>9 DEF Solves

-----------------------------------------------------------------------------
(* Powers and division *)

LEMMA PowerDef ==
    /\ Power \in [Nat -> Nat] /\ Power[0] = 1
    /\ \A k \in Nat : Power[k + 1] = Radix * Power[k]
<1> DEFINE g == [x \in Nat \X Nat |-> Radix * x[2]]
<1>1. Radix \in Nat
    BY ChecksumAssumption
<1>2. g \in [Nat \X Nat -> Nat] /\ \A k, v \in Nat : g[<<k, v>>] = Radix * v
    BY <1>1
<1> HIDE DEF g
<1>3. PICK f : Solves(f, Nat, 1, g)
  <2>1. 1 \in Nat /\ g \in Steps(Nat)
      BY <1>2 DEF Steps
  <2> QED BY <2>1, Recursion
<1>4. \A k \in Nat : f[k] = IF k = 0 THEN 1 ELSE Radix * f[k - 1]
  <2> TAKE k \in Nat
  <2>1. CASE k # 0
    <3>1. k - 1 \in Nat /\ (k - 1) + 1 = k /\ f[k - 1] \in Nat
        BY <1>3, <2>1 DEF Solves
    <3>2. f[(k - 1) + 1] = g[<<k - 1, f[k - 1]>>]
        BY <1>3, <3>1 DEF Solves
    <3> QED BY <1>2, <2>1, <3>1, <3>2
  <2> QED BY <1>3, <2>1 DEF Solves
<1>5. f = [k \in Nat |-> IF k = 0 THEN 1 ELSE Radix * f[k - 1]]
    BY <1>3, <1>4 DEF Solves
<1>6. Power = [k \in Nat |-> IF k = 0 THEN 1 ELSE Radix * Power[k - 1]]
    BY <1>5, Zenon DEF Power
<1>7. PICK p : p = Power
    OBVIOUS
<1>8. p = [k \in Nat |-> IF k = 0 THEN 1 ELSE Radix * p[k - 1]]
    BY <1>6, <1>7
<1>9. p[0] = 1 /\ \A k \in Nat : p[k + 1] = Radix * p[k]
  <2>1. \A k \in Nat : p[k] = IF k = 0 THEN 1 ELSE Radix * p[k - 1]
      BY <1>8
  <2>2. \A k \in Nat : k + 1 \in Nat /\ k + 1 # 0 /\ k + 1 - 1 = k
      OBVIOUS
  <2> QED BY <2>1, <2>2
<1> DEFINE T == {k \in Nat : p[k] \in Nat}
<1>10. \A k \in Nat : k \in T
  <2>1. 0 \in T /\ \A k \in Nat : k \in T => k + 1 \in T
      BY <1>1, <1>9
  <2> HIDE DEF T
  <2> QED BY <2>1, SetInduction
<1>11. p \in [Nat -> Nat]
    BY <1>8, <1>10
<1> QED BY <1>7, <1>9, <1>11

LEMMA PowerPositive == \A k \in Nat : Power[k] \in Nat \ {0}
<1> DEFINE T == {k \in Nat : Power[k] \in Nat \ {0}}
<1>1. 0 \in T
    BY PowerDef
<1>2. ASSUME NEW k \in Nat, k \in T PROVE k + 1 \in T
  <2>1. PICK p, q, r : p = Power[k] /\ q = Power[k + 1] /\ r = Radix
      OBVIOUS
  <2>2. p \in Nat /\ p # 0 /\ r \in Nat /\ r # 0 /\ q = r * p
      BY <1>2, <2>1, PowerDef, ChecksumAssumption
  <2>3. q \in Nat /\ q # 0
      BY <2>2
  <2> QED BY <2>1, <2>3
<1> HIDE DEF T
<1>3. \A k \in Nat : k \in T
    BY <1>1, <1>2, SetInduction
<1> QED BY <1>3 DEF T

LEMMA DivisionFacts ==
    ASSUME NEW a \in Nat, NEW m \in Nat \ {0}
    PROVE  a % m \in 0..(m - 1) /\ \E q \in Int : a = q * m + (a % m)
<1>1. a % m \in 0..(m - 1)
    OBVIOUS
<1>2. a = (a \div m) * m + (a % m) /\ a \div m \in Int
    OBVIOUS
<1> QED BY <1>1, <1>2

\* A number below p and a multiple of p are told from their sum.
LEMMA DigitsUnique ==
    ASSUME NEW p \in Nat \ {0}, NEW x \in 0..(p - 1), NEW y \in 0..(p - 1), NEW b \in Nat, NEW c \in Nat,
           x + b * p = y + c * p
    PROVE  b = c /\ x = y
<1>1. ASSUME NEW d \in Nat, NEW e \in Nat, d < e PROVE e * p >= d * p + p
  <2>1. PICK r \in Nat : e = d + 1 + r
      BY <1>1
  <2>2. e * p = d * p + p + r * p /\ r * p >= 0
      BY <2>1
  <2> QED BY <2>2
<1>2. ~(b < c)
    BY <1>1
<1>3. ~(c < b)
    BY <1>1
<1>4. b = c
    BY <1>2, <1>3
<1> QED BY <1>4

\* x is a multiple of m.
Multiple(x, m) == \E q \in Int : x = q * m

-----------------------------------------------------------------------------
(* The number that bytes are *)

\* The sampled bytes, and the function that Number defines for them.
Bytes == [0..(Sample - 1) -> 0..(Radix - 1)]
Partial(bytes) == CHOOSE w : w = [k \in 0..Sample |-> IF k = 0 THEN 0 ELSE w[k - 1] + bytes[k - 1] * Power[k - 1]]

LEMMA NumberIsPartial == ASSUME NEW bytes PROVE Number(bytes) = Partial(bytes)[Sample]
BY DEF Number, Partial

LEMMA PartialDef ==
    ASSUME NEW bytes \in Bytes
    PROVE  /\ Partial(bytes)[0] = 0
           /\ \A k \in 0..(Sample - 1) : Partial(bytes)[k + 1] = Partial(bytes)[k] + bytes[k] * Power[k]
<1> DEFINE add(k) == IF k \in 0..(Sample - 1) THEN bytes[k] * Power[k] ELSE 0
           g == [x \in Nat \X Nat |-> x[2] + add(x[1])]
<1>1. Sample \in Nat /\ Sample > 0 /\ Radix \in Nat
    BY ChecksumAssumption
<1>2. \A k \in Nat : add(k) \in Nat
  <2> TAKE k \in Nat
  <2>1. CASE k \in 0..(Sample - 1)
    <3>1. bytes[k] \in Nat
        BY <1>1, <2>1 DEF Bytes
    <3>2. Power[k] \in Nat
        BY PowerDef
    <3>3. bytes[k] * Power[k] \in Nat
        BY <3>1, <3>2
    <3> QED BY <2>1, <3>3
  <2> QED BY <2>1
<1> HIDE DEF add
<1>3. g \in [Nat \X Nat -> Nat] /\ \A k, v \in Nat : g[<<k, v>>] = v + add(k)
    BY <1>2
<1> HIDE DEF g
<1>4. PICK f : Solves(f, Nat, 0, g)
  <2>1. 0 \in Nat /\ g \in Steps(Nat)
      BY <1>3 DEF Steps
  <2> QED BY <2>1, Recursion
<1> DEFINE h == [k \in 0..Sample |-> f[k]]
<1>5. ASSUME NEW k \in 0..Sample
      PROVE  h[k] = IF k = 0 THEN 0 ELSE h[k - 1] + bytes[k - 1] * Power[k - 1]
  <2>1. CASE k = 0
      BY <1>1, <1>4, <2>1 DEF Solves
  <2>2. CASE k # 0
    <3>1. k - 1 \in Nat /\ k - 1 \in 0..(Sample - 1) /\ k - 1 \in 0..Sample /\ (k - 1) + 1 = k
        BY <1>1, <2>2
    <3>2. f[(k - 1) + 1] = g[<<k - 1, f[k - 1]>>] /\ f[k - 1] \in Nat
        BY <1>4, <3>1 DEF Solves
    <3>3. add(k - 1) = bytes[k - 1] * Power[k - 1]
        BY <3>1 DEF add
    <3>4. f[k] = f[k - 1] + bytes[k - 1] * Power[k - 1]
        BY <1>3, <3>1, <3>2, <3>3
    <3> QED BY <2>2, <3>1, <3>4
  <2> QED BY <2>1, <2>2
<1>6. h = [k \in 0..Sample |-> IF k = 0 THEN 0 ELSE h[k - 1] + bytes[k - 1] * Power[k - 1]]
    BY <1>5
<1> HIDE DEF h
<1>7. Partial(bytes) = [k \in 0..Sample |-> IF k = 0 THEN 0
                                            ELSE Partial(bytes)[k - 1] + bytes[k - 1] * Power[k - 1]]
    BY <1>6, Zenon DEF Partial
<1>8. PICK p : p = Partial(bytes)
    OBVIOUS
<1>9. \A k \in 0..Sample : p[k] = IF k = 0 THEN 0 ELSE p[k - 1] + bytes[k - 1] * Power[k - 1]
    BY <1>7, <1>8
<1>10. 0 \in 0..Sample /\ \A k \in 0..(Sample - 1) : k + 1 \in 0..Sample /\ k + 1 # 0 /\ k + 1 - 1 = k
    BY <1>1
<1>11. p[0] = 0 /\ \A k \in 0..(Sample - 1) : p[k + 1] = p[k] + bytes[k] * Power[k]
    BY <1>9, <1>10
<1> QED BY <1>8, <1>11

\* The sampled bytes make a number that fits the sum.
LEMMA PartialRange ==
    ASSUME NEW bytes \in Bytes
    PROVE  \A k \in 0..Sample : Partial(bytes)[k] \in 0..(Power[k] - 1)
<1>1. PICK p : p = Partial(bytes)
    OBVIOUS
<1>2. Sample \in Nat /\ Radix \in Nat /\ Radix > 1
    BY ChecksumAssumption
<1> DEFINE T == {k \in Nat : k <= Sample => p[k] \in 0..(Power[k] - 1)}
<1>3. 0 \in T
  <2>1. p[0] = 0 /\ Power[0] = 1
      BY <1>1, PartialDef, PowerDef
  <2> QED BY <2>1
<1>4. ASSUME NEW k \in Nat, k \in T PROVE k + 1 \in T
  <2> SUFFICES ASSUME k + 1 <= Sample PROVE p[k + 1] \in 0..(Power[k + 1] - 1)
      OBVIOUS
  <2>1. p[k] \in 0..(Power[k] - 1) /\ k \in 0..(Sample - 1)
      BY <1>2, <1>4
  <2>2. PICK x, b, q : x = p[k] /\ b = bytes[k] /\ q = Power[k]
      OBVIOUS
  <2>3. q \in Nat /\ x \in 0..(q - 1)
      BY <2>1, <2>2, PowerPositive
  <2>4. b \in 0..(Radix - 1)
      BY <2>1, <2>2 DEF Bytes
  <2>5. p[k + 1] = x + b * q
      BY <1>1, <2>1, <2>2, PartialDef
  <2>6. Power[k + 1] = Radix * q
      BY <2>2, PowerDef
  <2>7. x + b * q \in 0..(Radix * q - 1)
    <3>1. PICK r \in Nat : Radix = b + 1 + r
        BY <1>2, <2>4
    <3>2. b * q \in Nat /\ r * q \in Nat /\ Radix * q = b * q + q + r * q
        BY <2>3, <2>4, <3>1
    <3> QED BY <2>3, <3>2
  <2> QED BY <2>5, <2>6, <2>7
<1> HIDE DEF T
<1>5. \A k \in Nat : k \in T
    BY <1>3, <1>4, SetInduction
<1>6. ASSUME NEW k \in 0..Sample PROVE p[k] \in 0..(Power[k] - 1)
  <2>1. k \in Nat /\ k <= Sample
      BY <1>2
  <2> QED BY <1>5, <2>1 DEF T
<1> QED BY <1>1, <1>6

\* Bytes that make the same number are the same.
LEMMA PartialInjective ==
    ASSUME NEW b \in Bytes, NEW c \in Bytes
    PROVE  \A k \in 0..Sample : Partial(b)[k] = Partial(c)[k] => \A i \in 0..(k - 1) : b[i] = c[i]
<1>1. PICK p, q : p = Partial(b) /\ q = Partial(c)
    OBVIOUS
<1>2. Sample \in Nat /\ Radix \in Nat
    BY ChecksumAssumption
<1> DEFINE T == {k \in Nat : k <= Sample /\ p[k] = q[k] => \A i \in 0..(k - 1) : b[i] = c[i]}
<1>3. 0 \in T
    OBVIOUS
<1>4. ASSUME NEW k \in Nat, k \in T PROVE k + 1 \in T
  <2> SUFFICES ASSUME k + 1 <= Sample, p[k + 1] = q[k + 1] PROVE \A i \in 0..(k + 1 - 1) : b[i] = c[i]
      OBVIOUS
  <2>1. k \in 0..(Sample - 1) /\ k \in 0..Sample
      BY <1>2
  <2>2. PICK x, y, d, e, m : x = p[k] /\ y = q[k] /\ d = b[k] /\ e = c[k] /\ m = Power[k]
      OBVIOUS
  <2>3. m \in Nat \ {0}
      BY <2>2, PowerPositive
  <2>4. x \in 0..(m - 1) /\ y \in 0..(m - 1)
      BY <1>1, <2>1, <2>2, PartialRange
  <2>5. d \in Nat /\ e \in Nat
      BY <1>2, <2>1, <2>2 DEF Bytes
  <2>6. p[k + 1] = x + d * m
      BY <1>1, <2>1, <2>2, PartialDef
  <2>7. q[k + 1] = y + e * m
      BY <1>1, <2>1, <2>2, PartialDef
  <2>8. d = e /\ x = y
      BY <2>3, <2>4, <2>5, <2>6, <2>7, DigitsUnique
  <2>9. k <= Sample /\ p[k] = q[k] => \A i \in 0..(k - 1) : b[i] = c[i]
      BY <1>4
  <2>10. k <= Sample /\ p[k] = q[k] /\ b[k] = c[k]
      BY <1>2, <2>1, <2>2, <2>8
  <2>11. ASSUME NEW i \in 0..(k + 1 - 1) PROVE b[i] = c[i]
    <3>1. i = k \/ i \in 0..(k - 1)
        OBVIOUS
    <3> QED BY <2>9, <2>10, <3>1
  <2> QED BY <2>11
<1> HIDE DEF T
<1>5. \A k \in Nat : k \in T
    BY <1>3, <1>4, SetInduction
<1>6. ASSUME NEW k \in 0..Sample, p[k] = q[k] PROVE \A i \in 0..(k - 1) : b[i] = c[i]
  <2>1. k \in Nat /\ k <= Sample
      BY <1>2
  <2> QED BY <1>5, <1>6, <2>1 DEF T
<1> QED BY <1>1, <1>6

-----------------------------------------------------------------------------
(* The rounds of mix() *)

\* The function that Accumulated defines.
Sums(seed, word) ==
    CHOOSE acc : acc = [k \in Nat |-> IF k = 0 THEN seed % SumRange
                                      ELSE (acc[k - 1] + word + (k - 1) * Word) % SumRange]

LEMMA AccumulatedIsSum == ASSUME NEW seed, NEW word, NEW n
                          PROVE  Accumulated(seed, word, n) = Sums(seed, word)[Rounds(n)]
BY DEF Accumulated, Sums

LEMMA SumsDef ==
    ASSUME NEW seed \in Nat, NEW word \in Nat
    PROVE  /\ \A k \in Nat : Sums(seed, word)[k] \in 0..(SumRange - 1)
           /\ Sums(seed, word)[0] = seed % SumRange
           /\ \A k \in Nat : Sums(seed, word)[k + 1] = (Sums(seed, word)[k] + word + k * Word) % SumRange
<1>1. PICK M, W : M = SumRange /\ W = Word
    OBVIOUS
<1>2. M \in Nat \ {0} /\ W \in Nat
    BY <1>1, PowerPositive, ChecksumAssumption DEF SumRange
<1> DEFINE S == 0..(M - 1)
           g == [x \in Nat \X S |-> (x[2] + word + x[1] * W) % M]
<1>3. \A k \in Nat, v \in S : (v + word + k * W) % M \in S
  <2> TAKE k \in Nat, v \in S
  <2>1. v + word + k * W \in Nat
    <3>1. k * W \in Nat /\ v \in Nat
        BY <1>2
    <3> QED BY <3>1
  <2> QED BY <1>2, <2>1, DivisionFacts
<1>4. g \in Steps(S) /\ \A k \in Nat, v \in S : g[<<k, v>>] = (v + word + k * W) % M
    BY <1>3 DEF Steps
<1>5. seed % M \in S
    BY <1>2, DivisionFacts
<1> HIDE DEF S, g
<1>6. PICK f : Solves(f, S, seed % M, g)
    BY <1>4, <1>5, Recursion
<1>7. ASSUME NEW k \in Nat
      PROVE  f[k] = IF k = 0 THEN seed % M ELSE (f[k - 1] + word + (k - 1) * W) % M
  <2>1. CASE k # 0
    <3>1. k - 1 \in Nat /\ (k - 1) + 1 = k
        BY <2>1
    <3>2. f[(k - 1) + 1] = g[<<k - 1, f[k - 1]>>] /\ f[k - 1] \in S
        BY <1>6, <3>1 DEF Solves
    <3> QED BY <1>4, <2>1, <3>1, <3>2
  <2> QED BY <1>6, <2>1 DEF Solves
<1>8. f = [k \in Nat |-> IF k = 0 THEN seed % M ELSE (f[k - 1] + word + (k - 1) * W) % M]
  <2>1. f = [k \in Nat |-> f[k]]
      BY <1>6 DEF Solves
  <2> QED BY <1>7, <2>1
<1>9. PICK s : s = Sums(seed, word)
    OBVIOUS
<1>10. s = [k \in Nat |-> IF k = 0 THEN seed % M ELSE (s[k - 1] + word + (k - 1) * W) % M]
    BY <1>1, <1>8, <1>9, Zenon DEF Sums
<1>11. s[0] = seed % M /\ \A k \in Nat : s[k + 1] = (s[k] + word + k * W) % M
  <2>1. \A k \in Nat : s[k] = IF k = 0 THEN seed % M ELSE (s[k - 1] + word + (k - 1) * W) % M
      BY <1>10
  <2>2. \A k \in Nat : k + 1 \in Nat /\ k + 1 # 0 /\ k + 1 - 1 = k
      OBVIOUS
  <2> QED BY <2>1, <2>2
<1> DEFINE T == {k \in Nat : s[k] \in S}
<1>12. 0 \in T /\ \A k \in Nat : k \in T => k + 1 \in T
    BY <1>3, <1>5, <1>11
<1> HIDE DEF T
<1>13. \A k \in Nat : k \in T
    BY <1>12, SetInduction
<1>14. \A k \in Nat : s[k] \in 0..(M - 1)
    BY <1>13 DEF T, S
<1> QED BY <1>1, <1>9, <1>11, <1>14

\* Two words that differ by d make sums that differ by d in every round.
LEMMA SumsDiffer ==
    ASSUME NEW seed \in Nat, NEW x \in Nat, NEW y \in Nat
    PROVE  \A k \in Nat : Multiple(Sums(seed, x)[k] - Sums(seed, y)[k] - k * (x - y), SumRange)
<1>1. PICK s, t, M : s = Sums(seed, x) /\ t = Sums(seed, y) /\ M = SumRange
    OBVIOUS
<1>2. M \in Nat \ {0} /\ Word \in Nat
    BY <1>1, PowerPositive, ChecksumAssumption DEF SumRange
<1>3. \A k \in Nat : s[k] \in Nat /\ t[k] \in Nat
  <2>1. \A k \in Nat : s[k] \in 0..(M - 1) /\ t[k] \in 0..(M - 1)
      BY <1>1, SumsDef
  <2> QED BY <1>2, <2>1
<1> DEFINE T == {k \in Nat : Multiple(s[k] - t[k] - k * (x - y), M)}
<1>4. 0 \in T
  <2>1. s[0] = t[0]
    <3>1. Sums(seed, x)[0] = seed % SumRange
        BY SumsDef
    <3>2. Sums(seed, y)[0] = seed % SumRange
        BY SumsDef
    <3> QED BY <1>1, <3>1, <3>2, Zenon
  <2>2. PICK a, e : a = s[0] /\ e = x - y
      OBVIOUS
  <2>3. a \in Nat /\ e \in Int
      BY <1>3, <2>2
  <2>4. a - a - 0 * e = 0 * M
      BY <1>2, <2>3
  <2>5. s[0] - t[0] - 0 * (x - y) = 0 * M
      BY <2>1, <2>2, <2>4, Zenon
  <2> QED BY <2>5 DEF Multiple
<1>5. ASSUME NEW k \in Nat, k \in T PROVE k + 1 \in T
  <2>1. PICK q \in Int : s[k] - t[k] - k * (x - y) = q * M
      BY <1>5 DEF Multiple
  <2>2. PICK a, b, c, d, n : /\ a = s[k] /\ b = t[k] /\ c = s[k + 1] /\ d = t[k + 1] /\ n = k * Word
      OBVIOUS
  <2>3. a \in Nat /\ b \in Nat /\ n \in Nat
      BY <1>2, <1>3, <2>2
  <2>4. c = (a + x + n) % M /\ d = (b + y + n) % M
    <3>1. c = (a + x + n) % M
        BY <1>1, <2>2, SumsDef
    <3>2. d = (b + y + n) % M
        BY <1>1, <2>2, SumsDef
    <3> QED BY <3>1, <3>2
  <2>5. PICK q1 \in Int : a + x + n = q1 * M + c
    <3>1. PICK A \in Nat : A = a + x + n
        BY <2>3
    <3>2. c = A % M
        BY <2>4, <3>1
    <3> QED BY <1>2, <3>1, <3>2, DivisionFacts
  <2>6. PICK q2 \in Int : b + y + n = q2 * M + d
    <3>1. PICK B \in Nat : B = b + y + n
        BY <2>3
    <3>2. d = B % M
        BY <2>4, <3>1
    <3> QED BY <1>2, <3>1, <3>2, DivisionFacts
  <2>7. c \in Int /\ d \in Int
      BY <1>3, <2>2
  <2>8. c - d - (k + 1) * (x - y) = (q - q1 + q2) * M
    <3>1. a - b - k * (x - y) = q * M
        BY <2>1, <2>2
    <3>2. (k + 1) * (x - y) = k * (x - y) + (x - y)
        OBVIOUS
    <3>3. (q - q1 + q2) * M = q * M - q1 * M + q2 * M
        BY <1>2
    <3>4. PICK e, r, r1, r2 : e = k * (x - y) /\ r = q * M /\ r1 = q1 * M /\ r2 = q2 * M
        OBVIOUS
    <3>5. e \in Int /\ r \in Int /\ r1 \in Int /\ r2 \in Int
        BY <1>2, <3>4
    <3>6. a - b - e = r /\ a + x + n = r1 + c /\ b + y + n = r2 + d
        BY <2>5, <2>6, <3>1, <3>4
    <3>7. c - d - (e + (x - y)) = r - r1 + r2
        BY <2>3, <2>7, <3>5, <3>6
    <3> QED BY <3>2, <3>3, <3>4, <3>7
  <2>9. q - q1 + q2 \in Int
      OBVIOUS
  <2> QED BY <2>2, <2>8, <2>9 DEF Multiple
<1> HIDE DEF T
<1>6. \A k \in Nat : k \in T
    BY <1>4, <1>5, SetInduction
<1> QED BY <1>1, <1>6 DEF T

\* A factor that has an inverse modulo Radix cancels modulo every power of it.
LEMMA Cancels ==
    ASSUME NEW r \in Nat, NEW v \in Nat, (v * r) % Radix = 1
    PROVE  \A k \in Nat : \A m \in Int : Multiple(r * m, Power[k]) => Multiple(m, Power[k])
<1>1. Radix \in Nat \ {0}
    BY ChecksumAssumption
<1>2. PICK t \in Int : v * r = t * Radix + 1
  <2>1. v * r \in Nat
      OBVIOUS
  <2>2. \E q \in Int : v * r = q * Radix + ((v * r) % Radix)
      BY <1>1, <2>1, DivisionFacts
  <2> QED BY <2>2
<1> DEFINE T == {k \in Nat : \A m \in Int : Multiple(r * m, Power[k]) => Multiple(m, Power[k])}
<1>3. 0 \in T
  <2>1. \A m \in Int : m = m * Power[0]
      BY PowerDef
  <2> QED BY <2>1 DEF Multiple
<1>4. ASSUME NEW k \in Nat, k \in T PROVE k + 1 \in T
  <2> SUFFICES ASSUME NEW m \in Int, Multiple(r * m, Power[k + 1]) PROVE Multiple(m, Power[k + 1])
      OBVIOUS
  <2>1. PICK p, R : p = Power[k] /\ R = Radix
      OBVIOUS
  <2>2. p \in Nat /\ R \in Nat \ {0} /\ Power[k + 1] = R * p
      BY <1>1, <2>1, PowerDef
  <2>3. PICK q \in Int : r * m = q * (R * p)
      BY <2>2 DEF Multiple
  <2> DEFINE n == v * q * p - t * m
  <2>4. n \in Int /\ m = R * n
    <3>1. n \in Int
        BY <2>2
    <3>2. (v * r) * m = (t * R + 1) * m
        BY <1>2, <2>1
    <3>3. (v * r) * m = v * (r * m)
        OBVIOUS
    <3>4. v * (q * (R * p)) = R * (v * q * p)
        BY <2>2
    <3>5. (t * R + 1) * m = R * (t * m) + m
        BY <2>2
    <3>6. R * n = R * (v * q * p) - R * (t * m)
        BY <2>2
    <3>7. PICK A, B : A = R * (v * q * p) /\ B = R * (t * m)
        OBVIOUS
    <3>8. A \in Int /\ B \in Int
        BY <2>2, <3>7
    <3> HIDE DEF n
    <3>9. A = B + m /\ R * n = A - B
        BY <2>3, <3>2, <3>3, <3>4, <3>5, <3>6, <3>7
    <3> QED BY <3>1, <3>8, <3>9
  <2> HIDE DEF n
  <2>5. r * n = q * p
    <3>1. R * (r * n) = R * (q * p)
      <4>1. R * (r * n) = r * (R * n)
          BY <2>2, <2>4
      <4>2. R * (q * p) = q * (R * p)
          BY <2>2
      <4> QED BY <2>3, <2>4, <4>1, <4>2
    <3>2. \A a, b \in Int : R * a = R * b => a = b
        BY <2>2
    <3>3. r * n \in Int /\ q * p \in Int
        BY <2>2, <2>4
    <3> QED BY <3>1, <3>2, <3>3
  <2>6. Multiple(n, p)
      BY <1>4, <2>1, <2>4, <2>5 DEF Multiple
  <2>7. PICK q2 \in Int : n = q2 * p
      BY <2>6 DEF Multiple
  <2>8. m = q2 * (R * p)
      BY <2>2, <2>4, <2>7
  <2> QED BY <2>2, <2>8 DEF Multiple
<1> HIDE DEF T
<1>5. \A k \in Nat : k \in T
    BY <1>3, <1>4, SetInduction
<1> QED BY <1>5 DEF T

\* Words that fit the sum and differ make different sums, when the number of rounds cancels.
LEMMA WordsTell ==
    ASSUME NEW seed \in Nat, NEW x \in 0..(SumRange - 1), NEW y \in 0..(SumRange - 1), NEW r \in Nat,
           NEW v \in Nat, (v * r) % Radix = 1, Sums(seed, x)[r] = Sums(seed, y)[r]
    PROVE  x = y
<1>1. PICK M : M = SumRange /\ M = Power[Sample]
    BY DEF SumRange
<1>2. Sample \in Nat /\ M \in Nat \ {0} /\ x \in Nat /\ y \in Nat /\ x \in 0..(M - 1) /\ y \in 0..(M - 1)
    BY <1>1, PowerPositive, ChecksumAssumption
<1>3. Multiple(Sums(seed, x)[r] - Sums(seed, y)[r] - r * (x - y), M)
    BY <1>1, <1>2, SumsDiffer
<1>4. PICK s : s = Sums(seed, x)[r] /\ s = Sums(seed, y)[r]
    OBVIOUS
<1>5. s \in Int
  <2>1. s \in 0..(M - 1)
      BY <1>1, <1>2, <1>4, SumsDef
  <2> QED BY <1>2, <2>1
<1>6. PICK q \in Int : s - s - r * (x - y) = q * M
    BY <1>3, <1>4 DEF Multiple
<1>7. r * (x - y) = (0 - q) * M
  <2>1. PICK e : e = r * (x - y) /\ e \in Int
      BY <1>2
  <2>2. s - s - e = q * M
      BY <1>6, <2>1
  <2>3. PICK f : f = q * M /\ f \in Int
      BY <1>2
  <2>4. e = 0 - f
      BY <1>5, <2>1, <2>2, <2>3
  <2>5. (0 - q) * M = 0 - f
      BY <1>2, <2>3
  <2> QED BY <2>1, <2>4, <2>5
<1>8. Multiple(x - y, M)
  <2>1. Multiple(r * (x - y), Power[Sample]) /\ x - y \in Int
      BY <1>1, <1>2, <1>7 DEF Multiple
  <2> QED BY <1>1, <1>2, <2>1, Cancels
<1>9. PICK d \in Int : x - y = d * M
    BY <1>8 DEF Multiple
<1>10. d = 0
  <2>1. d >= 1 => d * M >= M
      BY <1>2
  <2>2. d <= -1 => d * M <= -M
      BY <1>2
  <2>3. x - y < M /\ x - y > -M
      BY <1>2
  <2> QED BY <1>2, <1>9, <2>1, <2>2, <2>3
<1> QED BY <1>2, <1>9, <1>10

-----------------------------------------------------------------------------
(* What mix() returns *)

LEMMA Constants ==
    /\ kfootsize \in Nat /\ Sample \in Nat /\ Sample >= 1 /\ Sample <= kfootsize
    /\ Radix \in Nat /\ Radix >= 2 /\ Word \in Nat \ {0} /\ MaxLegs \in Nat
    /\ \A n \in Nat : Rounds(n) \in Nat
<1>1. /\ kfootsize \in Nat /\ Sample \in Nat /\ Sample >= 1 /\ Sample <= kfootsize
      /\ Radix \in Nat /\ Radix >= 2 /\ Word \in Nat \ {0} /\ MaxLegs \in Nat
    BY ChecksumAssumption
<1>2. ASSUME NEW n \in Nat PROVE Rounds(n) \in Nat
  <2>1. n \div Word \in Nat
      BY <1>1
  <2> QED BY <2>1 DEF Rounds
<1> QED BY <1>1, <1>2

Sampled(data) == [i \in 0..(Sample - 1) |-> data[i]]

LEMMA SampledFacts ==
    ASSUME NEW data \in Buffer
    PROVE  Sampled(data) \in Bytes /\ FirstWord(data) = Partial(Sampled(data))[Sample]
           /\ FirstWord(data) \in 0..(SumRange - 1) /\ FirstWord(data) \in Nat
<1>1. Sampled(data) \in Bytes
    BY Constants DEF Sampled, Bytes, Buffer, Places
<1>2. FirstWord(data) = Partial(Sampled(data))[Sample]
    BY NumberIsPartial DEF FirstWord, Sampled
<1>3. Sample \in 0..Sample /\ SumRange \in Nat
    BY Constants, PowerPositive DEF SumRange
<1>4. Partial(Sampled(data))[Sample] \in 0..(Power[Sample] - 1)
    BY <1>1, <1>3, PartialRange
<1>5. FirstWord(data) \in 0..(SumRange - 1)
    BY <1>2, <1>4 DEF SumRange
<1> QED BY <1>1, <1>2, <1>3, <1>5

\* The sum has the width of an unsigned int.
LEMMA MixRange ==
    ASSUME NEW seed \in Nat, NEW data \in Buffer, NEW n \in Nat
    PROVE  mix(seed, data, n) \in 0..(SumRange - 1)
<1>1. PICK x, r : x = FirstWord(data) /\ r = Rounds(n)
    OBVIOUS
<1>2. mix(seed, data, n) = Sums(seed, x)[r]
    BY <1>1, AccumulatedIsSum DEF mix
<1>3. x \in Nat /\ r \in Nat
    BY <1>1, SampledFacts, Constants
<1> QED BY <1>2, <1>3, SumsDef

\* mix() looks at the sampled bytes only.
LEMMA SameSample ==
    ASSUME NEW seed, NEW b, NEW c, NEW n, \A i \in 0..(Sample - 1) : b[i] = c[i]
    PROVE  mix(seed, b, n) = mix(seed, c, n)
<1>1. [i \in 0..(Sample - 1) |-> b[i]] = [i \in 0..(Sample - 1) |-> c[i]]
    OBVIOUS
<1> QED BY <1>1 DEF mix, FirstWord

\* On a full leg it tells any two samples apart.
LEMMA FullLegTells ==
    ASSUME NEW seed \in Nat, NEW b \in Buffer, NEW c \in Buffer, mix(seed, b, kfootsize) = mix(seed, c, kfootsize)
    PROVE  \A i \in 0..(Sample - 1) : b[i] = c[i]
<1>1. PICK r \in Nat : r = Rounds(kfootsize)
    BY Constants
<1>2. PICK v \in Nat : (v * r) % Radix = 1
  <2>1. PICK v \in 0..(Radix - 1) : (v * r) % Radix = 1
      BY <1>1, FullRoundsAssumption DEF Rounds
  <2>2. v \in Nat
      BY Constants
  <2> QED BY <2>1, <2>2
<1>3. PICK x, y : x = FirstWord(b) /\ y = FirstWord(c)
    OBVIOUS
<1>4. x \in 0..(SumRange - 1) /\ y \in 0..(SumRange - 1)
    BY <1>3, SampledFacts
<1>5. Sums(seed, x)[r] = Sums(seed, y)[r]
  <2>1. mix(seed, b, kfootsize) = Sums(seed, x)[r]
      BY <1>1, <1>3, AccumulatedIsSum DEF mix
  <2>2. mix(seed, c, kfootsize) = Sums(seed, y)[r]
      BY <1>1, <1>3, AccumulatedIsSum DEF mix
  <2> QED BY <2>1, <2>2
<1>6. x = y
    BY <1>2, <1>4, <1>5, WordsTell
<1>7. Sampled(b) \in Bytes /\ Sampled(c) \in Bytes /\ Partial(Sampled(b))[Sample] = Partial(Sampled(c))[Sample]
    BY <1>3, <1>6, SampledFacts
<1>8. \A i \in 0..(Sample - 1) : Sampled(b)[i] = Sampled(c)[i]
  <2>1. Sample \in 0..Sample
      BY Constants
  <2> QED BY <1>7, <2>1, PartialInjective
<1> QED BY <1>8 DEF Sampled

-----------------------------------------------------------------------------
(* Types *)

LEMMA OverwriteType ==
    ASSUME NEW buf \in Buffer, NEW data \in Buffer, NEW n \in Nat
    PROVE  Overwrite(buf, data, n) \in Buffer
BY DEF Overwrite, Buffer

LEMMA PrbsType == ASSUME NEW k \in Nat PROVE prbs_gen(k) \in Buffer
<1>1. ASSUME NEW i \in Places PROVE XorOf(k % Radix, (3 * i) % Radix) \in 0..(Radix - 1)
  <2>1. 3 * i \in Nat /\ Radix \in Nat \ {0}
      BY Constants DEF Places
  <2>2. k % Radix \in 0..(Radix - 1) /\ (3 * i) % Radix \in 0..(Radix - 1)
      BY <2>1, DivisionFacts
  <2> QED BY <2>2, ChecksumAssumption
<1> QED BY <1>1 DEF prbs_gen, Buffer

\* Counter and end: a leg more than MaxLegs is the end leg.
TypeInv == TypeOK /\ (~done => ingest_leg_counter <= MaxLegs)

LEMMA TypeInitially == Init => TypeInv
<1> SUFFICES ASSUME Init PROVE TypeInv
    OBVIOUS
<1>1. SumRange \in Nat \ {0}
    BY Constants, PowerPositive DEF SumRange
<1>2. /\ [i \in Places |-> 0] \in Buffer
      /\ [i \in Places |-> IF i < Sample THEN 1 ELSE 0] \in Buffer
    BY Constants DEF Buffer, Places
<1>3. txbuf \in [Conn -> Buffer] /\ rxbuf \in [Conn -> Buffer]
    BY <1>2 DEF Init
<1>4. checksum \in [Conn -> 0..(SumRange - 1)] /\ saved_checksum \in 0..(SumRange - 1)
      /\ grx_saved_checksum \in 0..(SumRange - 1)
    BY <1>1 DEF Init
<1>5. sent \in Seq(Leg) /\ ingest_leg_counter \in 0..(MaxLegs + 1) /\ ingest_leg_counter <= MaxLegs
    BY Constants DEF Init
<1> QED BY <1>3, <1>4, <1>5 DEF Init, TypeInv, TypeOK

\* What a push writes, given the types of what it is told to push.
LEMMA PushType ==
    ASSUME TypeInv, NEW c \in Conn, NEW buf \in Buffer, NEW sum \in 0..(SumRange - 1), NEW n \in 0..kfootsize,
           NEW op \in {"feed_more", "end_of_millipede"}, Pushed(c, buf, sum, n, op)
    PROVE  /\ txbuf' \in [Conn -> Buffer] /\ checksum' \in [Conn -> 0..(SumRange - 1)] /\ sent' \in Seq(Leg)
           /\ UNCHANGED <<gchecksums, gprbs_seed, rxbuf, grx_saved_checksum, verdict>>
           /\ ingest_leg_counter' = ingest_leg_counter + 1
<1> DEFINE content == IF gprbs_seed > 0 THEN prbs_gen(gprbs_seed + ingest_leg_counter) ELSE buf
           p == [conn |-> c, leg_id |-> ingest_leg_counter, size |-> n, opcode |-> op,
                 checksum |-> sum, payload |-> content, changed |-> "no"]
<1>1. gprbs_seed \in Nat /\ ingest_leg_counter \in Nat
    BY ChecksumAssumption, Constants DEF TypeInv, TypeOK
<1>2. content \in Buffer
    BY <1>1, PrbsType
<1> HIDE DEF content
<1>3. p \in Leg
    BY <1>1, <1>2 DEF Leg
<1>4. txbuf' = [txbuf EXCEPT ![c] = content] /\ checksum' = [checksum EXCEPT ![c] = sum] /\ sent' = Append(sent, p)
    BY DEF Pushed, content
<1> HIDE DEF p
<1>5. txbuf \in [Conn -> Buffer] /\ checksum \in [Conn -> 0..(SumRange - 1)] /\ sent \in Seq(Leg)
    BY DEF TypeInv, TypeOK
<1>6. sent' \in Seq(Leg)
    BY <1>3, <1>4, <1>5
<1>7. txbuf' \in [Conn -> Buffer] /\ checksum' \in [Conn -> 0..(SumRange - 1)]
    BY <1>2, <1>4, <1>5
<1> QED BY <1>6, <1>7 DEF Pushed, options

\* The sum that txingest() writes into a leg.
LEMMA IngestSum ==
    ASSUME TypeInv, NEW buf \in Buffer, NEW n \in Nat
    PROVE  (IF gchecksums THEN mix(saved_checksum + ingest_leg_counter, buf, n) ELSE 0) \in 0..(SumRange - 1)
<1>1. SumRange \in Nat \ {0}
    BY Constants, PowerPositive DEF SumRange
<1>2. saved_checksum + ingest_leg_counter \in Nat
  <2>1. saved_checksum \in 0..(SumRange - 1) /\ ingest_leg_counter \in Nat
      BY Constants DEF TypeInv, TypeOK
  <2> QED BY <1>1, <2>1
<1>3. mix(saved_checksum + ingest_leg_counter, buf, n) \in 0..(SumRange - 1)
    BY <1>2, MixRange
<1> QED BY <1>1, <1>3

LEMMA IngestType ==
    ASSUME TypeInv, NEW c \in Conn, NEW data \in Buffer, NEW n \in Sizes \cup {kfootsize}, Ingest(c, data, n)
    PROVE  TypeInv'
<1> DEFINE buf == IF gprbs_seed > 0 THEN txbuf[c] ELSE Overwrite(txbuf[c], data, n)
           sum == IF gchecksums THEN mix(saved_checksum + ingest_leg_counter, buf, n) ELSE 0
<1>1. /\ ~done /\ done' = done /\ ingest_leg_counter < MaxLegs
      /\ Pushed(c, buf, sum, n, "feed_more")
      /\ saved_checksum' = IF gchecksums THEN sum ELSE saved_checksum
      /\ causes' \subseteq causes \cup {"zero", "short", "late"}
    BY DEF Ingest
<1>2. n \in 0..kfootsize /\ n \in Nat
    BY ChecksumAssumption, Constants
<1>3. txbuf[c] \in Buffer
    BY DEF TypeInv, TypeOK
<1>4. buf \in Buffer
    BY <1>2, <1>3, OverwriteType
<1> HIDE DEF buf
<1>5. sum \in 0..(SumRange - 1)
    BY <1>2, <1>4, IngestSum
<1> HIDE DEF sum
<1>6. /\ txbuf' \in [Conn -> Buffer] /\ checksum' \in [Conn -> 0..(SumRange - 1)] /\ sent' \in Seq(Leg)
      /\ UNCHANGED <<gchecksums, gprbs_seed, rxbuf, grx_saved_checksum, verdict>>
      /\ ingest_leg_counter' = ingest_leg_counter + 1
    BY <1>1, <1>2, <1>4, <1>5, PushType
<1>7. ingest_leg_counter' \in 0..(MaxLegs + 1) /\ ingest_leg_counter' <= MaxLegs
    BY <1>1, <1>6, Constants DEF TypeInv, TypeOK
<1>8. saved_checksum' \in 0..(SumRange - 1)
    BY <1>1, <1>5 DEF TypeInv, TypeOK
<1>9. causes' \subseteq {"zero", "short", "late", "changed"}
    BY <1>1 DEF TypeInv, TypeOK
<1> QED BY <1>1, <1>6, <1>7, <1>8, <1>9 DEF TypeInv, TypeOK

LEMMA ShutdownType ==
    ASSUME TypeInv, NEW c \in Conn, Shutdown(c)
    PROVE  TypeInv'
<1>1. /\ ~done /\ done' = TRUE /\ UNCHANGED <<saved_checksum, causes>>
      /\ Pushed(c, txbuf[c], checksum[c], 0, "end_of_millipede")
    BY DEF Shutdown
<1>2. txbuf[c] \in Buffer /\ checksum[c] \in 0..(SumRange - 1) /\ 0 \in 0..kfootsize
    BY Constants DEF TypeInv, TypeOK
<1>3. /\ txbuf' \in [Conn -> Buffer] /\ checksum' \in [Conn -> 0..(SumRange - 1)] /\ sent' \in Seq(Leg)
      /\ UNCHANGED <<gchecksums, gprbs_seed, rxbuf, grx_saved_checksum, verdict>>
      /\ ingest_leg_counter' = ingest_leg_counter + 1
    BY <1>1, <1>2, PushType
<1>4. ingest_leg_counter' \in 0..(MaxLegs + 1)
    BY <1>1, <1>3, Constants DEF TypeInv, TypeOK
<1> QED BY <1>1, <1>3, <1>4 DEF TypeInv, TypeOK

LEMMA ReplaceFacts ==
    ASSUME NEW S, NEW s \in Seq(S), NEW k \in 1..Len(s), NEW e \in S, NEW t, t = [s EXCEPT ![k] = e]
    PROVE  t \in Seq(S) /\ Len(t) = Len(s) /\ t[k] = e /\ \A j \in 1..Len(s) : j # k => t[j] = s[j]
OBVIOUS

\* What a change of byte i of leg k leaves behind.
LEMMA ChangeFacts ==
    ASSUME TypeInv, NEW k, NEW i \in Places, NEW byte \in 0..(Radix - 1), Change(k, i, byte)
    PROVE  /\ k \in 1..Len(sent) /\ sent' \in Seq(Leg) /\ Len(sent') = Len(sent)
           /\ \A j \in 1..Len(sent) : j # k => sent'[j] = sent[j]
           /\ sent'[k].leg_id = sent[k].leg_id /\ sent'[k].size = sent[k].size /\ sent'[k].conn = sent[k].conn
           /\ sent'[k].opcode = sent[k].opcode /\ sent'[k].checksum = sent[k].checksum
           /\ sent'[k].changed = (IF i < Sample THEN "sample" ELSE "body")
           /\ sent'[k].payload[i] # sent[k].payload[i] /\ i < sent[k].size
           /\ \A j \in Places : j # i => sent'[k].payload[j] = sent[k].payload[j]
<1>1. /\ k \in 1..Len(sent) /\ i < sent[k].size /\ byte # sent[k].payload[i]
      /\ sent' = [sent EXCEPT ![k].payload[i] = byte,
                              ![k].changed = IF i < Sample THEN "sample" ELSE "body"]
    BY DEF Change
<1>2. sent \in Seq(Leg) /\ sent[k] \in Leg
    BY <1>1 DEF TypeInv, TypeOK
<1>3. PICK b : b = sent[k].payload /\ b \in Buffer /\ b[i] \in 0..(Radix - 1)
    BY <1>2 DEF Leg, Buffer
<1> DEFINE c == [b EXCEPT ![i] = byte]
           p == [sent[k] EXCEPT !.payload = c, !.changed = IF i < Sample THEN "sample" ELSE "body"]
<1>4. c \in Buffer /\ c[i] = byte /\ \A j \in Places : j # i => c[j] = b[j]
    BY <1>3 DEF Buffer
<1>5. sent' = [sent EXCEPT ![k] = p]
    BY <1>1, <1>2, <1>3 DEF Leg
<1> HIDE DEF c
<1>6. /\ p \in Leg /\ p.payload = c /\ p.changed = (IF i < Sample THEN "sample" ELSE "body")
      /\ p.leg_id = sent[k].leg_id /\ p.size = sent[k].size /\ p.conn = sent[k].conn
      /\ p.opcode = sent[k].opcode /\ p.checksum = sent[k].checksum
    BY <1>2, <1>4 DEF Leg
<1> HIDE DEF p
<1>7. /\ sent' \in Seq(Leg) /\ Len(sent') = Len(sent) /\ sent'[k] = p
      /\ \A j \in 1..Len(sent) : j # k => sent'[j] = sent[j]
  <2>1. PICK S, s, t, e : S = Leg /\ s = sent /\ t = sent' /\ e = p
      OBVIOUS
  <2>2. s \in Seq(S) /\ k \in 1..Len(s) /\ e \in S /\ t = [s EXCEPT ![k] = e]
      BY <1>1, <1>2, <1>5, <1>6, <2>1
  <2>3. t \in Seq(S) /\ Len(t) = Len(s) /\ t[k] = e /\ \A j \in 1..Len(s) : j # k => t[j] = s[j]
      BY <2>2, ReplaceFacts
  <2> QED BY <2>1, <2>3
<1> QED BY <1>1, <1>3, <1>4, <1>6, <1>7

LEMMA ChangeType ==
    ASSUME TypeInv, NEW k, NEW i \in Places, NEW byte \in 0..(Radix - 1), Change(k, i, byte)
    PROVE  TypeInv'
<1>1. sent' \in Seq(Leg)
    BY ChangeFacts
<1>2. /\ UNCHANGED <<gchecksums, gprbs_seed, txbuf, rxbuf, checksum, saved_checksum, ingest_leg_counter, done,
                     grx_saved_checksum, verdict>>
      /\ causes' = causes \cup {"changed"}
    BY DEF Change, options
<1> QED BY <1>1, <1>2 DEF TypeInv, TypeOK

LEMMA ArrivedType ==
    ASSUME TypeInv, NEW p \in Leg
    PROVE  Arrived(p) \in Buffer /\ RxSum(p) \in 0..(SumRange - 1) /\ grx_saved_checksum + p.leg_id \in Nat
<1>1. p.conn \in Conn /\ p.payload \in Buffer /\ p.size \in Nat /\ p.leg_id \in Nat
    BY Constants DEF Leg
<1>2. rxbuf[p.conn] \in Buffer
    BY <1>1 DEF TypeInv, TypeOK
<1>3. Arrived(p) \in Buffer
    BY <1>1, <1>2, OverwriteType DEF Arrived
<1>4. grx_saved_checksum \in 0..(SumRange - 1) /\ SumRange \in Nat
    BY Constants, PowerPositive DEF SumRange, TypeInv, TypeOK
<1>5. grx_saved_checksum + p.leg_id \in Nat
    BY <1>1, <1>4
<1> QED BY <1>1, <1>3, <1>5, MixRange DEF RxSum

LEMMA VerifyType ==
    ASSUME TypeInv, sent # <<>>, Verify(Head(sent))
    PROVE  TypeInv'
<1>1. PICK p : p = Head(sent)
    OBVIOUS
<1>2. sent \in Seq(Leg)
    BY DEF TypeInv, TypeOK
<1>3. p \in Leg /\ Tail(sent) \in Seq(Leg)
    BY <1>1, <1>2
<1>4. /\ rxbuf' = [rxbuf EXCEPT ![p.conn] = Arrived(p)]
      /\ verdict' \in {"ok", "checksum", "prbs"}
      /\ grx_saved_checksum' = RxSum(p) \/ grx_saved_checksum' = grx_saved_checksum
      /\ sent' = Tail(sent) \/ sent' = sent
      /\ UNCHANGED <<gchecksums, gprbs_seed, txbuf, checksum, saved_checksum, ingest_leg_counter, done, causes>>
    BY <1>1 DEF Verify, options
<1>5. rxbuf' \in [Conn -> Buffer]
    BY <1>3, <1>4, ArrivedType DEF TypeInv, TypeOK
<1>6. grx_saved_checksum' \in 0..(SumRange - 1)
    BY <1>3, <1>4, ArrivedType DEF TypeInv, TypeOK
<1>7. sent' \in Seq(Leg)
    BY <1>2, <1>3, <1>4
<1> QED BY <1>4, <1>5, <1>6, <1>7 DEF TypeInv, TypeOK

LEMMA TypeInvariance == Spec => []TypeInv
<1>1. TypeInv /\ [Next]_vars => TypeInv'
  <2> SUFFICES ASSUME TypeInv, [Next]_vars PROVE TypeInv'
      OBVIOUS
  <2>1. ASSUME NEW c \in Conn, NEW data \in Payloads, NEW n \in Sizes \cup {kfootsize}, Ingest(c, data, n)
        PROVE  TypeInv'
    <3>1. data \in Buffer
        BY DEF Payloads
    <3> QED BY <2>1, <3>1, IngestType
  <2>2. ASSUME NEW c \in Conn, Shutdown(c) PROVE TypeInv'
      BY <2>2, ShutdownType
  <2>3. ASSUME NEW k \in 1..(MaxLegs + 1), NEW i \in Places, NEW byte \in 0..(Radix - 1), Change(k, i, byte) PROVE TypeInv'
      BY <2>3, ChangeType
  <2>4. CASE sent # <<>> /\ verdict = "ok" /\ Verify(Head(sent))
      BY <2>4, VerifyType
  <2>5. CASE UNCHANGED vars
      BY <2>5 DEF vars, options, TypeInv, TypeOK
  <2> QED BY <2>1, <2>2, <2>3, <2>4, <2>5 DEF Next
<1> QED BY <1>1, TypeInitially, PTL DEF Spec

-----------------------------------------------------------------------------
(* The invariant *)

\* Legs are under way in order; the end leg is the last, and has no payload.
QueueInv ==
    /\ \A k \in 1..Len(sent) : k < Len(sent) \/ ~done => sent[k].opcode = "feed_more"
    /\ \A k \in 1..Len(sent) : sent[k].opcode = "end_of_millipede" => sent[k].size = 0

\* With prbs every data leg fills the buffer with the stream that its number gives.
Generated(p) ==
    gprbs_seed > 0 /\ p.opcode = "feed_more" =>
        p.size = kfootsize /\ p.payload = prbs_gen(gprbs_seed + p.leg_id)

\* The sum of leg p is that of a buffer q, of which a change may have spoilt the sample.
Summed(p, seed, q) ==
    /\ p.checksum = mix(seed + p.leg_id, q, p.size)
    /\ IF p.changed = "sample" THEN \E i \in 0..(Sample - 1) : p.payload[i] # q[i]
                               ELSE \A i \in 0..(Sample - 1) : p.payload[i] = q[i]

\* Leg p continues the chain of sums that has come to seed.
Chained(p, seed) ==
    p.opcode = "feed_more" =>
        IF gchecksums
        THEN p.size >= Sample /\ p.checksum # 0 /\ \E q \in Buffer : Summed(p, seed, q)
        ELSE p.checksum = 0

\* Where the chain stands before leg k: the receiver has come to the first.
Before(k) == IF k = 1 THEN grx_saved_checksum ELSE sent[k - 1].checksum

ChainInv ==
    /\ \A k \in 1..Len(sent) : Chained(sent[k], Before(k))
    /\ gchecksums /\ ~done => saved_checksum = Before(Len(sent) + 1)

\* A change spoils one leg and leaves the chain of sums alone.
CheckInv ==
    /\ AlarmExplained /\ PrbsAccepted /\ QueueInv
    /\ "changed" \notin causes => \A k \in 1..Len(sent) : sent[k].changed = "no" /\ Generated(sent[k])
    /\ causes \subseteq {"changed"} => ChainInv

-----------------------------------------------------------------------------
(* What arrives *)

\* The sampled bytes of a leg that is not shorter than the sample arrive.
LEMMA SampleArrives ==
    ASSUME NEW p \in Leg, p.size >= Sample
    PROVE  \A i \in 0..(Sample - 1) : Arrived(p)[i] = p.payload[i]
<1>1. p.size \in Nat
    BY Constants DEF Leg
<1>2. \A i \in 0..(Sample - 1) : i \in 0..(kfootsize - 1) /\ i < p.size
    BY <1>1, Constants
<1> QED BY <1>2 DEF Arrived, Overwrite, Places

\* A leg of prbs fills the receiver's buffer.
LEMMA SameStream ==
    ASSUME NEW p, Generated(p), gprbs_seed > 0, p.opcode = "feed_more"
    PROVE  Arrived(p) = prbs_gen(gprbs_seed + p.leg_id)
<1>1. kfootsize \in Nat
    BY ChecksumAssumption
<1>2. p.size = kfootsize /\ p.payload = prbs_gen(gprbs_seed + p.leg_id)
    BY DEF Generated
<1>3. \A i \in Places : i < kfootsize
    BY <1>1 DEF Places
<1>4. \A i \in Places : (IF i < p.size THEN p.payload[i] ELSE rxbuf[p.conn][i]) = p.payload[i]
    BY <1>2, <1>3
<1>5. Arrived(p) = [i \in Places |-> p.payload[i]]
    BY <1>4 DEF Arrived, Overwrite
<1>6. p.payload = [i \in Places |-> p.payload[i]]
    BY <1>2 DEF prbs_gen
<1> QED BY <1>2, <1>5, <1>6

\* A leg whose sample was not changed has the sum that the receiver comes to.
LEMMA SameSum ==
    ASSUME NEW p \in Leg, p.size >= Sample, NEW q, Summed(p, grx_saved_checksum, q), p.changed # "sample"
    PROVE  RxSum(p) = p.checksum
<1>1. \A i \in 0..(Sample - 1) : Arrived(p)[i] = q[i]
    BY SampleArrives DEF Summed
<1>2. mix(grx_saved_checksum + p.leg_id, Arrived(p), p.size) = mix(grx_saved_checksum + p.leg_id, q, p.size)
    BY <1>1, SameSample
<1> QED BY <1>2 DEF RxSum, Summed

-----------------------------------------------------------------------------
(* The steps *)

LEMMA CheckInitially == Init => CheckInv
<1> SUFFICES ASSUME Init PROVE CheckInv
    OBVIOUS
<1>1. sent = <<>> /\ causes = {} /\ verdict = "ok" /\ saved_checksum = grx_saved_checksum
    BY DEF Init
<1>2. Len(sent) = 0
    BY <1>1
<1>3. AlarmExplained /\ PrbsAccepted
    BY <1>1 DEF AlarmExplained, PrbsAccepted
<1>4. QueueInv /\ \A k \in 1..Len(sent) : sent[k].changed = "no" /\ Generated(sent[k])
    BY <1>2 DEF QueueInv
<1>5. ChainInv
    BY <1>1, <1>2 DEF ChainInv, Before
<1> QED BY <1>3, <1>4, <1>5 DEF CheckInv

LEMMA AppendFacts ==
    ASSUME NEW S, NEW s \in Seq(S), NEW e \in S, NEW t, t = Append(s, e)
    PROVE  /\ Len(s) \in Nat /\ Len(t) = Len(s) + 1 /\ t[Len(s) + 1] = e
           /\ \A k \in 1..Len(s) : t[k] = s[k]
           /\ \A k \in 1..Len(t) : k \in 1..Len(s) \/ k = Len(s) + 1
OBVIOUS

\* A leg is put behind the others: it is what the invariant says of a leg.
LEMMA PushKeeps ==
    ASSUME TypeInv, CheckInv, NEW p \in Leg, sent' = Append(sent, p), ~done,
           UNCHANGED <<options, grx_saved_checksum, verdict>>,
           causes \subseteq causes', "changed" \in causes' => "changed" \in causes,
           ~done' => p.opcode = "feed_more", p.opcode = "end_of_millipede" => p.size = 0,
           p.changed = "no", Generated(p),
           causes' \subseteq {"changed"} => Chained(p, saved_checksum),
           causes' \subseteq {"changed"} /\ gchecksums /\ ~done' => saved_checksum' = p.checksum,
           ~gchecksums /\ p.opcode = "feed_more" => p.checksum = 0
    PROVE  CheckInv'
<1>1. UNCHANGED <<gchecksums, gprbs_seed, grx_saved_checksum, verdict>>
    BY DEF options
<1>2. AlarmExplained' /\ PrbsAccepted'
    BY <1>1 DEF CheckInv, AlarmExplained, PrbsAccepted
<1>3. sent \in Seq(Leg)
    BY DEF TypeInv, TypeOK
<1>4. /\ Len(sent) \in Nat /\ Len(sent') = Len(sent) + 1 /\ sent'[Len(sent) + 1] = p
      /\ \A k \in 1..Len(sent) : sent'[k] = sent[k]
      /\ \A k \in 1..Len(sent') : k \in 1..Len(sent) \/ k = Len(sent) + 1
  <2>1. PICK S, s, t : S = Leg /\ s = sent /\ t = sent'
      OBVIOUS
  <2>2. s \in Seq(S) /\ p \in S /\ t = Append(s, p)
      BY <1>3, <2>1
  <2>3. /\ Len(s) \in Nat /\ Len(t) = Len(s) + 1 /\ t[Len(s) + 1] = p
        /\ \A k \in 1..Len(s) : t[k] = s[k]
        /\ \A k \in 1..Len(t) : k \in 1..Len(s) \/ k = Len(s) + 1
      BY <2>2, AppendFacts
  <2> QED BY <2>1, <2>3
<1>5. QueueInv'
  <2>1. \A k \in 1..Len(sent) : sent[k].opcode = "feed_more"
      BY DEF CheckInv, QueueInv
  <2>2. ASSUME NEW k \in 1..Len(sent') PROVE k < Len(sent') \/ ~done' => sent'[k].opcode = "feed_more"
      BY <1>4, <2>1
  <2>3. ASSUME NEW k \in 1..Len(sent') PROVE sent'[k].opcode = "end_of_millipede" => sent'[k].size = 0
      BY <1>4, <2>1
  <2> QED BY <2>2, <2>3 DEF QueueInv
<1>6. ASSUME "changed" \notin causes'
      PROVE  (\A k \in 1..Len(sent) : sent[k].changed = "no" /\ Generated(sent[k]))'
  <2>1. \A k \in 1..Len(sent) : sent[k].changed = "no" /\ Generated(sent[k])
      BY <1>6 DEF CheckInv
  <2>2. \A k \in 1..Len(sent') : sent'[k].changed = "no" /\ Generated(sent'[k])
      BY <1>4, <2>1
  <2> QED BY <1>1, <2>2 DEF Generated
<1>7. ASSUME causes' \subseteq {"changed"} PROVE ChainInv'
  <2>1. ChainInv
      BY <1>7 DEF CheckInv
  <2>2. \A k \in 1..(Len(sent) + 1) : Before(k)' = Before(k)
    <3>1. \A k \in 1..(Len(sent) + 1) : k # 1 => k - 1 \in 1..Len(sent)
        BY <1>4
    <3> QED BY <1>1, <1>4, <3>1 DEF Before
  <2>3. ASSUME NEW k \in 1..Len(sent') PROVE Chained(sent[k], Before(k))'
    <3>1. CASE k \in 1..Len(sent)
      <4>1. Chained(sent[k], Before(k)) /\ sent'[k] = sent[k] /\ k \in 1..(Len(sent) + 1)
          BY <1>4, <2>1, <3>1 DEF ChainInv
      <4>2. Before(k)' = Before(k)
          BY <2>2, <4>1
      <4> QED BY <1>1, <4>1, <4>2 DEF Chained, Summed
    <3>2. CASE k = Len(sent) + 1
      <4>1. Before(k)' = Before(k) /\ sent'[k] = p
          BY <1>4, <2>2, <3>2
      <4>2. gchecksums => Before(k) = saved_checksum
          BY <2>1, <3>2 DEF ChainInv
      <4> QED BY <1>1, <1>7, <4>1, <4>2 DEF Chained, Summed
    <3> QED BY <1>4, <3>1, <3>2
  <2>4. gchecksums /\ ~done' => saved_checksum' = Before(Len(sent) + 1)'
    <3>1. Len(sent') + 1 # 1 /\ Len(sent') + 1 - 1 = Len(sent) + 1
        BY <1>4
    <3>2. Before(Len(sent) + 1)' = IF Len(sent') + 1 = 1 THEN grx_saved_checksum'
                                   ELSE sent'[Len(sent') + 1 - 1].checksum
        BY DEF Before
    <3>3. Before(Len(sent) + 1)' = p.checksum
        BY <1>4, <3>1, <3>2
    <3> QED BY <1>7, <3>3
  <2>5. gchecksums' = gchecksums
      BY <1>1
  <2> QED BY <2>3, <2>4, <2>5 DEF ChainInv
<1> QED BY <1>2, <1>5, <1>6, <1>7 DEF CheckInv

LEMMA IngestKeeps ==
    ASSUME TypeInv, CheckInv, NEW c \in Conn, NEW data \in Buffer, NEW n \in Sizes \cup {kfootsize}, Ingest(c, data, n)
    PROVE  CheckInv'
<1> DEFINE buf == IF gprbs_seed > 0 THEN txbuf[c] ELSE Overwrite(txbuf[c], data, n)
           sum == IF gchecksums THEN mix(saved_checksum + ingest_leg_counter, buf, n) ELSE 0
           content == IF gprbs_seed > 0 THEN prbs_gen(gprbs_seed + ingest_leg_counter) ELSE buf
           p == [conn |-> c, leg_id |-> ingest_leg_counter, size |-> n, opcode |-> "feed_more",
                 checksum |-> sum, payload |-> content, changed |-> "no"]
<1>1. /\ ~done /\ done' = done
      /\ n \in IF gprbs_seed > 0 THEN {kfootsize} ELSE Sizes
      /\ Pushed(c, buf, sum, n, "feed_more")
      /\ saved_checksum' = IF gchecksums THEN sum ELSE saved_checksum
    BY DEF Ingest
<1>2. causes' = causes \cup {cause \in {"zero", "short", "late"} :
               gchecksums /\ CASE cause = "zero" -> sum = 0
                               [] cause = "short" -> n < Sample
                               [] OTHER -> gprbs_seed > 0}
    BY DEF Ingest
<1>3. sent' = Append(sent, p) /\ UNCHANGED <<options, grx_saved_checksum, verdict>>
    BY <1>1 DEF Pushed
<1>4. /\ p.leg_id = ingest_leg_counter /\ p.size = n /\ p.opcode = "feed_more"
      /\ p.checksum = sum /\ p.payload = content /\ p.changed = "no"
    OBVIOUS
<1>5. causes \subseteq causes' /\ ("changed" \in causes' => "changed" \in causes)
    BY <1>2
<1>6. causes' \subseteq {"changed"} /\ gchecksums => sum # 0 /\ ~(n < Sample) /\ ~(gprbs_seed > 0)
  <2> SUFFICES ASSUME causes' \subseteq {"changed"}, gchecksums
               PROVE  sum # 0 /\ ~(n < Sample) /\ ~(gprbs_seed > 0)
      OBVIOUS
  <2> HIDE DEF sum
  <2>1. \A cause \in {"zero", "short", "late"} :
            ~ CASE cause = "zero" -> sum = 0
                [] cause = "short" -> n < Sample
                [] OTHER -> gprbs_seed > 0
      BY <1>2
  <2>2. sum # 0
    <3>1. ~ CASE "zero" = "zero" -> sum = 0 [] "zero" = "short" -> n < Sample [] OTHER -> gprbs_seed > 0
        BY <2>1
    <3> QED BY <3>1
  <2>3. ~(n < Sample)
    <3>1. ~ CASE "short" = "zero" -> sum = 0 [] "short" = "short" -> n < Sample [] OTHER -> gprbs_seed > 0
        BY <2>1
    <3> QED BY <3>1
  <2>4. ~(gprbs_seed > 0)
    <3>1. ~ CASE "late" = "zero" -> sum = 0 [] "late" = "short" -> n < Sample [] OTHER -> gprbs_seed > 0
        BY <2>1
    <3> QED BY <3>1
  <2> QED BY <2>2, <2>3, <2>4
<1>7. n \in Nat /\ Sample \in Nat /\ n \in 0..kfootsize
    BY ChecksumAssumption
<1>8. Generated(p)
    BY <1>1, <1>4 DEF Generated
<1>9. buf \in Buffer
  <2>1. txbuf[c] \in Buffer
      BY DEF TypeInv, TypeOK
  <2> QED BY <1>7, <2>1, OverwriteType
<1>10. p \in Leg
  <2>1. gprbs_seed \in Nat /\ ingest_leg_counter \in Nat
      BY ChecksumAssumption, Constants DEF TypeInv, TypeOK
  <2>2. content \in Buffer
      BY <1>9, <2>1, PrbsType
  <2> HIDE DEF buf
  <2>3. sum \in 0..(SumRange - 1)
      BY <1>7, <1>9, IngestSum
  <2> HIDE DEF content, sum
  <2> QED BY <1>7, <2>1, <2>2, <2>3 DEF Leg
<1>11. causes' \subseteq {"changed"} => Chained(p, saved_checksum)
  <2>1. CASE gchecksums
    <3>1. causes' \subseteq {"changed"} => n >= Sample
        BY <1>6, <1>7, <2>1
    <3>2. causes' \subseteq {"changed"} => content = buf
        BY <1>6, <2>1
    <3>3. sum = mix(saved_checksum + ingest_leg_counter, buf, n)
        BY <2>1
    <3> HIDE DEF p, sum, content, buf
    <3>4. causes' \subseteq {"changed"} => Summed(p, saved_checksum, buf)
        BY <1>4, <3>2, <3>3 DEF Summed
    <3> QED BY <1>4, <1>6, <1>9, <2>1, <3>1, <3>4 DEF Chained
  <2>2. CASE ~gchecksums
      BY <1>4, <2>2 DEF Chained
  <2> QED BY <2>1, <2>2
<1>12. (gchecksums => saved_checksum' = p.checksum) /\ (~gchecksums => p.checksum = 0)
    BY <1>1, <1>4
<1> HIDE DEF p
<1> QED BY <1>1, <1>3, <1>4, <1>5, <1>8, <1>10, <1>11, <1>12, PushKeeps

LEMMA ShutdownKeeps ==
    ASSUME TypeInv, CheckInv, NEW c \in Conn, Shutdown(c)
    PROVE  CheckInv'
<1> DEFINE content == IF gprbs_seed > 0 THEN prbs_gen(gprbs_seed + ingest_leg_counter) ELSE txbuf[c]
           p == [conn |-> c, leg_id |-> ingest_leg_counter, size |-> 0, opcode |-> "end_of_millipede",
                 checksum |-> checksum[c], payload |-> content, changed |-> "no"]
<1>1. ~done /\ done' /\ causes' = causes /\ Pushed(c, txbuf[c], checksum[c], 0, "end_of_millipede")
    BY DEF Shutdown
<1>2. sent' = Append(sent, p) /\ UNCHANGED <<options, grx_saved_checksum, verdict>>
    BY <1>1 DEF Pushed
<1>3. p.opcode = "end_of_millipede" /\ p.size = 0 /\ p.changed = "no" /\ p.opcode # "feed_more"
    OBVIOUS
<1>4. p \in Leg
  <2>1. gprbs_seed \in Nat /\ ingest_leg_counter \in Nat
      BY ChecksumAssumption, Constants DEF TypeInv, TypeOK
  <2>2. txbuf[c] \in Buffer /\ checksum[c] \in 0..(SumRange - 1) /\ 0 \in 0..kfootsize
      BY Constants DEF TypeInv, TypeOK
  <2>3. content \in Buffer
      BY <2>1, <2>2, PrbsType
  <2> HIDE DEF content
  <2> QED BY <2>1, <2>2, <2>3 DEF Leg
<1> HIDE DEF p
<1>5. Generated(p) /\ Chained(p, saved_checksum)
    BY <1>3 DEF Generated, Chained
<1> QED BY <1>1, <1>2, <1>3, <1>4, <1>5, PushKeeps

LEMMA ChangeKeeps ==
    ASSUME TypeInv, CheckInv, NEW k, NEW i \in Places, NEW byte \in 0..(Radix - 1), Change(k, i, byte)
    PROVE  CheckInv'
<1>1. /\ "changed" \notin causes /\ causes' = causes \cup {"changed"}
      /\ UNCHANGED <<gchecksums, gprbs_seed, saved_checksum, done, grx_saved_checksum, verdict>>
    BY DEF Change, options
<1>2. AlarmExplained' /\ PrbsAccepted'
    BY <1>1 DEF AlarmExplained, PrbsAccepted
<1>3. /\ k \in 1..Len(sent) /\ Len(sent') = Len(sent)
      /\ \A j \in 1..Len(sent) : j # k => sent'[j] = sent[j]
      /\ sent'[k].leg_id = sent[k].leg_id /\ sent'[k].size = sent[k].size
      /\ sent'[k].opcode = sent[k].opcode /\ sent'[k].checksum = sent[k].checksum
      /\ sent'[k].changed = (IF i < Sample THEN "sample" ELSE "body")
      /\ sent'[k].payload[i] # sent[k].payload[i]
      /\ \A j \in Places : j # i => sent'[k].payload[j] = sent[k].payload[j]
    BY ChangeFacts
<1>4. \A j \in 1..Len(sent) : /\ sent'[j].opcode = sent[j].opcode /\ sent'[j].size = sent[j].size
                              /\ sent'[j].checksum = sent[j].checksum
    BY <1>3
<1>5. QueueInv'
    BY <1>1, <1>3, <1>4 DEF CheckInv, QueueInv
<1>6. ASSUME causes' \subseteq {"changed"} PROVE ChainInv'
  <2>1. ChainInv /\ sent[k].changed = "no"
      BY <1>1, <1>3, <1>6 DEF CheckInv
  <2>2. Len(sent) \in Nat
      BY DEF TypeInv, TypeOK
  <2>3. \A j \in 1..(Len(sent) + 1) : Before(j)' = Before(j)
    <3>1. \A j \in 1..(Len(sent) + 1) : j # 1 => j - 1 \in 1..Len(sent)
        BY <2>2
    <3> QED BY <1>1, <1>4, <3>1 DEF Before
  <2>4. ASSUME NEW j \in 1..Len(sent) PROVE Chained(sent[j], Before(j))'
    <3>1. Chained(sent[j], Before(j)) /\ Before(j)' = Before(j)
        BY <2>1, <2>2, <2>3 DEF ChainInv
    <3>2. CASE j # k
        BY <1>1, <1>3, <3>1, <3>2 DEF Chained, Summed
    <3>3. CASE j = k
      <4>1. ASSUME NEW q \in Buffer, Summed(sent[k], Before(k), q) PROVE Summed(sent[k], Before(k), q)'
        <5>1. \A m \in 0..(Sample - 1) : sent[k].payload[m] = q[m]
            BY <2>1, <4>1 DEF Summed
        <5>2. \A m \in 0..(Sample - 1) : m \in Places
            BY Constants DEF Places
        <5>3. CASE i < Sample
          <6>1. i \in 0..(Sample - 1)
              BY <5>3, Constants DEF Places
          <6> QED BY <1>3, <3>1, <3>3, <4>1, <5>1, <5>3, <6>1 DEF Summed
        <5>4. CASE ~(i < Sample)
          <6>1. \A m \in 0..(Sample - 1) : m # i
              BY <5>4, Constants
          <6> QED BY <1>3, <3>1, <3>3, <4>1, <5>1, <5>2, <5>4, <6>1 DEF Summed
        <5> QED BY <5>3, <5>4
      <4> QED BY <1>1, <1>3, <3>1, <3>3, <4>1 DEF Chained
    <3> QED BY <3>2, <3>3
  <2>5. Before(Len(sent) + 1)' = Before(Len(sent) + 1)
    <3>1. PICK m : m = Len(sent) + 1 /\ m \in 1..(Len(sent) + 1)
        BY <2>2
    <3>2. Before(m)' = Before(m)
        BY <2>3, <3>1
    <3>3. Before(Len(sent) + 1)' = Before(m)'
        BY <1>3, <3>1 DEF Before
    <3> QED BY <3>1, <3>2, <3>3
  <2>6. \A j \in 1..Len(sent') : Chained(sent[j], Before(j))'
      BY <1>3, <2>4
  <2> QED BY <1>1, <2>1, <2>5, <2>6 DEF ChainInv
<1> QED BY <1>1, <1>2, <1>5, <1>6 DEF CheckInv

\* The head of the queue is checked; only a reason stops the receiver.
LEMMA VerifyVerdict ==
    ASSUME TypeInv, CheckInv, sent # <<>>, verdict = "ok", Verify(Head(sent))
    PROVE  AlarmExplained' /\ PrbsAccepted'
<1>1. PICK p : p = Head(sent)
    OBVIOUS
<1>2. /\ verdict' = IF PrbsFails(p) THEN "prbs"
                    ELSE IF Checked(p) /\ RxSum(p) # p.checksum THEN "checksum" ELSE "ok"
      /\ causes' = causes
    BY <1>1 DEF Verify
<1>3. p = sent[1] /\ 1 \in 1..Len(sent) /\ p \in Leg
    BY <1>1 DEF TypeInv, TypeOK
<1>4. ASSUME "changed" \notin causes PROVE ~PrbsFails(p)
  <2> SUFFICES ASSUME PrbsFails(p) PROVE FALSE
      OBVIOUS
  <2>1. gprbs_seed > 0 /\ p.opcode # "end_of_millipede" /\ Arrived(p) # prbs_gen(gprbs_seed + p.leg_id)
      BY DEF PrbsFails
  <2>2. p.opcode = "feed_more" /\ Generated(p)
      BY <1>3, <1>4, <2>1 DEF CheckInv, Leg
  <2> QED BY <2>1, <2>2, SameStream
<1>5. ASSUME causes = {} PROVE ~(Checked(p) /\ RxSum(p) # p.checksum)
  <2> SUFFICES ASSUME Checked(p) PROVE RxSum(p) = p.checksum
      OBVIOUS
  <2>1. p.opcode = "feed_more" /\ p.checksum # 0
      BY DEF Checked
  <2>2. Chained(p, grx_saved_checksum) /\ p.changed = "no"
    <3>1. Chained(sent[1], Before(1)) /\ p.changed = "no"
        BY <1>3, <1>5 DEF CheckInv, ChainInv
    <3> QED BY <1>3, <3>1 DEF Before
  <2>3. p.size >= Sample /\ \E q \in Buffer : Summed(p, grx_saved_checksum, q)
      BY <2>1, <2>2 DEF Chained
  <2> QED BY <1>3, <2>2, <2>3, SameSum
<1>6. PrbsAccepted'
    BY <1>2, <1>4 DEF PrbsAccepted
<1>7. AlarmExplained'
    BY <1>2, <1>5 DEF AlarmExplained
<1> QED BY <1>6, <1>7

LEMMA TailFacts ==
    ASSUME NEW S, NEW s \in Seq(S), s # <<>>, NEW t, t = Tail(s)
    PROVE  /\ Len(s) \in Nat /\ Len(s) > 0 /\ Len(t) = Len(s) - 1 /\ Head(s) = s[1] /\ s[1] \in S
           /\ \A k \in 1..Len(t) : /\ k + 1 \in 1..Len(s) /\ k \in 1..(Len(s) - 1)
                                   /\ t[k] = s[k + 1] /\ (k < Len(t) => k + 1 < Len(s))
OBVIOUS

LEMMA VerifyKeeps ==
    ASSUME TypeInv, CheckInv, sent # <<>>, verdict = "ok", Verify(Head(sent))
    PROVE  CheckInv'
<1>1. PICK p : p = Head(sent)
    OBVIOUS
<1>2. /\ verdict' = IF PrbsFails(p) THEN "prbs"
                    ELSE IF Checked(p) /\ RxSum(p) # p.checksum THEN "checksum" ELSE "ok"
      /\ grx_saved_checksum' = IF Checked(p) /\ verdict' = "ok" THEN RxSum(p) ELSE grx_saved_checksum
      /\ sent' = IF verdict' = "ok" THEN Tail(sent) ELSE sent
      /\ UNCHANGED <<gchecksums, gprbs_seed, saved_checksum, done, causes>>
    BY <1>1 DEF Verify, options
<1>3. AlarmExplained' /\ PrbsAccepted'
    BY VerifyVerdict
<1>4. CASE verdict' # "ok"
  <2>1. sent' = sent /\ grx_saved_checksum' = grx_saved_checksum
      BY <1>2, <1>4
  <2> QED BY <1>2, <1>3, <2>1 DEF CheckInv, QueueInv, Generated, ChainInv, Chained, Summed, Before
<1>5. CASE verdict' = "ok"
  <2>1. /\ sent' = Tail(sent) /\ grx_saved_checksum' = (IF Checked(p) THEN RxSum(p) ELSE grx_saved_checksum)
        /\ (Checked(p) => RxSum(p) = p.checksum)
      BY <1>2, <1>5
  <2>2. /\ Len(sent) \in Nat /\ Len(sent) > 0 /\ Len(sent') = Len(sent) - 1 /\ p = sent[1] /\ p \in Leg
        /\ \A k \in 1..Len(sent') : /\ k + 1 \in 1..Len(sent) /\ k \in 1..(Len(sent) - 1)
                                    /\ sent'[k] = sent[k + 1] /\ (k < Len(sent') => k + 1 < Len(sent))
    <3>1. PICK S, s, t : S = Leg /\ s = sent /\ t = sent'
        OBVIOUS
    <3>2. s \in Seq(S) /\ s # <<>> /\ t = Tail(s)
        BY <2>1, <3>1 DEF TypeInv, TypeOK
    <3>3. /\ Len(s) \in Nat /\ Len(s) > 0 /\ Len(t) = Len(s) - 1 /\ Head(s) = s[1] /\ s[1] \in S
          /\ \A k \in 1..Len(t) : /\ k + 1 \in 1..Len(s) /\ k \in 1..(Len(s) - 1)
                                  /\ t[k] = s[k + 1] /\ (k < Len(t) => k + 1 < Len(s))
        BY <3>2, TailFacts
    <3> QED BY <1>1, <3>1, <3>3
  <2>3. QueueInv'
    <3>1. ASSUME NEW k \in 1..Len(sent')
          PROVE  /\ (k < Len(sent') \/ ~done' => sent'[k].opcode = "feed_more")
                 /\ (sent'[k].opcode = "end_of_millipede" => sent'[k].size = 0)
      <4>1. k + 1 \in 1..Len(sent) /\ sent'[k] = sent[k + 1] /\ (k < Len(sent') => k + 1 < Len(sent))
          BY <2>2
      <4> QED BY <1>2, <4>1 DEF CheckInv, QueueInv
    <3> QED BY <3>1 DEF QueueInv
  <2>4. ASSUME "changed" \notin causes'
        PROVE  (\A k \in 1..Len(sent) : sent[k].changed = "no" /\ Generated(sent[k]))'
    <3>1. \A k \in 1..Len(sent) : sent[k].changed = "no" /\ Generated(sent[k])
        BY <1>2, <2>4 DEF CheckInv
    <3>2. \A k \in 1..Len(sent') : sent'[k].changed = "no" /\ Generated(sent'[k])
        BY <2>2, <3>1
    <3> QED BY <1>2, <3>2 DEF Generated
  <2>5. ASSUME causes' \subseteq {"changed"} PROVE ChainInv'
    <3>1. ChainInv
        BY <1>2, <2>5 DEF CheckInv
    <3>2. p.opcode = "feed_more" /\ gchecksums => grx_saved_checksum' = p.checksum
      <4> SUFFICES ASSUME p.opcode = "feed_more", gchecksums PROVE grx_saved_checksum' = p.checksum
          OBVIOUS
      <4>1. 1 \in 1..Len(sent)
          BY <2>2
      <4>2. Chained(sent[1], Before(1))
          BY <3>1, <4>1 DEF ChainInv
      <4>3. Checked(p)
          BY <2>2, <4>2 DEF Chained, Checked
      <4> QED BY <2>1, <4>3
    <3>3. ASSUME NEW k \in 1..Len(sent), k < Len(sent) \/ ~done, gchecksums
          PROVE  Before(k)' = Before(k + 1)
      <4>1. CASE k = 1
        <5>1. sent[1].opcode = "feed_more"
            BY <3>3, <4>1 DEF CheckInv, QueueInv
        <5>2. grx_saved_checksum' = sent[1].checksum
            BY <2>2, <3>2, <3>3, <5>1
        <5>3. Before(k)' = grx_saved_checksum' /\ Before(k + 1) = sent[1].checksum
            BY <4>1 DEF Before
        <5> QED BY <5>2, <5>3
      <4>2. CASE k # 1
        <5>1. k - 1 \in 1..Len(sent') /\ k - 1 + 1 = k /\ k + 1 # 1 /\ k + 1 - 1 = k
            BY <2>2, <4>2
        <5>2. Before(k)' = sent'[k - 1].checksum
            BY <4>2 DEF Before
        <5>3. Before(k + 1) = sent[k].checksum
            BY <5>1 DEF Before
        <5>4. sent'[k - 1] = sent[k]
            BY <2>2, <5>1
        <5> QED BY <5>2, <5>3, <5>4
      <4> QED BY <4>1, <4>2
    <3>4. ASSUME NEW k \in 1..Len(sent') PROVE Chained(sent[k], Before(k))'
      <4>1. k + 1 \in 1..Len(sent) /\ k \in 1..Len(sent) /\ k < Len(sent) /\ sent'[k] = sent[k + 1]
          BY <2>2
      <4>2. Chained(sent[k + 1], Before(k + 1))
          BY <3>1, <4>1 DEF ChainInv
      <4>3. gchecksums => Before(k)' = Before(k + 1)
          BY <3>3, <4>1
      <4> QED BY <1>2, <4>1, <4>2, <4>3 DEF Chained, Summed
    <3>5. gchecksums /\ ~done' => saved_checksum' = Before(Len(sent) + 1)'
      <4> SUFFICES ASSUME gchecksums, ~done' PROVE saved_checksum' = Before(Len(sent) + 1)'
          OBVIOUS
      <4>1. PICK m : m = Len(sent)
          OBVIOUS
      <4>2. m \in 1..Len(sent) /\ Len(sent') + 1 = m
          BY <2>2, <4>1
      <4>3. saved_checksum' = Before(m + 1)
          BY <1>2, <3>1, <4>1 DEF ChainInv
      <4>4. Before(m)' = Before(m + 1)
          BY <1>2, <3>3, <4>2
      <4>5. Before(Len(sent) + 1)' = Before(m)'
          BY <4>2 DEF Before
      <4> QED BY <4>3, <4>4, <4>5
    <3> QED BY <1>2, <3>4, <3>5 DEF ChainInv
  <2> QED BY <1>3, <2>3, <2>4, <2>5 DEF CheckInv
<1> QED BY <1>4, <1>5

\* A full leg that lost its sample does not pass.
LEMMA SpoiltLegStops ==
    ASSUME TypeInv, CheckInv, sent # <<>>, verdict = "ok", Verify(Head(sent)), gchecksums, causes = {"changed"},
           Head(sent).changed = "sample", Head(sent).size = kfootsize
    PROVE  sent' = sent
<1>1. PICK p : p = Head(sent)
    OBVIOUS
<1>2. /\ verdict' = IF PrbsFails(p) THEN "prbs"
                    ELSE IF Checked(p) /\ RxSum(p) # p.checksum THEN "checksum" ELSE "ok"
      /\ sent' = IF verdict' = "ok" THEN Tail(sent) ELSE sent
    BY <1>1 DEF Verify
<1>3. p = sent[1] /\ 1 \in 1..Len(sent) /\ p \in Leg /\ p.size = kfootsize /\ p.changed = "sample"
    BY <1>1 DEF TypeInv, TypeOK
<1>4. p.opcode = "feed_more"
  <2>1. kfootsize # 0
      BY Constants
  <2>2. p.opcode # "end_of_millipede"
      BY <1>3, <2>1 DEF CheckInv, QueueInv
  <2> QED BY <1>3, <2>2 DEF Leg
<1>5. Chained(p, grx_saved_checksum)
  <2>1. Chained(sent[1], Before(1))
      BY <1>3 DEF CheckInv, ChainInv
  <2> QED BY <1>3, <2>1 DEF Before
<1>6. PICK q \in Buffer : Summed(p, grx_saved_checksum, q)
    BY <1>4, <1>5 DEF Chained
<1>7. Checked(p) /\ p.size >= Sample
    BY <1>4, <1>5 DEF Chained, Checked
<1>8. RxSum(p) # p.checksum
  <2> SUFFICES ASSUME RxSum(p) = p.checksum PROVE FALSE
      OBVIOUS
  <2>1. Arrived(p) \in Buffer /\ grx_saved_checksum + p.leg_id \in Nat
      BY <1>3, ArrivedType
  <2>2. mix(grx_saved_checksum + p.leg_id, Arrived(p), kfootsize) = mix(grx_saved_checksum + p.leg_id, q, kfootsize)
      BY <1>3, <1>6 DEF RxSum, Summed
  <2>3. \A i \in 0..(Sample - 1) : Arrived(p)[i] = q[i]
      BY <1>6, <2>1, <2>2, FullLegTells
  <2>4. \A i \in 0..(Sample - 1) : Arrived(p)[i] = p.payload[i]
      BY <1>3, <1>7, SampleArrives
  <2>5. \E i \in 0..(Sample - 1) : p.payload[i] # q[i]
      BY <1>3, <1>6 DEF Summed
  <2> QED BY <2>3, <2>4, <2>5
<1> QED BY <1>2, <1>7, <1>8

LEMMA CheckInvariance == Spec => []CheckInv
<1>1. TypeInv /\ CheckInv /\ [Next]_vars => CheckInv'
  <2> SUFFICES ASSUME TypeInv, CheckInv, [Next]_vars PROVE CheckInv'
      OBVIOUS
  <2>1. ASSUME NEW c \in Conn, NEW data \in Payloads, NEW n \in Sizes \cup {kfootsize}, Ingest(c, data, n)
        PROVE  CheckInv'
    <3>1. data \in Buffer
        BY DEF Payloads
    <3> QED BY <2>1, <3>1, IngestKeeps
  <2>2. ASSUME NEW c \in Conn, Shutdown(c) PROVE CheckInv'
      BY <2>2, ShutdownKeeps
  <2>3. ASSUME NEW k \in 1..(MaxLegs + 1), NEW i \in Places, NEW byte \in 0..(Radix - 1), Change(k, i, byte) PROVE CheckInv'
      BY <2>3, ChangeKeeps
  <2>4. CASE sent # <<>> /\ verdict = "ok" /\ Verify(Head(sent))
      BY <2>4, VerifyKeeps
  <2>5. CASE UNCHANGED vars
      BY <2>5 DEF vars, options, CheckInv, AlarmExplained, PrbsAccepted, QueueInv, Generated, ChainInv, Chained,
                  Summed, Before
  <2> QED BY <2>1, <2>2, <2>3, <2>4, <2>5 DEF Next
<1> QED BY <1>1, CheckInitially, TypeInvariance, PTL DEF Spec

-----------------------------------------------------------------------------
(***************************************************************************)
(* Sums, buffers and legs keep their types: what mix() returns fits an     *)
(* unsigned int, however long the leg (plumbing.c:289-298).                *)
(***************************************************************************)
THEOREM TypeCorrect == Spec => []TypeOK
<1>1. TypeInv => TypeOK BY DEF TypeInv
<1> QED BY <1>1, TypeInvariance, PTL

(***************************************************************************)
(* The receiver stops with a checksum mismatch only for one of the four    *)
(* reasons that Ingest and Change record (rx.c:183-195, tx.c:103).         *)
(***************************************************************************)
THEOREM AlarmsAreExplained == Spec => []AlarmExplained
<1>1. CheckInv => AlarmExplained BY DEF CheckInv
<1> QED BY <1>1, CheckInvariance, PTL

(***************************************************************************)
(* A leg that arrives as it was sent passes prbs_verify() (rx.c:125-133).  *)
(***************************************************************************)
THEOREM StreamIsAccepted == Spec => []PrbsAccepted
<1>1. CheckInv => PrbsAccepted BY DEF CheckInv
<1> QED BY <1>1, CheckInvariance, PTL

(***************************************************************************)
(* While the chain is whole, no full leg with a changed sample is accepted *)
(* (rx.c:183-195): the rounds of mix() over a full buffer can be undone,   *)
(* so that two samples never have the same sum (plumbing.c:292).           *)
(***************************************************************************)
THEOREM SpoiltLegsStop == Spec => FullLegGuarded
<1> DEFINE Guarded == gchecksums /\ causes = {"changed"} /\ Len(sent') < Len(sent) =>
                          ~(Head(sent).changed = "sample" /\ Head(sent).size = kfootsize)
<1>1. TypeInv /\ CheckInv /\ [Next]_vars => [Guarded]_vars
  <2> SUFFICES ASSUME TypeInv, CheckInv, Next, gchecksums, causes = {"changed"}, Len(sent') < Len(sent),
                      Head(sent).changed = "sample", Head(sent).size = kfootsize
               PROVE  FALSE
      OBVIOUS
  <2>1. sent \in Seq(Leg) /\ Len(sent) \in Nat
      BY DEF TypeInv, TypeOK
  <2>2. ASSUME NEW c, NEW buf, NEW sum, NEW n, NEW op, Pushed(c, buf, sum, n, op) PROVE FALSE
    <3>1. PICK e : sent' = Append(sent, e)
        BY <2>2 DEF Pushed
    <3>2. Len(Append(sent, e)) = Len(sent) + 1
        BY <2>1
    <3> QED BY <2>1, <3>1, <3>2
  <2>3. ASSUME NEW c, NEW data, NEW n, Ingest(c, data, n) PROVE FALSE
      BY <2>2, <2>3 DEF Ingest
  <2>4. ASSUME NEW c, Shutdown(c) PROVE FALSE
      BY <2>2, <2>4 DEF Shutdown
  <2>5. ASSUME NEW k, NEW i, NEW byte, Change(k, i, byte) PROVE FALSE
      BY <2>5 DEF Change
  <2>6. CASE sent # <<>> /\ verdict = "ok" /\ Verify(Head(sent))
    <3>1. sent' = sent
        BY <2>6, SpoiltLegStops
    <3> QED BY <2>1, <3>1
  <2> QED BY <2>3, <2>4, <2>5, <2>6 DEF Next
<1>2. [][Guarded]_vars => FullLegGuarded
    BY DEF FullLegGuarded
<1> HIDE DEF Guarded
<1> QED BY <1>1, <1>2, TypeInvariance, CheckInvariance, PTL DEF Spec
=============================================================================
