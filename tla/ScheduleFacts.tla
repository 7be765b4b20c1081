--------------------------- MODULE ScheduleFacts ---------------------------
(***************************************************************************)
(* Facts about windows and epochs that hold for all validated parameters,  *)
(* and induction over the naturals, for definitions by recursion.          *)
(***************************************************************************)
EXTENDS Schedule, WellFoundedInduction, TLAPS

\* What validate() leaves of the parameters.
LEMMA ParameterFacts ==
    /\ activation_height \in Nat /\ epoch_blocks \in Nat /\ window_blocks \in Nat
    /\ commit_maturity_blocks \in Nat /\ commit_ttl_blocks \in Nat
    /\ lease_blocks \in Nat
    /\ 1 <= window_blocks /\ window_blocks <= commit_maturity_blocks
    /\ commit_maturity_blocks < commit_ttl_blocks
    /\ commit_ttl_blocks < epoch_blocks /\ epoch_blocks < lease_blocks
  BY ParametersAssumption DEF Valid, Height

\* A window starts within its epoch and ends with it at the latest.
LEMMA OffsetRange ==
    ASSUME NEW n \in NameIds
    PROVE  offset(n) \in 0 .. (epoch_blocks - window_blocks)
  <1> DEFINE span == epoch_blocks - window_blocks + 1
  <1>1. span \in Nat /\ span > 0
    BY ParameterFacts
  <1>2. Digest[n] \in Nat
    BY ParametersAssumption
  <1> HIDE DEF span
  <1>3. Digest[n] % span \in 0 .. span - 1
    BY <1>1, <1>2
  <1>4. offset(n) = Digest[n] % span
    BY DEF offset, span
  <1> QED BY <1>1, <1>3, <1>4, ParameterFacts DEF span

LEMMA EpochNat ==
    ASSUME NEW h \in Nat, h >= activation_height
    PROVE  epoch(h) \in Nat
  <1>1. h - activation_height \in Nat /\ epoch_blocks \in Nat /\ epoch_blocks > 0
    BY ParameterFacts
  <1> QED BY <1>1 DEF epoch

\* The windows of two epochs lie at least an epoch apart.
LEMMA Multiples ==
    ASSUME NEW i \in Nat, NEW j \in Nat, NEW k \in Nat, i < j
    PROVE  j * k >= i * k + k
  <1>1. PICK m \in Nat : j = i + 1 + m
    <2>1. j - i - 1 \in Nat /\ j = i + 1 + (j - i - 1)
      OBVIOUS
    <2> QED BY <2>1
  <1>2. j * k = i * k + k + m * k
    BY <1>1
  <1>3. m * k \in Nat /\ i * k \in Nat
    BY <1>1
  <1> QED BY <1>2, <1>3

LEMMA WindowStarts ==
    ASSUME NEW n \in NameIds, NEW i \in Nat, NEW j \in Nat
    PROVE  /\ window(n, i).start \in Nat
           /\ window(n, i).end = window(n, i).start + window_blocks
           /\ window(n, i + 1).start = window(n, i).start + epoch_blocks
           /\ i < j => window(n, j).start >= window(n, i).start + epoch_blocks
  <1>1. offset(n) \in Nat /\ activation_height \in Nat /\ epoch_blocks \in Nat
    BY OffsetRange, ParameterFacts
  <1>2. i * epoch_blocks \in Nat /\ j * epoch_blocks \in Nat
        /\ (i + 1) * epoch_blocks = i * epoch_blocks + epoch_blocks
    BY <1>1
  <1>3. i < j => j * epoch_blocks >= i * epoch_blocks + epoch_blocks
    BY <1>1, Multiples
  <1> QED BY <1>1, <1>2, <1>3 DEF window

\* Where an accepted operation lies.
LEMMA AcceptedInWindow ==
    ASSUME NEW n \in NameIds, NEW h \in Nat, accepts_operation(n, h)
    PROVE  /\ epoch(h) \in Nat
           /\ window(n, epoch(h)).start <= h
           /\ h < window(n, epoch(h)).start + window_blocks
  BY EpochNat, WindowStarts DEF accepts_operation, contains

\* Epochs follow the order of heights, and an epoch of blocks leads to another.
LEMMA Division ==
    ASSUME NEW a \in Nat, NEW d \in Nat, d > 0
    PROVE  /\ a \div d \in Nat /\ (a \div d) * d <= a /\ a < (a \div d) * d + d
  <1>1. a \div d \in Nat /\ a % d \in 0 .. d - 1
    OBVIOUS
  <1>2. a = d * (a \div d) + (a % d)
    OBVIOUS
  <1>3. d * (a \div d) = (a \div d) * d
    BY <1>1
  <1> QED BY <1>1, <1>2, <1>3

LEMMA EpochOrder ==
    ASSUME NEW g \in Nat, NEW h \in Nat, g >= activation_height, g <= h
    PROVE  /\ epoch(g) \in Nat /\ epoch(h) \in Nat
           /\ epoch(g) <= epoch(h)
           /\ g + epoch_blocks <= h => epoch(g) < epoch(h)
  <1> DEFINE a == g - activation_height
             b == h - activation_height
             i == a \div epoch_blocks
             j == b \div epoch_blocks
  <1>1. /\ a \in Nat /\ b \in Nat /\ a <= b /\ epoch_blocks \in Nat /\ epoch_blocks > 0
        /\ g + epoch_blocks <= h => a + epoch_blocks <= b
    BY ParameterFacts
  <1> HIDE DEF a, b
  <1>2. /\ i \in Nat /\ i * epoch_blocks <= a
        /\ j \in Nat /\ b < j * epoch_blocks + epoch_blocks
    BY <1>1, Division
  <1>3. epoch(g) = i /\ epoch(h) = j
    BY DEF epoch, a, b
  <1> HIDE DEF i, j
  <1>4. /\ j < i => i * epoch_blocks >= j * epoch_blocks + epoch_blocks
        /\ i * epoch_blocks \in Nat /\ j * epoch_blocks \in Nat
    BY <1>1, <1>2, Multiples
  <1>5. ~(j < i)
    BY <1>1, <1>2, <1>4
  <1>6. a + epoch_blocks <= b => i # j
    BY <1>1, <1>2, <1>4
  <1> QED BY <1>1, <1>2, <1>3, <1>5, <1>6

-----------------------------------------------------------------------------
(***************************************************************************)
(* Induction over the naturals.  The property is a set, so that no lemma   *)
(* has an operator as a parameter.                                         *)
(***************************************************************************)
\* A set of naturals that is not empty has a least element.
LEMMA LeastNatural ==
    ASSUME NEW T \in SUBSET Nat, T # {}
    PROVE  \E x \in T : \A y \in T : x <= y
  <1>1. IsWellFoundedOn(OpToRel(<, Nat), Nat)
    BY NatLessThanWellFounded
  <1> DEFINE R == OpToRel(<, Nat)
  <1>2. \A x, y \in Nat : <<x, y>> \in R <=> x < y
    BY DEF OpToRel
  <1> HIDE DEF R
  <1>3. PICK x \in T : \A y \in T : ~ (<<y, x>> \in R)
    BY <1>1, WFMin DEF R
  <1>4. \A y \in T : ~ (y < x)
    BY <1>2, <1>3
  <1>5. x \in Nat /\ \A y \in T : y \in Nat
    OBVIOUS
  <1>6. \A y \in T : x <= y
    BY <1>4, <1>5
  <1> QED BY <1>3, <1>6

\* Induction, with the property given as a set.
LEMMA SetInduction ==
    ASSUME NEW S, 0 \in S, \A i \in Nat : i \in S => i + 1 \in S
    PROVE  Nat \subseteq S
  <1> SUFFICES ASSUME NEW T, T = Nat \ S, T # {} PROVE FALSE
    OBVIOUS
  <1>1. PICK x \in T : \A y \in T : x <= y
    BY LeastNatural
  <1>2. x - 1 \in Nat /\ x - 1 \notin T
    BY <1>1
  <1> QED BY <1>1, <1>2

\* The same up to a bound.
LEMMA UpTo ==
    ASSUME NEW S, NEW n \in Nat, 0 \in S, \A i \in 0 .. (n - 1) : i \in S => i + 1 \in S
    PROVE  0 .. n \subseteq S
  <1> DEFINE T == {i \in Nat : i <= n => i \in S}
  <1>1. 0 \in T
    OBVIOUS
  <1>2. \A i \in Nat : i \in T => i + 1 \in T
    <2> SUFFICES ASSUME NEW i \in Nat, i \in T, i + 1 <= n PROVE i + 1 \in S
      OBVIOUS
    <2>1. i \in 0 .. (n - 1) /\ i <= n
      OBVIOUS
    <2> QED BY <2>1
  <1> HIDE DEF T
  <1>3. Nat \subseteq T
    BY <1>1, <1>2, SetInduction
  <1> QED BY <1>3 DEF T

\* A function that is given from one argument to the next exists.
Recurs(f, V, n, base, F) ==
    /\ f \in [0 .. n -> V] /\ f[0] = base
    /\ \A i \in 1 .. n : f[i] = F[<<f[i - 1], i>>]

LEMMA Recursion ==
    ASSUME NEW V, NEW n \in Nat, NEW base \in V, NEW F \in [V \X (1 .. n) -> V]
    PROVE  \E f : Recurs(f, V, n, base, F)
  <1> DEFINE Is(m, f) == Recurs(f, V, m, base, F)
             S == {m \in 0 .. n : \E f : Is(m, f)}
  <1> USE DEF Recurs
  <1>1. 0 \in S
    <2> DEFINE g == [i \in 0 .. 0 |-> base]
    <2>1. Is(0, g) /\ 0 \in 0 .. n
      OBVIOUS
    <2> HIDE DEF Is, g
    <2> QED BY <2>1
  <1>2. ASSUME NEW m \in 0 .. (n - 1), m \in S
        PROVE  m + 1 \in S
    <2>1. PICK f : Is(m, f)
      BY <1>2
    <2> DEFINE v == F[<<f[m], m + 1>>]
               g == [i \in 0 .. (m + 1) |-> IF i = m + 1 THEN v ELSE f[i]]
    <2>2. v \in V
      BY <2>1
    <2>3. /\ g[m + 1] = v /\ \A i \in 0 .. m : g[i] = f[i]
      OBVIOUS
    <2>4. g \in [0 .. (m + 1) -> V]
      BY <2>1, <2>2
    <2> HIDE DEF g, v
    <2>5. \A i \in 1 .. (m + 1) : g[i] = F[<<g[i - 1], i>>]
      BY <2>1, <2>3 DEF v
    <2>6. Is(m + 1, g)
      BY <2>1, <2>3, <2>4, <2>5
    <2> HIDE DEF Is
    <2> QED BY <2>6
  <1> HIDE DEF S
  <1>3. 0 .. n \subseteq S
    BY <1>1, <1>2, UpTo
  <1>4. n \in S
    BY <1>3
  <1> HIDE DEF Is, Recurs
  <1>5. \E f : Is(n, f)
    BY <1>4 DEF S
  <1> QED BY <1>5 DEF Is
=============================================================================
