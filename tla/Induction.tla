------------------------------ MODULE Induction ------------------------------
(***************************************************************************)
(* Induction over the natural numbers, stated over sets: a theorem that    *)
(* takes a set and not a predicate can be used by a first-order prover.    *)
(* With it, what the folds of the community modules compute.               *)
(***************************************************************************)
EXTENDS Integers, Sequences, FiniteSets, Functions, SequencesExt, WellFoundedInduction,
        FiniteSetTheorems, TLAPS

\* A set of natural numbers has a least element.
LEMMA Least ==
  ASSUME NEW T, T \subseteq Nat, T # {}
  PROVE  \E n \in T : \A m \in T : n <= m
<1>1. PICK n \in T : \A m \in T : <<m, n>> \notin OpToRel(<, Nat)
  BY WFMin, NatLessThanWellFounded, Zenon
<1>2. \A m \in T : ~(m < n)
  BY <1>1, Zenon DEF OpToRel
<1> QED
  BY ONLY <1>2, T \subseteq Nat, n \in T

\* A set that has zero, and with a number the next, has all of them.
LEMMA InductionOverSets ==
  ASSUME NEW S, 0 \in S, \A n \in Nat : n \in S => n + 1 \in S
  PROVE  Nat \subseteq S
<1> SUFFICES ASSUME NEW x \in Nat, x \notin S PROVE FALSE
  OBVIOUS
<1> DEFINE T == {n \in Nat : n \notin S}
<1>1. T \subseteq Nat /\ T # {}
  OBVIOUS
<1>2. PICK n \in T : \A m \in T : n <= m
  BY <1>1, Least
<1>3. n # 0 /\ n - 1 \in Nat /\ n - 1 \notin T
  BY <1>2
<1> QED
  BY <1>2, <1>3

\* A function on the numbers whose value at n is made from that at a smaller one.
Falls(prev, B) == \A n \in Nat : n >= B => prev[n] < n
MadeBy(f, B, first, step, prev) ==
  \A n \in Nat : f[n] = IF n >= B THEN step[<<n, f[prev[n]]>>] ELSE first[n]

LEMMA Recursion ==
  ASSUME NEW S, NEW B \in Nat, NEW first \in [Nat -> S], NEW step \in [Nat \X S -> S],
         NEW prev \in [Nat -> Nat], Falls(prev, B)
  PROVE  \E f \in [Nat -> S] : MadeBy(f, B, first, step, prev)
<1>0. \A n \in Nat : n >= B => prev[n] < n
  BY DEF Falls
<1> DEFINE Upto(n, f) == /\ f \in [0..n -> S]
                         /\ \A k \in 0..n :
                              f[k] = IF k >= B THEN step[<<k, f[prev[k]]>>] ELSE first[k]
           Made == {n \in Nat : \E f : Upto(n, f)}
<1>1. ASSUME NEW n \in Nat, NEW m \in Nat, n <= m, NEW f, NEW g, Upto(n, f), Upto(m, g)
      PROVE  \A k \in 0..n : f[k] = g[k]
  <2> SUFFICES ASSUME NEW x \in 0..n, f[x] # g[x] PROVE FALSE
    OBVIOUS
  <2> DEFINE T == {k \in 0..n : f[k] # g[k]}
  <2>1. PICK k \in T : \A j \in T : k <= j
    <3>1. T \subseteq Nat /\ T # {}
      OBVIOUS
    <3> QED
      BY ONLY <3>1, Least
  <2>2. k \in 0..n /\ k \in 0..m /\ k \in Nat /\ f[k] # g[k]
    BY <1>1
  <2>3. CASE k >= B
    <3>1. prev[k] \in Nat /\ prev[k] < k /\ prev[k] \in 0..n /\ prev[k] \notin T
      BY <1>0, <2>1, <2>2, <2>3
    <3>2. f[prev[k]] = g[prev[k]]
      BY <3>1
    <3> QED
      BY <1>1, <2>2, <2>3, <3>2
  <2>4. CASE ~(k >= B)
    BY <1>1, <2>2, <2>4
  <2> QED
    BY <2>3, <2>4
<1>2. \A n \in Nat : \E f : Upto(n, f)
  <2>1. ASSUME NEW n \in Nat, NEW f, n > 0 => Upto(n - 1, f)
        PROVE  \E g : Upto(n, g)
    <3> DEFINE g == [k \in 0..n |-> IF k < n THEN f[k]
                                    ELSE IF n >= B THEN step[<<n, f[prev[n]]>>] ELSE first[n]]
    <3>1. \A k \in 0..n : k # n => k \in 0..(n-1) /\ n > 0 /\ g[k] = f[k]
      OBVIOUS
    <3>2. ASSUME NEW k \in 0..n, k >= B
          PROVE  prev[k] \in 0..n /\ prev[k] # n /\ prev[k] \in 0..(n-1) /\ n > 0 /\ g[prev[k]] = f[prev[k]] /\ f[prev[k]] \in S
      <4>1. prev[k] \in Nat /\ prev[k] < k
        BY <1>0, <3>2
      <4>2. prev[k] \in 0..(n-1) /\ n > 0 /\ prev[k] \in 0..n /\ prev[k] # n
        BY <4>1
      <4> QED
        BY <4>2, <3>1, <2>1
    <3>3. ASSUME NEW k \in 0..n
          PROVE  g[k] \in S /\ g[k] = IF k >= B THEN step[<<k, g[prev[k]]>>] ELSE first[k]
      <4>1. CASE k = n /\ n >= B
        <5>1. g[n] = step[<<n, f[prev[n]]>>] /\ g[prev[n]] = f[prev[n]] /\ f[prev[n]] \in S
          <6>1. n \in 0..n /\ g[n] = step[<<n, f[prev[n]]>>]
            BY <4>1
          <6>2. g[prev[n]] = f[prev[n]] /\ f[prev[n]] \in S
            BY <3>2, <4>1, <6>1
          <6> QED
            BY ONLY <6>1, <6>2
        <5> HIDE DEF g
        <5> QED
          BY <4>1, <5>1
      <4>2. CASE k = n /\ ~(n >= B)
        <5>1. g[n] = first[n]
          BY <4>2
        <5> QED
          BY <4>2, <5>1
      <4>3. CASE k # n
        <5>1. g[k] = f[k] /\ k \in 0..(n-1) /\ n > 0
          BY <4>3, <3>1
        <5>2. f[k] \in S /\ f[k] = IF k >= B THEN step[<<k, f[prev[k]]>>] ELSE first[k]
          BY <5>1, <2>1
        <5>3. k >= B => g[prev[k]] = f[prev[k]]
          BY <3>2
        <5> HIDE DEF g
        <5> QED
          BY <5>1, <5>2, <5>3
      <4> QED
        BY <4>1, <4>2, <4>3
    <3>4. Upto(n, g)
      BY <3>3
    <3> QED
      BY <3>4
  <2>2. 0 \in Made
    <3>1. ASSUME NEW f PROVE \E g : Upto(0, g)
      <4> HIDE DEF Upto
      <4> QED
        BY <2>1
    <3> QED
      BY <3>1
  <2>3. ASSUME NEW n \in Nat, n \in Made PROVE n + 1 \in Made
    <3>1. PICK f : Upto(n, f)
      BY <2>3
    <3>2. n + 1 \in Nat /\ (n + 1) - 1 = n
      OBVIOUS
    <3> HIDE DEF Upto
    <3>3. \E g : Upto(n + 1, g)
      <4>1. PICK m \in Nat : m = n + 1 /\ m - 1 = n
        BY <3>2
      <4>2. m > 0 => Upto(m - 1, f)
        BY ONLY <3>1, <4>1
      <4>3. \E g : Upto(m, g)
        BY ONLY <2>1, <4>2, m \in Nat
      <4> QED
        BY ONLY <4>1, <4>3
    <3> QED
      BY <3>2, <3>3
  <2>4. Nat \subseteq Made
    BY ONLY <2>2, <2>3, InductionOverSets
  <2> QED
    BY <2>4
<1> DEFINE G == [n \in Nat |-> CHOOSE f : Upto(n, f)]
           h == [n \in Nat |-> G[n][n]]
<1>3. \A n \in Nat : Upto(n, G[n])
  <2> HIDE DEF Upto
  <2> QED
    BY <1>2
<1> HIDE DEF G
<1>4. ASSUME NEW n \in Nat
      PROVE  h[n] \in S /\ h[n] = IF n >= B THEN step[<<n, h[prev[n]]>>] ELSE first[n]
  <2>1. /\ G[n][n] \in S
        /\ G[n][n] = IF n >= B THEN step[<<n, G[n][prev[n]]>>] ELSE first[n]
    <3>1. Upto(n, G[n]) /\ n \in 0..n
      BY <1>3
    <3> QED
      BY <3>1
  <2>2. ASSUME n >= B PROVE G[n][prev[n]] = h[prev[n]]
    <3> DEFINE p == prev[n]
    <3>1. p \in Nat /\ p <= n /\ p \in 0..p
      BY <1>0, <2>2
    <3>2. Upto(p, G[p]) /\ Upto(n, G[n])
      BY <1>3, <3>1
    <3> HIDE DEF p, Upto, G
    <3>3. G[p][p] = G[n][p]
      BY <1>1, <3>1, <3>2
    <3> QED
      BY <3>1, <3>3 DEF p
  <2> QED
    BY <2>1, <2>2
<1> QED
  <2>1. h \in [Nat -> S]
    BY <1>4
  <2> HIDE DEF h
  <2>2. MadeBy(h, B, first, step, prev)
    BY <1>4 DEF MadeBy
  <2> QED
    BY <2>1, <2>2

-----------------------------------------------------------------------------
(***************************************************************************)
(* Folds.  Their definition is recursive over the subsets of a domain, and *)
(* means something because a function exists that satisfies it.            *)
(***************************************************************************)
LEMMA MaxIs ==
  ASSUME NEW S \in SUBSET Nat, NEW x \in S, \A y \in S : y <= x
  PROVE  Max(S) = x
<1>1. \A y \in S : (\A z \in S : y >= z) <=> y = x
  OBVIOUS
<1> QED
  BY <1>1, Zenon DEF Max

\* Values can be summed over every subset of an interval, the greatest index first.
LEMMA SumsExist ==
  ASSUME NEW n \in Nat, NEW v, \A i \in 1..n : v[i] \in Nat
  PROVE  \E f : f = [s \in SUBSET (1..n) |->
                       IF s = {} THEN 0 ELSE f[s \ {Max(s)}] + v[Max(s)]]
<1> DEFINE Sums(m, f) == \A s \in SUBSET (1..m) :
             f[s] = IF s = {} THEN 0 ELSE f[s \ {Max(s)}] + v[Max(s)]
           Summed(m) == \E f \in [SUBSET (1..m) -> Nat] : Sums(m, f)
           T == {m \in Nat : m <= n => Summed(m)}
<1>1. Summed(0)
  <2>1. 1..0 = {}
    OBVIOUS
  <2>2. PICK f : f = [s \in SUBSET (1..0) |-> 0]
    OBVIOUS
  <2>3. f \in [SUBSET (1..0) -> Nat]
    BY <2>2
  <2>4. \A s \in SUBSET (1..0) : s = {} /\ f[s] = 0
    BY <2>1, <2>2
  <2> QED
    BY <2>3, <2>4
<1>2. ASSUME NEW m \in Nat, m + 1 <= n, Summed(m)
      PROVE  Summed(m + 1)
  <2>1. PICK f \in [SUBSET (1..m) -> Nat] : Sums(m, f)
    BY <1>2
  <2>2. PICK g : g = [s \in SUBSET (1..(m + 1)) |->
                        IF m + 1 \in s THEN f[s \ {m + 1}] + v[m + 1] ELSE f[s]]
    OBVIOUS
  <2>3. \A s \in SUBSET (1..(m + 1)) :
          s \ {m + 1} \in SUBSET (1..m) /\ (m + 1 \notin s => s \in SUBSET (1..m))
    OBVIOUS
  <2>4. g \in [SUBSET (1..(m + 1)) -> Nat]
    <3>1. v[m + 1] \in Nat
      BY <1>2
    <3>2. \A s \in SUBSET (1..m) : f[s] \in Nat
      OBVIOUS
    <3>3. ASSUME NEW s \in SUBSET (1..(m + 1))
          PROVE  (IF m + 1 \in s THEN f[s \ {m + 1}] + v[m + 1] ELSE f[s]) \in Nat
      <4>1. m + 1 \in s => f[s \ {m + 1}] \in Nat
        BY <2>3, <3>2
      <4>2. m + 1 \notin s => f[s] \in Nat
        BY <2>3, <3>2
      <4> QED
        BY ONLY <3>1, <4>1, <4>2
    <3> QED
      BY ONLY <2>2, <3>3
  <2>5. ASSUME NEW s \in SUBSET (1..(m + 1))
        PROVE  g[s] = IF s = {} THEN 0 ELSE g[s \ {Max(s)}] + v[Max(s)]
    <3>1. CASE m + 1 \in s
      <4>1. Max(s) = m + 1
        BY <3>1, MaxIs
      <4>2. s \ {m + 1} \in SUBSET (1..(m + 1)) /\ m + 1 \notin s \ {m + 1}
        OBVIOUS
      <4>3. g[s \ {m + 1}] = f[s \ {m + 1}]
        BY <2>2, <4>2
      <4>4. g[s] = f[s \ {m + 1}] + v[m + 1]
        BY <2>2, <3>1
      <4> QED
        BY <3>1, <4>1, <4>3, <4>4
    <3>2. CASE m + 1 \notin s
      <4>1. s \in SUBSET (1..m) /\ g[s] = f[s]
        BY <2>2, <2>3, <3>2
      <4>2. s \ {Max(s)} \in SUBSET (1..(m + 1)) /\ m + 1 \notin s \ {Max(s)}
        BY <3>2
      <4>3. g[s \ {Max(s)}] = f[s \ {Max(s)}]
        BY <2>2, <4>2
      <4> QED
        BY <2>1, <4>1, <4>3
    <3> QED
      BY <3>1, <3>2
  <2> QED
    BY <2>4, <2>5
<1>3. Summed(n)
  <2> HIDE DEF Summed
  <2>1. 0 \in T /\ \A m \in Nat : m \in T => m + 1 \in T
    BY <1>1, <1>2
  <2> HIDE DEF T
  <2>2. n \in T
    BY <2>1, InductionOverSets
  <2> QED
    BY <2>2 DEF T
<1>4. PICK f \in [SUBSET (1..n) -> Nat] : Sums(n, f)
  BY <1>3
<1>5. f = [s \in SUBSET (1..n) |-> IF s = {} THEN 0 ELSE f[s \ {Max(s)}] + v[Max(s)]]
  BY <1>4
<1> QED
  BY <1>5

\* f sums v over the subsets of 1..n, and v has the differences of c.
SumsUp(n, v, f) ==
  \A s \in SUBSET (1..n) : f[s] = IF s = {} THEN 0 ELSE f[s \ {Max(s)}] + v[Max(s)]
Differences(n, v, c) ==
  /\ \A i \in 1..(n + 1) : c[i] \in Nat
  /\ \A i \in 1..n : c[i] <= c[i + 1] /\ v[i] = c[i + 1] - c[i]

\* The sum of the differences of a sequence that never falls is what it rises by.
LEMMA SumOfDifferences ==
  ASSUME NEW n \in Nat, NEW v, NEW c, NEW f, SumsUp(n, v, f), Differences(n, v, c)
  PROVE  f[1..n] = c[n + 1] - c[1]
<1> USE DEF SumsUp, Differences
<1> DEFINE T == {m \in Nat : m <= n => f[1..m] = c[m + 1] - c[1]}
<1>1. \A i \in 1..(n + 1) : c[i] \in Nat
  OBVIOUS
<1>2. \A i \in 1..n : v[i] = c[i + 1] - c[i]
  OBVIOUS
<1>3. 0 \in T
  <2>1. 1..0 = {} /\ 1 \in 1..(n + 1) /\ 0 + 1 = 1
    BY ONLY n \in Nat
  <2>2. {} \in SUBSET (1..n)
    BY Zenon
  <2>3. f[{}] = 0
    BY <2>2, Zenon
  <2>4. f[1..0] = c[0 + 1] - c[1]
    <3>1. c[1] \in Nat
      BY ONLY <1>1, <2>1
    <3>2. f[1..0] = 0
      BY ONLY <2>1, <2>3
    <3> QED
      BY ONLY <2>1, <3>1, <3>2
  <2> QED
    BY ONLY <2>4
<1>4. ASSUME NEW m \in Nat, m \in T
      PROVE  m + 1 \in T
  <2> SUFFICES ASSUME m + 1 <= n PROVE f[1..(m + 1)] = c[m + 2] - c[1]
    <3>1. (m + 1) + 1 = m + 2 /\ m + 1 \in Nat
      BY ONLY m \in Nat
    <3> QED
      BY <3>1
  <2>1. 1..(m + 1) \in SUBSET (1..n)
    BY ONLY m \in Nat, n \in Nat, m + 1 <= n
  <2>2. PICK s : s = 1..(m + 1)
    OBVIOUS
  <2>3. s # {} /\ Max(s) = m + 1 /\ s \ {m + 1} = 1..m
    <3>1. m + 1 \in s /\ s \in SUBSET Nat /\ (\A y \in s : y <= m + 1) /\ s \ {m + 1} = 1..m
      BY ONLY <2>2, m \in Nat
    <3>2. Max(s) = m + 1
      BY ONLY <3>1, MaxIs
    <3> QED
      BY ONLY <3>1, <3>2
  <2>4. f[s] = f[1..m] + v[m + 1]
    <3>1. f[s] = IF s = {} THEN 0 ELSE f[s \ {Max(s)}] + v[Max(s)]
      BY <2>1, <2>2, Zenon
    <3> QED
      BY ONLY <2>3, <3>1
  <2>5. /\ m + 1 \in 1..n /\ (m + 1) + 1 = m + 2 /\ m <= n
        /\ 1 \in 1..(n + 1) /\ m + 1 \in 1..(n + 1) /\ m + 2 \in 1..(n + 1)
    BY ONLY m \in Nat, n \in Nat, m + 1 <= n
  <2>6. f[1..m] = c[m + 1] - c[1]
    BY ONLY <1>4, <2>5
  <2>7. v[m + 1] = c[m + 2] - c[m + 1] /\ c[1] \in Nat /\ c[m + 1] \in Nat /\ c[m + 2] \in Nat
    BY ONLY <1>1, <1>2, <2>5
  <2> QED
    BY ONLY <2>2, <2>4, <2>6, <2>7
<1>5. n \in T
  <2> HIDE DEF T
  <2> QED
    BY ONLY <1>3, <1>4, InductionOverSets, n \in Nat
<1> QED
  BY ONLY <1>5, n \in Nat

-----------------------------------------------------------------------------
(***************************************************************************)
(* FoldFunction(+, 0, v) over a finite domain takes its elements as CHOOSE *)
(* gives them: it is a sum because the order does not matter.              *)
(***************************************************************************)
Chosen(s) == CHOOSE x \in s : TRUE

\* f sums v over each subset of S.
SumsOver(S, v, f) ==
  \A s \in SUBSET S : f[s] = IF s = {} THEN 0 ELSE v[Chosen(s)] + f[s \ {Chosen(s)}]

Integral(S, v) == \A x \in S : v[x] \in Int
Agree(S, v, u) == \A x \in S : u[x] = v[x]

LEMMA ChosenIn == ASSUME NEW s, s # {} PROVE Chosen(s) \in s
  BY DEF Chosen

\* What is finite and not empty has one element more than without one of them.
LEMMA OneLess ==
  ASSUME NEW S, IsFiniteSet(S), NEW s \in SUBSET S, NEW x \in s
  PROVE  /\ IsFiniteSet(s) /\ IsFiniteSet(s \ {x})
         /\ Cardinality(s \ {x}) \in Nat /\ Cardinality(s) = Cardinality(s \ {x}) + 1
<1>1. IsFiniteSet(s)
  BY FS_Subset
<1>2. IsFiniteSet(s \ {x}) /\ Cardinality(s \ {x}) = Cardinality(s) - 1
  BY <1>1, FS_RemoveElement
<1>3. Cardinality(s) \in Nat /\ Cardinality(s \ {x}) \in Nat
  BY <1>1, <1>2, FS_CardinalityType
<1> QED
  BY ONLY <1>1, <1>2, <1>3

LEMMA FiniteSumsExist ==
  ASSUME NEW S, IsFiniteSet(S), NEW v, \A x \in S : v[x] \in Int
  PROVE  \E f \in [SUBSET S -> Int] : SumsOver(S, v, f)
<1> DEFINE Sums(n, f) == \A s \in SUBSET S : Cardinality(s) <= n =>
             f[s] = IF s = {} THEN 0 ELSE v[Chosen(s)] + f[s \ {Chosen(s)}]
           Summed(n) == \E f \in [SUBSET S -> Int] : Sums(n, f)
           T == {n \in Nat : Summed(n)}
<1>1. Summed(0)
  <2>1. PICK f : f = [s \in SUBSET S |-> 0]
    OBVIOUS
  <2>2. ASSUME NEW s \in SUBSET S, Cardinality(s) <= 0 PROVE s = {}
    <3>1. s # {} => Cardinality(s \ {Chosen(s)}) \in Nat /\ Cardinality(s) = Cardinality(s \ {Chosen(s)}) + 1
      BY ChosenIn, OneLess
    <3> QED
      BY ONLY <2>2, <3>1
  <2>3. f \in [SUBSET S -> Int] /\ \A s \in SUBSET S : f[s] = 0
    BY <2>1
  <2> QED
    BY <2>2, <2>3
<1>2. ASSUME NEW n \in Nat, Summed(n) PROVE Summed(n + 1)
  <2>1. PICK f \in [SUBSET S -> Int] : Sums(n, f)
    BY <1>2
  <2>2. PICK g : g = [s \in SUBSET S |-> IF Cardinality(s) = n + 1
                                           THEN v[Chosen(s)] + f[s \ {Chosen(s)}] ELSE f[s]]
    OBVIOUS
  <2>3. \A s \in SUBSET S : s # {} => /\ Chosen(s) \in S /\ s \ {Chosen(s)} \in SUBSET S
                                     /\ Cardinality(s \ {Chosen(s)}) \in Nat
                                     /\ Cardinality(s) = Cardinality(s \ {Chosen(s)}) + 1
    BY ChosenIn, OneLess
  <2>4. Cardinality({}) = 0
    BY FS_EmptySet
  <2>5. g \in [SUBSET S -> Int]
    <3>1. ASSUME NEW s \in SUBSET S, Cardinality(s) = n + 1
          PROVE  v[Chosen(s)] + f[s \ {Chosen(s)}] \in Int
      <4>1. s # {}
        <5>1. Cardinality(s) # 0
          BY ONLY <3>1, n \in Nat
        <5> QED
          BY ONLY <2>4, <5>1, Zenon
      <4>2. v[Chosen(s)] \in Int /\ f[s \ {Chosen(s)}] \in Int
        BY <2>3, <4>1
      <4> QED
        BY ONLY <4>2
    <3>2. \A s \in SUBSET S : f[s] \in Int
      OBVIOUS
    <3> QED
      BY ONLY <2>2, <3>1, <3>2
  <2>6. ASSUME NEW s \in SUBSET S, Cardinality(s) <= n + 1
        PROVE  g[s] = IF s = {} THEN 0 ELSE v[Chosen(s)] + g[s \ {Chosen(s)}]
    <3>1. CASE s = {}
      <4>1. g[s] = f[s] /\ Cardinality(s) <= n
        BY ONLY <2>2, <2>4, <3>1, n \in Nat, s \in SUBSET S
      <4> QED
        BY <2>1, <3>1, <4>1
    <3>2. CASE s # {}
      <4>1. PICK x : x = Chosen(s)
        OBVIOUS
      <4>2. /\ s \ {x} \in SUBSET S /\ Cardinality(s \ {x}) \in Nat
            /\ Cardinality(s) = Cardinality(s \ {x}) + 1 /\ Cardinality(s \ {x}) # n + 1
        BY <2>3, <2>6, <3>2, <4>1
      <4>3. g[s \ {x}] = f[s \ {x}]
        BY ONLY <2>2, <4>2
      <4>4. g[s] = v[x] + f[s \ {x}]
        <5>1. CASE Cardinality(s) = n + 1
          BY ONLY <2>2, <4>1, <5>1, s \in SUBSET S
        <5>2. CASE Cardinality(s) # n + 1
          <6>1. Cardinality(s) <= n /\ g[s] = f[s]
            BY ONLY <2>2, <2>6, <4>2, <5>2, n \in Nat, s \in SUBSET S
          <6> QED
            BY <2>1, <3>2, <4>1, <6>1
        <5> QED
          BY <5>1, <5>2
      <4> QED
        BY ONLY <3>2, <4>1, <4>3, <4>4
    <3> QED
      BY <3>1, <3>2
  <2> QED
    BY <2>5, <2>6
<1>3. PICK n \in Nat : n = Cardinality(S)
  BY FS_CardinalityType
<1>4. Summed(n)
  <2> HIDE DEF Summed
  <2>1. 0 \in T /\ \A k \in Nat : k \in T => k + 1 \in T
    BY <1>1, <1>2
  <2> HIDE DEF T
  <2>2. n \in T
    BY <2>1, InductionOverSets
  <2> QED
    BY <2>2 DEF T
<1>5. \A s \in SUBSET S : Cardinality(s) <= n
  BY <1>3, FS_Subset
<1> QED
  BY <1>4, <1>5 DEF SumsOver

\* The element that is taken last may be any.
LEMMA SumsAdd ==
  ASSUME NEW S, IsFiniteSet(S), NEW v, Integral(S, v),
         NEW f, Integral(SUBSET S, f), SumsOver(S, v, f), NEW y \in S
  PROVE  f[S] = v[y] + f[S \ {y}]
<1> USE DEF Integral
<1> DEFINE Adds(s) == \A x \in s : f[s] = v[x] + f[s \ {x}]
           T == {n \in Nat : \A s \in SUBSET S : Cardinality(s) = n => Adds(s)}
<1>1. 0 \in T
  <2> SUFFICES ASSUME NEW s \in SUBSET S, Cardinality(s) = 0, NEW x \in s PROVE FALSE
    OBVIOUS
  <2>1. Cardinality(s \ {x}) \in Nat /\ Cardinality(s) = Cardinality(s \ {x}) + 1
    BY OneLess
  <2> QED
    BY ONLY <2>1, Cardinality(s) = 0
<1>2. ASSUME NEW n \in Nat, n \in T PROVE n + 1 \in T
  <2> SUFFICES ASSUME NEW s \in SUBSET S, Cardinality(s) = n + 1, NEW x \in s
               PROVE  f[s] = v[x] + f[s \ {x}]
    OBVIOUS
  <2>1. PICK c \in s : c = Chosen(s)
    BY ChosenIn
  <2>2. f[s] = v[c] + f[s \ {c}]
    <3>1. f[s] = IF s = {} THEN 0 ELSE v[Chosen(s)] + f[s \ {Chosen(s)}]
      BY Zenon DEF SumsOver
    <3> QED
      BY ONLY <2>1, <3>1, c \in s
  <2>3. CASE c = x
    BY ONLY <2>2, <2>3
  <2>4. CASE c # x
    <3>1. /\ s \ {x} \in SUBSET S /\ s \ {c} \in SUBSET S /\ c \in s \ {x} /\ x \in s \ {c}
          /\ (s \ {x}) \ {c} = (s \ {c}) \ {x} /\ (s \ {c}) \ {x} \in SUBSET S
      BY <2>4
    <3>2. Cardinality(s \ {x}) = n /\ Cardinality(s \ {c}) = n
      <4>1. /\ Cardinality(s \ {x}) \in Nat /\ Cardinality(s) = Cardinality(s \ {x}) + 1
            /\ Cardinality(s \ {c}) \in Nat /\ Cardinality(s) = Cardinality(s \ {c}) + 1
        BY OneLess
      <4> QED
        BY ONLY <4>1, Cardinality(s) = n + 1, n \in Nat
    <3>3. f[s \ {x}] = v[c] + f[(s \ {x}) \ {c}] /\ f[s \ {c}] = v[x] + f[(s \ {c}) \ {x}]
      BY <1>2, <3>1, <3>2
    <3>4. PICK d \in SUBSET S : d = (s \ {c}) \ {x} /\ d = (s \ {x}) \ {c}
      BY <3>1
    <3>5. f[s \ {x}] = v[c] + f[d] /\ f[s \ {c}] = v[x] + f[d]
      BY ONLY <3>3, <3>4, Zenon
    <3>6. v[c] \in Int /\ v[x] \in Int /\ f[d] \in Int
      BY <3>4
    <3> QED
      BY ONLY <2>2, <3>5, <3>6
  <2> QED
    BY <2>3, <2>4
<1>3. Nat \subseteq T
  <2> HIDE DEF T
  <2> QED
    BY <1>1, <1>2, InductionOverSets
<1>4. ASSUME NEW s \in SUBSET S PROVE Adds(s)
  <2>1. Cardinality(s) \in Nat
    BY FS_Subset, FS_CardinalityType
  <2> QED
    BY <1>3, <2>1
<1> QED
  BY <1>4, S \in SUBSET S

\* A sum is what the function of its definition gives for the whole domain.
LEMMA FoldUnfolds ==
  ASSUME NEW v,
         \E f : f = [s \in SUBSET (DOMAIN v) |->
                       IF s = {} THEN 0 ELSE v[Chosen(s)] + f[s \ {Chosen(s)}]]
  PROVE  \E f : /\ f = [s \in SUBSET (DOMAIN v) |->
                          IF s = {} THEN 0 ELSE v[Chosen(s)] + f[s \ {Chosen(s)}]]
                /\ FoldFunction(+, 0, v) = f[DOMAIN v]
  BY Zenon DEF FoldFunction, FoldFunctionOnSet, MapThenFoldSet, Chosen

\* Two functions that sum the same values agree, also on different domains.
LEMMA SumsAgree ==
  ASSUME NEW S, IsFiniteSet(S), NEW f, NEW g, NEW v, NEW u, NEW U, S \subseteq U,
         SumsOver(S, v, f), SumsOver(U, u, g), Agree(S, v, u)
  PROVE  g[S] = f[S]
<1> USE DEF Agree
<1> DEFINE T == {n \in Nat : \A s \in SUBSET S : Cardinality(s) = n => g[s] = f[s]}
<1>1. \A s \in SUBSET S :
        /\ f[s] = IF s = {} THEN 0 ELSE v[Chosen(s)] + f[s \ {Chosen(s)}]
        /\ g[s] = IF s = {} THEN 0 ELSE u[Chosen(s)] + g[s \ {Chosen(s)}]
  <2>1. \A s \in SUBSET S : f[s] = IF s = {} THEN 0 ELSE v[Chosen(s)] + f[s \ {Chosen(s)}]
    BY DEF SumsOver
  <2>2. \A s \in SUBSET U : g[s] = IF s = {} THEN 0 ELSE u[Chosen(s)] + g[s \ {Chosen(s)}]
    BY DEF SumsOver
  <2>3. \A s \in SUBSET S : s \in SUBSET U
    BY Zenon
  <2> QED
    BY ONLY <2>1, <2>2, <2>3
<1>2. 0 \in T
  <2> SUFFICES ASSUME NEW s \in SUBSET S, Cardinality(s) = 0 PROVE g[s] = f[s]
    OBVIOUS
  <2>1. s # {} => Cardinality(s \ {Chosen(s)}) \in Nat /\ Cardinality(s) = Cardinality(s \ {Chosen(s)}) + 1
    BY ChosenIn, OneLess
  <2>2. s = {}
    BY ONLY <2>1, Cardinality(s) = 0
  <2> QED
    BY ONLY <1>1, <2>2, s \in SUBSET S
<1>3. ASSUME NEW n \in Nat, n \in T PROVE n + 1 \in T
  <2> SUFFICES ASSUME NEW s \in SUBSET S, Cardinality(s) = n + 1 PROVE g[s] = f[s]
    OBVIOUS
  <2>1. CASE s = {}
    BY ONLY <1>1, <2>1, s \in SUBSET S
  <2>2. CASE s # {}
    <3>1. PICK c \in s : c = Chosen(s)
      BY <2>2, ChosenIn
    <3>2. s \ {c} \in SUBSET S /\ Cardinality(s \ {c}) = n
      <4>1. Cardinality(s \ {c}) \in Nat /\ Cardinality(s) = Cardinality(s \ {c}) + 1
        BY OneLess
      <4> QED
        BY <4>1
    <3>3. g[s \ {c}] = f[s \ {c}]
      BY <1>3, <3>2
    <3>4. u[c] = v[c]
      OBVIOUS
    <3> QED
      BY ONLY <1>1, <2>2, <3>1, <3>3, <3>4, s \in SUBSET S
  <2> QED
    BY <2>1, <2>2
<1>4. Nat \subseteq T
  <2> HIDE DEF T
  <2> QED
    BY <1>2, <1>3, InductionOverSets
<1>5. Cardinality(S) \in Nat
  BY FS_CardinalityType
<1> QED
  BY <1>4, <1>5

LEMMA FoldSums ==
  ASSUME NEW v, IsFiniteSet(DOMAIN v), \A x \in DOMAIN v : v[x] \in Int
  PROVE  \E f \in [SUBSET (DOMAIN v) -> Int] :
           SumsOver(DOMAIN v, v, f) /\ FoldFunction(+, 0, v) = f[DOMAIN v]
<1>1. PICK S : S = DOMAIN v
  OBVIOUS
<1>2. PICK g \in [SUBSET S -> Int] : SumsOver(S, v, g)
  BY <1>1, FiniteSumsExist
<1>3. g = [s \in SUBSET S |-> IF s = {} THEN 0 ELSE v[Chosen(s)] + g[s \ {Chosen(s)}]]
  BY <1>2 DEF SumsOver
<1>4. PICK f : /\ f = [s \in SUBSET S |-> IF s = {} THEN 0 ELSE v[Chosen(s)] + f[s \ {Chosen(s)}]]
               /\ FoldFunction(+, 0, v) = f[S]
  BY <1>1, <1>3, FoldUnfolds
<1>5. SumsOver(S, v, f)
  <2>1. \A s \in SUBSET S : f[s] = IF s = {} THEN 0 ELSE v[Chosen(s)] + f[s \ {Chosen(s)}]
    BY ONLY <1>4
  <2> QED
    BY <2>1 DEF SumsOver
<1>6. f[S] = g[S]
  <2>1. Agree(S, v, v)
    BY DEF Agree
  <2> QED
    BY <1>1, <1>2, <1>5, <2>1, SumsAgree
<1> QED
  BY <1>1, <1>2, <1>4, <1>6

\* The sum over nothing, and over one thing more.
LEMMA FoldEmpty == ASSUME NEW v, DOMAIN v = {} PROVE FoldFunction(+, 0, v) = 0
<1>1. IsFiniteSet({}) /\ {} \in SUBSET {}
  BY FS_EmptySet
<1>2. PICK f : SumsOver(DOMAIN v, v, f) /\ FoldFunction(+, 0, v) = f[DOMAIN v]
  BY <1>1, FoldSums
<1> QED
  BY <1>1, <1>2 DEF SumsOver

LEMMA FoldAdds ==
  ASSUME NEW v, IsFiniteSet(DOMAIN v), NEW n, n \notin DOMAIN v,
         NEW u, DOMAIN u = DOMAIN v \cup {n}, \A x \in DOMAIN v : u[x] = v[x],
         \A x \in DOMAIN u : u[x] \in Int
  PROVE  /\ FoldFunction(+, 0, v) \in Int
         /\ FoldFunction(+, 0, u) = u[n] + FoldFunction(+, 0, v)
<1>1. PICK S : S = DOMAIN v
  OBVIOUS
<1>2. PICK U : U = DOMAIN u
  OBVIOUS
<1>3. IsFiniteSet(U) /\ S \subseteq U /\ n \in U /\ U \ {n} = S
  BY <1>1, <1>2, FS_AddElement
<1>4. PICK f \in [SUBSET S -> Int] : SumsOver(S, v, f) /\ FoldFunction(+, 0, v) = f[S]
  BY <1>1, FoldSums
<1>5. PICK g \in [SUBSET U -> Int] : SumsOver(U, u, g) /\ FoldFunction(+, 0, u) = g[U]
  BY <1>2, <1>3, FoldSums
<1>6. g[U] = u[n] + g[U \ {n}]
  <2>1. U \in SUBSET U /\ Integral(U, u)
    BY <1>2 DEF Integral
  <2>2. Integral(SUBSET U, g)
    BY DEF Integral
  <2>3. SumsOver(U, u, g)
    BY ONLY <1>5, Zenon
  <2> QED
    BY ONLY <1>3, <2>1, <2>2, <2>3, SumsAdd
<1>7. g[S] = f[S]
  <2>1. IsFiniteSet(S) /\ Agree(S, v, u)
    BY <1>1 DEF Agree
  <2>2. S \subseteq U /\ SumsOver(S, v, f) /\ SumsOver(U, u, g)
    BY ONLY <1>3, <1>4, <1>5, Zenon
  <2> QED
    BY ONLY <2>1, <2>2, SumsAgree
<1>8. f[S] \in Int
  BY <1>4
<1> QED
  BY ONLY <1>3, <1>4, <1>5, <1>6, <1>7, <1>8

\* The same under a name: the provers know no operator that takes an operator.
Total(v) == FoldFunction(+, 0, v)

LEMMA TotalEmpty == ASSUME NEW v, DOMAIN v = {} PROVE Total(v) = 0
  BY FoldEmpty, Zenon DEF Total

LEMMA TotalAdds ==
  ASSUME NEW v, IsFiniteSet(DOMAIN v), NEW n, n \notin DOMAIN v,
         NEW u, DOMAIN u = DOMAIN v \cup {n}, Agree(DOMAIN v, v, u), Integral(DOMAIN u, u)
  PROVE  Total(v) \in Int /\ Total(u) = u[n] + Total(v)
<1>1. (\A x \in DOMAIN v : u[x] = v[x]) /\ \A x \in DOMAIN u : u[x] \in Int
  BY DEF Agree, Integral
<1>2. /\ FoldFunction(+, 0, v) \in Int
      /\ FoldFunction(+, 0, u) = u[n] + FoldFunction(+, 0, v)
  BY <1>1, FoldAdds, Zenon
<1> QED
  BY ONLY <1>2, Zenon DEF Total

-----------------------------------------------------------------------------
(***************************************************************************)
(* The greatest and the least of finitely many numbers.                    *)
(***************************************************************************)
LEMMA Greatest ==
  ASSUME NEW S, IsFiniteSet(S), S # {}, S \subseteq Int
  PROVE  \E x \in S : \A y \in S : y <= x
<1> DEFINE HasGreatest(s) == \E x \in s : \A y \in s : y <= x
           T == {n \in Nat : \A s \in SUBSET S : Cardinality(s) = n + 1 => HasGreatest(s)}
<1>1. \A s \in SUBSET S : Cardinality(s) = 0 => s = {}
  BY FS_Subset, FS_EmptySet
<1>2. Cardinality({}) = 0
  BY FS_EmptySet
<1>3. ASSUME NEW s \in SUBSET S, NEW x \in s, s \ {x} = {} PROVE HasGreatest(s)
  BY <1>3
<1>4. 0 \in T
  <2> SUFFICES ASSUME NEW s \in SUBSET S, Cardinality(s) = 1 PROVE HasGreatest(s)
    OBVIOUS
  <2>1. s # {}
    <3>1. Cardinality(s) # 0
      OBVIOUS
    <3> QED
      BY ONLY <1>2, <3>1, Zenon
  <2>2. PICK x \in s : TRUE
    BY <2>1
  <2>3. Cardinality(s \ {x}) = 0 /\ s \ {x} \in SUBSET S
    <3>1. Cardinality(s \ {x}) \in Nat /\ Cardinality(s) = Cardinality(s \ {x}) + 1
      BY OneLess
    <3> QED
      BY <3>1
  <2> QED
    BY <1>1, <1>3, <2>3
<1>5. ASSUME NEW n \in Nat, n \in T PROVE n + 1 \in T
  <2> SUFFICES ASSUME NEW s \in SUBSET S, Cardinality(s) = n + 2 PROVE HasGreatest(s)
    OBVIOUS
  <2>1. s # {}
    <3>1. Cardinality(s) # 0
      OBVIOUS
    <3> QED
      BY ONLY <1>2, <3>1, Zenon
  <2>2. PICK x \in s : TRUE
    BY <2>1
  <2>3. Cardinality(s \ {x}) = n + 1 /\ s \ {x} \in SUBSET S
    <3>1. Cardinality(s \ {x}) \in Nat /\ Cardinality(s) = Cardinality(s \ {x}) + 1
      BY OneLess
    <3> QED
      BY <3>1
  <2>4. PICK z \in s \ {x} : \A y \in s \ {x} : y <= z
    BY <1>5, <2>3
  <2>5. x \in Int /\ z \in Int /\ \A y \in s : y \in Int
    OBVIOUS
  <2>6. CASE x <= z
    <3>1. z \in s /\ \A y \in s : y <= z
      BY <2>4, <2>6
    <3> QED
      BY <3>1
  <2>7. CASE z < x
    <3>1. \A y \in s : y <= x
      BY <2>4, <2>5, <2>7
    <3> QED
      BY <3>1
  <2> QED
    BY <2>5, <2>6, <2>7
<1>6. PICK n \in Nat : Cardinality(S) = n + 1
  <2>1. PICK x \in S : TRUE
    OBVIOUS
  <2>2. Cardinality(S \ {x}) \in Nat /\ Cardinality(S) = Cardinality(S \ {x}) + 1
    BY OneLess
  <2> QED
    BY <2>2
<1> HIDE DEF HasGreatest
<1>7. n \in T
  <2>1. 0 \in T /\ \A k \in Nat : k \in T => k + 1 \in T
    BY <1>4, <1>5
  <2> HIDE DEF T
  <2> QED
    BY <2>1, InductionOverSets
<1>8. HasGreatest(S)
  BY <1>6, <1>7
<1> QED
  BY <1>8 DEF HasGreatest

\* Max and Min, and what they are of one number more.
LEMMA MaxGreatest ==
  ASSUME NEW S, IsFiniteSet(S), S # {}, S \subseteq Int
  PROVE  Max(S) \in S /\ \A y \in S : y <= Max(S)
<1>1. PICK x \in S : \A y \in S : y <= x
  BY Greatest
<1>2. \E z \in S : \A y \in S : z >= y
  BY <1>1
<1>3. Max(S) \in S /\ \A y \in S : Max(S) >= y
  BY ONLY <1>2, Zenon DEF Max
<1> QED
  BY <1>3

LEMMA MinLeast ==
  ASSUME NEW S, S # {}, S \subseteq Nat
  PROVE  Min(S) \in S /\ \A y \in S : Min(S) <= y
<1>1. \E x \in S : \A y \in S : x <= y
  BY Least
<1> QED
  BY ONLY <1>1, Zenon DEF Min

LEMMA MaxAdds ==
  ASSUME NEW S, IsFiniteSet(S), S # {}, S \subseteq Nat, NEW n \in Nat
  PROVE  Max(S \cup {n}) = IF n > Max(S) THEN n ELSE Max(S)
<1>0. S \subseteq Int
  OBVIOUS
<1>1. PICK m : m = Max(S) /\ m \in S /\ \A y \in S : y <= m
  BY <1>0, MaxGreatest
<1>2. S \cup {n} \in SUBSET Nat /\ m \in Nat
  BY <1>1
<1>3. CASE n > m
  <2>1. n \in S \cup {n} /\ \A y \in S \cup {n} : y <= n
    BY <1>1, <1>2, <1>3
  <2>2. Max(S \cup {n}) = n
    BY ONLY <1>2, <2>1, MaxIs
  <2> QED
    BY <1>1, <1>3, <2>2
<1>4. CASE ~(n > m)
  <2>1. m \in S \cup {n} /\ \A y \in S \cup {n} : y <= m
    BY <1>1, <1>2, <1>4
  <2>2. Max(S \cup {n}) = m
    BY ONLY <1>2, <2>1, MaxIs
  <2> QED
    BY <1>1, <1>4, <2>2
<1> QED
  BY <1>3, <1>4

LEMMA MinAdds ==
  ASSUME NEW S, S # {}, S \subseteq Nat, NEW n \in Nat
  PROVE  Min(S \cup {n}) = IF n < Min(S) THEN n ELSE Min(S)
<1>1. PICK m : m = Min(S) /\ m \in S /\ \A y \in S : m <= y
  BY MinLeast
<1>2. PICK k : k = Min(S \cup {n}) /\ k \in S \cup {n} /\ \A y \in S \cup {n} : k <= y
  BY MinLeast
<1>3. k \in Nat /\ m \in Nat /\ k <= n /\ k <= m /\ (k = n \/ m <= k)
  BY <1>1, <1>2
<1>4. k = IF n < m THEN n ELSE m
  BY ONLY <1>3, n \in Nat
<1> QED
  BY <1>1, <1>2, <1>4

\* Finitely many numbers can be put in order.
LEMMA RisingExists ==
  ASSUME NEW S, IsFiniteSet(S), S \subseteq Int
  PROVE  \E s \in [1..Cardinality(S) -> S] :
           \A b, c \in 1..Cardinality(S) : b < c => s[b] < s[c]
<1> DEFINE Rises(R, n) == \E s \in [1..n -> R] : \A b, c \in 1..n : b < c => s[b] < s[c]
           T == {n \in Nat : \A R \in SUBSET S : Cardinality(R) = n => Rises(R, n)}
<1>1. 0 \in T
  <2> SUFFICES ASSUME NEW R \in SUBSET S PROVE Rises(R, 0)
    OBVIOUS
  <2>1. 1..0 = {}
    OBVIOUS
  <2>2. PICK s : s = [i \in 1..0 |-> 0]
    OBVIOUS
  <2>3. s \in [1..0 -> R] /\ \A b, c \in 1..0 : b < c => s[b] < s[c]
    BY <2>1, <2>2
  <2> QED
    BY <2>3
<1>2. ASSUME NEW n \in Nat, n \in T PROVE n + 1 \in T
  <2> SUFFICES ASSUME NEW R \in SUBSET S, Cardinality(R) = n + 1 PROVE Rises(R, n + 1)
    OBVIOUS
  <2>1. R # {} /\ IsFiniteSet(R) /\ R \subseteq Int
    <3>1. Cardinality(R) # 0
      OBVIOUS
    <3>2. R # {}
      BY ONLY <3>1, FS_EmptySet, Zenon
    <3> QED
      BY <3>2, FS_Subset
  <2>2. PICK x \in R : \A y \in R : y <= x
    BY <2>1, Greatest
  <2>3. R \ {x} \in SUBSET S /\ Cardinality(R \ {x}) = n
    <3>1. Cardinality(R \ {x}) \in Nat /\ Cardinality(R) = Cardinality(R \ {x}) + 1
      BY OneLess
    <3> QED
      BY <3>1
  <2>4. PICK s \in [1..n -> R \ {x}] : \A b, c \in 1..n : b < c => s[b] < s[c]
    BY <1>2, <2>3
  <2>5. PICK d : d = [i \in 1..(n + 1) |-> IF i = n + 1 THEN x ELSE s[i]]
    OBVIOUS
  <2>6. \A i \in 1..n : s[i] \in R /\ s[i] < x /\ d[i] = s[i]
    <3> SUFFICES ASSUME NEW i \in 1..n PROVE s[i] \in R /\ s[i] < x /\ d[i] = s[i]
      OBVIOUS
    <3>1. s[i] \in R \ {x}
      OBVIOUS
    <3>2. s[i] \in Int /\ x \in Int /\ s[i] <= x /\ s[i] # x
      BY <2>1, <2>2, <3>1
    <3>3. d[i] = s[i]
      BY ONLY <2>5, i \in 1..n, n \in Nat
    <3> QED
      BY <3>1, <3>2, <3>3
  <2>7. d \in [1..(n + 1) -> R]
    <3>1. \A i \in 1..(n + 1) : i # n + 1 => i \in 1..n
      OBVIOUS
    <3> QED
      BY ONLY <2>5, <2>6, <3>1, x \in R
  <2>8. ASSUME NEW b \in 1..(n + 1), NEW c \in 1..(n + 1), b < c PROVE d[b] < d[c]
    <3>1. b \in 1..n
      BY <2>8
    <3>2. CASE c = n + 1
      <4>1. d[c] = x
        BY ONLY <2>5, <3>2, n \in Nat
      <4> QED
        BY ONLY <2>6, <3>1, <4>1
    <3>3. CASE c # n + 1
      <4>1. c \in 1..n
        BY <3>3
      <4> QED
        BY ONLY <2>4, <2>6, <2>8, <3>1, <4>1
    <3> QED
      BY <3>2, <3>3
  <2> QED
    BY <2>7, <2>8
<1>3. Nat \subseteq T
  <2> HIDE DEF T
  <2> QED
    BY <1>1, <1>2, InductionOverSets
<1>4. Cardinality(S) \in Nat
  BY FS_CardinalityType
<1> QED
  BY <1>3, <1>4

-----------------------------------------------------------------------------
(***************************************************************************)
(* The concatenation of sequences.                                         *)
(***************************************************************************)
Concatenates(R) == \A a, b \in R : a \o b \in R

\* The function that FlattenSeq chooses.
Flatten(n, v) == CHOOSE f : f = [i \in 1..n |-> IF i = 1 THEN v[i] ELSE f[i - 1] \o v[i]]

LEMMA FlattenExists ==
  ASSUME NEW R, Concatenates(R), NEW n \in Nat, n > 0, NEW v \in [1..n -> R]
  PROVE  Flatten(n, v) = [i \in 1..n |-> IF i = 1 THEN v[i] ELSE Flatten(n, v)[i - 1] \o v[i]]
<1> DEFINE first == [k \in Nat |-> v[1]]
           step == [x \in Nat \X R |-> IF x[1] \in 1..n THEN x[2] \o v[x[1]] ELSE x[2]]
           prev == [k \in Nat |-> IF k >= 1 THEN k - 1 ELSE 0]
<1>1. prev \in [Nat -> Nat] /\ Falls(prev, 2) /\ first \in [Nat -> R]
  BY DEF Falls
<1>2. step \in [Nat \X R -> R]
  <2>1. ASSUME NEW k \in 1..n, NEW s \in R PROVE s \o v[k] \in R
    BY DEF Concatenates
  <2> QED
    BY <2>1
<1>3. PICK g \in [Nat -> R] : MadeBy(g, 2, first, step, prev)
  <2> HIDE DEF first, step, prev
  <2>1. 2 \in Nat
    OBVIOUS
  <2> QED
    BY ONLY <1>1, <1>2, <2>1, Recursion
<1>4. ASSUME NEW i \in 1..n PROVE g[i] = IF i = 1 THEN v[i] ELSE g[i - 1] \o v[i]
  <2>1. i \in Nat /\ i - 1 \in Nat /\ g[i - 1] \in R /\ prev[i] = i - 1
    BY <1>3
  <2>2. step[<<i, g[i - 1]>>] = g[i - 1] \o v[i]
    BY <2>1
  <2>3. i = 1 => first[i] = v[i]
    BY <2>1
  <2> HIDE DEF step, first, prev
  <2>4. g[i] = IF i >= 2 THEN step[<<i, g[i - 1]>>] ELSE first[i]
    BY <1>3, <2>1 DEF MadeBy
  <2> QED
    BY <2>1, <2>2, <2>3, <2>4
<1> DEFINE h == [i \in 1..n |-> g[i]]
<1>5. ASSUME NEW i \in 1..n PROVE h[i] = IF i = 1 THEN v[i] ELSE h[i - 1] \o v[i]
  <2>1. i # 1 => i - 1 \in 1..n
    OBVIOUS
  <2>2. h[i] = g[i] /\ (i # 1 => h[i - 1] = g[i - 1])
    BY <2>1
  <2> HIDE DEF h
  <2> QED
    BY <1>4, <2>2
<1>6. h = [i \in 1..n |-> IF i = 1 THEN v[i] ELSE h[i - 1] \o v[i]]
  <2>1. h = [i \in 1..n |-> h[i]]
    OBVIOUS
  <2> HIDE DEF h
  <2> QED
    BY <1>5, <2>1
<1> HIDE DEF h
<1> QED
  BY <1>6, Zenon DEF Flatten

Joins(f, n, v, R) ==
  f \in [1..n -> R] /\ f[1] = v[1] /\ \A i \in 2..n : f[i] = f[i - 1] \o v[i]

LEMMA FlattenSteps ==
  ASSUME NEW R, Concatenates(R), NEW n \in Nat, n > 0, NEW v \in [1..n -> R]
  PROVE  Joins(Flatten(n, v), n, v, R)
<1> PICK f : f = Flatten(n, v)
  OBVIOUS
<1>1. f = [i \in 1..n |-> IF i = 1 THEN v[i] ELSE f[i - 1] \o v[i]]
  <2>1. Flatten(n, v) = [i \in 1..n |-> IF i = 1 THEN v[i] ELSE Flatten(n, v)[i - 1] \o v[i]]
    BY FlattenExists
  <2> QED
    BY ONLY <2>1, f = Flatten(n, v)
<1>2. f[1] = v[1] /\ \A i \in 2..n : f[i] = f[i - 1] \o v[i]
  <2>1. 1 \in 1..n /\ \A i \in 2..n : i \in 1..n /\ i # 1
    OBVIOUS
  <2> QED
    BY <1>1, <2>1
<1>3. ASSUME NEW x \in 1..n, f[x] \notin R PROVE FALSE
  <2> DEFINE T == {k \in 1..n : f[k] \notin R}
  <2>1. T \subseteq Nat /\ T # {}
    BY <1>3
  <2>2. PICK m \in T : \A k \in T : m <= k
    <3> HIDE DEF T
    <3> QED
      BY <2>1, Least
  <2>3. m \in 1..n /\ f[m] \notin R
    OBVIOUS
  <2>4. m # 1 => m - 1 \in 1..n /\ m \in 2..n /\ m - 1 \notin T
    BY <2>2, <2>3
  <2>5. m # 1 => f[m - 1] \in R
    BY <2>4
  <2>6. v[m] \in R
    BY <2>3
  <2> QED
    BY <1>2, <2>3, <2>4, <2>5, <2>6 DEF Concatenates
<1>4. f \in [1..n -> R]
  BY <1>1, <1>3
<1> QED
  BY <1>2, <1>4 DEF Joins

LEMMA FlattenIs ==
  ASSUME NEW R, NEW ss \in Seq(R), ss # <<>>
  PROVE  FlattenSeq(ss) = Flatten(Len(ss), ss)[Len(ss)]
<1>1. Len(ss) # 0
  OBVIOUS
<1> QED
  BY <1>1 DEF FlattenSeq, Flatten

LEMMA FlattenEmpty == FlattenSeq(<<>>) = <<>>
  BY DEF FlattenSeq

LEMMA FlattenText ==
  ASSUME NEW R, Concatenates(R), <<>> \in R, NEW ss \in Seq(R)
  PROVE  FlattenSeq(ss) \in R
<1>1. CASE ss = <<>>
  BY <1>1, FlattenEmpty
<1>2. CASE ss # <<>>
  <2>1. PICK n \in Nat : n = Len(ss) /\ n > 0
    BY <1>2
  <2>2. ss \in [1..n -> R] /\ n \in 1..n
    BY <2>1
  <2>3. FlattenSeq(ss) = Flatten(n, ss)[n]
    BY <1>2, <2>1, FlattenIs
  <2>4. Flatten(n, ss) \in [1..n -> R]
    BY <2>1, <2>2, FlattenSteps DEF Joins
  <2> QED
    BY <2>2, <2>3, <2>4
<1> QED
  BY <1>1, <1>2

LEMMA FlattenAdds ==
  ASSUME NEW R, Concatenates(R), NEW ss \in Seq(R), NEW s \in R, NEW X, s \in Seq(X)
  PROVE  FlattenSeq(Append(ss, s)) = FlattenSeq(ss) \o s
<1>1. PICK n \in Nat : n = Len(ss)
  OBVIOUS
<1>2. PICK all \in Seq(R) : all = Append(ss, s)
  <2>1. Append(ss, s) \in Seq(R)
    BY ONLY ss \in Seq(R), s \in R
  <2> QED
    BY <2>1, Zenon
<1>3. PICK k \in Nat : k = n + 1
  OBVIOUS
<1>4. /\ Len(all) = k /\ all # <<>> /\ all \in [1..k -> R]
      /\ all[k] = s /\ \A i \in 1..n : all[i] = ss[i]
  <2>1. Len(all) = k
    BY <1>1, <1>2, <1>3
  <2>2. all[k] = s /\ \A i \in 1..n : all[i] = ss[i]
    BY <1>1, <1>2, <1>3
  <2>3. all # <<>>
    BY <1>3, <2>1
  <2> QED
    BY <2>1, <2>2, <2>3
<1>5. Joins(Flatten(k, all), k, all, R)
  <2>1. k > 0
    BY <1>3
  <2> QED
    BY <2>1, <1>4, FlattenSteps
<1> PICK g : g = Flatten(k, all)
  OBVIOUS
<1>6. FlattenSeq(all) = g[k]
  BY <1>4, FlattenIs
<1>7. CASE ss = <<>>
  <2>1. k = 1 /\ g[1] = s
    BY <1>1, <1>3, <1>4, <1>5, <1>7 DEF Joins
  <2>2. FlattenSeq(ss) = <<>>
    BY <1>7, FlattenEmpty
  <2>3. <<>> \o s = s
    OBVIOUS
  <2> QED
    BY <1>2, <1>6, <2>1, <2>2, <2>3
<1>8. CASE ss # <<>>
  <2>1. n > 0 /\ ss \in [1..n -> R]
    BY <1>1, <1>8
  <2>2. Joins(Flatten(n, ss), n, ss, R)
    BY <2>1, FlattenSteps
  <2> PICK f : f = Flatten(n, ss)
    OBVIOUS
  <2>3. f[1] = ss[1] /\ \A i \in 2..n : f[i] = f[i - 1] \o ss[i]
    BY <2>2 DEF Joins
  <2>4. FlattenSeq(ss) = f[n]
    BY <1>1, <1>8, FlattenIs
  <2>5. ASSUME NEW x \in 1..n, f[x] # g[x] PROVE FALSE
    <3> DEFINE T == {i \in 1..n : f[i] # g[i]}
    <3>1. T \subseteq Nat /\ T # {}
      BY <2>5
    <3>2. PICK m \in T : \A i \in T : m <= i
      <4> HIDE DEF T
      <4> QED
        BY <3>1, Least
    <3>3. m \in 1..n /\ f[m] # g[m]
      OBVIOUS
    <3>4. m # 1 => m - 1 \in 1..n /\ m \in 2..n /\ m \in 2..k /\ m - 1 \notin T
      BY <1>3, <3>2, <3>3
    <3>5. m # 1 => f[m - 1] = g[m - 1]
      BY <3>4
    <3>6. all[m] = ss[m]
      BY <1>4, <3>3
    <3> HIDE DEF T
    <3> QED
      BY <1>5, <2>3, <3>3, <3>4, <3>5, <3>6 DEF Joins
  <2>6. k \in 2..k /\ n \in 1..n /\ k - 1 = n
    BY <1>3, <2>1
  <2>7. g[k] = g[n] \o s
    BY <1>4, <1>5, <2>6 DEF Joins
  <2> QED
    BY <1>2, <1>6, <2>4, <2>5, <2>6, <2>7
<1> QED
  BY <1>7, <1>8

-----------------------------------------------------------------------------
(***************************************************************************)
(* Functions on sequences, each of whose values is made from that at a     *)
(* shorter one, and sequences of sequences that are flattened.             *)
(***************************************************************************)
\* A function on sequences whose value at one that is not empty is made from that
\* at a shorter one.
Shortens(prev, X) == \A s \in Seq(X) : s # <<>> => Len(prev[s]) < Len(s)
MadeFrom(f, X, first, step, prev) ==
  \A s \in Seq(X) : f[s] = IF s # <<>> THEN step[<<s, f[prev[s]]>>] ELSE first

\* Such a function exists, with values in the set of the first one and of the steps.
LEMMA SeqRecursion ==
  ASSUME NEW X, NEW S, NEW first \in S, NEW step \in [Seq(X) \X S -> S],
         NEW prev \in [Seq(X) -> Seq(X)], Shortens(prev, X)
  PROVE  \E f \in [Seq(X) -> S] : MadeFrom(f, X, first, step, prev)
<1> DEFINE F == [Seq(X) -> S]
           start == [n \in Nat |-> [s \in Seq(X) |-> first]]
           Next(g) == [s \in Seq(X) |-> IF s # <<>> THEN step[<<s, g[prev[s]]>>] ELSE first]
           level == [x \in Nat \X F |-> Next(x[2])]
           below == [n \in Nat |-> IF n >= 1 THEN n - 1 ELSE 0]
<1>1. start \in [Nat -> F] /\ below \in [Nat -> Nat] /\ Falls(below, 1)
  BY DEF Falls
<1>2. level \in [Nat \X F -> F]
  <2>1. ASSUME NEW g \in F PROVE Next(g) \in F
    OBVIOUS
  <2> HIDE DEF Next, F
  <2> QED
    BY <2>1
<1>3. PICK g \in [Nat -> F] : MadeBy(g, 1, start, level, below)
  <2> HIDE DEF F, start, level, below
  <2>1. 1 \in Nat
    OBVIOUS
  <2> QED
    BY ONLY <2>1, <1>1, <1>2, Recursion
<1>4. \A n \in Nat : g[n + 1] = Next(g[n])
  <2> SUFFICES ASSUME NEW n \in Nat PROVE g[n + 1] = Next(g[n])
    OBVIOUS
  <2>1. n + 1 \in Nat /\ n + 1 >= 1 /\ below[n + 1] = n
    OBVIOUS
  <2>2. g[n + 1] = level[<<n + 1, g[below[n + 1]]>>]
    <3> HIDE DEF level, below, start, F
    <3> QED
      BY ONLY <1>3, <2>1 DEF MadeBy
  <2>3. g[n] \in F
    BY <1>3
  <2>4. level[<<n + 1, g[n]>>] = Next(g[n])
    <3> HIDE DEF Next, F
    <3> QED
      BY <2>1, <2>3
  <2> QED
    BY ONLY <2>1, <2>2, <2>4
<1>5. g[0] = [s \in Seq(X) |-> first]
  <2>1. g[0] = start[0]
    <3>1. 0 \in Nat /\ ~(0 >= 1)
      OBVIOUS
    <3> HIDE DEF level, below, start, F
    <3> QED
      BY <1>3, <3>1, Zenon DEF MadeBy
  <2> QED
    BY ONLY <2>1
<1>6. \A n \in Nat : \A s \in Seq(X) : Len(s) <= n => g[n + 1][s] = g[n][s]
  <2> DEFINE T == {n \in Nat : \A s \in Seq(X) : Len(s) <= n => g[n + 1][s] = g[n][s]}
  <2>1. 0 \in T
    <3>1. ASSUME NEW s \in Seq(X), Len(s) <= 0 PROVE g[0 + 1][s] = g[0][s]
      <4>1. s = <<>>
        BY <3>1
      <4>2. g[0 + 1] = Next(g[0])
        BY ONLY <1>4
      <4>3. Next(g[0])[s] = first
        BY <4>1
      <4> QED
        BY <1>5, <4>2, <4>3
    <3> QED
      BY <3>1
  <2>2. ASSUME NEW n \in Nat, n \in T PROVE n + 1 \in T
    <3>1. ASSUME NEW s \in Seq(X), Len(s) <= n + 1 PROVE g[(n + 1) + 1][s] = g[n + 1][s]
      <4>1. g[(n + 1) + 1] = Next(g[n + 1]) /\ g[n + 1] = Next(g[n])
        <5>1. n + 1 \in Nat
          OBVIOUS
        <5> QED
          BY ONLY <1>4, <5>1, n \in Nat
      <4>2. s # <<>> => prev[s] \in Seq(X) /\ Len(prev[s]) <= n
        BY <3>1 DEF Shortens
      <4>3. s # <<>> => g[n + 1][prev[s]] = g[n][prev[s]]
        BY <2>2, <4>2
      <4>4. /\ Next(g[n + 1])[s] = (IF s # <<>> THEN step[<<s, g[n + 1][prev[s]]>>] ELSE first)
            /\ Next(g[n])[s] = (IF s # <<>> THEN step[<<s, g[n][prev[s]]>>] ELSE first)
        BY ONLY s \in Seq(X)
      <4> HIDE DEF Next
      <4> QED
        BY ONLY <4>1, <4>3, <4>4
    <3> HIDE DEF Next
    <3> QED
      BY <3>1
  <2>3. Nat \subseteq T
    <3> HIDE DEF T
    <3> QED
      BY ONLY <2>1, <2>2, InductionOverSets
  <2> QED
    BY ONLY <2>3
<1>7. ASSUME NEW s \in Seq(X), NEW m \in Nat, NEW n \in Nat, Len(s) <= m, m <= n PROVE g[n][s] = g[m][s]
  <2> DEFINE T == {k \in Nat : g[m + k][s] = g[m][s]}
  <2>1. 0 \in T
    OBVIOUS
  <2>2. ASSUME NEW k \in Nat, k \in T PROVE k + 1 \in T
    <3>1. m + k \in Nat /\ Len(s) <= m + k /\ m + (k + 1) = (m + k) + 1
      BY <1>7
    <3>2. g[(m + k) + 1][s] = g[m + k][s]
      BY ONLY <1>6, <3>1, s \in Seq(X)
    <3> QED
      BY <2>2, <3>1, <3>2
  <2>3. Nat \subseteq T
    <3> HIDE DEF T
    <3> QED
      BY ONLY <2>1, <2>2, InductionOverSets
  <2>4. n - m \in Nat /\ m + (n - m) = n
    BY <1>7
  <2> QED
    BY ONLY <2>3, <2>4
<1>8. PICK f : f = [s \in Seq(X) |-> g[Len(s)][s]]
  OBVIOUS
<1>9. f \in [Seq(X) -> S]
  BY <1>3, <1>8
<1>10. ASSUME NEW s \in Seq(X) PROVE f[s] = IF s # <<>> THEN step[<<s, f[prev[s]]>>] ELSE first
  <2>1. CASE s = <<>>
    <3>1. f[s] = g[0][s] /\ g[0][s] = first
      BY <1>5, <1>8, <2>1
    <3> QED
      BY ONLY <2>1, <3>1
  <2>2. CASE s # <<>>
    <3>1. PICK n \in Nat : Len(s) = n + 1
      <4>1. Len(s) \in Nat /\ Len(s) # 0
        BY <2>2
      <4>2. Len(s) - 1 \in Nat /\ Len(s) = (Len(s) - 1) + 1
        BY ONLY <4>1
      <4> QED
        BY ONLY <4>2
    <3>2. f[s] = g[n + 1][s]
      BY <1>8, <3>1
    <3>3. g[n + 1][s] = step[<<s, g[n][prev[s]]>>]
      <4>1. g[n + 1] = Next(g[n])
        BY ONLY <1>4, n \in Nat
      <4>2. Next(g[n])[s] = step[<<s, g[n][prev[s]]>>]
        BY ONLY s \in Seq(X), <2>2
      <4> HIDE DEF Next
      <4> QED
        BY ONLY <4>1, <4>2
    <3>4. PICK p \in Seq(X) : p = prev[s]
      OBVIOUS
    <3>5. Len(p) \in Nat /\ Len(p) <= n
      BY <2>2, <3>1, <3>4 DEF Shortens
    <3>6. g[n][p] = g[Len(p)][p]
      BY ONLY <1>7, <3>5, n \in Nat, p \in Seq(X), Len(p) <= Len(p)
    <3>7. f[p] = g[Len(p)][p]
      BY <1>8
    <3> QED
      BY ONLY <2>2, <3>2, <3>3, <3>4, <3>6, <3>7
  <2> QED
    BY ONLY <2>1, <2>2
<1> QED
  BY ONLY <1>9, <1>10 DEF MadeFrom

\* The first n elements of a sequence: all of them, or those before one more.
Prefix(s, n) == [i \in 1..n |-> s[i]]

LEMMA PrefixIs ==
  ASSUME NEW X, NEW s \in Seq(X)
  PROVE  /\ Prefix(s, 0) = <<>> /\ Prefix(s, Len(s)) = s
         /\ \A n \in Nat : n < Len(s) =>
              /\ Prefix(s, n) \in Seq(X) /\ n + 1 \in DOMAIN s /\ s[n + 1] \in X
              /\ Prefix(s, n + 1) = Append(Prefix(s, n), s[n + 1])
<1>1. Prefix(s, 0) = <<>> /\ Prefix(s, Len(s)) = s
  BY DEF Prefix
<1>2. ASSUME NEW n \in Nat, n < Len(s)
      PROVE  /\ Prefix(s, n) \in Seq(X) /\ n + 1 \in DOMAIN s /\ s[n + 1] \in X
             /\ Prefix(s, n + 1) = Append(Prefix(s, n), s[n + 1])
  <2>1. Len(s) \in Nat /\ DOMAIN s = 1..Len(s) /\ (\A i \in 1..Len(s) : s[i] \in X)
    OBVIOUS
  <2>2. n + 1 \in DOMAIN s /\ s[n + 1] \in X
    BY ONLY <1>2, <2>1, n \in Nat
  <2>3. \A i \in 1..n : s[i] \in X
    BY ONLY <1>2, <2>1, n \in Nat
  <2>4. Prefix(s, n) \in Seq(X) /\ Len(Prefix(s, n)) = n
    BY ONLY <2>3, n \in Nat DEF Prefix
  <2>5. Prefix(s, n + 1) = Append(Prefix(s, n), s[n + 1])
    <3>1. Append(Prefix(s, n), s[n + 1]) = [i \in 1..(n + 1) |-> IF i = n + 1 THEN s[n + 1] ELSE Prefix(s, n)[i]]
      BY <2>4
    <3>2. \A i \in 1..(n + 1) : (IF i = n + 1 THEN s[n + 1] ELSE Prefix(s, n)[i]) = s[i]
      BY DEF Prefix
    <3> QED
      BY ONLY <3>1, <3>2 DEF Prefix
  <2> QED
    BY <2>2, <2>4, <2>5
<1> QED
  BY <1>1, <1>2

\* Sequences over a set are closed under joining.
LEMMA SeqsConcatenate == ASSUME NEW X PROVE Concatenates(Seq(X)) /\ <<>> \in Seq(X)
  BY DEF Concatenates

\* What holds of pairs of sequences and is kept by joining them holds of the
\* sequences that two sequences of them are flattened to.
JoinClosed(R) ==
  <<<<>>, <<>>>> \in R /\ \A a, b, x, y : <<a, b>> \in R /\ <<x, y>> \in R => <<a \o x, b \o y>> \in R
Related(s, t, R) == DOMAIN s = DOMAIN t /\ \A i \in DOMAIN s : <<s[i], t[i]>> \in R

LEMMA FlattenPairs ==
  ASSUME NEW X, NEW Y, NEW R, JoinClosed(R),
         NEW s \in Seq(Seq(X)), NEW t \in Seq(Seq(Y)), Related(s, t, R)
  PROVE  <<FlattenSeq(s), FlattenSeq(t)>> \in R
<1> DEFINE P(n) == <<FlattenSeq(Prefix(s, n)), FlattenSeq(Prefix(t, n))>> \in R
           T == {n \in Nat : n <= Len(s) => P(n)}
<1>1. Len(s) = Len(t) /\ Len(s) \in Nat /\ DOMAIN s = 1..Len(s)
  BY DEF Related
<1>2. 0 \in T
  BY PrefixIs, FlattenEmpty DEF JoinClosed
<1>3. ASSUME NEW n \in Nat, n \in T, n + 1 <= Len(s) PROVE P(n + 1)
  <2>1. n < Len(s) /\ n < Len(t) /\ n <= Len(s)
    BY <1>1, <1>3
  <2>2. /\ Prefix(s, n) \in Seq(Seq(X)) /\ n + 1 \in DOMAIN s /\ s[n + 1] \in Seq(X)
        /\ Prefix(s, n + 1) = Append(Prefix(s, n), s[n + 1])
    BY <2>1, PrefixIs
  <2>3. /\ Prefix(t, n) \in Seq(Seq(Y)) /\ t[n + 1] \in Seq(Y)
        /\ Prefix(t, n + 1) = Append(Prefix(t, n), t[n + 1])
    BY <2>1, PrefixIs
  <2>4. FlattenSeq(Prefix(s, n + 1)) = FlattenSeq(Prefix(s, n)) \o s[n + 1]
    BY ONLY <2>2, FlattenAdds, SeqsConcatenate
  <2>5. FlattenSeq(Prefix(t, n + 1)) = FlattenSeq(Prefix(t, n)) \o t[n + 1]
    BY ONLY <2>3, FlattenAdds, SeqsConcatenate
  <2>6. P(n) /\ <<s[n + 1], t[n + 1]>> \in R
    BY <1>3, <2>1, <2>2 DEF Related
  <2> QED
    BY ONLY <2>4, <2>5, <2>6, JoinClosed(R), Zenon DEF JoinClosed
<1>4. Nat \subseteq T
  <2>1. \A n \in Nat : n \in T => n + 1 \in T
    BY <1>3
  <2> HIDE DEF T
  <2> QED
    BY ONLY <1>2, <2>1, InductionOverSets
<1>5. P(Len(s))
  BY ONLY <1>1, <1>4
<1>6. Prefix(s, Len(s)) = s /\ Prefix(t, Len(s)) = t
  BY <1>1, PrefixIs
<1> QED
  BY ONLY <1>5, <1>6

\* What sequences over a set are flattened to is one over that set.
LEMMA FlattenSeqs == ASSUME NEW X, NEW s \in Seq(Seq(X)) PROVE FlattenSeq(s) \in Seq(X)
  BY FlattenText, SeqsConcatenate

\* One sequence is flattened to itself.
LEMMA FlattenSingle == ASSUME NEW X, NEW s \in Seq(X) PROVE FlattenSeq(<<s>>) = s
<1>1. <<>> \in Seq(Seq(X)) /\ Append(<<>>, s) = <<s>> /\ <<>> \o s = s
  OBVIOUS
<1>2. FlattenSeq(Append(<<>>, s)) = FlattenSeq(<<>>) \o s
  BY ONLY <1>1, FlattenAdds, SeqsConcatenate, s \in Seq(X)
<1> QED
  BY ONLY <1>1, <1>2, FlattenEmpty

Associates(a, b, c) == (a \o b) \o c = a \o (b \o c)

LEMMA SeqsAssociate ==
  ASSUME NEW X, NEW a \in Seq(X), NEW b \in Seq(X), NEW c \in Seq(X)
  PROVE  Associates(a, b, c)
  BY DEF Associates

\* Joined sequences of sequences are flattened to what each is flattened to, joined.
LEMMA FlattenJoins ==
  ASSUME NEW X, NEW s \in Seq(Seq(X)), NEW t \in Seq(Seq(X))
  PROVE  FlattenSeq(s \o t) = FlattenSeq(s) \o FlattenSeq(t)
<1> DEFINE P(n) == FlattenSeq(s \o Prefix(t, n)) = FlattenSeq(s) \o FlattenSeq(Prefix(t, n))
           T == {n \in Nat : n <= Len(t) => P(n)}
<1>1. FlattenSeq(s) \in Seq(X)
  BY FlattenSeqs
<1>2. 0 \in T
  <2>1. s \o <<>> = s /\ FlattenSeq(s) \o <<>> = FlattenSeq(s)
    BY <1>1
  <2> QED
    BY <2>1, PrefixIs, FlattenEmpty
<1>3. ASSUME NEW n \in Nat, n \in T, n + 1 <= Len(t) PROVE P(n + 1)
  <2>1. n < Len(t) /\ n <= Len(t)
    BY <1>3
  <2>2. PICK p \in Seq(Seq(X)), x \in Seq(X) :
          p = Prefix(t, n) /\ x = t[n + 1] /\ Prefix(t, n + 1) = Append(p, x)
    BY <2>1, PrefixIs
  <2>3. s \o Append(p, x) = Append(s \o p, x) /\ s \o p \in Seq(Seq(X))
    OBVIOUS
  <2>4. FlattenSeq(Append(s \o p, x)) = FlattenSeq(s \o p) \o x
    BY ONLY <2>3, FlattenAdds, SeqsConcatenate, x \in Seq(X)
  <2>5. FlattenSeq(Append(p, x)) = FlattenSeq(p) \o x
    BY ONLY FlattenAdds, SeqsConcatenate, x \in Seq(X), p \in Seq(Seq(X))
  <2>6. FlattenSeq(s \o p) = FlattenSeq(s) \o FlattenSeq(p)
    BY <1>3, <2>1, <2>2
  <2>7. FlattenSeq(p) \in Seq(X)
    BY FlattenSeqs
  <2>8. (FlattenSeq(s) \o FlattenSeq(p)) \o x = FlattenSeq(s) \o (FlattenSeq(p) \o x)
    <3>1. PICK a \in Seq(X), b \in Seq(X) : a = FlattenSeq(s) /\ b = FlattenSeq(p)
      BY ONLY <1>1, <2>7
    <3>2. Associates(a, b, x)
      BY ONLY a \in Seq(X), b \in Seq(X), x \in Seq(X), SeqsAssociate
    <3> QED
      BY ONLY <3>1, <3>2 DEF Associates
  <2> QED
    BY ONLY <2>2, <2>3, <2>4, <2>5, <2>6, <2>8
<1>4. Nat \subseteq T
  <2>1. \A n \in Nat : n \in T => n + 1 \in T
    <3>1. ASSUME NEW n \in Nat, n \in T, n + 1 <= Len(t) PROVE P(n + 1)
      <4> HIDE DEF P, T
      <4> QED
        BY ONLY <1>3, <3>1
    <3> HIDE DEF P
    <3> QED
      BY <3>1
  <2> HIDE DEF T
  <2> QED
    BY ONLY <1>2, <2>1, InductionOverSets
<1>5. P(Len(t)) /\ Prefix(t, Len(t)) = t
  BY <1>4, PrefixIs
<1> QED
  BY ONLY <1>5

\* The elements of two sequences that are joined.
LEMMA JoinParts ==
  ASSUME NEW X, NEW a \in Seq(X), NEW b \in Seq(X)
  PROVE  /\ a \o b \in Seq(X) /\ DOMAIN (a \o b) = 1..(Len(a) + Len(b))
         /\ Len(a) \in Nat /\ Len(b) \in Nat /\ Len(a \o b) = Len(a) + Len(b)
         /\ DOMAIN a = 1..Len(a) /\ DOMAIN b = 1..Len(b)
         /\ \A i \in 1..(Len(a) + Len(b)) : (a \o b)[i] = IF i <= Len(a) THEN a[i] ELSE b[i - Len(a)]
         /\ a \o b = [i \in 1..(Len(a) + Len(b)) |-> (a \o b)[i]]
<1>1. /\ a \o b \in Seq(X) /\ Len(a) \in Nat /\ Len(b) \in Nat /\ Len(a \o b) = Len(a) + Len(b)
      /\ DOMAIN a = 1..Len(a) /\ DOMAIN b = 1..Len(b)
  OBVIOUS
<1>2. \A i \in 1..(Len(a) + Len(b)) : (a \o b)[i] = IF i <= Len(a) THEN a[i] ELSE b[i - Len(a)]
  OBVIOUS
<1>3. PICK c \in Seq(X) : c = a \o b
  BY <1>1
<1>4. DOMAIN c = 1..Len(c) /\ c = [i \in 1..Len(c) |-> c[i]]
  BY ONLY c \in Seq(X)
<1>5. Len(c) = Len(a) + Len(b)
  BY ONLY <1>1, <1>3
<1> QED
  BY ONLY <1>1, <1>2, <1>3, <1>4, <1>5

\* Joining one element is appending it.
LEMMA Adding ==
  ASSUME NEW X, NEW w \in Seq(X), NEW a, <<a>> \in Seq(X)
  PROVE  w \o <<a>> = Append(w, a) /\ Append(w, a) \in Seq(X) /\ w \o <<a>> \in Seq(X) /\ a \in X
<1>1. a \in X
  <2>1. 1 \in DOMAIN <<a>> /\ <<a>>[1] = a
    OBVIOUS
  <2> QED
    BY <2>1
<1> QED
  BY <1>1

\* Elements that are joined one by one are joined at once: two, three or four.
LEMMA JoinTwo ==
  ASSUME NEW X, NEW w \in Seq(X), NEW a, NEW b, <<a>> \in Seq(X), <<b>> \in Seq(X)
  PROVE  (w \o <<a>>) \o <<b>> = w \o <<a, b>> /\ <<a, b>> \in Seq(X)
<1>1. a \in X /\ b \in X
  BY Adding
<1>2. w \o <<a, b>> = Append(Append(w, a), b)
  BY <1>1
<1>3. PICK u \in Seq(X) : u = w \o <<a>> /\ u = Append(w, a)
  BY <1>1, Adding
<1>4. u \o <<b>> = Append(u, b)
  BY <1>1, Adding
<1>5. <<a, b>> \in Seq(X)
  BY <1>1
<1> QED
  BY ONLY <1>2, <1>3, <1>4, <1>5

LEMMA JoinThree ==
  ASSUME NEW X, NEW w \in Seq(X), NEW a, NEW b, NEW c, <<a>> \in Seq(X), <<b>> \in Seq(X), <<c>> \in Seq(X)
  PROVE  ((w \o <<a>>) \o <<b>>) \o <<c>> = w \o <<a, b, c>> /\ <<a, b, c>> \in Seq(X)
<1>1. (w \o <<a>>) \o <<b>> = w \o <<a, b>> /\ <<a, b>> \in Seq(X)
  BY JoinTwo
<1>2. (w \o <<a, b>>) \o <<c>> = w \o <<a, b, c>>
  BY ONLY <1>1, w \in Seq(X), <<c>> \in Seq(X)
<1>3. <<a, b, c>> \in Seq(X)
  <2>1. a \in X /\ b \in X /\ c \in X
    BY Adding
  <2> QED
    BY ONLY <2>1
<1> QED
  BY ONLY <1>1, <1>2, <1>3

LEMMA JoinFour ==
  ASSUME NEW X, NEW w \in Seq(X), NEW a, NEW b, NEW c, NEW d,
         <<a>> \in Seq(X), <<b>> \in Seq(X), <<c>> \in Seq(X), <<d>> \in Seq(X)
  PROVE  /\ (((w \o <<a>>) \o <<b>>) \o <<c>>) \o <<d>> = w \o <<a, b, c, d>>
         /\ <<a, b, c, d>> \in Seq(X)
<1>1. ((w \o <<a>>) \o <<b>>) \o <<c>> = w \o <<a, b, c>> /\ <<a, b, c>> \in Seq(X)
  BY JoinThree
<1>2. (w \o <<a, b, c>>) \o <<d>> = w \o <<a, b, c, d>>
  BY ONLY <1>1, w \in Seq(X), <<d>> \in Seq(X)
<1>3. <<a, b, c, d>> \in Seq(X)
  <2>1. a \in X /\ b \in X /\ c \in X /\ d \in X
    BY Adding
  <2> QED
    BY ONLY <2>1
<1> QED
  BY ONLY <1>1, <1>2, <1>3

=============================================================================
