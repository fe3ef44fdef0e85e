---------------------------- MODULE NumberLemmas ----------------------------
(* Facts about natural numbers, products, extrema and sums that several proofs rest on. *)
EXTENDS Integers, PrefixSums, FiniteSetsExt, WellFoundedInduction, TLAPS

\* Every nonempty set of natural numbers has a least element.
LEMMA LeastNatural ==
    ASSUME NEW T, T \subseteq Nat, T # {}
    PROVE \E x \in T : \A y \in T : x <= y
  <1>1. PICK R : R = OpToRel(<, Nat)
    OBVIOUS
  <1>2. IsWellFoundedOn(R, Nat)
    BY <1>1, NatLessThanWellFounded
  <1>3. ASSUME NEW x \in Nat, NEW y \in Nat, ~ (<<y, x>> \in R) PROVE x <= y
    BY <1>1, <1>3 DEF OpToRel
  <1>4. \E x \in T : \A y \in T : ~ (<<y, x>> \in R)
    BY <1>2, WFMin
  <1> QED
    BY <1>3, <1>4

\* Every nonempty bounded set of natural numbers has a greatest element.
LEMMA GreatestNatural ==
    ASSUME NEW S, S \subseteq Nat, S # {}, NEW n \in Nat, \A x \in S : x <= n
    PROVE \E x \in S : \A y \in S : x >= y
  <1> DEFINE T == {n - x : x \in S}
  <1>1. \A x \in S : n - x \in Nat
    OBVIOUS
  <1>2. T \subseteq Nat /\ T # {}
    BY <1>1
  <1>3. PICK t \in T : \A u \in T : t <= u
    BY <1>2, LeastNatural
  <1>4. PICK x \in S : t = n - x
    OBVIOUS
  <1>5. ASSUME NEW y \in S PROVE x >= y
    <2>1. t <= n - y
      BY <1>3
    <2> QED
      BY <1>4, <2>1
  <1> QED
    BY <1>5

\* What Max returns for a nonempty bounded set of natural numbers.
LEMMA MaxOfBounded ==
    ASSUME NEW S, S \subseteq Nat, S # {}, NEW n \in Nat, \A x \in S : x <= n
    PROVE Max(S) \in S /\ \A y \in S : y <= Max(S)
  <1>1. \E x \in S : \A y \in S : x >= y
    BY GreatestNatural
  <1>2. Max(S) \in S /\ \A y \in S : Max(S) >= y
    BY <1>1 DEF Max
  <1> QED
    BY <1>2

\* What Min returns for two numbers.
LEMMA MinOfTwo ==
    ASSUME NEW a \in Int, NEW b \in Int
    PROVE Min({a, b}) = IF a <= b THEN a ELSE b
  <1>1. \E x \in {a, b} : \A y \in {a, b} : x <= y
    OBVIOUS
  <1>2. Min({a, b}) \in {a, b} /\ \A y \in {a, b} : Min({a, b}) <= y
    BY <1>1 DEF Min
  <1> QED
    BY <1>2

\* A product of natural numbers is one, and grows with its factors.
LEMMA ProductMonotone ==
    ASSUME NEW k \in Nat, NEW a \in Nat, NEW b \in Nat, a <= b
    PROVE k * a \in Nat /\ k * b \in Nat /\ k * a <= k * b
  OBVIOUS

\* Multiplication distributes over a difference.
LEMMA ProductOfDifference ==
    ASSUME NEW k \in Int, NEW a \in Int, NEW b \in Int
    PROVE k * (a - b) = k * a - k * b
  OBVIOUS

\* The half of a number, rounded down
LEMMA Half ==
    ASSUME NEW n \in Nat
    PROVE n \div 2 \in Nat /\ 2 * (n \div 2) <= n /\ n <= 2 * (n \div 2) + 1
  OBVIOUS

\* p is the table of the sums of g up to n.
SumTable(g, n, p) ==
    /\ p \in [0..n -> Int]
    /\ p[0] = 0
    /\ \A i \in 1..n : p[i] = p[i - 1] + g[i]

\* There is such a table for every n.
LEMMA TableExists ==
    ASSUME NEW g \in [Nat -> Int], NEW n \in Nat PROVE \E p : SumTable(g, n, p)
  <1> DEFINE T == {m \in Nat : ~ \E p : SumTable(g, m, p)}
  <1>1. ASSUME T # {} PROVE FALSE
    <2>1. PICK m \in T : \A k \in T : m <= k
      BY <1>1, LeastNatural
    <2>2. CASE m = 0
      <3>1. SumTable(g, 0, [i \in 0..0 |-> 0])
        BY DEF SumTable
      <3> QED
        BY <2>1, <2>2, <3>1
    <2>3. CASE m # 0
      <3>1. m - 1 \in Nat /\ m - 1 \notin T
        BY <2>1, <2>3
      <3>2. PICK p : SumTable(g, m - 1, p)
        BY <3>1
      <3> DEFINE q == [i \in 0..m |-> IF i = m THEN p[m - 1] + g[m] ELSE p[i]]
      <3>3. SumTable(g, m, q)
        <4>1. p[m - 1] + g[m] \in Int
          BY <2>1, <2>3, <3>1, <3>2 DEF SumTable
        <4>2. q \in [0..m -> Int]
          BY <2>1, <3>2, <4>1 DEF SumTable
        <4>3. q[0] = 0
          BY <2>1, <2>3, <3>2 DEF SumTable
        <4>4. ASSUME NEW i \in 1..m PROVE q[i] = q[i - 1] + g[i]
          <5>1. q[i - 1] = p[i - 1]
            BY <2>1, <4>4
          <5>2. CASE i = m
            BY <5>1, <5>2
          <5>3. CASE i # m
            BY <2>1, <3>2, <5>1, <5>3 DEF SumTable
          <5> QED
            BY <5>2, <5>3
        <4> QED
          BY <4>2, <4>3, <4>4 DEF SumTable
      <3> QED
        BY <2>1, <3>3
    <2> QED
      BY <2>2, <2>3
  <1> QED
    BY <1>1

\* Two tables agree where both are defined.
LEMMA TableUnique ==
    ASSUME NEW g \in [Nat -> Int], NEW m \in Nat, NEW n \in Nat, NEW p, NEW q,
           SumTable(g, m, p), SumTable(g, n, q), NEW k \in Nat, k <= m, k <= n
    PROVE p[k] = q[k]
  <1> DEFINE T == {i \in 0..k : p[i] # q[i]}
  <1>1. ASSUME T # {} PROVE FALSE
    <2>0. T \subseteq Nat
      OBVIOUS
    <2>1. PICK i \in T : \A j \in T : i <= j
      BY <1>1, <2>0, LeastNatural
    <2>2. i # 0
      BY <2>1 DEF SumTable
    <2>3. i - 1 \in 0..k /\ i - 1 \notin T
      BY <2>1, <2>2
    <2>4. p[i - 1] = q[i - 1]
      BY <2>3
    <2> QED
      BY <2>1, <2>2, <2>4 DEF SumTable
  <1> QED
    BY <1>1

\* The equations that define PrefixSum hold, and its values are integers.
LEMMA PrefixSumStep ==
    ASSUME NEW g \in [Nat -> Int]
    PROVE /\ PrefixSum(g, 0) = 0
          /\ \A n \in Nat : PrefixSum(g, n + 1) = PrefixSum(g, n) + g[n + 1]
          /\ \A n \in Nat : PrefixSum(g, n) \in Int
  <1> DEFINE sum == CHOOSE sum : sum = [i \in Nat |-> IF i = 0 THEN 0 ELSE sum[i - 1] + g[i]]
  <1>1. \A n : PrefixSum(g, n) = sum[n]
    BY DEF PrefixSum
  <1> DEFINE h == [n \in Nat |-> (CHOOSE p : SumTable(g, n, p))[n]]
  <1>2. \A n \in Nat : SumTable(g, n, CHOOSE p : SumTable(g, n, p))
    BY TableExists
  <1>3. h[0] = 0
    BY <1>2 DEF SumTable
  <1>4. ASSUME NEW n \in Nat, n # 0 PROVE h[n] = h[n - 1] + g[n]
    <2> DEFINE p == CHOOSE t : SumTable(g, n, t)
               q == CHOOSE t : SumTable(g, n - 1, t)
    <2>1. SumTable(g, n, p) /\ SumTable(g, n - 1, q) /\ n - 1 \in Nat
      BY <1>2, <1>4
    <2>2. h[n] = p[n] /\ h[n - 1] = q[n - 1]
      BY <2>1
    <2> HIDE DEF p, q, h
    <2>3. p[n - 1] = q[n - 1]
      BY <2>1, TableUnique
    <2>4. p[n] = p[n - 1] + g[n]
      BY <1>4, <2>1 DEF SumTable
    <2> QED
      BY <2>2, <2>3, <2>4
  <1>6. h = [i \in Nat |-> IF i = 0 THEN 0 ELSE h[i - 1] + g[i]]
    <2> HIDE DEF h
    <2>1. h = [n \in Nat |-> h[n]]
      BY DEF h
    <2> QED
      BY <1>3, <1>4, <2>1
  <1> HIDE DEF h
  <1>7. sum = [i \in Nat |-> IF i = 0 THEN 0 ELSE sum[i - 1] + g[i]]
    BY <1>6
  <1> HIDE DEF sum
  <1>8. sum[0] = 0 /\ \A n \in Nat : sum[n + 1] = sum[n] + g[n + 1]
    BY <1>7
  <1> DEFINE T == {n \in Nat : sum[n] \notin Int}
  <1>9. ASSUME T # {} PROVE FALSE
    <2>1. PICK n \in T : \A k \in T : n <= k
      BY <1>9, LeastNatural
    <2>2. n # 0 /\ n - 1 \in Nat /\ n - 1 \notin T
      BY <1>8, <2>1
    <2>3. sum[n - 1] \in Int /\ sum[(n - 1) + 1] = sum[n - 1] + g[(n - 1) + 1] /\ g[n] \in Int
      BY <1>8, <2>2
    <2> QED
      BY <2>1, <2>2, <2>3
  <1> QED
    BY <1>1, <1>8, <1>9

\* The sums of natural numbers are natural numbers and never fall.
LEMMA PrefixSumMonotone ==
    ASSUME NEW g \in [Nat -> Nat], NEW m \in Nat, NEW n \in Nat, m <= n
    PROVE PrefixSum(g, m) \in Nat /\ PrefixSum(g, m) <= PrefixSum(g, n)
  <1>1. g \in [Nat -> Int]
    OBVIOUS
  <1>2. /\ PrefixSum(g, 0) = 0
        /\ \A k \in Nat : PrefixSum(g, k + 1) = PrefixSum(g, k) + g[k + 1]
        /\ \A k \in Nat : PrefixSum(g, k) \in Int
    BY <1>1, PrefixSumStep
  <1>3. \A k \in Nat : PrefixSum(g, k) <= PrefixSum(g, k + 1)
    BY <1>2
  <1>4. ASSUME NEW a \in Nat, NEW b \in Nat, a <= b PROVE PrefixSum(g, a) <= PrefixSum(g, b)
    <2> DEFINE T == {k \in Nat : a <= k /\ ~(PrefixSum(g, a) <= PrefixSum(g, k))}
    <2>1. ASSUME T # {} PROVE FALSE
      <3>1. PICK k \in T : \A j \in T : k <= j
        BY <2>1, LeastNatural
      <3>2. k # a
        BY <1>2, <3>1
      <3>3. k - 1 \in Nat /\ a <= k - 1 /\ k - 1 \notin T
        BY <3>1, <3>2
      <3>4. PrefixSum(g, k - 1) <= PrefixSum(g, (k - 1) + 1)
        BY <1>3, <3>3
      <3>5. (k - 1) + 1 = k
        BY <3>1
      <3>6. PrefixSum(g, a) \in Int /\ PrefixSum(g, k - 1) \in Int /\ PrefixSum(g, k) \in Int
        BY <1>2, <3>1, <3>3
      <3> QED
        BY <3>1, <3>3, <3>4, <3>5, <3>6
    <2> QED
      BY <1>4, <2>1
  <1>5. PrefixSum(g, 0) <= PrefixSum(g, m)
    BY <1>4
  <1>6. PrefixSum(g, m) <= PrefixSum(g, n)
    BY <1>4
  <1>7. PrefixSum(g, m) \in Int
    BY <1>2
  <1> QED
    BY <1>2, <1>5, <1>6, <1>7

\* h is g with one more at b.
OneMore(g, h, b) ==
    /\ g \in [Nat -> Int] /\ h \in [Nat -> Int]
    /\ h[b] = g[b] + 1 /\ \A i \in Nat : i # b => h[i] = g[i]

\* Adding one to a term adds one to the sums from there on.
LEMMA PrefixSumIncrement ==
    ASSUME NEW g, NEW h, NEW b \in Nat, b > 0, OneMore(g, h, b), NEW n \in Nat
    PROVE PrefixSum(h, n) = PrefixSum(g, n) + (IF b <= n THEN 1 ELSE 0)
  <1> DEFINE T == {k \in Nat : PrefixSum(h, k) # PrefixSum(g, k) + (IF b <= k THEN 1 ELSE 0)}
  <1>1. /\ PrefixSum(g, 0) = 0 /\ PrefixSum(h, 0) = 0
        /\ \A k \in Nat : PrefixSum(g, k + 1) = PrefixSum(g, k) + g[k + 1]
        /\ \A k \in Nat : PrefixSum(h, k + 1) = PrefixSum(h, k) + h[k + 1]
        /\ \A k \in Nat : PrefixSum(g, k) \in Int /\ PrefixSum(h, k) \in Int
    BY PrefixSumStep DEF OneMore
  <1>2. ASSUME T # {} PROVE FALSE
    <2>1. PICK k \in T : \A j \in T : k <= j
      BY <1>2, LeastNatural
    <2>2. k # 0
      BY <1>1, <2>1
    <2>3. k - 1 \in Nat /\ k - 1 \notin T /\ (k - 1) + 1 = k
      BY <2>1, <2>2
    <2>4. PrefixSum(h, k - 1) = PrefixSum(g, k - 1) + (IF b <= k - 1 THEN 1 ELSE 0)
      BY <2>3
    <2>5. /\ PrefixSum(g, k) = PrefixSum(g, k - 1) + g[k]
          /\ PrefixSum(h, k) = PrefixSum(h, k - 1) + h[k]
          /\ PrefixSum(g, k - 1) \in Int /\ PrefixSum(h, k - 1) \in Int
          /\ g[k] \in Int /\ h[k] \in Int
      BY <1>1, <2>3 DEF OneMore
    <2>6. CASE k = b
      BY <2>1, <2>4, <2>5, <2>6 DEF OneMore
    <2>7. CASE k # b
      <3>1. h[k] = g[k] /\ (b <= k <=> b <= k - 1)
        BY <2>1, <2>7 DEF OneMore
      <3> QED
        BY <2>1, <2>4, <2>5, <3>1
    <2> QED
      BY <2>6, <2>7
  <1> QED
    BY <1>2

\* p is what n steps make of a, one entry per step.
StepTable(S, a, step, n, p) ==
    /\ p \in [0..n -> S]
    /\ p[0] = a
    /\ \A i \in 1..n : p[i] = step[i][p[i - 1]]

\* A finite iteration has such a table.
LEMMA IterationExists ==
    ASSUME NEW S, NEW a \in S, NEW size \in Nat, NEW step \in [1..size -> [S -> S]]
    PROVE \E p : StepTable(S, a, step, size, p)
  <1> DEFINE T == {m \in Nat : m <= size /\ ~ \E p : StepTable(S, a, step, m, p)}
  <1>1. ASSUME T # {} PROVE FALSE
    <2>1. PICK m \in T : \A k \in T : m <= k
      BY <1>1, LeastNatural
    <2>2. CASE m = 0
      <3>1. StepTable(S, a, step, 0, [i \in 0..0 |-> a])
        BY DEF StepTable
      <3> QED
        BY <2>1, <2>2, <3>1
    <2>3. CASE m # 0
      <3>1. m - 1 \in Nat /\ m - 1 \notin T /\ m - 1 <= size
        BY <2>1, <2>3
      <3>2. PICK p : StepTable(S, a, step, m - 1, p)
        BY <3>1
      <3> DEFINE next == step[m][p[m - 1]]
                 q == [i \in 0..m |-> IF i = m THEN next ELSE p[i]]
      <3>3. p[m - 1] \in S /\ step[m] \in [S -> S] /\ next \in S
        BY <2>1, <2>3, <3>2 DEF StepTable
      <3>4. StepTable(S, a, step, m, q)
        <4>2. q \in [0..m -> S]
          BY <2>1, <3>2, <3>3 DEF StepTable
        <4>3. q[0] = a
          BY <2>1, <2>3, <3>2 DEF StepTable
        <4>4. ASSUME NEW i \in 1..m PROVE q[i] = step[i][q[i - 1]]
          <5>1. q[i - 1] = p[i - 1]
            BY <2>1, <4>4
          <5>2. CASE i = m
            BY <5>1, <5>2
          <5>3. CASE i # m
            BY <2>1, <3>2, <5>1, <5>3 DEF StepTable
          <5> QED
            BY <5>2, <5>3
        <4> QED
          BY <4>2, <4>3, <4>4 DEF StepTable
      <3> QED
        BY <2>1, <3>4
    <2> QED
      BY <2>2, <2>3
  <1>2. T = {}
    BY <1>1
  <1>3. size <= size
    OBVIOUS
  <1>4. ~(~ \E p : StepTable(S, a, step, size, p))
    BY <1>2, <1>3
  <1> QED
    BY <1>4

\* f takes these steps as long as it stays in S.
Stepwise(S, step, size, f) == \A i \in 1..size : f[i - 1] \in S => f[i] = step[i][f[i - 1]]

\* Whatever takes the same steps from the same start agrees with the table.
LEMMA IterationFollows ==
    ASSUME NEW S, NEW a, NEW size \in Nat, NEW step, NEW p, StepTable(S, a, step, size, p),
           NEW f, f[0] = a, Stepwise(S, step, size, f)
    PROVE \A i \in 0..size : f[i] = p[i] /\ f[i] \in S
  <1> DEFINE T == {n \in Nat : n <= size /\ f[n] # p[n]}
  <1>1. ASSUME T # {} PROVE FALSE
    <2>1. PICK n \in T : \A j \in T : n <= j
      BY <1>1, LeastNatural
    <2>2. n # 0
      BY <2>1 DEF StepTable
    <2>3. n - 1 \in Nat /\ n - 1 \notin T /\ n - 1 <= size /\ n \in 1..size /\ n - 1 \in 0..size
      BY <2>1, <2>2
    <2>4. f[n - 1] = p[n - 1] /\ p[n - 1] \in S
      BY <2>3 DEF StepTable
    <2>5. f[n] = step[n][f[n - 1]] /\ p[n] = step[n][p[n - 1]]
      BY <2>3, <2>4 DEF StepTable, Stepwise
    <2> QED
      BY <2>1, <2>4, <2>5
  <1>2. ASSUME NEW i \in 0..size PROVE f[i] = p[i] /\ f[i] \in S
    <2>1. i \notin T /\ i \in Nat /\ i <= size
      BY <1>1
    <2> QED
      BY <2>1 DEF StepTable
  <1> QED
    BY <1>2

\* v is the course of a value that is assigned w[i] at the steps i in hits and kept at the others.
Course(size, v, w, hits) == \A i \in 1..size : v[i] = IF i \in hits THEN w[i] ELSE v[i - 1]

Stays(size, v, w, hits) ==
    /\ hits = {} => v[size] = v[0]
    /\ hits # {} => Max(hits) \in hits /\ v[size] = w[Max(hits)]

\* The last of the assignments to a value is the one that stays.
LEMMA LastAssignment ==
    ASSUME NEW size \in Nat, NEW v, NEW w, NEW hits, hits \subseteq 1..size, Course(size, v, w, hits)
    PROVE Stays(size, v, w, hits)
  <1>1. ASSUME NEW k \in 0..size, \A i \in hits : i <= k, k = 0 \/ k \in hits
        PROVE v[size] = v[k]
    <2> DEFINE T == {n \in Nat : k <= n /\ n <= size /\ v[n] # v[k]}
    <2>1. ASSUME T # {} PROVE FALSE
      <3>1. PICK n \in T : \A j \in T : n <= j
        BY <2>1, LeastNatural
      <3>2. n # k /\ n - 1 \in Nat /\ k <= n - 1 /\ n - 1 <= size /\ n \in 1..size
        BY <3>1
      <3>3. n - 1 \notin T /\ n \notin hits
        BY <1>1, <3>1, <3>2
      <3>4. v[n - 1] = v[k]
        BY <3>2, <3>3
      <3>5. v[n] = v[n - 1]
        BY <3>2, <3>3 DEF Course
      <3> QED
        BY <3>1, <3>4, <3>5
    <2>2. T = {} /\ size <= size /\ k <= size
      BY <2>1
    <2> QED
      BY <2>2
  <1>2. ASSUME hits = {} PROVE v[size] = v[0]
    BY <1>1, <1>2
  <1>3. ASSUME hits # {} PROVE Max(hits) \in hits /\ v[size] = w[Max(hits)]
    <2>1. hits \subseteq Nat /\ \A x \in hits : x <= size
      OBVIOUS
    <2>2. Max(hits) \in hits /\ \A y \in hits : y <= Max(hits)
      BY <1>3, <2>1, MaxOfBounded
    <2>3. PICK m : m = Max(hits)
      OBVIOUS
    <2>4. m \in hits /\ \A y \in hits : y <= m
      BY <2>2, <2>3
    <2>5. m \in 1..size /\ m \in 0..size
      BY <2>4
    <2>6. v[size] = v[m] /\ v[m] = w[m]
      BY <1>1, <2>4, <2>5 DEF Course
    <2> QED
      BY <2>3, <2>4, <2>6
  <1> QED
    BY <1>2, <1>3 DEF Stays

=============================================================================
