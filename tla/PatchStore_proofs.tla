-------------------------- MODULE PatchStore_proofs --------------------------
(***************************************************************************)
(* What PatchStore computes, for every input: sums of spans, the ceiling,  *)
(* the remapped rows and the routing composed from them.                   *)
(*                                                                         *)
(* Sums and concatenations are recursive functions, so this begins with    *)
(* induction over the naturals, for sets of naturals (SetInduction): the   *)
(* numbers for which a statement holds are such a set.                     *)
(***************************************************************************)
EXTENDS PatchStore, FiniteSetTheorems, SequenceTheorems, TLAPS

-----------------------------------------------------------------------------
(* Induction. *)

\* A set of naturals has a least element: its initial segments are finite, and
\* the strict subset ordering of those is well-founded.
LEMMA LeastNatural ==
  ASSUME NEW S \in SUBSET Nat, S # {}
  PROVE  \E n \in S : \A m \in S : n <= m
<1>1. PICK b \in S : TRUE
  OBVIOUS
<1> DEFINE B == 0..b
           below(k) == 0..(k - 1)
           T == {below(k) : k \in S \cap B}
<1>2. \A s \in SUBSET B : IsFiniteSet(s)
  <2>1. IsFiniteSet(B)
    BY FS_Interval
  <2> HIDE DEF B
  <2> QED BY <2>1, FS_Subset
<1>3. T \subseteq FiniteSubsetsOf(B)
  <2>1. T \subseteq SUBSET B
    OBVIOUS
  <2> QED BY <2>1, <1>2 DEF FiniteSubsetsOf
<1>4. T # {}
  BY <1>1
<1>5. PICK x \in T : \A y \in T : ~(<<y, x>> \in StrictSubsetOrdering(B))
  <2> HIDE DEF T
  <2> QED BY <1>3, <1>4, FS_StrictSubsetOrderingWellFounded, WFMin
<1>6. PICK n \in S \cap B : x = below(n)
  OBVIOUS
<1>7. ASSUME NEW m \in S \cap B, m < n PROVE FALSE
  <2>1. /\ below(m) \in T
        /\ below(m) \in SUBSET B
        /\ x \in SUBSET B
        /\ below(m) \subseteq x
    BY <1>6, <1>7
  <2>2. m \in x /\ m \notin below(m)
    BY <1>6, <1>7
  <2>3. <<below(m), x>> \in StrictSubsetOrdering(B)
    <3> HIDE DEF below, B
    <3> QED BY <2>1, <2>2 DEF StrictSubsetOrdering
  <2> QED BY <1>5, <2>1, <2>3
<1> QED BY <1>1, <1>7

\* Induction up to n, for the set of numbers a statement holds for.
LEMMA SetInduction ==
  ASSUME NEW n \in Nat, NEW S, 0 \in S,
         \A k \in 0..(n - 1) : k \in S => k + 1 \in S
  PROVE  \A k \in 0..n : k \in S
<1> SUFFICES ASSUME (0..n) \ S # {} PROVE FALSE
  OBVIOUS
<1> DEFINE T == (0..n) \ S
<1>1. PICK k \in T : \A m \in T : k <= m
  <2>1. T \in SUBSET Nat /\ T # {}
    OBVIOUS
  <2> HIDE DEF T
  <2> QED BY <2>1, LeastNatural
<1>2. k # 0 /\ k - 1 \in 0..(n - 1)
  BY <1>1
<1>3. k - 1 \in S
  BY <1>1, <1>2
<1> QED BY <1>1, <1>2, <1>3, (k - 1) + 1 = k

\* A bounded set of naturals has a greatest element, and Max is it.
LEMMA MaxOfNaturals ==
  ASSUME NEW S \in SUBSET Nat, S # {}, NEW b \in Nat, \A n \in S : n <= b
  PROVE  Max(S) \in S /\ \A n \in S : n <= Max(S)
<1> DEFINE T == {b - n : n \in S}
<1>1. PICK t \in T : \A u \in T : t <= u
  <2>1. \A n \in S : b - n \in Nat
    OBVIOUS
  <2>2. T \subseteq Nat
    BY <2>1
  <2>3. T # {}
    OBVIOUS
  <2> HIDE DEF T
  <2> QED BY <2>2, <2>3, LeastNatural
<1>2. PICK n \in S : t = b - n
  OBVIOUS
<1>3. \A m \in S : n >= m
  <2> SUFFICES ASSUME NEW m \in S PROVE n >= m
    OBVIOUS
  <2>1. b - n <= b - m
    BY <1>1, <1>2
  <2> QED BY <2>1
<1>4. Max(S) \in S /\ \A m \in S : Max(S) >= m
  BY <1>2, <1>3 DEF Max
<1> QED BY <1>4

-----------------------------------------------------------------------------
(* Sums of spans. *)

\* The recursion that defines Rows has a solution.
LEMMA SumExists ==
  ASSUME NEW spans \in Seq(Nat)
  PROVE  \E f \in [0..Len(spans) -> Nat] :
           f = [j \in 0..Len(spans) |-> IF j = 0 THEN 0 ELSE f[j - 1] + spans[j]]
<1> DEFINE n == Len(spans)
           solves(f, m) == \A j \in 0..m : f[j] = IF j = 0 THEN 0
                                                  ELSE f[j - 1] + spans[j]
           S == {m \in 0..n : \E f \in [0..m -> Nat] : solves(f, m)}
<1>1. 0 \in S
  <2> DEFINE g == [j \in 0..0 |-> 0]
  <2>1. g \in [0..0 -> Nat] /\ solves(g, 0)
    OBVIOUS
  <2>2. 0 \in 0..n
    OBVIOUS
  <2> HIDE DEF g, solves, n
  <2> QED BY <2>1, <2>2
<1>2. ASSUME NEW m \in 0..(n - 1), m \in S PROVE m + 1 \in S
  <2>1. PICK f \in [0..m -> Nat] : solves(f, m)
    BY <1>2
  <2> DEFINE g == [j \in 0..(m + 1) |-> IF j <= m THEN f[j] ELSE f[m] + spans[m + 1]]
  <2>2. spans[m + 1] \in Nat
    OBVIOUS
  <2>3. g \in [0..(m + 1) -> Nat]
    BY <2>2
  <2>4. solves(g, m + 1)
    <3> SUFFICES ASSUME NEW j \in 0..(m + 1)
                 PROVE  g[j] = IF j = 0 THEN 0 ELSE g[j - 1] + spans[j]
      OBVIOUS
    <3>1. CASE j <= m
      BY <3>1, <2>1
    <3>2. CASE j = m + 1
      BY <3>2
    <3> QED BY <3>1, <3>2
  <2>5. m + 1 \in 0..n
    OBVIOUS
  <2> HIDE DEF solves, g, n
  <2> QED BY <2>3, <2>4, <2>5
<1>3. n \in S
  <2> HIDE DEF S
  <2> QED BY <1>1, <1>2, SetInduction, n \in Nat, n \in 0..n
<1>4. PICK f \in [0..n -> Nat] : solves(f, n)
  BY <1>3
<1>5. f = [j \in 0..n |-> IF j = 0 THEN 0 ELSE f[j - 1] + spans[j]]
  BY <1>4
<1> QED BY <1>5

\* getStemChannelOffset, one input further.
LEMMA RowsSum ==
  ASSUME NEW spans \in Seq(Nat)
  PROVE  /\ Rows(spans, 0) = 0
         /\ \A i \in 0..Len(spans) : Rows(spans, i) \in Nat
         /\ \A i \in 1..Len(spans) : Rows(spans, i) = Rows(spans, i - 1) + spans[i]
         /\ Total(spans) \in Nat
<1> DEFINE n == Len(spans)
           eq(f) == f = [j \in 0..n |-> IF j = 0 THEN 0 ELSE f[j - 1] + spans[j]]
           sum == CHOOSE f : eq(f)
<1>1. \E f : eq(f)
  BY SumExists
<1>2. eq(sum)
  <2> HIDE DEF eq
  <2> QED BY <1>1
<1>3. \A i \in 0..n : Rows(spans, i) = sum[i]
  BY DEF Rows
<1> HIDE DEF sum
<1>4. \A j \in 0..n : sum[j] = IF j = 0 THEN 0 ELSE sum[j - 1] + spans[j]
  BY <1>2
<1> DEFINE S == {j \in 0..n : sum[j] \in Nat}
<1>5. \A j \in 0..n : j \in S
  <2>1. 0 \in S
    BY <1>4
  <2>2. \A k \in 0..(n - 1) : k \in S => k + 1 \in S
    <3> SUFFICES ASSUME NEW k \in 0..(n - 1), sum[k] \in Nat
                 PROVE  sum[k + 1] \in Nat
      OBVIOUS
    <3>1. sum[k + 1] = sum[k] + spans[k + 1] /\ spans[k + 1] \in Nat
      BY <1>4
    <3> QED BY <3>1
  <2>3. n \in Nat
    OBVIOUS
  <2> HIDE DEF S, n
  <2> QED BY <2>1, <2>2, <2>3, SetInduction
<1>6. /\ Rows(spans, 0) = 0
      /\ \A i \in 0..n : Rows(spans, i) \in Nat
  <2>1. 0 \in 0..n
    OBVIOUS
  <2> HIDE DEF n
  <2> QED BY <2>1, <1>3, <1>4, <1>5
<1>7. ASSUME NEW i \in 1..n
      PROVE  Rows(spans, i) = Rows(spans, i - 1) + spans[i]
  <2>1. i \in 0..n /\ i - 1 \in 0..n /\ i # 0
    OBVIOUS
  <2> QED BY <2>1, <1>3, <1>4
<1>8. Total(spans) \in Nat
  BY <1>6, n \in 0..n DEF Total
<1> QED BY <1>6, <1>7, <1>8

\* Later inputs start no earlier.
LEMMA RowsMonotone ==
  ASSUME NEW spans \in Seq(Nat),
         NEW i \in 0..Len(spans), NEW j \in 0..Len(spans), i <= j
  PROVE  Rows(spans, i) <= Rows(spans, j)
<1> DEFINE n == Len(spans)
           S == {k \in 0..n : i <= k => Rows(spans, i) <= Rows(spans, k)}
<1>1. \A k \in 0..n : Rows(spans, k) \in Nat
  BY RowsSum
<1>2. 0 \in S
  BY <1>1
<1>3. ASSUME NEW k \in 0..(n - 1), k \in S PROVE k + 1 \in S
  <2>1. /\ k + 1 \in 1..n
        /\ spans[k + 1] \in Nat
        /\ Rows(spans, k) \in Nat
        /\ Rows(spans, k + 1) \in Nat
    BY <1>1
  <2>2. Rows(spans, k + 1) = Rows(spans, k) + spans[k + 1]
    BY <2>1, RowsSum, (k + 1) - 1 = k
  <2>3. CASE i <= k
    BY <1>3, <2>1, <2>2, <2>3, <1>1
  <2>4. CASE ~(i <= k)
    BY <2>1, <2>4
  <2> QED BY <2>3, <2>4
<1>4. \A k \in 0..n : k \in S
  <2>1. n \in Nat
    OBVIOUS
  <2> HIDE DEF S, n
  <2> QED BY <1>2, <1>3, <2>1, SetInduction
<1> QED BY <1>4

LEMMA BlockInside ==
  ASSUME NEW p \in Nat, NEW r \in Nat \ {0}, NEW q \in Nat, NEW t \in Nat,
         p + r <= q, q <= t
  PROVE  p + r \in 1..t
OBVIOUS

LEMMA SumsOrdered ==
  ASSUME NEW p \in Nat, NEW q \in Nat, NEW x \in Nat, NEW y \in Nat,
         p <= q, x <= y
  PROVE  p + x <= q + y
OBVIOUS

\* Wider spans sum to more rows.
LEMMA RowsPointwise ==
  ASSUME NEW a \in Seq(Nat), NEW b \in Seq(Nat),
         NEW n \in 0..Len(a), n <= Len(b), \A j \in 1..n : a[j] <= b[j]
  PROVE  Rows(a, n) <= Rows(b, n)
<1> DEFINE S == {k \in 0..n : Rows(a, k) <= Rows(b, k)}
<1>1. 0 \in S
  BY RowsSum
<1>2. ASSUME NEW k \in 0..(n - 1), k \in S PROVE k + 1 \in S
  <2>1. /\ k + 1 \in 1..Len(a) /\ k + 1 \in 1..Len(b) /\ k + 1 \in 1..n
        /\ k \in 0..Len(a) /\ k \in 0..Len(b)
    OBVIOUS
  <2>2. a[k + 1] \in Nat /\ b[k + 1] \in Nat /\ a[k + 1] <= b[k + 1]
    BY <2>1
  <2>3. /\ Rows(a, k) \in Nat /\ Rows(b, k) \in Nat
        /\ Rows(a, k + 1) = Rows(a, k) + a[k + 1]
        /\ Rows(b, k + 1) = Rows(b, k) + b[k + 1]
    BY <2>1, RowsSum, (k + 1) - 1 = k
  <2>4. Rows(a, k) <= Rows(b, k)
    BY <1>2
  <2>5. Rows(a, k + 1) <= Rows(b, k + 1)
    <3>1. Rows(a, k) + a[k + 1] <= Rows(b, k) + b[k + 1]
      BY <2>2, <2>3, <2>4, SumsOrdered, Zenon
    <3> QED BY <2>3, <3>1, Zenon
  <2>6. k + 1 \in 0..n
    BY <2>1
  <2> QED BY <2>5, <2>6
<1>3. \A k \in 0..n : k \in S
  <2>1. n \in Nat
    OBVIOUS
  <2> HIDE DEF S
  <2> QED BY <1>1, <1>2, <2>1, SetInduction
<1> QED BY <1>3

\* Equal spans put an input at the same row.
LEMMA RowsEqual ==
  ASSUME NEW a \in Seq(Nat), NEW b \in Seq(Nat),
         NEW n \in 0..Len(a), n <= Len(b), \A j \in 1..n : a[j] = b[j]
  PROVE  Rows(a, n) = Rows(b, n)
<1>1. n \in 0..Len(b) /\ n <= Len(a)
  OBVIOUS
<1>2. \A j \in 1..n : a[j] \in Nat /\ b[j] \in Nat
  BY <1>1
<1>3. Rows(a, n) <= Rows(b, n)
  BY <1>2, RowsPointwise
<1>4. Rows(b, n) <= Rows(a, n)
  BY <1>1, <1>2, RowsPointwise
<1> QED BY <1>1, <1>3, <1>4, RowsSum

\* Mono inputs only.
LEMMA RowsOfMono ==
  ASSUME NEW spans \in Seq(Nat), \A j \in 1..Len(spans) : spans[j] = 1
  PROVE  /\ \A i \in 0..Len(spans) : Rows(spans, i) = i
         /\ Total(spans) = Len(spans)
<1> DEFINE n == Len(spans)
           S == {k \in 0..n : Rows(spans, k) = k}
<1>1. 0 \in S
  BY RowsSum
<1>2. ASSUME NEW k \in 0..(n - 1), k \in S PROVE k + 1 \in S
  <2>1. k + 1 \in 1..n
    OBVIOUS
  <2>2. Rows(spans, k + 1) = Rows(spans, k) + spans[k + 1]
    BY <2>1, RowsSum, (k + 1) - 1 = k
  <2> QED BY <1>2, <2>1, <2>2
<1>3. \A k \in 0..n : k \in S
  <2>1. n \in Nat
    OBVIOUS
  <2> HIDE DEF S, n
  <2> QED BY <1>1, <1>2, <2>1, SetInduction
<1> QED BY <1>3, n \in 0..n DEF Total

\* Every row belongs to an input ...
LEMMA RowsLocate ==
  ASSUME NEW spans \in Seq(Nat), NEW k \in 1..Total(spans)
  PROVE  \E i \in 1..Len(spans) : \E r \in 1..spans[i] :
           k = Rows(spans, i - 1) + r
<1> DEFINE n == Len(spans)
           located == \E i \in 1..n : \E r \in 1..spans[i] :
                        k = Rows(spans, i - 1) + r
           S == {m \in 0..n : k <= Rows(spans, m) => located}
<1>1. 0 \in S
  BY RowsSum
<1>2. ASSUME NEW m \in 0..(n - 1), m \in S PROVE m + 1 \in S
  <2>1. m + 1 \in 1..n /\ m + 1 \in 0..n /\ m \in 0..n
    OBVIOUS
  <2>2. /\ spans[m + 1] \in Nat
        /\ Rows(spans, m) \in Nat
        /\ Rows(spans, m + 1) = Rows(spans, m) + spans[m + 1]
    BY <2>1, RowsSum, (m + 1) - 1 = m
  <2>3. CASE k <= Rows(spans, m)
    BY <1>2, <2>1, <2>3
  <2>4. CASE ~(k <= Rows(spans, m)) /\ k <= Rows(spans, m + 1)
    <3> DEFINE r == k - Rows(spans, m)
    <3>1. r \in 1..spans[m + 1] /\ k = Rows(spans, m) + r
      BY <2>2, <2>4
    <3>2. k = Rows(spans, (m + 1) - 1) + r
      BY <3>1, (m + 1) - 1 = m
    <3> HIDE DEF r
    <3>3. located
      BY <2>1, <3>1, <3>2
    <3> QED BY <2>1, <3>3
  <2> HIDE DEF located
  <2> QED BY <2>1, <2>3, <2>4
<1>3. n \in S
  <2>1. n \in Nat /\ n \in 0..n
    OBVIOUS
  <2> HIDE DEF S, n
  <2> QED BY <1>1, <1>2, <2>1, SetInduction
<1>4. k <= Rows(spans, n)
  BY RowsSum DEF Total
<1> QED BY <1>3, <1>4

\* ... within the rows there are, and to one only.
LEMMA RowsInside ==
  ASSUME NEW spans \in Seq(Nat),
         NEW i \in 1..Len(spans), NEW r \in 1..spans[i]
  PROVE  /\ Rows(spans, i - 1) \in Nat
         /\ Rows(spans, i - 1) + r <= Rows(spans, i)
         /\ Rows(spans, i - 1) + r \in 1..Total(spans)
<1>1. i \in 0..Len(spans) /\ i - 1 \in 0..Len(spans) /\ Len(spans) \in 0..Len(spans)
  OBVIOUS
<1>2. spans[i] \in Nat
  OBVIOUS
<1>3. /\ Rows(spans, i - 1) \in Nat
      /\ Rows(spans, i) \in Nat
      /\ Rows(spans, i) = Rows(spans, i - 1) + spans[i]
      /\ Total(spans) \in Nat
  BY <1>1, RowsSum
<1>4. Rows(spans, i) <= Total(spans)
  BY <1>1, RowsMonotone DEF Total
<1> QED BY SMTT(30), <1>2, <1>3, <1>4

LEMMA RowsDisjoint ==
  ASSUME NEW spans \in Seq(Nat),
         NEW i \in 1..Len(spans), NEW r \in 1..spans[i],
         NEW j \in 1..Len(spans), NEW s \in 1..spans[j],
         Rows(spans, i - 1) + r = Rows(spans, j - 1) + s
  PROVE  i = j /\ r = s
<1>1. \A a \in 1..Len(spans) : spans[a] \in Nat
  OBVIOUS
<1>2. ASSUME NEW a \in 1..Len(spans), NEW p \in 1..spans[a],
             NEW b \in 1..Len(spans), NEW q \in 1..spans[b], a < b
      PROVE  Rows(spans, a - 1) + p < Rows(spans, b - 1) + q
  <2>1. /\ a \in 0..Len(spans) /\ b - 1 \in 0..Len(spans)
        /\ a <= b - 1
    BY <1>2, Len(spans) \in Nat
  <2>2. Rows(spans, a) <= Rows(spans, b - 1)
    BY <2>1, RowsMonotone
  <2>3. /\ Rows(spans, a - 1) \in Nat
        /\ Rows(spans, a - 1) + p <= Rows(spans, a)
    BY RowsInside
  <2>4. Rows(spans, a) \in Nat /\ Rows(spans, b - 1) \in Nat
    BY <2>1, RowsSum
  <2> QED BY SMTT(30), <1>1, <2>2, <2>3, <2>4
<1>3. Rows(spans, i - 1) \in Nat /\ Rows(spans, j - 1) \in Nat
  BY RowsInside
<1> DEFINE p == Rows(spans, i - 1) + r
           q == Rows(spans, j - 1) + s
<1>4. p \in Int /\ q \in Int /\ p = q
  BY <1>1, <1>3
<1>5. (i < j => p < q) /\ (j < i => q < p)
  BY <1>2
<1>6. i = j
  <2> HIDE DEF p, q
  <2> QED BY <1>4, <1>5
<1> QED BY <1>1, <1>3, <1>6

-----------------------------------------------------------------------------
(* Blocks of rows, one after the other. *)

LEMMA FunctionIsSeq ==
  ASSUME NEW T, NEW n \in Nat, NEW f \in [1..n -> T]
  PROVE  f \in Seq(T) /\ Len(f) = n
OBVIOUS

\* The recursion that defines FlattenSeq has a solution.
LEMMA FlattenExists ==
  ASSUME NEW T, NEW seqs \in Seq(Seq(T))
  PROVE  \E f : f = [j \in 1..Len(seqs) |-> IF j = 1 THEN seqs[j]
                                            ELSE f[j - 1] \o seqs[j]]
<1> DEFINE n == Len(seqs)
           solves(f, m) == \A j \in 1..m : f[j] = IF j = 1 THEN seqs[j]
                                                  ELSE f[j - 1] \o seqs[j]
           S == {m \in 0..n : \E f : f = [j \in 1..m |-> f[j]] /\ solves(f, m)}
<1>1. 0 \in S
  <2> DEFINE g == [j \in 1..0 |-> 0]
  <2>1. g = [j \in 1..0 |-> g[j]] /\ solves(g, 0)
    OBVIOUS
  <2>2. 0 \in 0..n
    OBVIOUS
  <2> HIDE DEF g, solves, n
  <2> QED BY <2>1, <2>2
<1>2. ASSUME NEW m \in 0..(n - 1), m \in S PROVE m + 1 \in S
  <2>1. PICK f : solves(f, m)
    BY <1>2
  <2> DEFINE last == IF m = 0 THEN seqs[m + 1] ELSE f[m] \o seqs[m + 1]
             g == [j \in 1..(m + 1) |-> IF j <= m THEN f[j] ELSE last]
  <2>2. g = [j \in 1..(m + 1) |-> g[j]]
    OBVIOUS
  <2>3. solves(g, m + 1)
    <3> SUFFICES ASSUME NEW j \in 1..(m + 1)
                 PROVE  g[j] = IF j = 1 THEN seqs[j] ELSE g[j - 1] \o seqs[j]
      OBVIOUS
    <3>1. CASE j <= m
      <4>1. g[j] = f[j] /\ j \in 1..m
        BY <3>1
      <4>2. j # 1 => g[j - 1] = f[j - 1]
        BY <3>1
      <4> HIDE DEF g
      <4> QED BY <4>1, <4>2, <2>1
    <3>2. CASE j = m + 1
      <4>1. g[j] = last
        BY <3>2
      <4>2. j # 1 => g[j - 1] = f[m]
        BY <3>2
      <4> HIDE DEF g
      <4> QED BY <4>1, <4>2, <3>2
    <3> QED BY <3>1, <3>2
  <2>4. m + 1 \in 0..n
    OBVIOUS
  <2> HIDE DEF solves, g, n
  <2> QED BY <2>2, <2>3, <2>4
<1>3. n \in S
  <2>1. n \in Nat /\ n \in 0..n
    OBVIOUS
  <2> HIDE DEF S, n
  <2> QED BY <1>1, <1>2, <2>1, SetInduction
<1>4. PICK f : f = [j \in 1..n |-> f[j]] /\ solves(f, n)
  BY <1>3
<1>5. f = [j \in 1..n |-> IF j = 1 THEN seqs[j] ELSE f[j - 1] \o seqs[j]]
  BY <1>4
<1> QED BY <1>5

\* The sequence of blocks, and where in it the rows of input i are.
LEMMA FlattenBlocks ==
  ASSUME NEW T, NEW seqs \in Seq(Seq(T)), Len(seqs) > 0,
         NEW lens \in Seq(Nat), Len(lens) = Len(seqs),
         \A i \in 1..Len(seqs) : lens[i] = Len(seqs[i])
  PROVE  /\ FlattenSeq(seqs) \in Seq(T)
         /\ Len(FlattenSeq(seqs)) = Total(lens)
         /\ \A i \in 1..Len(seqs) : \A r \in 1..lens[i] :
              FlattenSeq(seqs)[Rows(lens, i - 1) + r] = seqs[i][r]
<1> DEFINE n == Len(seqs)
           eq(f) == f = [j \in 1..n |-> IF j = 1 THEN seqs[j]
                                        ELSE f[j - 1] \o seqs[j]]
           flat == CHOOSE f : eq(f)
<1>1. eq(flat)
  <2>1. \E f : eq(f)
    BY FlattenExists
  <2> HIDE DEF eq
  <2> QED BY <2>1
<1>2. FlattenSeq(seqs) = flat[n]
  BY DEF FlattenSeq
<1> HIDE DEF flat
<1>3. \A j \in 1..n : flat[j] = IF j = 1 THEN seqs[j] ELSE flat[j - 1] \o seqs[j]
  BY <1>1
<1> DEFINE good(m) ==
             /\ flat[m] \in Seq(T)
             /\ Len(flat[m]) = Rows(lens, m)
             /\ \A i \in 1..m : \A r \in 1..lens[i] :
                  flat[m][Rows(lens, i - 1) + r] = seqs[i][r]
           S == {m \in 0..n : m # 0 => good(m)}
<1>4. 0 \in S
  OBVIOUS
<1>5. ASSUME NEW m \in 0..(n - 1), m \in S PROVE m + 1 \in S
  <2>1. /\ m + 1 \in 1..n /\ m + 1 \in 0..n /\ m \in 0..n
        /\ m + 1 \in 1..Len(lens) /\ m \in 0..Len(lens)
        /\ (m + 1) - 1 = m
    OBVIOUS
  <2>2. seqs[m + 1] \in Seq(T) /\ lens[m + 1] = Len(seqs[m + 1])
    BY <2>1
  <2>3. /\ Rows(lens, m) \in Nat
        /\ Rows(lens, m + 1) = Rows(lens, m) + lens[m + 1]
    BY <2>1, RowsSum
  <2>4. CASE m = 0
    <3>1. flat[m + 1] = seqs[m + 1] /\ Rows(lens, m) = 0
      BY <2>1, <2>4, <1>3, RowsSum
    <3>2. lens[m + 1] \in Nat
      BY <2>1
    <3>3. good(m + 1)
      BY <3>1, <3>2, <2>2, <2>3, <2>4
    <3> QED BY <2>1, <3>3
  <2>5. CASE m # 0
    <3>1. good(m)
      BY <1>5, <2>5
    <3>2. flat[m + 1] = flat[m] \o seqs[m + 1]
      <4>1. m + 1 # 1
        BY <2>5
      <4>2. flat[m + 1] = flat[(m + 1) - 1] \o seqs[m + 1]
        BY <2>1, <4>1, <1>3, Zenon
      <4> QED BY <4>2, <2>1
    <3> DEFINE before == flat[m]
               block == seqs[m + 1]
    <3>3. /\ flat[m + 1] \in Seq(T)
          /\ Len(flat[m + 1]) = Len(before) + Len(block)
          /\ \A k \in 1..Len(before) : flat[m + 1][k] = before[k]
          /\ \A k \in 1..Len(block) : flat[m + 1][Len(before) + k] = block[k]
      <4>1. before \in Seq(T) /\ block \in Seq(T)
        BY <3>1, <2>2
      <4>2. flat[m + 1] = before \o block
        BY <3>2
      <4> HIDE DEF before, block
      <4> QED BY <4>1, <4>2
    <3>4. /\ flat[m + 1] \in Seq(T)
          /\ Len(flat[m + 1]) = Rows(lens, m + 1)
      BY <3>1, <3>3, <2>2, <2>3
    <3>5. ASSUME NEW i \in 1..(m + 1), NEW r \in 1..lens[i]
          PROVE  flat[m + 1][Rows(lens, i - 1) + r] = seqs[i][r]
      <4>1. i \in 1..Len(lens)
        OBVIOUS
      <4>2. /\ Rows(lens, i - 1) \in Nat
            /\ Rows(lens, i - 1) + r <= Rows(lens, i)
        BY <4>1, RowsInside
      <4>3. CASE i <= m
        <5>1. /\ i \in 0..Len(lens) /\ i \in 1..m
          BY <4>3, <4>1
        <5>2. Rows(lens, i) <= Rows(lens, m) /\ Rows(lens, i) \in Nat
          BY <4>3, <5>1, <2>1, RowsMonotone, RowsSum
        <5>3. Rows(lens, i - 1) + r \in 1..Len(flat[m])
          <6>1. lens[i] \in Nat /\ Len(flat[m]) = Rows(lens, m)
            BY SMTT(30), <4>1, <3>1
          <6>2. r \in 1..lens[i] /\ Rows(lens, m) \in Nat
            BY <2>3
          <6>3. r \in Nat \ {0}
            BY <6>1, <6>2
          <6> QED BY <6>1, <6>2, <6>3, <4>2, <5>2, BlockInside, Zenon
        <5>4. flat[m + 1][Rows(lens, i - 1) + r] = flat[m][Rows(lens, i - 1) + r]
          BY <5>3, <3>3
        <5> QED BY <5>1, <5>4, <3>1
      <4>4. CASE i = m + 1
        <5>1. r \in 1..Len(seqs[m + 1])
          BY <4>4, <2>2
        <5>2. flat[m + 1][Len(flat[m]) + r] = seqs[m + 1][r]
          BY <5>1, <3>3
        <5> QED BY <5>2, <4>4, <3>1, <2>1
      <4> QED BY <4>3, <4>4
    <3>6. good(m + 1)
      BY <3>4, <3>5
    <3> HIDE DEF good
    <3> QED BY <2>1, <3>6
  <2> QED BY <2>4, <2>5
<1>6. n \in S
  <2>1. n \in Nat /\ n \in 0..n
    OBVIOUS
  <2> HIDE DEF S, n
  <2> QED BY <1>4, <1>5, <2>1, SetInduction
<1>7. good(n)
  BY <1>6
<1> QED BY <1>2, <1>7 DEF Total

-----------------------------------------------------------------------------
(* Formats and the ceiling. *)

LEMMA SpanMonotone ==
  ASSUME NEW f \in Nat, NEW g \in Nat, f <= g
  PROVE  Span(f) \in Nat /\ 1 <= Span(f) /\ Span(f) <= Span(g)
<1>1. (f + 1) * (f + 1) \in Nat /\ 1 <= (f + 1) * (f + 1)
  OBVIOUS
<1>2. (f + 1) * (f + 1) <= (g + 1) * (g + 1)
  <2>1. (f + 1) * (f + 1) <= (f + 1) * (g + 1)
    OBVIOUS
  <2>2. (f + 1) * (g + 1) <= (g + 1) * (g + 1)
    OBVIOUS
  <2>3. /\ (f + 1) * (f + 1) \in Int /\ (f + 1) * (g + 1) \in Int
        /\ (g + 1) * (g + 1) \in Int
    OBVIOUS
  <2> QED BY <2>1, <2>2, <2>3
<1>3. f # 0 => g # 0
  OBVIOUS
<1>4. (g + 1) * (g + 1) \in Nat /\ 1 <= (g + 1) * (g + 1)
  OBVIOUS
<1> QED BY <1>1, <1>2, <1>3, <1>4 DEF Span

\* Spans are positive.
LEMMA SpansType ==
  ASSUME NEW formats \in Seq(Nat)
  PROVE  /\ Spans(formats) \in Seq(Nat)
         /\ Len(Spans(formats)) = Len(formats)
         /\ \A i \in 1..Len(formats) : /\ Spans(formats)[i] = Span(formats[i])
                                       /\ Spans(formats)[i] >= 1
<1>1. \A i \in 1..Len(formats) : Span(formats[i]) \in Nat /\ Span(formats[i]) >= 1
  BY SpanMonotone
<1>2. Spans(formats) = [i \in 1..Len(formats) |-> Span(formats[i])]
  BY DEF Spans
<1> QED BY <1>1, <1>2

\* Lower formats, fewer rows.
LEMMA TotalPointwise ==
  ASSUME NEW a \in Seq(Nat), NEW b \in Seq(Nat), Len(a) = Len(b),
         \A j \in 1..Len(a) : a[j] <= b[j]
  PROVE  Total(Spans(a)) <= Total(Spans(b))
<1>1. /\ Spans(a) \in Seq(Nat) /\ Len(Spans(a)) = Len(a)
      /\ Spans(b) \in Seq(Nat) /\ Len(Spans(b)) = Len(b)
  BY SpansType
<1>2. \A j \in 1..Len(a) : Spans(a)[j] <= Spans(b)[j]
  <2> SUFFICES ASSUME NEW j \in 1..Len(a) PROVE Spans(a)[j] <= Spans(b)[j]
    OBVIOUS
  <2>1. a[j] \in Nat /\ b[j] \in Nat /\ a[j] <= b[j]
    OBVIOUS
  <2> QED BY <2>1, SpanMonotone, SpansType
<1> DEFINE n == Len(a)
<1>3. n \in 0..Len(Spans(a)) /\ n <= Len(Spans(b))
  BY <1>1
<1>4. Total(Spans(a)) = Rows(Spans(a), n) /\ Total(Spans(b)) = Rows(Spans(b), n)
  BY <1>1 DEF Total
<1> HIDE DEF n
<1>5. \A j \in 1..n : Spans(a)[j] <= Spans(b)[j]
  BY <1>2 DEF n
<1> QED BY <1>1, <1>3, <1>4, <1>5, RowsPointwise

\* clampStemSpans keeps the inputs, raises no format, and what it returns is
\* within the ceiling.  "last HOA input first, one order at a time": there is
\* an input k before which nothing is touched and after which all is mono, and
\* no higher order of k would have been within the ceiling.
THEOREM ClampFits ==
  ASSUME NEW formats \in Seq(Nat), Len(formats) \in 1..MaxStem
  PROVE  LET clamped == ClampStemSpans(formats)
         IN  /\ clamped \in Seq(Nat)
             /\ Len(clamped) = Len(formats)
             /\ \A i \in 1..Len(formats) : clamped[i] <= formats[i]
             /\ Total(Spans(clamped)) <= MaxStem
             /\ \E k \in 1..Len(formats) :
                  /\ \A i \in 1..Len(formats) : i < k => clamped[i] = formats[i]
                  /\ \A i \in 1..Len(formats) : i > k => clamped[i] = 0
                  /\ \A f \in (clamped[k] + 1)..formats[k] :
                       Total(Spans([clamped EXCEPT ![k] = f])) > MaxStem
<1> DEFINE n == Len(formats)
<1>0. MaxStem \in Nat
  BY SizesAssumption
<1>1. CASE Total(Spans(formats)) <= MaxStem
  <2>1. ClampStemSpans(formats) = formats
    BY <1>1 DEF ClampStemSpans
  <2>2. n \in 1..n /\ formats[n] \in Nat
    OBVIOUS
  <2>3. (formats[n] + 1)..formats[n] = {}
    BY <2>2
  <2> QED BY <1>1, <2>1, <2>2, <2>3
<1>2. CASE ~(Total(Spans(formats)) <= MaxStem)
  <2> DEFINE lowered(i, f) == [j \in DOMAIN formats |->
                                 IF j < i THEN formats[j]
                                 ELSE IF j = i THEN f ELSE 0]
             fits(i) == {f \in 0..formats[i] :
                           Total(Spans(lowered(i, f))) <= MaxStem}
             G == {i \in 1..n : Total(Spans(lowered(i, 0))) <= MaxStem}
             clamped == ClampStemSpans(formats)
  <2>1. \A i \in 1..n : SteppedDown(formats, i) = Max({0} \cup fits(i))
    BY DEF SteppedDown
  <2>2. clamped = [i \in 1..n |-> SteppedDown(formats, i)]
    BY <1>2 DEF ClampStemSpans
  <2>3. \A i \in 1..n : formats[i] \in Nat
    OBVIOUS
  <2>4. \A i \in 1..n : /\ SteppedDown(formats, i) \in {0} \cup fits(i)
                        /\ \A f \in fits(i) : f <= SteppedDown(formats, i)
    <3> SUFFICES ASSUME NEW i \in 1..n
                 PROVE  /\ SteppedDown(formats, i) \in {0} \cup fits(i)
                        /\ \A f \in fits(i) : f <= SteppedDown(formats, i)
      OBVIOUS
    <3> DEFINE F == {0} \cup fits(i)
    <3>1. F \in SUBSET Nat /\ F # {} /\ \A f \in F : f <= formats[i]
      BY <2>3
    <3> HIDE DEF fits
    <3>2. Max(F) \in F /\ \A f \in F : f <= Max(F)
      <4> HIDE DEF F
      <4> QED BY <3>1, <2>3, MaxOfNaturals
    <3> QED BY <3>2, <2>1
  <2>5. \A i \in 1..n : SteppedDown(formats, i) \in 0..formats[i]
    <3> SUFFICES ASSUME NEW i \in 1..n
                 PROVE  SteppedDown(formats, i) \in 0..formats[i]
      OBVIOUS
    <3>1. formats[i] \in Nat /\ fits(i) \subseteq 0..formats[i]
      BY <2>3
    <3> HIDE DEF fits, n
    <3> QED BY <3>1, <2>4
  <2>6. \A i \in 1..n, f \in Nat :
          /\ lowered(i, f) \in Seq(Nat) /\ Len(lowered(i, f)) = n
          /\ \A j \in 1..n : lowered(i, f)[j] = IF j < i THEN formats[j]
                                                ELSE IF j = i THEN f ELSE 0
    <3> SUFFICES ASSUME NEW i \in 1..n, NEW f \in Nat
                 PROVE  /\ lowered(i, f) \in Seq(Nat) /\ Len(lowered(i, f)) = n
                        /\ \A j \in 1..n : lowered(i, f)[j] =
                             IF j < i THEN formats[j] ELSE IF j = i THEN f ELSE 0
      OBVIOUS
    <3>1. DOMAIN formats = 1..n /\ n \in Nat
      OBVIOUS
    <3> HIDE DEF n
    <3>2. lowered(i, f) \in [1..n -> Nat]
      BY <3>1, <2>3
    <3> QED BY <3>1, <3>2
  <2>7. 1 \in G
    <3>1. /\ lowered(1, 0) \in Seq(Nat) /\ Len(lowered(1, 0)) = n
          /\ \A j \in 1..n : lowered(1, 0)[j] = 0
      BY <2>6
    <3> HIDE DEF lowered
    <3>2. Total(Spans(lowered(1, 0))) = n
      <4>1. \A j \in 1..n : Spans(lowered(1, 0))[j] = 1
        BY <3>1, SpansType DEF Span
      <4> QED BY <3>1, <4>1, SpansType, RowsOfMono
    <3> QED BY <3>2
  <2>8. PICK k \in G : \A i \in G : i <= k
    <3>1. G \in SUBSET Nat /\ G # {} /\ n \in Nat /\ \A i \in G : i <= n
      BY <2>7
    <3> HIDE DEF G, n
    <3> QED BY <3>1, MaxOfNaturals
  <2> HIDE DEF lowered, clamped
  <2>9. \A i \in 1..n : i < k => SteppedDown(formats, i) = formats[i]
    <3> SUFFICES ASSUME NEW i \in 1..n, i < k
                 PROVE  SteppedDown(formats, i) = formats[i]
      OBVIOUS
    <3>1. \A j \in 1..n : lowered(i, formats[i])[j] <= lowered(k, 0)[j]
      <4> SUFFICES ASSUME NEW j \in 1..n
                   PROVE  lowered(i, formats[i])[j] <= lowered(k, 0)[j]
        OBVIOUS
      <4>1. formats[i] \in Nat /\ formats[j] \in Nat /\ 0 \in Nat /\ k \in 1..n
        BY <2>3
      <4>2. \A f \in Nat : lowered(i, f)[j] = IF j < i THEN formats[j]
                                             ELSE IF j = i THEN f ELSE 0
        BY ZenonT(40), <2>6
      <4>3. lowered(k, 0)[j] = IF j < k THEN formats[j] ELSE 0
        BY <4>1, <2>6
      <4> QED BY <4>1, <4>2, <4>3
    <3>2. Total(Spans(lowered(i, formats[i]))) <= Total(Spans(lowered(k, 0)))
      BY <3>1, <2>3, <2>6, TotalPointwise
    <3>3. /\ Total(Spans(lowered(i, formats[i]))) \in Nat
          /\ Total(Spans(lowered(k, 0))) \in Nat
      BY <2>3, <2>6, SpansType, RowsSum
    <3>4. formats[i] \in fits(i)
      BY <3>2, <3>3, <2>3, <1>0
    <3> QED BY <3>4, <2>3, <2>4, <2>5
  <2>10. \A i \in 1..n : i > k => SteppedDown(formats, i) = 0
    <3> SUFFICES ASSUME NEW i \in 1..n, i > k, NEW f \in fits(i) PROVE FALSE
      BY <2>4
    <3>1. f \in Nat /\ k + 1 \in 1..n
      BY <2>3
    <3>2. \A j \in 1..n : lowered(k + 1, 0)[j] <= lowered(i, f)[j]
      <4> SUFFICES ASSUME NEW j \in 1..n
                   PROVE  lowered(k + 1, 0)[j] <= lowered(i, f)[j]
        OBVIOUS
      <4>1. formats[j] \in Nat /\ 0 \in Nat
        BY <2>3
      <4>2. /\ lowered(k + 1, 0)[j] = IF j < k + 1 THEN formats[j] ELSE 0
            /\ lowered(i, f)[j] = IF j < i THEN formats[j]
                                  ELSE IF j = i THEN f ELSE 0
        BY ZenonT(40), <3>1, <4>1, <2>6
      <4> QED BY <3>1, <4>1, <4>2
    <3>3. Total(Spans(lowered(k + 1, 0))) <= Total(Spans(lowered(i, f)))
      BY <3>1, <3>2, <2>6, TotalPointwise
    <3>4. /\ Total(Spans(lowered(k + 1, 0))) \in Nat
          /\ Total(Spans(lowered(i, f))) \in Nat
      BY <3>1, <2>6, SpansType, RowsSum
    <3>5. k + 1 \in G
      BY <3>1, <3>3, <3>4, <1>0
    <3> QED BY <3>5, <2>8
  <2>11. Total(Spans(lowered(k, SteppedDown(formats, k)))) <= MaxStem
    BY <2>4
  <2>12. clamped = lowered(k, SteppedDown(formats, k))
    BY <2>2, <2>9, <2>10 DEF lowered
  <2>13. clamped \in Seq(Nat) /\ Len(clamped) = n
    <3>1. SteppedDown(formats, k) \in Nat
      BY <2>3, <2>5
    <3> QED BY <3>1, <2>12, <2>6
  <2>14. \A i \in 1..n : clamped[i] <= formats[i]
    BY <2>2, <2>3, <2>5
  <2>15. \A f \in (clamped[k] + 1)..formats[k] :
           Total(Spans([clamped EXCEPT ![k] = f])) > MaxStem
    <3> SUFFICES ASSUME NEW f \in (clamped[k] + 1)..formats[k]
                 PROVE  Total(Spans([clamped EXCEPT ![k] = f])) > MaxStem
      OBVIOUS
    <3>1. /\ k \in 1..n /\ formats[k] \in Nat /\ clamped[k] \in 0..formats[k]
          /\ clamped[k] = SteppedDown(formats, k)
      BY <2>2, <2>3, <2>5
    <3>2. f \in Nat /\ f \in 0..formats[k] /\ f > clamped[k]
      BY <3>1
    <3>3. [clamped EXCEPT ![k] = f] = lowered(k, f)
      <4> DEFINE raised == [clamped EXCEPT ![k] = f]
                 S == SteppedDown(formats, k)
      <4>1. DOMAIN formats = 1..n
        OBVIOUS
      <4> HIDE DEF n, S
      <4>2. clamped = [j \in 1..n |-> IF j < k THEN formats[j]
                                      ELSE IF j = k THEN S ELSE 0]
        BY <4>1, <2>12 DEF lowered, S
      <4>3. lowered(k, f) = [j \in 1..n |-> IF j < k THEN formats[j]
                                            ELSE IF j = k THEN f ELSE 0]
        BY <4>1 DEF lowered
      <4>4. raised = [j \in 1..n |-> IF j = k THEN f ELSE clamped[j]]
        BY <4>2
      <4>5. \A j \in 1..n : raised[j] = lowered(k, f)[j]
        BY <3>1, <4>2, <4>3, <4>4
      <4> HIDE DEF raised
      <4>6. raised = lowered(k, f)
        BY <4>3, <4>4, <4>5
      <4> QED BY <4>6 DEF raised
    <3>4. Total(Spans(lowered(k, f))) \in Nat
      BY <3>1, <3>2, <2>6, SpansType, RowsSum
    <3>5. f \notin fits(k)
      BY <3>1, <3>2, <2>4
    <3>6. Total(Spans(lowered(k, f))) > MaxStem
      BY <1>0, <3>2, <3>4, <3>5
    <3> QED BY <3>3, <3>6
  <2>16. /\ \A i \in 1..n : i < k => clamped[i] = formats[i]
         /\ \A i \in 1..n : i > k => clamped[i] = 0
    BY <2>2, <2>9, <2>10
  <2>17. k \in 1..n
    OBVIOUS
  <2> QED BY <2>11, <2>12, <2>13, <2>14, <2>15, <2>16, <2>17 DEF clamped
<1> QED BY <1>1, <1>2

-----------------------------------------------------------------------------
(* Patch rows. *)

\* Rows while they are reconciled: new ones are not patched yet.
Drafts == Columns \cup {NewRow}

\* A hardware channel serves at most one row.
Unshared(rows) ==
  \A j, k \in DOMAIN rows :
    rows[j] = rows[k] /\ j # k => rows[j] \in {Unpatched, NewRow}

\* The span cache, or one row per input: rows are accounted for either way.
LEMMA OldSpansFit ==
  ASSUME NEW T, NEW rows \in Seq(T), NEW last \in Seq(Nat)
  PROVE  /\ OldSpans(rows, last) \in Seq(Nat)
         /\ Total(OldSpans(rows, last)) = Len(rows)
<1>1. CASE Total(last) = Len(rows)
  BY <1>1 DEF OldSpans
<1>2. CASE Total(last) # Len(rows)
  <2> DEFINE ones == [i \in 1..Len(rows) |-> 1]
  <2>1. OldSpans(rows, last) = ones
    BY <1>2 DEF OldSpans
  <2>2. /\ ones \in Seq(Nat) /\ Len(ones) = Len(rows)
        /\ \A j \in 1..Len(ones) : ones[j] = 1
    OBVIOUS
  <2> HIDE DEF ones
  <2> QED BY <2>1, <2>2, RowsOfMono
<1> QED BY <1>1, <1>2

\* What a remapped row is: the row its input had there, if it had one.
THEOREM RemapBlocks ==
  ASSUME NEW rows \in Seq(Columns), NEW last \in Seq(Nat),
         NEW spans \in Seq(Nat), Len(spans) > 0
  PROVE  LET old == OldSpans(rows, last)
             remapped == RemapRows(rows, last, spans)
         IN  /\ remapped \in Seq(Drafts)
             /\ Len(remapped) = Total(spans)
             /\ \A i \in 1..Len(spans) : \A r \in 1..spans[i] :
                  remapped[Rows(spans, i - 1) + r] =
                    IF i <= Len(old) /\ r <= old[i]
                    THEN rows[Rows(old, i - 1) + r] ELSE NewRow
<1> DEFINE old == OldSpans(rows, last)
           n == Len(spans)
           oldSpan(i) == IF i <= Len(old) THEN old[i] ELSE 0
           row(i, r) == IF r <= oldSpan(i) THEN rows[Rows(old, i - 1) + r]
                        ELSE NewRow
           block(i) == [r \in 1..spans[i] |-> row(i, r)]
           blocks == [i \in 1..n |-> block(i)]
<1>1. RemapRows(rows, last, spans) = FlattenSeq(blocks)
  <2>1. RemapRows(rows, last, spans) = FlattenSeq([i \in DOMAIN spans |-> block(i)])
    BY DEF RemapRows
  <2>2. DOMAIN spans = 1..n
    OBVIOUS
  <2> QED BY <2>1, <2>2
<1>2. old \in Seq(Nat) /\ Total(old) = Len(rows)
  BY OldSpansFit
<1> HIDE DEF old
<1>3. \A i \in 1..n : spans[i] \in Nat
  OBVIOUS
<1>4. \A i \in 1..n : \A r \in 1..spans[i] : row(i, r) \in Drafts
  <2> SUFFICES ASSUME NEW i \in 1..n, NEW r \in 1..spans[i], r <= oldSpan(i)
               PROVE  row(i, r) \in Drafts
    BY DEF Drafts
  <2>1. i \in 1..Len(old) /\ r \in 1..old[i]
    BY <1>2, <1>3
  <2>2. Rows(old, i - 1) + r \in 1..Len(rows)
    BY <2>1, <1>2, RowsInside
  <2>3. rows[Rows(old, i - 1) + r] \in Columns
    BY <2>2
  <2> QED BY <2>3 DEF Drafts
<1>5. \A i \in 1..n : block(i) \in Seq(Drafts) /\ Len(block(i)) = spans[i]
  <2> HIDE DEF row
  <2> SUFFICES ASSUME NEW i \in 1..n
               PROVE  block(i) \in Seq(Drafts) /\ Len(block(i)) = spans[i]
    OBVIOUS
  <2>1. block(i) \in [1..spans[i] -> Drafts]
    BY <1>4
  <2>2. spans[i] \in Nat
    BY <1>3
  <2> HIDE DEF block
  <2> QED BY <2>1, <2>2, FunctionIsSeq
<1>6. /\ blocks \in Seq(Seq(Drafts)) /\ Len(blocks) = n /\ Len(blocks) > 0
      /\ \A i \in 1..Len(blocks) : spans[i] = Len(blocks[i])
  <2> HIDE DEF block
  <2> QED BY <1>5
<1>7. /\ FlattenSeq(blocks) \in Seq(Drafts)
      /\ Len(FlattenSeq(blocks)) = Total(spans)
      /\ \A i \in 1..n : \A r \in 1..spans[i] :
           FlattenSeq(blocks)[Rows(spans, i - 1) + r] = blocks[i][r]
  <2> HIDE DEF blocks
  <2>1. /\ FlattenSeq(blocks) \in Seq(Drafts)
        /\ Len(FlattenSeq(blocks)) = Total(spans)
        /\ \A i \in 1..Len(blocks) : \A r \in 1..spans[i] :
             FlattenSeq(blocks)[Rows(spans, i - 1) + r] = blocks[i][r]
    BY <1>6, FlattenBlocks, Zenon
  <2> QED BY <1>6, <2>1
<1>8. ASSUME NEW i \in 1..n, NEW r \in 1..spans[i]
      PROVE  blocks[i][r] = IF i <= Len(old) /\ r <= old[i]
                            THEN rows[Rows(old, i - 1) + r] ELSE NewRow
  BY <1>2, <1>3
<1> DEFINE remapped == RemapRows(rows, last, spans)
<1>9. \A i \in 1..n : \A r \in 1..spans[i] :
        remapped[Rows(spans, i - 1) + r] =
          IF i <= Len(old) /\ r <= old[i]
          THEN rows[Rows(old, i - 1) + r] ELSE NewRow
  <2> HIDE DEF blocks
  <2> QED BY <1>1, <1>7, <1>8
<1>10. remapped \in Seq(Drafts) /\ Len(remapped) = Total(spans)
  BY <1>1, <1>7
<1> HIDE DEF remapped
<1> QED BY <1>9, <1>10 DEF old, remapped

\* Remapping moves rows: two of the new rows never come from one old row.
LEMMA RemapUnshared ==
  ASSUME NEW rows \in Seq(Columns), NEW last \in Seq(Nat),
         NEW spans \in Seq(Nat), Len(spans) > 0, Unshared(rows)
  PROVE  Unshared(RemapRows(rows, last, spans))
<1> DEFINE old == OldSpans(rows, last)
           q == RemapRows(rows, last, spans)
<1>1. old \in Seq(Nat) /\ Total(old) = Len(rows)
  BY OldSpansFit
<1>2. /\ q \in Seq(Drafts)
      /\ Len(q) = Total(spans)
      /\ \A i \in 1..Len(spans) : \A r \in 1..spans[i] :
           q[Rows(spans, i - 1) + r] =
             IF i <= Len(old) /\ r <= old[i]
             THEN rows[Rows(old, i - 1) + r] ELSE NewRow
  BY RemapBlocks
<1> HIDE DEF old, q
<1> SUFFICES ASSUME NEW a \in DOMAIN q, NEW b \in DOMAIN q,
                    q[a] = q[b], a # b, q[a] # NewRow
             PROVE  q[a] = Unpatched
  BY DEF Unshared, q
<1>3. a \in 1..Total(spans) /\ b \in 1..Total(spans)
  BY <1>2
<1>4. PICK i \in 1..Len(spans) : \E r \in 1..spans[i] : a = Rows(spans, i - 1) + r
  BY <1>3, RowsLocate
<1>5. PICK r \in 1..spans[i] : a = Rows(spans, i - 1) + r
  BY <1>4
<1>6. PICK j \in 1..Len(spans) : \E s \in 1..spans[j] : b = Rows(spans, j - 1) + s
  BY <1>3, RowsLocate
<1>7. PICK s \in 1..spans[j] : b = Rows(spans, j - 1) + s
  BY <1>6
<1> DEFINE p == Rows(old, i - 1) + r
           t == Rows(old, j - 1) + s
<1>8. /\ i \in 1..Len(old) /\ r \in 1..old[i] /\ q[a] = rows[p]
      /\ j \in 1..Len(old) /\ s \in 1..old[j] /\ q[b] = rows[t]
  <2>1. /\ q[a] = IF i <= Len(old) /\ r <= old[i] THEN rows[p] ELSE NewRow
        /\ q[b] = IF j <= Len(old) /\ s <= old[j] THEN rows[t] ELSE NewRow
    BY <1>2, <1>5, <1>7
  <2>2. /\ i <= Len(old) /\ r <= old[i] /\ q[a] = rows[p]
        /\ j <= Len(old) /\ s <= old[j] /\ q[b] = rows[t]
    <3> HIDE DEF p, t
    <3> QED BY <2>1
  <2>3. spans[i] \in Nat /\ spans[j] \in Nat
    BY SMTT(30)
  <2>4. i \in 1..Len(old) /\ j \in 1..Len(old)
    BY <1>1, <2>2
  <2>5. old[i] \in Nat /\ old[j] \in Nat
    BY <1>1, <2>4, ElementOfSeq
  <2>6. r \in 1..old[i] /\ s \in 1..old[j]
    <3>1. r <= old[i] /\ s <= old[j]
      BY <2>2
    <3> QED BY <3>1, <2>3, <2>5
  <2> HIDE DEF p, t
  <2> QED BY <2>2, <2>4, <2>6
<1>9. p \in 1..Len(rows) /\ t \in 1..Len(rows)
  BY <1>1, <1>8, RowsInside
<1>10. p # t
  <2>1. p = t => i = j /\ r = s
    BY <1>1, <1>8, RowsDisjoint
  <2> QED BY <2>1, <1>5, <1>7
<1> HIDE DEF p, t
<1>11. /\ rows[p] = rows[t] /\ rows[p] # NewRow
       /\ p \in DOMAIN rows /\ t \in DOMAIN rows
  <2>1. DOMAIN rows = 1..Len(rows)
    OBVIOUS
  <2> QED BY <1>8, <1>9, <2>1
<1>12. rows[p] \in {Unpatched, NewRow}
  BY <1>10, <1>11 DEF Unshared
<1> QED BY <1>8, <1>11, <1>12

\* fillNewRowsWithIdentity patches new rows only, and never over a channel in
\* use.
THEOREM FillRows ==
  ASSUME NEW rows \in Seq(Drafts), Unshared(rows)
  PROVE  /\ FillNewRows(rows) \in Seq(Columns)
         /\ Len(FillNewRows(rows)) = Len(rows)
         /\ \A r \in 1..Len(rows) :
              rows[r] # NewRow => FillNewRows(rows)[r] = rows[r]
         /\ Unshared(FillNewRows(rows))
<1> DEFINE n == Len(rows)
           filled == FillNewRows(rows)
           new(r) == IF r <= MaxHardware /\ ~Contains(rows, r) THEN r ELSE Unpatched
<1>1. filled = [r \in 1..n |-> IF rows[r] # NewRow THEN rows[r] ELSE new(r)]
  BY DEF FillNewRows
<1>2. \A r \in 1..n : rows[r] \in Drafts
  OBVIOUS
<1>3. \A r \in 1..n : new(r) \in Columns
  BY SizesAssumption DEF Columns, Unpatched
<1>4. \A r \in 1..n : filled[r] \in Columns
  <2> HIDE DEF new
  <2> QED BY <1>1, <1>2, <1>3 DEF Drafts
<1>5. filled \in Seq(Columns) /\ Len(filled) = n
  <2>1. n \in Nat /\ filled = [r \in 1..n |-> filled[r]]
    BY <1>1
  <2> HIDE DEF filled, n
  <2> QED BY <2>1, <1>4
<1>6. \A r \in 1..n : rows[r] # NewRow => filled[r] = rows[r]
  BY <1>1
<1>7. Unshared(filled)
  <2> SUFFICES ASSUME NEW a \in 1..n, NEW b \in 1..n,
                      filled[a] = filled[b], a # b, filled[a] # Unpatched
               PROVE  FALSE
    BY <1>5 DEF Unshared
  <2>1. \A r \in 1..n : rows[r] = NewRow /\ filled[r] # Unpatched =>
          filled[r] = r /\ \A k \in 1..n : rows[k] # r
    BY <1>1 DEF Contains
  <2>2. CASE rows[a] # NewRow /\ rows[b] # NewRow
    BY <2>2, <1>6 DEF Unshared
  <2>3. CASE rows[a] = NewRow /\ rows[b] = NewRow
    BY <2>1, <2>3
  <2>4. CASE rows[a] = NewRow /\ rows[b] # NewRow
    BY <2>1, <2>4, <1>6
  <2>5. CASE rows[a] # NewRow /\ rows[b] = NewRow
    BY <2>1, <2>5, <1>6
  <2> QED BY <2>2, <2>3, <2>4, <2>5
<1> QED BY <1>5, <1>6, <1>7

\* Rows without new ones are left alone.
LEMMA FillNothing ==
  ASSUME NEW rows \in Seq(Columns)
  PROVE  FillNewRows(rows) = rows
<1>1. \A r \in DOMAIN rows : rows[r] # NewRow
  <2>1. \A r \in DOMAIN rows : rows[r] \in Columns
    OBVIOUS
  <2> QED BY <2>1, SizesAssumption DEF Columns, NewRow
<1>2. FillNewRows(rows) = [r \in DOMAIN rows |-> rows[r]]
  BY <1>1 DEF FillNewRows
<1> QED BY <1>2

LEMMA ResizedRows ==
  ASSUME NEW rows \in Seq(Columns), NEW n \in Nat
  PROVE  /\ ResizeRows(rows, n) \in Seq(Drafts)
         /\ Len(ResizeRows(rows, n)) = n
         /\ \A r \in 1..n : r <= Len(rows) => ResizeRows(rows, n)[r] = rows[r]
         /\ Unshared(rows) => Unshared(ResizeRows(rows, n))
         /\ n = Len(rows) => ResizeRows(rows, n) = rows
<1> DEFINE q == ResizeRows(rows, n)
<1>1. q = [s \in 1..n |-> IF s <= Len(rows) THEN rows[s] ELSE NewRow]
  BY DEF ResizeRows
<1>2. \A s \in 1..n : s <= Len(rows) => s \in 1..Len(rows) /\ rows[s] \in Columns
  OBVIOUS
<1>3. q \in [1..n -> Drafts]
  BY <1>1, <1>2 DEF Drafts
<1>4. q \in Seq(Drafts) /\ Len(q) = n
  BY <1>3
<1>5. \A r \in 1..n : r <= Len(rows) => q[r] = rows[r]
  BY <1>1
<1>6. Unshared(rows) => Unshared(q)
  <2> HAVE Unshared(rows)
  <2> SUFFICES ASSUME NEW a \in 1..n, NEW b \in 1..n,
                      q[a] = q[b], a # b, q[a] # NewRow
               PROVE  q[a] \in {Unpatched, NewRow}
    BY <1>4 DEF Unshared
  <2>1. a <= Len(rows) /\ b <= Len(rows)
    BY <1>1
  <2>2. /\ a \in DOMAIN rows /\ b \in DOMAIN rows
        /\ q[a] = rows[a] /\ q[b] = rows[b]
    BY <2>1, <1>5
  <2> QED BY <2>2 DEF Unshared
<1>7. n = Len(rows) => q = rows
  BY <1>1
<1> QED BY <1>4, <1>5, <1>6, <1>7

\* With the same spans as last time, the rows stay where they are.
LEMMA RemapSame ==
  ASSUME NEW rows \in Seq(Columns), NEW spans \in Seq(Nat), Len(spans) > 0,
         Total(spans) = Len(rows)
  PROVE  RemapRows(rows, spans, spans) = rows
<1> DEFINE q == RemapRows(rows, spans, spans)
<1>1. OldSpans(rows, spans) = spans
  BY DEF OldSpans
<1>2. /\ q \in Seq(Drafts)
      /\ Len(q) = Total(spans)
      /\ \A i \in 1..Len(spans) : \A r \in 1..spans[i] :
           q[Rows(spans, i - 1) + r] =
             IF i <= Len(spans) /\ r <= spans[i]
             THEN rows[Rows(spans, i - 1) + r] ELSE NewRow
  BY ZenonT(40), <1>1, RemapBlocks
<1> HIDE DEF q
<1>3. \A i \in 1..Len(spans) : spans[i] \in Nat
  OBVIOUS
<1>4. ASSUME NEW k \in 1..Total(spans) PROVE q[k] = rows[k]
  <2>1. PICK i \in 1..Len(spans) : \E r \in 1..spans[i] : k = Rows(spans, i - 1) + r
    BY RowsLocate
  <2>2. PICK r \in 1..spans[i] : k = Rows(spans, i - 1) + r
    BY <2>1
  <2>3. i <= Len(spans) /\ r <= spans[i]
    BY <1>3
  <2> QED BY <1>2, <2>2, <2>3
<1>5. q \in Seq(Drafts) /\ rows \in Seq(Drafts) /\ Len(q) = Len(rows)
  BY <1>2 DEF Drafts
<1>6. q = rows
  BY <1>4, <1>5
<1> QED BY <1>6 DEF q

-----------------------------------------------------------------------------
(* Stores, and what every handler leaves of one. *)

Formats == {f \in Seq(0..MaxOrder) : Len(f) \in 1..MaxInputs}

Pairs == 0..(MaxHardware - 1)

Routings ==
  [spans : Seq(Nat), stem : Seq(Columns), output : Seq(Columns), pair : Pairs]

Stores ==
  [formats : Formats, speakers : 1..MaxSpeakers,
   inRows : Seq(Columns), outRows : Seq(Columns), pair : Pairs,
   lastSpans : Seq(Nat), routing : Routings]

\* A hardware channel serves at most one row of each patch, and the routing
\* sends the rows where they are patched to.  In the midst of a handler the
\* speakers may be more or fewer than their rows.
Sound(s) ==
  /\ s \in Stores
  /\ Unshared(s.inRows)
  /\ Unshared(s.outRows)
  /\ \A k \in DOMAIN s.routing.stem \cap DOMAIN s.inRows :
       s.routing.stem[k] = s.inRows[k]
  /\ Len(s.outRows) = s.speakers => s.routing.output = s.outRows

\* The rows are those of the spans remembered, within the ceiling, and of the
\* speakers: true between handlers, also when formats were undone.
Settled(s) ==
  /\ Total(s.lastSpans) <= MaxStem
  /\ Len(s.inRows) = Total(s.lastSpans)
  /\ Len(s.outRows) = s.speakers

LEMMA SizesAreNat ==
  /\ MaxHardware \in Nat /\ MaxStem \in Nat /\ MaxInputs \in Nat
  /\ MaxSpeakers \in Nat /\ MaxOrder \in Nat
  /\ 1 <= MaxInputs /\ MaxInputs <= MaxStem /\ MaxStem <= MaxHardware
  /\ 1 <= MaxSpeakers /\ MaxSpeakers <= MaxHardware
BY SizesAssumption

LEMMA FormatsAreNat ==
  ASSUME NEW formats \in Formats
  PROVE  /\ formats \in Seq(Nat)
         /\ Len(formats) \in 1..MaxStem
         /\ Len(formats) \in 1..MaxInputs
         /\ DOMAIN formats = 1..Len(formats)
<1>1. formats \in Seq(0..MaxOrder) /\ Len(formats) \in 1..MaxInputs
  BY DEF Formats
<1>2. 0..MaxOrder \subseteq Nat
  OBVIOUS
<1>3. formats \in Seq(Nat)
  BY <1>1, <1>2, SeqMonotonic
<1> QED BY <1>1, <1>3, SizesAreNat

\* clampStemSpans returns formats.
LEMMA ClampedFormats ==
  ASSUME NEW formats \in Formats
  PROVE  /\ ClampStemSpans(formats) \in Formats
         /\ Len(ClampStemSpans(formats)) = Len(formats)
         /\ Total(Spans(ClampStemSpans(formats))) <= MaxStem
<1> DEFINE c == ClampStemSpans(formats)
<1>1. /\ c \in Seq(Nat) /\ Len(c) = Len(formats)
      /\ \A i \in 1..Len(formats) : c[i] <= formats[i]
      /\ Total(Spans(c)) <= MaxStem
  BY FormatsAreNat, ClampFits
<1> HIDE DEF c
<1>2. formats \in Seq(0..MaxOrder) /\ Len(formats) \in 1..MaxInputs
  BY DEF Formats
<1>3. \A i \in 1..Len(c) : c[i] \in 0..MaxOrder
  <2> SUFFICES ASSUME NEW i \in 1..Len(c) PROVE c[i] \in 0..MaxOrder
    OBVIOUS
  <2>1. c[i] \in Nat /\ formats[i] \in 0..MaxOrder /\ c[i] <= formats[i]
    BY <1>1, <1>2, ElementOfSeq
  <2> QED BY <2>1, SizesAreNat
<1>4. c \in Seq(0..MaxOrder)
  <2>1. Len(c) \in Nat /\ c \in [1..Len(c) -> 0..MaxOrder]
    BY <1>1, <1>3
  <2> QED BY <2>1, FunctionIsSeq
<1> QED BY <1>1, <1>2, <1>4 DEF Formats, c

\* composePatchRouting of any store sends each row where it is patched to.
LEMMA ComposedRouting ==
  ASSUME NEW s \in Stores
  PROVE  LET now == ComposePatchRouting(s)
         IN  /\ now \in Routings
             /\ \A k \in DOMAIN now.stem \cap DOMAIN s.inRows :
                  now.stem[k] = s.inRows[k]
             /\ Len(s.outRows) = s.speakers => now.output = s.outRows
             /\ /\ Total(Spans(s.formats)) = Len(s.inRows)
                /\ Len(s.inRows) <= MaxStem
                => now.stem = s.inRows
<1> DEFINE spans == Spans(s.formats)
           stems == IF Total(spans) < MaxStem THEN Total(spans) ELSE MaxStem
           column(rows, k) == IF k <= Len(rows) THEN rows[k] ELSE k
           stem == [k \in 1..stems |-> column(s.inRows, k)]
           output == [k \in 1..s.speakers |-> column(s.outRows, k)]
           now == ComposePatchRouting(s)
<1>1. now = [spans |-> spans, stem |-> stem, output |-> output, pair |-> s.pair]
  <2>1. UsablePair(s.pair) = s.pair
    BY SizesAreNat DEF Stores, Pairs, UsablePair
  <2> QED BY <2>1 DEF ComposePatchRouting
<1>2. /\ s.formats \in Formats /\ s.inRows \in Seq(Columns)
      /\ s.outRows \in Seq(Columns) /\ s.pair \in Pairs
      /\ s.speakers \in 1..MaxSpeakers
  BY DEF Stores
<1>3. spans \in Seq(Nat) /\ Total(spans) \in Nat
  BY <1>2, FormatsAreNat, SpansType, RowsSum
<1>4. stems \in Nat /\ stems <= MaxHardware
      /\ s.speakers \in Nat /\ s.speakers <= MaxHardware
  BY <1>2, <1>3, SizesAreNat
<1>5. ASSUME NEW rows \in Seq(Columns), NEW n \in Nat, n <= MaxHardware,
             NEW k \in 1..n
      PROVE  column(rows, k) \in Columns
  <2>1. CASE k <= Len(rows)
    BY <2>1
  <2>2. CASE ~(k <= Len(rows))
    BY <2>2, <1>5, SizesAreNat DEF Columns
  <2> QED BY <2>1, <2>2
<1>6. /\ stem \in Seq(Columns) /\ Len(stem) = stems
      /\ output \in Seq(Columns) /\ Len(output) = s.speakers
  <2> HIDE DEF column, stems
  <2>1. stem \in [1..stems -> Columns] /\ output \in [1..s.speakers -> Columns]
    BY <1>2, <1>4, <1>5
  <2> HIDE DEF stem, output
  <2> QED BY <2>1, <1>4, FunctionIsSeq
<1>7. now \in Routings
  <2> HIDE DEF spans, stem, output
  <2> QED BY <1>1, <1>2, <1>3, <1>6 DEF Routings
<1>8. ASSUME NEW k \in DOMAIN now.stem \cap DOMAIN s.inRows
      PROVE  now.stem[k] = s.inRows[k]
  <2>1. k \in 1..stems /\ k \in 1..Len(s.inRows)
    BY <1>1, <1>2
  <2> HIDE DEF stems
  <2> QED BY <2>1, <1>1
<1>9. ASSUME Len(s.outRows) = s.speakers PROVE now.output = s.outRows
  <2>1. \A k \in 1..s.speakers : output[k] = s.outRows[k]
    BY <1>9
  <2> HIDE DEF output
  <2>2. output = s.outRows
    BY <2>1, <1>2, <1>6, <1>9, SeqEqual
  <2> QED BY <2>2, <1>1
<1>10. ASSUME Total(spans) = Len(s.inRows), Len(s.inRows) <= MaxStem
       PROVE  now.stem = s.inRows
  <2>1. stems = Len(s.inRows)
    BY <1>10, <1>3, SizesAreNat
  <2>2. \A k \in 1..stems : stem[k] = s.inRows[k]
    BY <2>1
  <2> HIDE DEF stem, stems
  <2>3. stem = s.inRows
    BY <2>1, <2>2, <1>2, <1>6, SeqEqual
  <2> QED BY <2>3, <1>1
<1> HIDE DEF now
<1> QED BY <1>7, <1>8, <1>9, <1>10 DEF now

-----------------------------------------------------------------------------
(* The handlers. *)

\* Writing rows republishes if it changes them, so the routing is theirs.
LEMMA WriteRowsSound ==
  ASSUME NEW s, Sound(s),
         NEW inRows \in Seq(Columns), NEW outRows \in Seq(Columns),
         Unshared(inRows), Unshared(outRows)
  PROVE  LET t == WriteRows(s, inRows, outRows)
         IN  /\ Sound(t)
             /\ t.formats = s.formats /\ t.speakers = s.speakers
             /\ t.pair = s.pair /\ t.lastSpans = s.lastSpans
             /\ t.inRows = inRows /\ t.outRows = outRows
<1> DEFINE written == [s EXCEPT !.inRows = inRows, !.outRows = outRows]
           routed == [written EXCEPT !.routing = ComposePatchRouting(written)]
           t == WriteRows(s, inRows, outRows)
<1>1. s \in Stores
  BY DEF Sound
<1>2. CASE s.inRows = inRows /\ s.outRows = outRows
  <2>1. t = s
    BY <1>2 DEF WriteRows
  <2> HIDE DEF t
  <2> QED BY <2>1, <1>2 DEF t
<1>3. CASE ~(s.inRows = inRows /\ s.outRows = outRows)
  <2>1. t = routed
    BY <1>3 DEF WriteRows
  <2>2. /\ written \in Stores
        /\ written.formats = s.formats /\ written.speakers = s.speakers
        /\ written.pair = s.pair /\ written.lastSpans = s.lastSpans
        /\ written.inRows = inRows /\ written.outRows = outRows
    BY <1>1 DEF Stores
  <2> DEFINE now == ComposePatchRouting(written)
  <2> HIDE DEF written
  <2>3. /\ now \in Routings
        /\ \A k \in DOMAIN now.stem \cap DOMAIN inRows : now.stem[k] = inRows[k]
        /\ Len(outRows) = s.speakers => now.output = outRows
    BY <2>2, ComposedRouting
  <2> HIDE DEF now
  <2>4. /\ routed \in Stores
        /\ routed.formats = s.formats /\ routed.speakers = s.speakers
        /\ routed.pair = s.pair /\ routed.lastSpans = s.lastSpans
        /\ routed.inRows = inRows /\ routed.outRows = outRows
        /\ routed.routing = now
    BY <2>2, <2>3 DEF Stores, now
  <2> HIDE DEF routed, t
  <2>5. Sound(t)
    BY <2>1, <2>3, <2>4 DEF Sound
  <2> QED BY <2>1, <2>4, <2>5 DEF t
<1> QED BY <1>2, <1>3

\* Formats and lastSpans may be replaced, and as many speakers as there are
\* not yet rows for: none of it shows in rows or routing.
LEMMA WithFormatsSound ==
  ASSUME NEW s, Sound(s), NEW formats \in Formats
  PROVE  LET t == [s EXCEPT !.formats = formats]
         IN  /\ Sound(t)
             /\ t.formats = formats /\ t.speakers = s.speakers
             /\ t.inRows = s.inRows /\ t.outRows = s.outRows
             /\ t.pair = s.pair /\ t.lastSpans = s.lastSpans
             /\ t.routing = s.routing
<1> DEFINE t == [s EXCEPT !.formats = formats]
<1>1. /\ t \in Stores
      /\ t.formats = formats /\ t.speakers = s.speakers
      /\ t.inRows = s.inRows /\ t.outRows = s.outRows
      /\ t.pair = s.pair /\ t.lastSpans = s.lastSpans
      /\ t.routing = s.routing
  BY DEF Sound, Stores
<1> HIDE DEF t
<1>2. Sound(t)
  BY <1>1 DEF Sound
<1> QED BY <1>1, <1>2 DEF t

\* reconcileAudioPatch leaves a sound store settled, whatever its span cache.
THEOREM ReconcileSound ==
  ASSUME NEW s, Sound(s)
  PROVE  LET t == ReconcileAudioPatch(s)
         IN  /\ Sound(t) /\ Settled(t) /\ Reconciled(t)
             /\ t.speakers = s.speakers /\ t.pair = s.pair
             /\ t.formats = ClampStemSpans(s.formats)
             /\ Len(t.formats) = Len(s.formats)
             /\ t.inRows = FillNewRows(RemapRows(s.inRows, s.lastSpans, t.lastSpans))
             /\ t.outRows = FillNewRows(ResizeRows(s.outRows, s.speakers))
<1> DEFINE formats == ClampStemSpans(s.formats)
           spans == Spans(formats)
           clamped == [s EXCEPT !.formats = formats]
           inRows == FillNewRows(RemapRows(s.inRows, s.lastSpans, spans))
           outRows == FillNewRows(ResizeRows(s.outRows, s.speakers))
           w == WriteRows(clamped, inRows, outRows)
           t == ReconcileAudioPatch(s)
<1>1. t = [w EXCEPT !.lastSpans = spans]
  <2>1. clamped.inRows = s.inRows /\ clamped.outRows = s.outRows
    BY DEF Sound, Stores
  <2> QED BY <2>1 DEF ReconcileAudioPatch
<1>2. /\ s.formats \in Formats /\ s.inRows \in Seq(Columns)
      /\ s.outRows \in Seq(Columns) /\ s.lastSpans \in Seq(Nat)
      /\ s.speakers \in Nat /\ Unshared(s.inRows) /\ Unshared(s.outRows)
  BY SizesAreNat DEF Sound, Stores
<1>3. /\ formats \in Formats /\ Len(formats) = Len(s.formats)
      /\ Total(Spans(formats)) <= MaxStem
  BY <1>2, ClampedFormats
<1> HIDE DEF formats
<1>4. spans \in Seq(Nat) /\ Len(spans) > 0 /\ Total(spans) <= MaxStem
  BY <1>3, FormatsAreNat, SpansType
<1> HIDE DEF spans
<1>5. /\ inRows \in Seq(Columns) /\ Len(inRows) = Total(spans)
      /\ Unshared(inRows)
  <2> DEFINE q == RemapRows(s.inRows, s.lastSpans, spans)
  <2>1. q \in Seq(Drafts) /\ Len(q) = Total(spans) /\ Unshared(q)
    BY <1>2, <1>4, RemapBlocks, RemapUnshared
  <2> HIDE DEF q
  <2>2. /\ FillNewRows(q) \in Seq(Columns) /\ Len(FillNewRows(q)) = Len(q)
        /\ Unshared(FillNewRows(q))
    BY <2>1, FillRows
  <2> QED BY <2>1, <2>2 DEF q
<1>6. /\ outRows \in Seq(Columns) /\ Len(outRows) = s.speakers
      /\ Unshared(outRows)
  <2> DEFINE q == ResizeRows(s.outRows, s.speakers)
  <2>1. q \in Seq(Drafts) /\ Len(q) = s.speakers /\ Unshared(q)
    BY <1>2, ResizedRows
  <2> HIDE DEF q
  <2>2. /\ FillNewRows(q) \in Seq(Columns) /\ Len(FillNewRows(q)) = Len(q)
        /\ Unshared(FillNewRows(q))
    BY <2>1, FillRows
  <2> QED BY <2>1, <2>2 DEF q
<1>7. /\ Sound(clamped) /\ clamped.formats = formats
      /\ clamped.speakers = s.speakers /\ clamped.pair = s.pair
  BY <1>3, WithFormatsSound
<1> HIDE DEF clamped, inRows, outRows
<1>8. /\ Sound(w) /\ w.formats = formats
      /\ w.speakers = s.speakers /\ w.pair = s.pair
      /\ w.inRows = inRows /\ w.outRows = outRows
  BY <1>5, <1>6, <1>7, WriteRowsSound
<1> HIDE DEF w, t
<1>9. /\ t \in Stores
      /\ t.formats = formats /\ t.speakers = s.speakers /\ t.pair = s.pair
      /\ t.inRows = inRows /\ t.outRows = outRows
      /\ t.lastSpans = spans /\ t.routing = w.routing
  BY <1>1, <1>4, <1>8 DEF Sound, Stores
<1>10. Sound(t)
  BY <1>8, <1>9 DEF Sound
<1>11. Settled(t)
  BY <1>4, <1>5, <1>6, <1>9 DEF Settled
<1>12. Reconciled(t)
  BY <1>9 DEF Reconciled, spans
<1> QED BY <1>3, <1>9, <1>10, <1>11, <1>12 DEF t, formats, inRows, outRows

\* A store that is reconciled is left as it is, published routing included.
LEMMA ReconcileNothing ==
  ASSUME NEW s, Sound(s), Settled(s), Reconciled(s)
  PROVE  ReconcileAudioPatch(s) = s
<1> DEFINE formats == s.formats
           last == s.lastSpans
           inRows == s.inRows
           outRows == s.outRows
<1>1. /\ formats \in Formats /\ s \in Stores
      /\ inRows \in Seq(Columns) /\ outRows \in Seq(Columns)
      /\ s.speakers \in Nat /\ Len(outRows) = s.speakers
      /\ Spans(formats) = last /\ Total(last) = Len(inRows)
      /\ Total(last) <= MaxStem
  BY SizesAreNat DEF Sound, Settled, Reconciled, Stores
<1>2. ClampStemSpans(formats) = formats
  BY <1>1 DEF ClampStemSpans
<1>3. last \in Seq(Nat) /\ Len(last) > 0
  <2> HIDE DEF formats, last
  <2>1. formats \in Seq(Nat) /\ Len(formats) > 0
    BY <1>1, FormatsAreNat
  <2> QED BY <1>1, <2>1, SpansType
<1>4. FillNewRows(RemapRows(inRows, last, last)) = inRows
  <2> HIDE DEF inRows, last
  <2> QED BY <1>1, <1>3, RemapSame, FillNothing
<1>5. FillNewRows(ResizeRows(outRows, s.speakers)) = outRows
  <2> HIDE DEF outRows
  <2> QED BY <1>1, ResizedRows, FillNothing
<1>6. [s EXCEPT !.formats = formats] = s
  BY <1>1 DEF Stores
<1>7. WriteRows(s, inRows, outRows) = s
  BY DEF WriteRows
<1>8. [s EXCEPT !.lastSpans = last] = s
  BY <1>1 DEF Stores
<1> QED BY <1>1, <1>2, <1>4, <1>5, <1>6, <1>7, <1>8 DEF ReconcileAudioPatch

\* Every handler may reconcile, and handlers call one another: the second time
\* nothing moves and nothing is published.
THEOREM ReconcileTwice ==
  ASSUME NEW s, Sound(s)
  PROVE  ReconcileAudioPatch(ReconcileAudioPatch(s)) = ReconcileAudioPatch(s)
BY ReconcileSound, ReconcileNothing

LEMMA LimitBounds ==
  ASSUME NEW n \in Int, NEW lo \in Int, NEW hi \in Int, lo <= hi
  PROVE  Limit(n, lo, hi) \in lo..hi /\ (n \in lo..hi => Limit(n, lo, hi) = n)
BY DEF Limit

\* A write of inputFormat.
LEMMA WithFormatSound ==
  ASSUME NEW s, Sound(s), NEW i \in DOMAIN s.formats, NEW f \in 0..MaxOrder
  PROVE  LET t == WithFormat(s, i, f)
         IN  /\ Sound(t) /\ Settled(t) /\ Reconciled(t)
             /\ Len(t.formats) = Len(s.formats)
             /\ t.speakers = s.speakers
             /\ t.inRows = FillNewRows(RemapRows(s.inRows, s.lastSpans, t.lastSpans))
<1> DEFINE formats == [s.formats EXCEPT ![i] = f]
           w == [s EXCEPT !.formats = formats]
<1>1. s.formats \in Formats
  BY DEF Sound, Stores
<1>2. formats \in Formats /\ Len(formats) = Len(s.formats)
  BY <1>1 DEF Formats
<1> HIDE DEF formats
<1>3. /\ Sound(w) /\ w.formats = formats /\ w.inRows = s.inRows
      /\ w.lastSpans = s.lastSpans /\ w.speakers = s.speakers
  BY <1>2, WithFormatsSound
<1>4. WithFormat(s, i, f) = ReconcileAudioPatch(w)
  BY DEF WithFormat, formats
<1> HIDE DEF w
<1> QED BY <1>2, <1>3, <1>4, ReconcileSound

\* applyChannelCount of the inputs, by any count asked for.
LEMMA ApplyInputCountSound ==
  ASSUME NEW s, Sound(s), NEW count \in Int
  PROVE  LET t == ApplyInputCount(s, count)
         IN  /\ Sound(t) /\ Settled(t) /\ Reconciled(t)
             /\ Len(t.formats) = Limit(count, 1, MaxInputs)
             /\ t.speakers = s.speakers
             /\ t.inRows = FillNewRows(RemapRows(s.inRows, s.lastSpans, t.lastSpans))
<1> DEFINE n == Limit(count, 1, MaxInputs)
           formats == [i \in 1..n |-> IF i <= Len(s.formats)
                                      THEN s.formats[i] ELSE 0]
           w == [s EXCEPT !.formats = formats]
<1>1. s.formats \in Seq(0..MaxOrder)
  BY DEF Sound, Stores, Formats
<1>2. n \in 1..MaxInputs
  BY LimitBounds, SizesAreNat
<1> HIDE DEF n
<1>3. formats \in Formats /\ Len(formats) = n
  <2>1. formats \in [1..n -> 0..MaxOrder]
    <3> SUFFICES ASSUME NEW i \in 1..n, i <= Len(s.formats)
                 PROVE  s.formats[i] \in 0..MaxOrder
      BY SizesAreNat
    <3>1. i \in 1..Len(s.formats)
      BY <1>1, <1>2
    <3> QED BY <1>1, <3>1, ElementOfSeq
  <2>2. n \in Nat
    BY <1>2
  <2> HIDE DEF formats
  <2>3. formats \in Seq(0..MaxOrder) /\ Len(formats) = n
    BY <2>1, <2>2, FunctionIsSeq
  <2> QED BY <2>3, <1>2 DEF Formats
<1>4. ApplyInputCount(s, count) = ReconcileAudioPatch(w)
  BY DEF ApplyInputCount, n
<1> HIDE DEF formats
<1>5. /\ Sound(w) /\ w.formats = formats /\ w.inRows = s.inRows
      /\ w.lastSpans = s.lastSpans /\ w.speakers = s.speakers
  BY <1>3, WithFormatsSound
<1> HIDE DEF w
<1> QED BY <1>3, <1>4, <1>5, ReconcileSound DEF n

LEMMA ApplySpeakerCountSound ==
  ASSUME NEW s, Sound(s), Settled(s), NEW count \in Int
  PROVE  LET t == ApplySpeakerCount(s, count)
         IN  /\ Sound(t) /\ Settled(t) /\ Reconciled(t)
             /\ t.formats = ClampStemSpans(s.formats)
             /\ Len(t.formats) = Len(s.formats)
             /\ t.speakers = Limit(count, 1, MaxSpeakers)
             /\ t.pair = s.pair
<1> DEFINE n == Limit(count, 1, MaxSpeakers)
           w == [s EXCEPT !.speakers = n]
<1>1. n \in 1..MaxSpeakers
  BY LimitBounds, SizesAreNat
<1>2. ApplySpeakerCount(s, count) = ReconcileAudioPatch(w)
  BY DEF ApplySpeakerCount
<1> HIDE DEF n
<1>3. /\ w \in Stores /\ w.speakers = n
      /\ w.formats = s.formats /\ w.inRows = s.inRows /\ w.outRows = s.outRows
      /\ w.pair = s.pair /\ w.routing = s.routing
  BY <1>1 DEF Sound, Stores
<1> HIDE DEF w
<1>4. Sound(w)
  BY <1>3 DEF Sound, Settled
<1> QED BY <1>2, <1>3, <1>4, ReconcileSound DEF n

\* An edit of one row keeps the rows one to one.
LEMMA PatchedRows ==
  ASSUME NEW rows \in Seq(Columns), Unshared(rows),
         NEW row \in DOMAIN rows, NEW column \in Columns,
         column = Unpatched \/ ~Contains(rows, column)
  PROVE  LET patched == [rows EXCEPT ![row] = column]
         IN  /\ patched \in Seq(Columns)
             /\ Len(patched) = Len(rows)
             /\ Unshared(patched)
<1> DEFINE patched == [rows EXCEPT ![row] = column]
<1>1. patched \in Seq(Columns) /\ Len(patched) = Len(rows)
  OBVIOUS
<1>2. \A k \in DOMAIN rows : patched[k] = IF k = row THEN column ELSE rows[k]
  OBVIOUS
<1>3. DOMAIN patched = DOMAIN rows
  OBVIOUS
<1>4. column # Unpatched => \A k \in DOMAIN rows : rows[k] # column
  BY DEF Contains
<1> HIDE DEF patched
<1>5. Unshared(patched)
  BY <1>2, <1>3, <1>4 DEF Unshared
<1> QED BY <1>1, <1>5 DEF patched

\* Patching by hand: the matrix refuses a column in use.
LEMMA WithInputPatchSound ==
  ASSUME NEW s, Sound(s), Settled(s),
         NEW row \in DOMAIN s.inRows, NEW column \in Columns,
         MayPatchInput(s, row, column)
  PROVE  LET t == WithInputPatch(s, row, column)
         IN  /\ Sound(t) /\ Settled(t)
             /\ t.formats = s.formats /\ t.speakers = s.speakers
             /\ t.pair = s.pair /\ t.lastSpans = s.lastSpans
<1> DEFINE rows == [s.inRows EXCEPT ![row] = column]
           others == s.outRows
           t == WriteRows(s, rows, others)
<1>1. /\ s.inRows \in Seq(Columns) /\ Unshared(s.inRows)
      /\ s.outRows \in Seq(Columns) /\ Unshared(s.outRows)
  BY DEF Sound, Stores
<1>2. column = Unpatched \/ ~Contains(s.inRows, column)
  BY DEF MayPatchInput
<1>3. rows \in Seq(Columns) /\ Len(rows) = Len(s.inRows) /\ Unshared(rows)
  BY <1>1, <1>2, PatchedRows
<1>4. WithInputPatch(s, row, column) = t
  BY DEF WithInputPatch
<1>5. others \in Seq(Columns) /\ Unshared(others)
  BY <1>1
<1> HIDE DEF rows, others
<1>6. /\ Sound(t) /\ t.formats = s.formats /\ t.speakers = s.speakers
      /\ t.pair = s.pair /\ t.lastSpans = s.lastSpans
      /\ t.inRows = rows /\ t.outRows = others
  BY <1>3, <1>5, WriteRowsSound
<1> HIDE DEF t
<1>7. Settled(t)
  BY <1>3, <1>6 DEF Settled, others
<1> QED BY <1>4, <1>6, <1>7

LEMMA WithOutputPatchSound ==
  ASSUME NEW s, Sound(s), Settled(s),
         NEW row \in DOMAIN s.outRows, NEW column \in Columns,
         MayPatchOutput(s, row, column)
  PROVE  LET t == WithOutputPatch(s, row, column)
         IN  /\ Sound(t) /\ Settled(t)
             /\ t.formats = s.formats /\ t.speakers = s.speakers
             /\ t.pair = s.pair /\ t.lastSpans = s.lastSpans
<1> DEFINE rows == [s.outRows EXCEPT ![row] = column]
           others == s.inRows
           t == WriteRows(s, others, rows)
<1>1. /\ s.inRows \in Seq(Columns) /\ Unshared(s.inRows)
      /\ s.outRows \in Seq(Columns) /\ Unshared(s.outRows)
  BY DEF Sound, Stores
<1>2. column = Unpatched \/ ~Contains(s.outRows, column)
  BY DEF MayPatchOutput
<1>3. rows \in Seq(Columns) /\ Len(rows) = Len(s.outRows) /\ Unshared(rows)
  BY <1>1, <1>2, PatchedRows
<1>4. WithOutputPatch(s, row, column) = t
  BY DEF WithOutputPatch
<1>5. others \in Seq(Columns) /\ Unshared(others)
  BY <1>1
<1> HIDE DEF rows, others
<1>6. /\ Sound(t) /\ t.formats = s.formats /\ t.speakers = s.speakers
      /\ t.pair = s.pair /\ t.lastSpans = s.lastSpans
      /\ t.inRows = others /\ t.outRows = rows
  BY <1>3, <1>5, WriteRowsSound
<1> HIDE DEF t
<1>7. Settled(t)
  BY <1>3, <1>6 DEF Settled, others
<1> QED BY <1>4, <1>6, <1>7

\* A write of binauralOutputChannel.
LEMMA WithPairSound ==
  ASSUME NEW s, Sound(s), NEW first \in Pairs
  PROVE  LET t == WithPair(s, first)
         IN  /\ Sound(t)
             /\ Settled(s) => Settled(t)
             /\ t.formats = s.formats /\ t.speakers = s.speakers
             /\ t.inRows = s.inRows /\ t.outRows = s.outRows
             /\ t.lastSpans = s.lastSpans /\ t.pair = first
<1> DEFINE t == [s EXCEPT !.pair = first]
<1>1. /\ t \in Stores /\ t.pair = first
      /\ t.formats = s.formats /\ t.speakers = s.speakers
      /\ t.inRows = s.inRows /\ t.outRows = s.outRows
      /\ t.lastSpans = s.lastSpans /\ t.routing = s.routing
  BY DEF Sound, Stores
<1> HIDE DEF t
<1>2. Sound(t) /\ (Settled(s) => Settled(t))
  BY <1>1 DEF Sound, Settled
<1> QED BY <1>1, <1>2 DEF t, WithPair

\* The constructor.
LEMMA DefaultStoreSound ==
  /\ Sound(DefaultStore) /\ Settled(DefaultStore) /\ Reconciled(DefaultStore)
  /\ DefaultStore.formats = [i \in 1..DefaultInputs |-> 0]
  /\ DefaultStore.speakers = DefaultSpeakers
  /\ DefaultStore.pair = NoPair
  /\ DefaultStore.routing.stem = DefaultStore.inRows
  /\ DefaultStore.routing.output = DefaultStore.outRows
<1> DEFINE formats == [i \in 1..DefaultInputs |-> 0]
           identity(n) == [k \in 1..n |-> k]
           empty == [spans |-> <<>>, stem |-> <<>>, output |-> <<>>, pair |-> 0]
           s == [formats |-> formats, speakers |-> DefaultSpeakers,
                 inRows |-> identity(DefaultInputs),
                 outRows |-> identity(DefaultSpeakers),
                 pair |-> NoPair, lastSpans |-> Spans(formats),
                 routing |-> empty]
           t == DefaultStore
<1>1. /\ DefaultInputs \in 1..MaxInputs /\ DefaultSpeakers \in 1..MaxSpeakers
      /\ DefaultInputs \in Nat /\ DefaultSpeakers \in Nat
      /\ DefaultInputs <= MaxHardware /\ DefaultSpeakers <= MaxHardware
  BY SizesAssumption
<1>2. formats \in Formats /\ Len(formats) = DefaultInputs
  <2>1. formats \in [1..DefaultInputs -> 0..MaxOrder]
    BY SizesAreNat
  <2> HIDE DEF formats
  <2> QED BY <1>1, <2>1, FunctionIsSeq DEF Formats
<1>3. ASSUME NEW n \in Nat, n <= MaxHardware
      PROVE  /\ identity(n) \in Seq(Columns) /\ Len(identity(n)) = n
             /\ Unshared(identity(n))
  <2>1. identity(n) \in [1..n -> Columns]
    BY <1>3, SizesAreNat DEF Columns
  <2>2. Unshared(identity(n))
    BY DEF Unshared
  <2> QED BY <2>1, <2>2, FunctionIsSeq
<1>4. /\ Spans(formats) \in Seq(Nat) /\ Len(Spans(formats)) = DefaultInputs
      /\ Total(Spans(formats)) = DefaultInputs
  <2>1. /\ Spans(formats) \in Seq(Nat) /\ Len(Spans(formats)) = DefaultInputs
        /\ \A i \in 1..DefaultInputs : Spans(formats)[i] = Span(formats[i])
    BY <1>2, FormatsAreNat, SpansType
  <2>2. \A i \in 1..DefaultInputs : Spans(formats)[i] = 1
    BY <2>1 DEF Span
  <2> HIDE DEF formats
  <2> QED BY <2>1, <2>2, RowsOfMono
<1> HIDE DEF formats
<1>5. /\ identity(DefaultInputs) \in Seq(Columns)
      /\ identity(DefaultSpeakers) \in Seq(Columns)
      /\ Len(identity(DefaultInputs)) = DefaultInputs
      /\ Len(identity(DefaultSpeakers)) = DefaultSpeakers
      /\ Unshared(identity(DefaultInputs)) /\ Unshared(identity(DefaultSpeakers))
  BY <1>1, <1>3
<1> HIDE DEF identity
<1>6. NoPair \in Pairs
  BY SizesAreNat DEF NoPair, Pairs
<1>7. s \in Stores
  <2>1. empty \in Routings
    BY <1>6 DEF Routings, NoPair
  <2> HIDE DEF empty
  <2> QED BY <2>1, <1>1, <1>2, <1>4, <1>5, <1>6 DEF Stores
<1> DEFINE now == ComposePatchRouting(s)
<1>8. t = [s EXCEPT !.routing = now]
  <2> DEFINE blank == [formats |-> formats, speakers |-> DefaultSpeakers,
                       inRows |-> identity(DefaultInputs),
                       outRows |-> identity(DefaultSpeakers),
                       pair |-> NoPair, lastSpans |-> Spans(formats),
                       routing |-> <<>>]
  <2>1. t = [blank EXCEPT !.routing = ComposePatchRouting(blank)]
    BY DEF DefaultStore, formats, identity
  <2>2. ComposePatchRouting(blank) = now
    BY DEF ComposePatchRouting
  <2> HIDE DEF now, t
  <2> QED BY <2>1, <2>2
<1>9. /\ now \in Routings
      /\ now.stem = s.inRows /\ now.output = s.outRows
  <2>1. /\ s.formats = formats /\ s.inRows = identity(DefaultInputs)
        /\ s.outRows = identity(DefaultSpeakers) /\ s.speakers = DefaultSpeakers
    OBVIOUS
  <2>2. DefaultInputs <= MaxStem
    BY <1>1, SizesAreNat
  <2> HIDE DEF s
  <2> QED BY <2>1, <2>2, <1>4, <1>5, <1>7, ComposedRouting
<1> HIDE DEF now, t
<1>10. /\ t \in Stores /\ t.formats = formats /\ t.speakers = DefaultSpeakers
       /\ t.inRows = identity(DefaultInputs)
       /\ t.outRows = identity(DefaultSpeakers) /\ t.pair = NoPair
       /\ t.lastSpans = Spans(formats)
       /\ t.routing.stem = t.inRows /\ t.routing.output = t.outRows
  BY <1>7, <1>8, <1>9 DEF Stores
<1>11. Sound(t)
  BY <1>5, <1>10 DEF Sound
<1>12. Settled(t) /\ Reconciled(t)
  BY <1>1, <1>4, <1>5, <1>10, SizesAreNat DEF Settled, Reconciled
<1> QED BY <1>10, <1>11, <1>12 DEF t, formats
=============================================================================
