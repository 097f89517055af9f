---------------------------- MODULE SequenceLaws ----------------------------
(***************************************************************************)
(* What is proved of sequences, by induction: of one that is folded, for   *)
(* any step (a module that folds instantiates this one with its own), of   *)
(* one that is sorted or filtered as Arrays says, and of one made of       *)
(* others.                                                                 *)
(***************************************************************************)
EXTENDS Arrays, SequencesExt, FiniteSetTheorems, SequenceTheorems, WellFoundedInduction, TLAPS

CONSTANT Step(_, _)   \* what one element does

After(base, s) == FoldLeft(Step, base, s)

-----------------------------------------------------------------------------
\* The least of some numbers.
LEMMA Least ==
  ASSUME NEW S \in SUBSET Nat, S # {}
  PROVE  \E n \in S : \A m \in S : n <= m
<1> DEFINE R == {p \in Nat \X Nat : p[1] < p[2]}
<1>1. R = OpToRel(<, Nat)
  BY DEF OpToRel
<1>2. IsWellFoundedOn(R, Nat)
  BY <1>1, NatLessThanWellFounded
<1>3. PICK n \in S : \A m \in S : ~(<<m, n>> \in R)
  <2> HIDE DEF R
  <2> QED BY <1>2, WFMin
<1>4. \A m \in S : ~(m < n)
  BY <1>3
<1> QED BY <1>4

\* Induction: a set of numbers with 0 and each successor has them all.
LEMMA AllNumbers ==
  ASSUME NEW S \in SUBSET Nat, 0 \in S, \A n \in S : n + 1 \in S
  PROVE  S = Nat
<1> SUFFICES ASSUME Nat \ S # {} PROVE FALSE
  OBVIOUS
<1>1. PICK n \in Nat \ S : \A m \in Nat \ S : n <= m
  BY Least
<1>2. n # 0 /\ n - 1 \in Nat /\ n - 1 \in S
  BY <1>1
<1> QED BY <1>2

\* The greatest of some numbers.
LEMMA Greatest ==
  ASSUME NEW n \in Nat, NEW S \in SUBSET (1..n), S # {}
  PROVE  Max(S) \in S /\ \A m \in S : m <= Max(S)
<1> DEFINE Has == {k \in Nat : \A T \in SUBSET (1..k) : T # {} => \E x \in T : \A y \in T : x >= y}
<1>1. Has = Nat
  <2>1. 0 \in Has
    <3>1. \A T \in SUBSET (1..0) : T = {}
      OBVIOUS
    <3> QED BY <3>1
  <2>2. ASSUME NEW k \in Has
        PROVE  k + 1 \in Has
    <3> SUFFICES ASSUME NEW T \in SUBSET (1..(k + 1)), T # {}
                 PROVE  \E x \in T : \A y \in T : x >= y
      OBVIOUS
    <3>1. CASE k + 1 \in T
      <4>1. \A y \in T : k + 1 >= y
        OBVIOUS
      <4> QED BY <3>1, <4>1
    <3>2. CASE k + 1 \notin T
      <4>1. T \in SUBSET (1..k)
        BY <3>2
      <4> QED BY <4>1
    <3> QED BY <3>1, <3>2
  <2> HIDE DEF Has
  <2>3. Has \in SUBSET Nat
    BY DEF Has
  <2> QED BY <2>1, <2>2, <2>3, AllNumbers
<1>2. \E x \in S : \A y \in S : x >= y
  BY <1>1
<1> QED BY <1>2 DEF Max

LEMMA LastIsGreatest ==
  ASSUME NEW n \in Nat, NEW S \in SUBSET (1..(n + 1)), n + 1 \in S
  PROVE  Max(S) = n + 1
<1>1. n + 1 \in Nat /\ S # {}
  OBVIOUS
<1>2. Max(S) \in S /\ \A m \in S : m <= Max(S)
  BY <1>1, Greatest
<1>3. Max(S) \in 1..(n + 1) /\ n + 1 <= Max(S)
  BY <1>2
<1> QED BY <1>3

-----------------------------------------------------------------------------
(***************************************************************************)
(* The function behind a fold, on sets of positions.                       *)
(***************************************************************************)
Folds(g, base, s, n) ==
  g = [S \in SUBSET (1..n) |->
        IF S = {} THEN base ELSE Step(g[S \ {Max(S)}], s[Max(S)])]

\* There is one, for any number of elements.
LEMMA FoldExists ==
  ASSUME NEW base, NEW s, NEW n \in Nat
  PROVE  \E g : Folds(g, base, s, n)
<1> DEFINE Has == {k \in Nat : \E g : Folds(g, base, s, k)}
<1>1. 0 \in Has
  <2> DEFINE g == [S \in SUBSET (1..0) |-> base]
  <2>1. \A S \in SUBSET (1..0) : S = {}
    OBVIOUS
  <2>2. Folds(g, base, s, 0)
    BY <2>1 DEF Folds
  <2> QED BY <2>2
<1>2. ASSUME NEW k \in Has
      PROVE  k + 1 \in Has
  <2>1. PICK g : Folds(g, base, s, k)
    OBVIOUS
  <2>2. k \in Nat
    OBVIOUS
  <2> DEFINE h == [S \in SUBSET (1..(k + 1)) |->
                    IF k + 1 \in S THEN Step(g[S \ {k + 1}], s[k + 1]) ELSE g[S]]
             T(S) == IF S = {} THEN base ELSE Step(h[S \ {Max(S)}], s[Max(S)])
  <2>3. ASSUME NEW S \in SUBSET (1..(k + 1))
        PROVE  h[S] = T(S)
    <3>1. CASE k + 1 \in S
      <4>2. Max(S) = k + 1
        BY <2>2, <3>1, LastIsGreatest
      <4>3. S \ {k + 1} \in SUBSET (1..k) /\ k + 1 \notin S \ {k + 1}
        BY <2>2
      <4>4. h[S \ {k + 1}] = g[S \ {k + 1}]
        BY <2>2, <4>3
      <4>5. h[S] = Step(g[S \ {k + 1}], s[k + 1])
        BY <3>1
      <4> HIDE DEF h
      <4> QED BY <3>1, <4>2, <4>4, <4>5
    <3>2. CASE k + 1 \notin S
      <4>1. S \in SUBSET (1..k)
        BY <2>2, <3>2
      <4>2. h[S] = g[S]
        BY <3>2
      <4>3. g[S] = IF S = {} THEN base ELSE Step(g[S \ {Max(S)}], s[Max(S)])
        BY <2>1, <4>1 DEF Folds
      <4>4. S \ {Max(S)} \in SUBSET (1..(k + 1)) /\ k + 1 \notin S \ {Max(S)}
        BY <3>2
      <4>5. h[S \ {Max(S)}] = g[S \ {Max(S)}]
        BY <4>4
      <4> HIDE DEF h
      <4> QED BY <4>2, <4>3, <4>5
    <3> QED BY <3>1, <3>2
  <2>4. h = [S \in SUBSET (1..(k + 1)) |-> h[S]]
    OBVIOUS
  <2> HIDE DEF h
  <2>5. Folds(h, base, s, k + 1)
    BY <2>3, <2>4 DEF Folds
  <2> QED BY <2>2, <2>5
<1> HIDE DEF Has
<1>3. Has \in SUBSET Nat
  BY DEF Has
<1>4. Has = Nat
  BY <1>1, <1>2, <1>3, AllNumbers
<1> QED BY <1>4 DEF Has

\* A fold goes through the elements of its sequence, one step for each.
Through(g, base, s, n) ==
  g[1..0] = base /\ \A k \in Nat : k < n => g[1..(k + 1)] = Step(g[1..k], s[k + 1])

LEMMA FoldGoesOn ==
  ASSUME NEW base, NEW s, NEW n \in Nat, NEW g, Folds(g, base, s, n)
  PROVE  Through(g, base, s, n)
<1>1. g[1..0] = base
  <2>1. 1..0 = {} /\ {} \in SUBSET (1..n)
    OBVIOUS
  <2> QED BY <2>1 DEF Folds
<1>2. ASSUME NEW k \in Nat, k < n
      PROVE  g[1..(k + 1)] = Step(g[1..k], s[k + 1])
  <2>1. k \in Nat /\ 1..(k + 1) \in SUBSET (1..n) /\ 1..(k + 1) # {}
    BY <1>2
  <2>2. Max(1..(k + 1)) = k + 1 /\ (1..(k + 1)) \ {k + 1} = 1..k
    BY <2>1, LastIsGreatest
  <2>3. g[1..(k + 1)] = Step(g[(1..(k + 1)) \ {Max(1..(k + 1))}], s[Max(1..(k + 1))])
    BY <2>1 DEF Folds
  <2> QED BY <2>2, <2>3
<1> QED BY <1>1, <1>2 DEF Through

\* The fold of a sequence is the value of such a function on all its positions.
LEMMA FoldIs ==
  ASSUME NEW base, NEW s, NEW n \in Nat, DOMAIN s = 1..n
  PROVE  \E g : Through(g, base, s, n) /\ After(base, s) = g[1..n]
<1> DEFINE g == CHOOSE g : Folds(g, base, s, n)
<1>1. Folds(g, base, s, n)
  BY FoldExists
<1>2. After(base, s) = g[1..n]
  BY DEF After, FoldLeft, MapThenFoldSet, Folds
<1> HIDE DEF g
<1>3. Through(g, base, s, n)
  BY <1>1, FoldGoesOn
<1> QED BY <1>2, <1>3

-----------------------------------------------------------------------------
(***************************************************************************)
(* The laws.                                                               *)
(***************************************************************************)

\* Nothing is done for no elements.
LEMMA AfterNone ==
  ASSUME NEW base, NEW s, s = <<>>
  PROVE  After(base, s) = base
<1>1. DOMAIN s = 1..0
  OBVIOUS
<1>2. PICK g : Through(g, base, s, 0) /\ After(base, s) = g[1..0]
  BY <1>1, FoldIs
<1> QED BY <1>2 DEF Through

\* One more element is one more step.
LEMMA AfterOneMore ==
  ASSUME NEW base, NEW E, NEW s \in Seq(E), NEW e \in E
  PROVE  After(base, Append(s, e)) = Step(After(base, s), e)
<1> DEFINE n == Len(s)
           t == Append(s, e)
<1>1. n \in Nat /\ DOMAIN s = 1..n /\ n + 1 \in Nat /\ DOMAIN t = 1..(n + 1)
  OBVIOUS
<1>2. t[n + 1] = e /\ \A i \in 1..n : t[i] = s[i]
  OBVIOUS
<1> HIDE DEF n, t
<1>3. PICK g : Through(g, base, s, n) /\ After(base, s) = g[1..n]
  BY <1>1, FoldIs
<1>4. PICK h : Through(h, base, t, n + 1) /\ After(base, t) = h[1..(n + 1)]
  BY <1>1, FoldIs
<1>5. g[1..0] = base /\ \A k \in Nat : k < n => g[1..(k + 1)] = Step(g[1..k], s[k + 1])
  BY <1>3 DEF Through
<1>6. h[1..0] = base /\ \A k \in Nat : k < n + 1 => h[1..(k + 1)] = Step(h[1..k], t[k + 1])
  BY <1>4 DEF Through
<1> DEFINE Alike == {k \in Nat : k <= n => g[1..k] = h[1..k]}
<1>7. Alike = Nat
  <2>1. 0 \in Alike
    BY <1>5, <1>6
  <2>2. ASSUME NEW k \in Alike
        PROVE  k + 1 \in Alike
    <3> SUFFICES ASSUME k + 1 <= n PROVE g[1..(k + 1)] = h[1..(k + 1)]
      OBVIOUS
    <3>1. k \in Nat /\ k < n /\ k < n + 1 /\ k + 1 \in 1..n /\ g[1..k] = h[1..k]
      BY <1>1
    <3> QED BY <1>2, <1>5, <1>6, <3>1
  <2> HIDE DEF Alike
  <2>3. Alike \in SUBSET Nat
    BY DEF Alike
  <2> QED BY <2>1, <2>2, <2>3, AllNumbers
<1>8. g[1..n] = h[1..n]
  BY <1>1, <1>7
<1>9. h[1..(n + 1)] = Step(h[1..n], t[n + 1])
  BY <1>1, <1>6
<1> QED BY <1>2, <1>3, <1>4, <1>8, <1>9 DEF t

\* Where the first element starts and each goes on from the one before, the fold
\* ends: Q says what holds after how many elements.
LEMMA AfterPasses ==
  ASSUME NEW Q, NEW E, NEW base \in Q[0], NEW s \in Seq(E),
         \A k \in 0..(Len(s) - 1) : \A v \in Q[k] : Step(v, s[k + 1]) \in Q[k + 1]
  PROVE  After(base, s) \in Q[Len(s)]
<1> DEFINE n == Len(s)
<1>1. n \in Nat /\ DOMAIN s = 1..n
  OBVIOUS
<1>2. \A k \in 0..(n - 1) : \A v \in Q[k] : Step(v, s[k + 1]) \in Q[k + 1]
  OBVIOUS
<1> HIDE DEF n
<1>3. PICK g : Through(g, base, s, n) /\ After(base, s) = g[1..n]
  BY <1>1, FoldIs
<1>4. g[1..0] = base /\ \A k \in Nat : k < n => g[1..(k + 1)] = Step(g[1..k], s[k + 1])
  BY <1>3 DEF Through
<1> DEFINE In == {k \in Nat : k <= n => g[1..k] \in Q[k]}
<1>5. In = Nat
  <2>1. 0 \in In
    BY <1>4
  <2>2. ASSUME NEW k \in In
        PROVE  k + 1 \in In
    <3> SUFFICES ASSUME k + 1 <= n PROVE g[1..(k + 1)] \in Q[k + 1]
      OBVIOUS
    <3>1. k \in Nat /\ k < n /\ k \in 0..(n - 1) /\ g[1..k] \in Q[k]
      BY <1>1
    <3> QED BY <1>2, <1>4, <3>1
  <2> HIDE DEF In
  <2>3. In \in SUBSET Nat
    BY DEF In
  <2> QED BY <2>1, <2>2, <2>3, AllNumbers
<1>6. n \in In
  BY <1>1, <1>5
<1> QED BY <1>1, <1>3, <1>6 DEF n

\* What every step keeps, the fold keeps.
LEMMA AfterStays ==
  ASSUME NEW V, NEW E, \A v \in V, e \in E : Step(v, e) \in V,
         NEW base \in V, NEW s \in Seq(E)
  PROVE  After(base, s) \in V
<1> DEFINE Q == [k \in 0..Len(s) |-> V]
<1>1. \A k \in 0..(Len(s) - 1) : k \in 0..Len(s) /\ k + 1 \in 0..Len(s) /\ s[k + 1] \in E
  OBVIOUS
<1>2. \A k \in 0..(Len(s) - 1) : \A v \in Q[k] : Step(v, s[k + 1]) \in Q[k + 1]
  BY <1>1
<1>3. base \in Q[0] /\ Q[Len(s)] = V
  OBVIOUS
<1> HIDE DEF Q
<1> QED BY <1>2, <1>3, AfterPasses

-----------------------------------------------------------------------------
(***************************************************************************)
(* What is put in order.                                                   *)
(***************************************************************************)

\* R is a strict total order of S.
Orders(R, S) ==
  \A x, y, z \in S :
    /\ <<x, x>> \notin R
    /\ x # y => <<x, y>> \in R \/ <<y, x>> \in R
    /\ <<x, y>> \in R /\ <<y, z>> \in R => <<x, z>> \in R

Before(S, R, x) == {y \in S : <<y, x>> \in R}

\* No two elements have the same number of others before them, and each number
\* up to that of all is that of one.
LEMMA Ranks ==
  ASSUME NEW S, IsFiniteSet(S), NEW R, Orders(R, S)
  PROVE  /\ Cardinality(S) \in Nat
         /\ \A x \in S : IsFiniteSet(Before(S, R, x))
         /\ \A x, y \in S : Cardinality(Before(S, R, x)) = Cardinality(Before(S, R, y)) => x = y
         /\ \A n \in 1..Cardinality(S) : \E x \in S : Cardinality(Before(S, R, x)) = n - 1
<1> DEFINE m == Cardinality(S)
           B(x) == Before(S, R, x)
           r == [x \in S |-> Cardinality(B(x))]
<1>1. m \in Nat
  BY FS_CardinalityType
<1>2. ASSUME NEW x \in S
      PROVE  /\ IsFiniteSet(B(x)) /\ Cardinality(B(x)) \in 0..(m - 1)
  <2>1. B(x) \in SUBSET S /\ x \notin B(x)
    BY DEF Orders, Before
  <2>2. IsFiniteSet(B(x)) /\ Cardinality(B(x)) <= m /\ m # Cardinality(B(x))
    BY <2>1, FS_Subset
  <2>3. Cardinality(B(x)) \in Nat
    BY <2>2, FS_CardinalityType
  <2> HIDE DEF B, m
  <2> QED BY <1>1, <2>2, <2>3
<1>3. ASSUME NEW x \in S, NEW y \in S, <<x, y>> \in R
      PROVE  Cardinality(B(x)) # Cardinality(B(y))
  <2>1. B(x) \in SUBSET B(y) /\ x \in B(y) /\ x \notin B(x)
    BY <1>3 DEF Orders, Before
  <2>2. IsFiniteSet(B(y))
    BY <1>2
  <2> HIDE DEF B
  <2> QED BY <2>1, <2>2, FS_Subset
<1>4. \A x, y \in S : Cardinality(B(x)) = Cardinality(B(y)) => x = y
  BY <1>3 DEF Orders
<1>5. r \in Injection(S, 0..(m - 1))
  <2>1. r \in [S -> 0..(m - 1)]
    BY <1>2
  <2>2. \A x, y \in S : r[x] = r[y] => x = y
    BY <1>4
  <2> HIDE DEF r
  <2> QED BY <2>1, <2>2 DEF Injection, IsInjective
<1>6. IsFiniteSet(0..(m - 1)) /\ Cardinality(0..(m - 1)) = m
  <2>1. 0 \in Int /\ m - 1 \in Int /\ (0 > m - 1 => m = 0)
    BY <1>1
  <2> QED BY <1>1, <2>1, FS_Interval
<1>7. r \in Surjection(S, 0..(m - 1))
  <2> HIDE DEF r
  <2> QED BY <1>5, <1>6, FS_Injection
<1>8. \A n \in 1..m : \E x \in S : r[x] = n - 1
  <2>1. \A k \in 0..(m - 1) : \E x \in S : r[x] = k
    <3> HIDE DEF r
    <3> QED BY <1>7 DEF Surjection
  <2>2. \A n \in 1..m : n - 1 \in 0..(m - 1)
    BY <1>1
  <2> HIDE DEF r
  <2> QED BY <2>1, <2>2
<1> QED BY <1>1, <1>2, <1>4, <1>8

\* A sorted set has each of its elements once, in order.
LEMMA SortedOnce ==
  ASSUME NEW S, IsFiniteSet(S), NEW R, Orders(R, S)
  PROVE  /\ Cardinality(S) \in Nat
         /\ Sorted(S, R) \in [1..Cardinality(S) -> S]
         /\ \A x \in S : \E i \in 1..Cardinality(S) : Sorted(S, R)[i] = x
         /\ \A i, j \in 1..Cardinality(S) : i < j => <<Sorted(S, R)[i], Sorted(S, R)[j]>> \in R
<1> DEFINE m == Cardinality(S)
           B(x) == Before(S, R, x)
           q == Sorted(S, R)
<1>1. /\ m \in Nat /\ \A x \in S : IsFiniteSet(B(x))
      /\ \A x, y \in S : Cardinality(B(x)) = Cardinality(B(y)) => x = y
      /\ \A n \in 1..m : \E x \in S : Cardinality(B(x)) = n - 1
  BY Ranks
<1>2. q = [n \in 1..m |-> CHOOSE x \in S : Cardinality(B(x)) = n - 1]
  BY DEF Sorted, Before
<1> HIDE DEF m, q
<1>3. \A n \in 1..m : q[n] \in S /\ Cardinality(B(q[n])) = n - 1
  BY <1>1, <1>2
<1>4. q \in [1..m -> S]
  BY <1>2, <1>3
<1>5. ASSUME NEW x \in S
      PROVE  \E i \in 1..m : q[i] = x
  <2>1. B(x) \in SUBSET S /\ x \notin B(x)
    BY DEF Orders, Before
  <2>2. Cardinality(B(x)) <= m /\ m # Cardinality(B(x))
    BY <2>1, FS_Subset DEF m
  <2>3. Cardinality(B(x)) \in Nat
    BY <1>1, FS_CardinalityType
  <2> DEFINE n == Cardinality(B(x)) + 1
  <2>4. n \in 1..m /\ Cardinality(B(x)) = n - 1
    BY <1>1, <2>2, <2>3
  <2> HIDE DEF B, n
  <2>5. Cardinality(B(q[n])) = n - 1 /\ q[n] \in S
    BY <1>3, <2>4
  <2> QED BY <1>1, <2>4, <2>5
<1>6. ASSUME NEW i \in 1..m, NEW j \in 1..m, i < j
      PROVE  <<q[i], q[j]>> \in R
  <2>1. q[i] \in S /\ q[j] \in S /\ Cardinality(B(q[i])) = i - 1 /\ Cardinality(B(q[j])) = j - 1
    BY <1>3
  <2>2. q[i] # q[j]
    BY <1>6, <2>1
  <2>3. CASE <<q[j], q[i]>> \in R
    <3>1. B(q[j]) \in SUBSET B(q[i]) /\ IsFiniteSet(B(q[i]))
      BY <1>1, <2>1, <2>3 DEF Orders, Before
    <3>2. j - 1 <= i - 1
      BY <2>1, <3>1, FS_Subset
    <3> QED BY <1>1, <1>6, <3>2
  <2> QED BY <2>1, <2>2, <2>3 DEF Orders
<1> QED BY <1>1, <1>4, <1>5, <1>6 DEF m, q

\* What has each element of a set, in order, is the set sorted.
LEMMA SortedIs ==
  ASSUME NEW S, NEW R, Orders(R, S), NEW m \in Nat, NEW f \in [1..m -> S],
         \A x \in S : \E i \in 1..m : f[i] = x,
         \A i, j \in 1..m : i < j => <<f[i], f[j]>> \in R
  PROVE  IsFiniteSet(S) /\ Cardinality(S) = m /\ Sorted(S, R) = f
<1> DEFINE B(x) == Before(S, R, x)
<1>1. \A i, j \in 1..m : f[i] = f[j] => i = j
  <2> SUFFICES ASSUME NEW i \in 1..m, NEW j \in 1..m, i < j, f[i] = f[j] PROVE FALSE
    OBVIOUS
  <2> QED BY DEF Orders
<1>2. f \in Bijection(1..m, S)
  BY <1>1 DEF Bijection, Injection, Surjection, IsInjective
<1>3. IsFiniteSet(S) /\ Cardinality(S) = m
  <2>1. ExistsBijection(1..m, S)
    BY <1>2 DEF ExistsBijection
  <2> QED BY <2>1, FS_NatBijection, FS_CountingElements
<1>4. ASSUME NEW i \in 1..m
      PROVE  Cardinality(B(f[i])) = i - 1
  <2> DEFINE g == [k \in 1..(i - 1) |-> f[k]]
  <2>1. i - 1 \in Nat /\ \A k \in 1..(i - 1) : k \in 1..m /\ k < i
    BY <1>4
  <2>2. \A k \in 1..(i - 1) : f[k] \in B(f[i])
    BY <2>1 DEF Before
  <2>3. ASSUME NEW y \in B(f[i])
        PROVE  \E k \in 1..(i - 1) : f[k] = y
    <3>1. y \in S /\ <<y, f[i]>> \in R
      BY DEF Before
    <3>2. PICK k \in 1..m : f[k] = y
      BY <3>1
    <3>3. ~(k = i) /\ ~(i < k)
      BY <3>1, <3>2 DEF Orders
    <3>4. k \in 1..(i - 1)
      BY <3>3
    <3> QED BY <3>2, <3>4
  <2>4. g \in Bijection(1..(i - 1), B(f[i]))
    <3>1. g \in [1..(i - 1) -> B(f[i])]
      BY <2>2
    <3>2. \A k, l \in 1..(i - 1) : g[k] = g[l] => k = l
      BY <1>1, <2>1
    <3>3. \A y \in B(f[i]) : \E k \in 1..(i - 1) : g[k] = y
      BY <2>3
    <3> HIDE DEF g, B
    <3> QED BY <3>1, <3>2, <3>3 DEF Bijection, Injection, Surjection, IsInjective
  <2>5. ExistsBijection(1..(i - 1), B(f[i]))
    BY <2>4 DEF ExistsBijection
  <2> HIDE DEF B
  <2> QED BY <2>1, <2>5, FS_CountingElements
<1>5. \A x, y \in S : Cardinality(B(x)) = Cardinality(B(y)) => x = y
  BY <1>3, Ranks
<1>6. Sorted(S, R) = [n \in 1..m |-> CHOOSE x \in S : Cardinality(B(x)) = n - 1]
  BY <1>3 DEF Sorted, Before
<1> HIDE DEF B
<1>7. \A n \in 1..m : (CHOOSE x \in S : Cardinality(B(x)) = n - 1) = f[n]
  BY <1>4, <1>5
<1> QED BY <1>3, <1>6, <1>7

-----------------------------------------------------------------------------
(***************************************************************************)
(* Arrays.                                                                 *)
(***************************************************************************)

\* s has each element of S, once.
Lists(s, S) ==
  /\ s \in Seq(S)
  /\ \A x \in S : \E i \in DOMAIN s : s[i] = x
  /\ \A i, j \in DOMAIN s : s[i] = s[j] => i = j

LEMMA ListsAll ==
  ASSUME NEW S, NEW s, Lists(s, S)
  PROVE  IsFiniteSet(S) /\ Cardinality(S) = Len(s) /\ Range(s) = S
<1>1. Len(s) \in Nat /\ DOMAIN s = 1..Len(s) /\ s \in [1..Len(s) -> S]
  BY DEF Lists
<1>2. s \in Bijection(1..Len(s), S)
  BY <1>1 DEF Lists, Bijection, Injection, Surjection, IsInjective
<1>3. ExistsBijection(1..Len(s), S)
  BY <1>2 DEF ExistsBijection
<1>4. Range(s) = S
  BY <1>1 DEF Lists, Range
<1> QED BY <1>1, <1>3, <1>4, FS_NatBijection, FS_CountingElements

\* A list of its own elements.
LEMMA OwnList ==
  ASSUME NEW E, NEW s \in Seq(E), \A i, j \in DOMAIN s : s[i] = s[j] => i = j
  PROVE  Lists(s, {s[i] : i \in DOMAIN s})
<1> DEFINE S == {s[i] : i \in DOMAIN s}
<1>1. /\ Len(s) \in Nat /\ s = [i \in 1..Len(s) |-> s[i]] /\ DOMAIN s = 1..Len(s)
      /\ \A i \in 1..Len(s) : s[i] \in S
  OBVIOUS
<1>2. \A x \in S : \E i \in DOMAIN s : s[i] = x
  OBVIOUS
<1> HIDE DEF S
<1>3. s \in Seq(S)
  BY <1>1, SeqDef
<1> QED BY <1>2, <1>3 DEF Lists, S

\* The elements at some places of a sequence, each place once, in some order.
IsArranged(s, P, R) ==
  /\ Cardinality(P) \in Nat
  /\ \E q \in [1..Cardinality(P) -> P] :
       /\ Arranged(s, P, R) = [n \in 1..Cardinality(P) |-> s[q[n]]]
       /\ \A i \in P : \E n \in 1..Cardinality(P) : q[n] = i
       /\ \A n, k \in 1..Cardinality(P) : n < k => <<q[n], q[k]>> \in R

LEMMA ArrangedIs ==
  ASSUME NEW E, NEW s \in Seq(E), NEW P \in SUBSET DOMAIN s, NEW R, Orders(R, P)
  PROVE  IsArranged(s, P, R)
<1>1. IsFiniteSet(P)
  <2>1. IsFiniteSet(DOMAIN s)
    BY FS_Interval
  <2> QED BY <2>1, FS_Subset
<1>2. Arranged(s, P, R) = [n \in 1..Cardinality(P) |-> s[Sorted(P, R)[n]]]
  BY DEF Arranged
<1> QED BY <1>1, <1>2, SortedOnce DEF IsArranged

LEMMA AlongOrders ==
  ASSUME NEW s, NEW m \in Nat, DOMAIN s = 1..m, NEW P \in SUBSET DOMAIN s
  PROVE  /\ Orders(Along(s), P)
         /\ \A i, j \in P : <<i, j>> \in Along(s) <=> i < j
<1>1. \A i \in P : i \in Nat /\ i \in DOMAIN s
  OBVIOUS
<1>2. \A i, j \in P : <<i, j>> \in Along(s) <=> i < j
  BY <1>1 DEF Along
<1>3. \A x, y, z \in P : ~(x < x) /\ (x # y => x < y \/ y < x) /\ (x < y /\ y < z => x < z)
  BY <1>1
<1> QED BY <1>2, <1>3 DEF Orders

\* What is at some places of a list, in another order, is a list.
LEMMA ArrangedLists ==
  ASSUME NEW S, NEW s, Lists(s, S), NEW P \in SUBSET DOMAIN s, NEW R, Orders(R, P)
  PROVE  Lists(Arranged(s, P, R), {s[i] : i \in P})
<1>1. s \in Seq(S)
  BY DEF Lists
<1> DEFINE m == Cardinality(P)
<1>2. m \in Nat /\ \E q \in [1..m -> P] :
           /\ Arranged(s, P, R) = [n \in 1..m |-> s[q[n]]]
           /\ \A i \in P : \E n \in 1..m : q[n] = i
           /\ \A n, k \in 1..m : n < k => <<q[n], q[k]>> \in R
  <2>1. IsArranged(s, P, R)
    BY <1>1, ArrangedIs
  <2> QED BY <2>1 DEF IsArranged
<1> HIDE DEF m
<1>2a. PICK q \in [1..m -> P] :
           /\ Arranged(s, P, R) = [n \in 1..m |-> s[q[n]]]
           /\ \A i \in P : \E n \in 1..m : q[n] = i
           /\ \A n, k \in 1..m : n < k => <<q[n], q[k]>> \in R
  BY <1>2
<1> DEFINE a == [n \in 1..m |-> s[q[n]]]
           L == {s[i] : i \in P}
<1>3. a \in Seq(L) /\ DOMAIN a = 1..m
  BY <1>2
<1>4. \A x \in L : \E n \in 1..m : a[n] = x
  BY <1>2a
<1>5. \A n, k \in 1..m : a[n] = a[k] => n = k
  <2> SUFFICES ASSUME NEW n \in 1..m, NEW k \in 1..m, n < k, a[n] = a[k] PROVE FALSE
    BY <1>2, <1>3
  <2>1. q[n] \in P /\ q[k] \in P /\ <<q[n], q[k]>> \in R /\ s[q[n]] = s[q[k]]
    BY <1>2a
  <2>2. q[n] = q[k]
    BY <2>1 DEF Lists
  <2> QED BY <2>1, <2>2 DEF Orders
<1> HIDE DEF a, L
<1>6. Lists(a, L)
  BY <1>3, <1>4, <1>5 DEF Lists
<1> QED BY <1>2a, <1>6 DEF a, L

\* What is kept of a list is a list of what is wanted.
LEMMA KeptLists ==
  ASSUME NEW S, NEW s, Lists(s, S), NEW T
  PROVE  Lists(Kept(s, T), S \cap T)
<1> DEFINE P == {i \in DOMAIN s : s[i] \in T}
<1>1. s \in Seq(S) /\ P \in SUBSET DOMAIN s /\ Len(s) \in Nat /\ DOMAIN s = 1..Len(s)
  BY DEF Lists
<1>2. Orders(Along(s), P)
  BY <1>1, AlongOrders
<1>3. {s[i] : i \in P} = S \cap T
  BY <1>1 DEF Lists
<1>4. Kept(s, T) = Arranged(s, P, Along(s))
  BY DEF Kept
<1> HIDE DEF P
<1> QED BY <1>1, <1>2, <1>3, <1>4, ArrangedLists

\* It is in the order in which it was.
LEMMA KeptIs ==
  ASSUME NEW E, NEW s \in Seq(E), NEW T
  PROVE  /\ Kept(s, T) \in Seq(E) /\ Len(Kept(s, T)) \in Nat
         /\ \E q \in [1..Len(Kept(s, T)) -> DOMAIN s] :
              /\ Kept(s, T) = [n \in 1..Len(Kept(s, T)) |-> s[q[n]]]
              /\ \A n \in 1..Len(Kept(s, T)) : s[q[n]] \in T
              /\ \A i \in DOMAIN s : s[i] \in T => \E n \in 1..Len(Kept(s, T)) : q[n] = i
              /\ \A n, k \in 1..Len(Kept(s, T)) : n < k => q[n] < q[k]
<1> DEFINE m == Cardinality({i \in DOMAIN s : s[i] \in T})
           P == {i \in DOMAIN s : s[i] \in T}
<1>1. P \in SUBSET DOMAIN s /\ Len(s) \in Nat /\ DOMAIN s = 1..Len(s)
  OBVIOUS
<1>2. Orders(Along(s), P) /\ \A i, j \in P : <<i, j>> \in Along(s) <=> i < j
  BY <1>1, AlongOrders
<1>3. Kept(s, T) = Arranged(s, P, Along(s))
  BY DEF Kept
<1>4. /\ \A i \in P : i \in DOMAIN s /\ s[i] \in T
      /\ \A i \in DOMAIN s : s[i] \in T => i \in P
  OBVIOUS
<1> HIDE DEF P
<1>5. IsArranged(s, P, Along(s))
  BY <1>1, <1>2, ArrangedIs
<1>6. m = Cardinality(P)
  BY DEF P
<1> HIDE DEF m
<1>7. m \in Nat /\ \E q \in [1..m -> P] :
           /\ Kept(s, T) = [n \in 1..m |-> s[q[n]]]
           /\ \A i \in P : \E n \in 1..m : q[n] = i
           /\ \A n, k \in 1..m : n < k => <<q[n], q[k]>> \in Along(s)
  BY <1>3, <1>5, <1>6 DEF IsArranged
<1>8. PICK q \in [1..m -> P] :
           /\ Kept(s, T) = [n \in 1..m |-> s[q[n]]]
           /\ \A i \in P : \E n \in 1..m : q[n] = i
           /\ \A n, k \in 1..m : n < k => <<q[n], q[k]>> \in Along(s)
  BY <1>7
<1>9. q \in [1..m -> DOMAIN s] /\ \A n \in 1..m : q[n] \in P
  BY <1>4, <1>8
<1>10. \A n, k \in 1..m : n < k => q[n] < q[k]
  BY <1>2, <1>8, <1>9
<1>11. \A n \in 1..m : s[q[n]] \in T
  BY <1>4, <1>9
<1>12. Kept(s, T) \in Seq(E) /\ Len(Kept(s, T)) = m
  BY <1>8, <1>7, <1>9
<1> QED BY <1>4, <1>8, <1>7, <1>9, <1>10, <1>11, <1>12

\* One more element is kept or not.
LEMMA KeptNone == \A T : Kept(<<>>, T) = <<>>
<1> SUFFICES ASSUME NEW T PROVE Kept(<<>>, T) = <<>>
  OBVIOUS
<1>1. <<>> \in Seq({}) /\ DOMAIN <<>> = {}
  OBVIOUS
<1> DEFINE k == Kept(<<>>, T)
<1>2. k \in Seq({}) /\ Len(k) \in Nat
  BY <1>1, KeptIs
<1> HIDE DEF k
<1> QED BY <1>2 DEF k

LEMMA KeptMore ==
  ASSUME NEW E, NEW s \in Seq(E), NEW e \in E, NEW T
  PROVE  Kept(Append(s, e), T) = IF e \in T THEN Append(Kept(s, T), e) ELSE Kept(s, T)
<1> DEFINE t == Append(s, e)
           l == Len(s)
           P == {i \in DOMAIN t : t[i] \in T}
<1>1. /\ l \in Nat /\ DOMAIN s = 1..l /\ t \in Seq(E) /\ DOMAIN t = 1..(l + 1)
      /\ t[l + 1] = e /\ \A i \in 1..l : t[i] = s[i]
  OBVIOUS
<1>2. Orders(Along(t), P) /\ \A i, j \in P : <<i, j>> \in Along(t) <=> i < j
  <2>1. l + 1 \in Nat /\ P \in SUBSET DOMAIN t
    BY <1>1
  <2> HIDE DEF t, P
  <2> QED BY <1>1, <2>1, AlongOrders
<1>3. Kept(t, T) = [n \in 1..Cardinality(P) |-> t[Sorted(P, Along(t))[n]]]
  BY DEF Kept, Arranged
<1> HIDE DEF t, l
<1> DEFINE m == Len(Kept(s, T))
<1>3a. m \in Nat /\ Kept(s, T) \in Seq(E)
  BY KeptIs
<1>4. PICK q \in [1..m -> DOMAIN s] :
           /\ Kept(s, T) = [n \in 1..m |-> s[q[n]]]
           /\ \A n \in 1..m : s[q[n]] \in T
           /\ \A i \in DOMAIN s : s[i] \in T => \E n \in 1..m : q[n] = i
           /\ \A n, k \in 1..m : n < k => q[n] < q[k]
  BY KeptIs
<1> HIDE DEF m
<1>5. \A n \in 1..m : q[n] \in 1..l /\ q[n] \in P /\ t[q[n]] = s[q[n]]
  BY <1>1, <1>4
<1>6. CASE e \notin T
  <2>1. \A i \in P : i \in 1..l /\ \E n \in 1..m : q[n] = i
    BY <1>1, <1>4, <1>6
  <2>2. q \in [1..m -> P] /\ \A n, k \in 1..m : n < k => <<q[n], q[k]>> \in Along(t)
    BY <1>2, <1>4, <1>5
  <2> HIDE DEF P
  <2>3. Cardinality(P) = m /\ Sorted(P, Along(t)) = q
    BY <1>2, <1>3a, <2>1, <2>2, SortedIs
  <2> QED BY <1>3, <1>4, <1>5, <1>6, <2>3 DEF t
<1>7. CASE e \in T
  <2> DEFINE r == [n \in 1..(m + 1) |-> IF n = m + 1 THEN l + 1 ELSE q[n]]
  <2>0. /\ m + 1 \in Nat /\ m + 1 \in 1..(m + 1) /\ l + 1 \in P
        /\ \A n \in 1..(m + 1) : n # m + 1 => n \in 1..m
    BY <1>1, <1>3a, <1>7
  <2>1. /\ DOMAIN r = 1..(m + 1) /\ r[m + 1] = l + 1
        /\ \A n \in 1..m : r[n] = q[n] /\ n \in 1..(m + 1)
    BY <1>3a, <2>0
  <2>2. r \in [1..(m + 1) -> P]
    BY <1>5, <2>0
  <2> HIDE DEF r
  <2>3. \A i \in P : \E n \in 1..(m + 1) : r[n] = i
    <3> SUFFICES ASSUME NEW i \in P PROVE \E n \in 1..(m + 1) : r[n] = i
      OBVIOUS
    <3>1. CASE i = l + 1
      BY <2>0, <2>1, <3>1
    <3>2. CASE i # l + 1
      <4>1. i \in 1..l /\ s[i] \in T
        BY <1>1, <3>2
      <4> QED BY <1>1, <1>4, <2>1, <4>1
    <3> QED BY <3>1, <3>2
  <2>4. \A n, k \in 1..(m + 1) : n < k => r[n] < r[k]
    <3> SUFFICES ASSUME NEW n \in 1..(m + 1), NEW k \in 1..(m + 1), n < k PROVE r[n] < r[k]
      OBVIOUS
    <3>1. n \in 1..m /\ r[n] = q[n] /\ q[n] \in 1..l
      BY <1>5, <2>0, <2>1
    <3>2. CASE k = m + 1
      BY <1>1, <2>1, <3>1, <3>2
    <3>3. CASE k # m + 1
      BY <1>4, <2>0, <2>1, <3>1, <3>3
    <3> QED BY <3>2, <3>3
  <2>5. \A n, k \in 1..(m + 1) : n < k => <<r[n], r[k]>> \in Along(t)
    BY <1>2, <2>2, <2>4
  <2> HIDE DEF P
  <2>6. Cardinality(P) = m + 1 /\ Sorted(P, Along(t)) = r
    <3> DEFINE u == m + 1
    <3>1. /\ u \in Nat /\ r \in [1..u -> P] /\ \A i \in P : \E n \in 1..u : r[n] = i
          /\ \A n, k \in 1..u : n < k => <<r[n], r[k]>> \in Along(t)
      BY <2>0, <2>2, <2>3, <2>5
    <3> HIDE DEF u
    <3>2. Cardinality(P) = u /\ Sorted(P, Along(t)) = r
      <4>1. Orders(Along(t), P)
        BY <1>2
      <4>2. r \in [1..u -> P] /\ u \in Nat
        BY <3>1
      <4>3. \A i \in P : \E n \in 1..u : r[n] = i
        BY <3>1
      <4>4. \A n, k \in 1..u : n < k => <<r[n], r[k]>> \in Along(t)
        BY <3>1
      <4> QED BY <4>1, <4>2, <4>3, <4>4, SortedIs
    <3> QED BY <3>2 DEF u
  <2>7. Kept(t, T) = [n \in 1..(m + 1) |-> t[r[n]]]
    BY <1>3, <2>6
  <2>8. Kept(s, T) \in Seq(E) /\ Len(Kept(s, T)) = m
    BY <1>3a DEF m
  <2>9. \A n \in 1..m : Kept(s, T)[n] = t[r[n]]
    BY <1>4, <1>5, <2>1
  <2>10. Append(Kept(s, T), e) = [n \in 1..(m + 1) |-> t[r[n]]]
    <3> DEFINE k == Append(Kept(s, T), e)
               f == [n \in 1..(m + 1) |-> t[r[n]]]
    <3>1. /\ k \in Seq(E) /\ Len(k) = m + 1 /\ k[m + 1] = e
          /\ \A n \in 1..m : k[n] = Kept(s, T)[n]
      BY <2>8, AppendProperties
    <3>2. \A n \in 1..(m + 1) : r[n] \in P
      BY <2>2
    <3>3. \A n \in 1..(m + 1) : t[r[n]] \in E
      BY <1>1, <3>2 DEF P
    <3>4. f \in Seq(E) /\ Len(f) = m + 1
      BY <2>0, <3>3
    <3>5. t[r[m + 1]] = e
      BY <1>1, <2>1
    <3> HIDE DEF k
    <3>6. \A n \in 1..(m + 1) : k[n] = f[n]
      BY <2>0, <2>9, <3>1, <3>5
    <3> HIDE DEF f
    <3>7. k = f
      BY <3>1, <3>4, <3>6, SeqEqual
    <3> QED BY <3>7 DEF k, f
  <2> QED BY <1>7, <2>7, <2>10 DEF t
<1> QED BY <1>6, <1>7

-----------------------------------------------------------------------------
(***************************************************************************)
(* A sequence of sequences made one.                                       *)
(***************************************************************************)

\* The function behind it.
Flattens(g, ss, n) ==
  g = [i \in 1..n |-> IF i = 1 THEN ss[i] ELSE g[i - 1] \o ss[i]]

LEMMA FlatExists ==
  ASSUME NEW ss, NEW n \in Nat
  PROVE  \E g : Flattens(g, ss, n)
<1> DEFINE Has == {k \in Nat : \E g : Flattens(g, ss, k)}
<1>1. 0 \in Has
  <2> DEFINE g == [i \in 1..0 |-> <<>>]
  <2>1. Flattens(g, ss, 0)
    BY DEF Flattens
  <2> QED BY <2>1
<1>2. ASSUME NEW k \in Has PROVE k + 1 \in Has
  <2>1. k \in Nat /\ k + 1 \in Nat
    OBVIOUS
  <2>2. PICK g : Flattens(g, ss, k)
    OBVIOUS
  <2> DEFINE last == IF k + 1 = 1 THEN ss[k + 1] ELSE g[k] \o ss[k + 1]
             h == [i \in 1..(k + 1) |-> IF i = k + 1 THEN last ELSE g[i]]
  <2>3. ASSUME NEW i \in 1..(k + 1)
        PROVE  h[i] = IF i = 1 THEN ss[i] ELSE h[i - 1] \o ss[i]
    <3>1. CASE i = k + 1
      <4>1. k + 1 # 1 => h[k] = g[k]
        BY <2>1
      <4> QED BY <2>1, <3>1, <4>1
    <3>2. CASE i # k + 1
      <4>1. i \in 1..k /\ h[i] = g[i] /\ (i # 1 => h[i - 1] = g[i - 1])
        BY <2>1, <3>2
      <4> QED BY <2>2, <4>1 DEF Flattens
    <3> QED BY <3>1, <3>2
  <2>4. h = [i \in 1..(k + 1) |-> h[i]]
    OBVIOUS
  <2> HIDE DEF h
  <2>5. Flattens(h, ss, k + 1)
    BY <2>3, <2>4 DEF Flattens
  <2> QED BY <2>1, <2>5
<1> HIDE DEF Has
<1>3. Has \in SUBSET Nat
  BY DEF Has
<1>4. Has = Nat
  BY <1>1, <1>2, <1>3, AllNumbers
<1> QED BY <1>4 DEF Has

\* The first k of them.
Flat(ss, k) == FlattenSeq([j \in 1..k |-> ss[j]])

LEMMA FlatIs ==
  ASSUME NEW ss, NEW k \in Nat, k # 0, NEW g, Flattens(g, ss, k)
  PROVE  Flat(ss, k) = g[k]
<1> DEFINE t == [j \in 1..k |-> ss[j]]
           h == CHOOSE h : Flattens(h, t, k)
<1>1. Len(t) = k
  OBVIOUS
<1>2. \A j \in 1..k : t[j] = ss[j]
  OBVIOUS
<1>3. Flat(ss, k) = FlattenSeq(t)
  BY DEF Flat
<1> HIDE DEF t
<1>4. Flattens(h, t, k)
  BY FlatExists
<1>5. FlattenSeq(t) = h[k]
  BY <1>1 DEF FlattenSeq, Flattens
<1> HIDE DEF h
<1> DEFINE Alike == {n \in Nat : n + 1 <= k => g[n + 1] = h[n + 1]}
<1>6. Alike = Nat
  <2>1. 0 \in Alike
    BY <1>2, <1>4 DEF Flattens
  <2>2. ASSUME NEW n \in Alike PROVE n + 1 \in Alike
    <3> SUFFICES ASSUME n + 2 <= k PROVE g[n + 2] = h[n + 2]
      OBVIOUS
    <3>1. n \in Nat /\ n + 1 \in 1..k /\ n + 2 \in 1..k /\ n + 2 # 1 /\ (n + 2) - 1 = n + 1
      OBVIOUS
    <3>2. g[n + 1] = h[n + 1]
      BY <3>1
    <3>3. g[n + 2] = g[n + 1] \o ss[n + 2] /\ h[n + 2] = h[n + 1] \o t[n + 2]
      BY <1>4, <3>1 DEF Flattens
    <3> QED BY <1>2, <3>1, <3>2, <3>3
  <2> HIDE DEF Alike
  <2>3. Alike \in SUBSET Nat
    BY DEF Alike
  <2> QED BY <2>1, <2>2, <2>3, AllNumbers
<1>7. k - 1 \in Alike /\ (k - 1) + 1 = k
  <2>1. k - 1 \in Nat /\ (k - 1) + 1 = k
    OBVIOUS
  <2> HIDE DEF Alike
  <2> QED BY <1>6, <2>1
<1>8. g[k] = h[k]
  BY <1>7
<1> QED BY <1>3, <1>5, <1>8

\* One sequence after the other is added.
LEMMA FlatGrows ==
  ASSUME NEW E, NEW n \in Nat, NEW ss \in [1..n -> Seq(E)]
  PROVE  /\ Flat(ss, 0) = <<>> /\ Flat(ss, n) = FlattenSeq(ss)
         /\ \A k \in 0..n : Flat(ss, k) \in Seq(E)
         /\ \A k \in 0..(n - 1) : Flat(ss, k + 1) = Flat(ss, k) \o ss[k + 1]
<1>1. Flat(ss, 0) = <<>>
  <2> DEFINE t == [j \in 1..0 |-> ss[j]]
  <2>1. t = <<>> /\ Len(t) = 0
    OBVIOUS
  <2>2. FlattenSeq(t) = t
    <3> HIDE DEF t
    <3> QED BY <2>1 DEF FlattenSeq
  <2> QED BY <2>1, <2>2 DEF Flat
<1>2. Flat(ss, n) = FlattenSeq(ss)
  <2>1. [j \in 1..n |-> ss[j]] = ss
    OBVIOUS
  <2> QED BY <2>1 DEF Flat
<1>3. ASSUME NEW k \in 0..(n - 1), Flat(ss, k) \in Seq(E)
      PROVE  Flat(ss, k + 1) = Flat(ss, k) \o ss[k + 1]
  <2>1. k \in Nat /\ k + 1 \in Nat /\ k + 1 # 0 /\ k + 1 \in 1..n /\ (k + 1) - 1 = k
    OBVIOUS
  <2>2. PICK g : Flattens(g, ss, k + 1)
    BY <2>1, FlatExists
  <2>3. Flat(ss, k + 1) = g[k + 1]
    BY <2>1, <2>2, FlatIs
  <2>4. CASE k = 0
    <3>1. g[k + 1] = ss[k + 1]
      BY <2>2, <2>4 DEF Flattens
    <3>2. <<>> \o ss[k + 1] = ss[k + 1]
      BY <2>1
    <3> QED BY <1>1, <2>3, <2>4, <3>1, <3>2
  <2>5. CASE k # 0
    <3> DEFINE h == [i \in 1..k |-> g[i]]
    <3>1. \A i \in 1..k : h[i] = IF i = 1 THEN ss[i] ELSE h[i - 1] \o ss[i]
      <4> SUFFICES ASSUME NEW i \in 1..k
                   PROVE  h[i] = IF i = 1 THEN ss[i] ELSE h[i - 1] \o ss[i]
        OBVIOUS
      <4>1. i \in 1..(k + 1) /\ h[i] = g[i] /\ (i # 1 => h[i - 1] = g[i - 1])
        OBVIOUS
      <4> HIDE DEF h
      <4> QED BY <2>2, <4>1 DEF Flattens
    <3>2. h = [i \in 1..k |-> h[i]] /\ h[k] = g[k]
      BY <2>1, <2>5
    <3> HIDE DEF h
    <3>3. Flattens(h, ss, k)
      BY <3>1, <3>2 DEF Flattens
    <3>4. Flat(ss, k) = g[k]
      BY <2>1, <2>5, <3>2, <3>3, FlatIs
    <3>5. g[k + 1] = g[k] \o ss[k + 1]
      <4>1. k + 1 \in 1..(k + 1) /\ k + 1 # 1
        BY <2>1, <2>5
      <4> QED BY <2>1, <2>2, <4>1 DEF Flattens
    <3> QED BY <2>3, <3>4, <3>5
  <2> QED BY <2>4, <2>5
<1> DEFINE In == {k \in Nat : k <= n => Flat(ss, k) \in Seq(E)}
<1>4. In = Nat
  <2>1. 0 \in In
    <3>1. Flat(ss, 0) \in Seq(E)
      BY <1>1, EmptySeq
    <3> QED BY <3>1
  <2>2. ASSUME NEW k \in In PROVE k + 1 \in In
    <3> SUFFICES ASSUME k + 1 <= n PROVE Flat(ss, k + 1) \in Seq(E)
      OBVIOUS
    <3>1. k \in 0..(n - 1) /\ Flat(ss, k) \in Seq(E) /\ ss[k + 1] \in Seq(E)
      OBVIOUS
    <3>2. Flat(ss, k + 1) = Flat(ss, k) \o ss[k + 1]
      BY <1>3, <3>1
    <3> QED BY <3>1, <3>2, ConcatProperties
  <2> HIDE DEF In
  <2>3. In \in SUBSET Nat
    BY DEF In
  <2> QED BY <2>1, <2>2, <2>3, AllNumbers
<1>5. \A k \in 0..n : Flat(ss, k) \in Seq(E)
  BY <1>4
<1>6. \A k \in 0..(n - 1) : k \in 0..n
  OBVIOUS
<1> QED BY <1>1, <1>2, <1>3, <1>5, <1>6

LEMMA ListsTogether ==
  ASSUME NEW A, NEW a, Lists(a, A), NEW B, NEW b, Lists(b, B), A \cap B = {}
  PROVE  Lists(a \o b, A \cup B)
<1> DEFINE m == Len(a)
           n == Len(b)
           c == a \o b
<1>1. /\ m \in Nat /\ n \in Nat /\ DOMAIN a = 1..m /\ DOMAIN b = 1..n
      /\ \A i \in 1..m : a[i] \in A
      /\ \A i \in 1..n : b[i] \in B
      /\ \A x \in A : \E i \in 1..m : a[i] = x
      /\ \A x \in B : \E i \in 1..n : b[i] = x
      /\ \A i, j \in 1..m : a[i] = a[j] => i = j
      /\ \A i, j \in 1..n : b[i] = b[j] => i = j
  BY DEF Lists
<1>2. a \in Seq(A \cup B) /\ b \in Seq(A \cup B)
  BY SeqMonotonic DEF Lists
<1>3. /\ c \in Seq(A \cup B) /\ Len(c) = m + n /\ DOMAIN c = 1..(m + n)
      /\ \A i \in 1..(m + n) : c[i] = IF i <= m THEN a[i] ELSE b[i - m]
  BY <1>2, ConcatProperties, LenProperties
<1> HIDE DEF c, m, n
<1>4. /\ \A i \in 1..m : i \in 1..(m + n) /\ c[i] = a[i]
      /\ \A i \in 1..n : i + m \in 1..(m + n) /\ c[i + m] = b[i]
  BY <1>1, <1>3
<1>5. \A x \in A \cup B : \E i \in 1..(m + n) : c[i] = x
  BY <1>1, <1>4
<1>6. \A i, j \in 1..(m + n) : c[i] = c[j] => i = j
  <2> SUFFICES ASSUME NEW i \in 1..(m + n), NEW j \in 1..(m + n), c[i] = c[j] PROVE i = j
    OBVIOUS
  <2>1. CASE i <= m /\ j <= m
    <3>1. i \in 1..m /\ j \in 1..m /\ a[i] = a[j]
      BY <1>1, <1>3, <2>1
    <3> QED BY <1>1, <3>1
  <2>2. CASE ~(i <= m) /\ ~(j <= m)
    <3>1. i - m \in 1..n /\ j - m \in 1..n /\ b[i - m] = b[j - m]
      BY <1>1, <1>3, <2>2
    <3>2. i - m = j - m
      BY <1>1, <3>1
    <3> QED BY <1>1, <3>2
  <2>3. CASE i <= m /\ ~(j <= m)
    <3>1. i \in 1..m /\ j - m \in 1..n /\ c[i] = a[i] /\ c[j] = b[j - m]
      BY <1>1, <1>3, <2>3
    <3> QED BY <1>1, <3>1
  <2>4. CASE ~(i <= m) /\ j <= m
    <3>1. j \in 1..m /\ i - m \in 1..n /\ c[j] = a[j] /\ c[i] = b[i - m]
      BY <1>1, <1>3, <2>4
    <3> QED BY <1>1, <3>1
  <2> QED BY <2>1, <2>2, <2>3, <2>4
<1> QED BY <1>3, <1>5, <1>6 DEF Lists, c

\* Lists of what differs make one list of it all.
LEMMA FlatLists ==
  ASSUME NEW n \in Nat, NEW ss, ss = [i \in 1..n |-> ss[i]], NEW S,
         \A i \in 1..n : Lists(ss[i], S[i]),
         \A i, j \in 1..n : i # j => S[i] \cap S[j] = {}
  PROVE  Lists(FlattenSeq(ss), UNION {S[i] : i \in 1..n})
<1> DEFINE U(k) == UNION {S[i] : i \in 1..k}
           E == U(n)
<1>1. ss \in [1..n -> Seq(E)]
  <2> SUFFICES ASSUME NEW i \in 1..n PROVE ss[i] \in Seq(E)
    BY Zenon
  <2>1. ss[i] \in Seq(S[i]) /\ S[i] \subseteq E
    BY DEF Lists
  <2> HIDE DEF E
  <2> QED BY <2>1, SeqMonotonic
<1>2. /\ Flat(ss, 0) = <<>> /\ Flat(ss, n) = FlattenSeq(ss)
      /\ \A k \in 0..(n - 1) : Flat(ss, k + 1) = Flat(ss, k) \o ss[k + 1]
  <2> HIDE DEF E
  <2> QED BY <1>1, FlatGrows
<1> DEFINE In == {k \in Nat : k <= n => Lists(Flat(ss, k), U(k))}
<1>3. In = Nat
  <2>1. 0 \in In
    <3>1. U(0) = {}
      OBVIOUS
    <3>2. Lists(<<>>, {})
      BY DEF Lists
    <3> QED BY <1>2, <3>1, <3>2
  <2>2. ASSUME NEW k \in In PROVE k + 1 \in In
    <3> SUFFICES ASSUME k + 1 <= n PROVE Lists(Flat(ss, k + 1), U(k + 1))
      OBVIOUS
    <3>1. k \in 0..(n - 1) /\ k + 1 \in 1..n /\ Lists(Flat(ss, k), U(k))
      OBVIOUS
    <3>2. U(k + 1) = U(k) \cup S[k + 1]
      <4>1. 1..(k + 1) = 1..k \cup {k + 1}
        BY <3>1
      <4> QED BY <4>1
    <3>3. U(k) \cap S[k + 1] = {}
      <4>1. \A i \in 1..k : i \in 1..n /\ i # k + 1
        BY <3>1
      <4>2. \A i \in 1..k : S[i] \cap S[k + 1] = {}
        BY <3>1, <4>1
      <4> QED BY <4>2
    <3> HIDE DEF U
    <3>4. Lists(Flat(ss, k) \o ss[k + 1], U(k) \cup S[k + 1])
      BY <3>1, <3>3, ListsTogether
    <3> QED BY <1>2, <3>1, <3>2, <3>4
  <2> HIDE DEF In
  <2>3. In \in SUBSET Nat
    BY DEF In
  <2> QED BY <2>1, <2>2, <2>3, AllNumbers
<1>4. n \in In
  BY <1>3
<1> QED BY <1>2, <1>4

\* The places where an element is first.
Firsts(s) == {i \in DOMAIN s : \A j \in 1..(i - 1) : s[j] # s[i]}

\* Of a list behind another, what is first is the other, and what it has not.
LEMMA FirstOnes ==
  ASSUME NEW A, NEW a, Lists(a, A), NEW B, NEW b, Lists(b, B),
         NEW T, \A x \in B : x \in T <=> x \notin A
  PROVE  Arranged(a \o b, Firsts(a \o b), Along(a \o b)) = a \o Kept(b, T)
<1> DEFINE m == Len(a)
           l == Len(b)
           c == a \o b
           k == Kept(b, T)
           n == Len(k)
           P == Firsts(c)
<1>1. /\ m \in Nat /\ l \in Nat /\ DOMAIN a = 1..m /\ DOMAIN b = 1..l
      /\ a \in Seq(A \cup B) /\ b \in Seq(A \cup B)
      /\ \A i \in 1..m : a[i] \in A
      /\ \A i \in 1..l : b[i] \in B
      /\ \A x \in A : \E i \in 1..m : a[i] = x
      /\ \A i, j \in 1..m : a[i] = a[j] => i = j
      /\ \A i, j \in 1..l : b[i] = b[j] => i = j
  BY SeqMonotonic DEF Lists
<1>2. /\ c \in Seq(A \cup B) /\ Len(c) = m + l /\ DOMAIN c = 1..(m + l)
      /\ \A i \in 1..(m + l) : c[i] = IF i <= m THEN a[i] ELSE b[i - m]
  BY <1>1, ConcatProperties, LenProperties
<1>3. k \in Seq(A \cup B) /\ n \in Nat
  BY <1>1, KeptIs
<1>4. PICK q \in [1..n -> 1..l] :
           /\ k = [i \in 1..n |-> b[q[i]]]
           /\ \A i \in 1..n : b[q[i]] \in T
           /\ \A i \in 1..l : b[i] \in T => \E j \in 1..n : q[j] = i
           /\ \A i, j \in 1..n : i < j => q[i] < q[j]
  <2>1. \E q \in [1..n -> DOMAIN b] :
          /\ k = [i \in 1..n |-> b[q[i]]]
          /\ \A i \in 1..n : b[q[i]] \in T
          /\ \A i \in DOMAIN b : b[i] \in T => \E j \in 1..n : q[j] = i
          /\ \A i, j \in 1..n : i < j => q[i] < q[j]
    <3>1. b \in Seq(A \cup B)
      BY <1>1
    <3> HIDE DEF m, l, c, P
    <3> QED BY <3>1, KeptIs
  <2>2. DOMAIN b = 1..l
    BY <1>1
  <2> HIDE DEF m, l, c, P, n, k
  <2> QED BY <2>1, <2>2
<1> HIDE DEF c, k, m, n, l
<1> DEFINE f == [i \in 1..(m + n) |-> IF i <= m THEN i ELSE m + q[i - m]]
<1>5. /\ \A i \in 1..m : i \in 1..(m + l) /\ c[i] = a[i]
      /\ \A i \in 1..l : m + i \in 1..(m + l) /\ c[m + i] = b[i]
      /\ \A i \in 1..(m + l) : i \in 1..m \/ (i - m \in 1..l /\ m + (i - m) = i)
  BY <1>1, <1>2
\* What is first.
<1>6. \A i \in 1..m : i \in P
  <2> SUFFICES ASSUME NEW i \in 1..m PROVE i \in P
    OBVIOUS
  <2>1. ASSUME NEW j \in 1..(i - 1) PROVE c[j] # c[i]
    <3>1. j \in 1..m /\ j # i
      BY <1>1
    <3> QED BY <1>1, <1>5, <3>1
  <2> QED BY <1>2, <1>5, <2>1 DEF Firsts
<1>7. \A i \in 1..l : m + i \in P <=> b[i] \in T
  <2> SUFFICES ASSUME NEW i \in 1..l PROVE m + i \in P <=> b[i] \in T
    OBVIOUS
  <2>1. CASE b[i] \in T
    <3>1. ASSUME NEW j \in 1..((m + i) - 1) PROVE c[j] # c[m + i]
      <4>1. CASE j \in 1..m
        <5>1. c[j] \in A /\ c[m + i] = b[i]
          BY <1>1, <1>5, <4>1
        <5>2. b[i] \in B
          BY <1>1
        <5> QED BY <2>1, <5>1, <5>2
      <4>2. CASE j \notin 1..m
        <5>1. j - m \in 1..l /\ m + (j - m) = j /\ j - m # i
          BY <1>1, <4>2
        <5>2. c[j] = b[j - m]
          BY <1>5, <5>1
        <5> QED BY <1>1, <1>5, <5>1, <5>2
      <4> QED BY <4>1, <4>2
    <3> QED BY <1>2, <1>5, <2>1, <3>1 DEF Firsts
  <2>2. CASE b[i] \notin T
    <3>1. b[i] \in A
      BY <1>1, <2>2
    <3>2. PICK j \in 1..m : a[j] = b[i]
      BY <1>1, <3>1
    <3>3. j \in 1..((m + i) - 1) /\ c[j] = c[m + i]
      BY <1>1, <1>5, <3>2
    <3> QED BY <2>2, <3>3 DEF Firsts
  <2> QED BY <2>1, <2>2
<1>8. P \in SUBSET DOMAIN c
  BY DEF Firsts
<1> HIDE DEF P
<1>9. Orders(Along(c), P) /\ \A i, j \in P : <<i, j>> \in Along(c) <=> i < j
  <2>1. m + l \in Nat
    BY <1>1
  <2> QED BY <1>2, <1>8, <2>1, AlongOrders
\* Where it is in the new list.
<1>10. /\ \A i \in 1..m : i \in 1..(m + n) /\ f[i] = i
       /\ \A i \in 1..n : m + i \in 1..(m + n) /\ f[m + i] = m + q[i]
       /\ \A i \in 1..(m + n) : i \in 1..m \/ (i - m \in 1..n /\ m + (i - m) = i)
       /\ DOMAIN f = 1..(m + n)
  <2>1. ASSUME NEW i \in 1..n PROVE m + i \in 1..(m + n) /\ ~(m + i <= m) /\ (m + i) - m = i
    BY <1>1, <1>3
  <2>2. ASSUME NEW i \in 1..n PROVE f[m + i] = m + q[i]
    BY <2>1
  <2>3. \A i \in 1..m : i \in 1..(m + n) /\ f[i] = i
    BY <1>1, <1>3
  <2> QED BY <1>1, <1>3, <2>1, <2>2, <2>3
<1>11. f = [i \in 1..(m + n) |-> f[i]]
  OBVIOUS
<1> HIDE DEF f
<1>12. \A i \in 1..n : q[i] \in 1..l /\ m + q[i] \in P
  BY <1>4, <1>7
<1>13. \A i \in 1..(m + n) : f[i] \in P
  BY <1>6, <1>10, <1>12
<1>14. f \in [1..(m + n) -> P]
  BY <1>11, <1>13
<1>15. \A x \in P : \E i \in 1..(m + n) : f[i] = x
  <2> SUFFICES ASSUME NEW x \in P PROVE \E i \in 1..(m + n) : f[i] = x
    OBVIOUS
  <2>1. CASE x \in 1..m
    BY <1>10, <2>1
  <2>2. CASE x \notin 1..m
    <3>1. x - m \in 1..l /\ m + (x - m) = x
      BY <1>2, <1>5, <1>8, <2>2
    <3>2. b[x - m] \in T
      BY <1>7, <3>1
    <3>3. PICK j \in 1..n : q[j] = x - m
      BY <1>4, <3>1, <3>2
    <3>4. m + j \in 1..(m + n) /\ f[m + j] = m + (x - m)
      BY <1>10, <3>3
    <3> QED BY <3>1, <3>4
  <2> QED BY <2>1, <2>2
<1>16. \A i, j \in 1..(m + n) : i < j => f[i] < f[j]
  <2> SUFFICES ASSUME NEW i \in 1..(m + n), NEW j \in 1..(m + n), i < j PROVE f[i] < f[j]
    OBVIOUS
  <2>1. CASE j \in 1..m
    BY <1>1, <1>10, <2>1
  <2>2. CASE i \in 1..m /\ j \notin 1..m
    <3>1. j - m \in 1..n /\ m + (j - m) = j
      BY <1>10, <2>2
    <3>2. f[i] = i /\ f[j] = m + q[j - m] /\ q[j - m] \in 1..l
      BY <1>10, <1>12, <2>2, <3>1
    <3> QED BY <1>1, <2>2, <3>2
  <2>3. CASE i \notin 1..m
    <3>1. i - m \in 1..n /\ j - m \in 1..n /\ m + (i - m) = i /\ m + (j - m) = j /\ i - m < j - m
      BY <1>1, <1>3, <1>10, <2>3
    <3>2. /\ f[i] = m + q[i - m] /\ f[j] = m + q[j - m] /\ q[i - m] < q[j - m]
          /\ q[i - m] \in 1..l /\ q[j - m] \in 1..l
      BY <1>4, <1>10, <1>12, <3>1
    <3> QED BY <1>1, <3>2
  <2> QED BY <1>1, <1>3, <2>1, <2>2, <2>3
<1>17. \A i, j \in 1..(m + n) : i < j => <<f[i], f[j]>> \in Along(c)
  BY <1>9, <1>13, <1>16
<1>18. Cardinality(P) = m + n /\ Sorted(P, Along(c)) = f
  <2> DEFINE u == m + n
  <2>1. /\ u \in Nat /\ f \in [1..u -> P] /\ \A x \in P : \E i \in 1..u : f[i] = x
        /\ \A i, j \in 1..u : i < j => <<f[i], f[j]>> \in Along(c)
    BY <1>1, <1>3, <1>14, <1>15, <1>17
  <2> HIDE DEF u
  <2>2. Cardinality(P) = u /\ Sorted(P, Along(c)) = f
    BY <1>9, <2>1, SortedIs
  <2> QED BY <2>2 DEF u
<1>19. Arranged(c, P, Along(c)) = [i \in 1..(m + n) |-> c[f[i]]]
  BY <1>18 DEF Arranged
<1>20. a \o k = [i \in 1..(m + n) |-> c[f[i]]]
  <2> DEFINE d == a \o k
  <2>1. Len(a) = m /\ Len(k) = n
    BY DEF m, n
  <2>2. /\ d = [i \in 1..(m + n) |-> d[i]]
        /\ \A i \in 1..(m + n) : d[i] = IF i <= m THEN a[i] ELSE k[i - m]
    <3>1. /\ d \in Seq(A \cup B) /\ Len(d) = m + n
          /\ \A i \in 1..(m + n) : d[i] = IF i <= m THEN a[i] ELSE k[i - m]
      <4>1. a \in Seq(A \cup B) /\ k \in Seq(A \cup B)
        BY <1>1, <1>3
      <4>2. /\ d \in Seq(A \cup B) /\ Len(d) = Len(a) + Len(k)
            /\ \A i \in 1..(Len(a) + Len(k)) : d[i] = IF i <= Len(a) THEN a[i] ELSE k[i - Len(a)]
        BY <4>1, ConcatProperties
      <4> HIDE DEF d
      <4> QED BY <2>1, <4>2
    <3> HIDE DEF d
    <3>2. d = [i \in 1..Len(d) |-> d[i]]
      BY <3>1
    <3> QED BY <3>1, <3>2
  <2> HIDE DEF d
  <2>3. ASSUME NEW i \in 1..(m + n) PROVE d[i] = c[f[i]]
    <3>1. CASE i \in 1..m
      BY <1>1, <1>5, <1>10, <2>2, <3>1
    <3>2. CASE i \notin 1..m
      <4>1. i - m \in 1..n /\ ~(i <= m) /\ m + (i - m) = i
        BY <1>1, <1>3, <1>10, <3>2
      <4>2. f[i] = m + q[i - m] /\ q[i - m] \in 1..l
        BY <1>10, <1>12, <4>1
      <4>3. c[f[i]] = b[q[i - m]] /\ k[i - m] = b[q[i - m]]
        BY <1>4, <1>5, <4>1, <4>2
      <4> QED BY <2>2, <4>1, <4>3
    <3> QED BY <3>1, <3>2
  <2> QED BY <2>2, <2>3 DEF d
<1> QED BY <1>19, <1>20 DEF c, k, P
=============================================================================
