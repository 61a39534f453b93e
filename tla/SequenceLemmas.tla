----------------------------- MODULE SequenceLemmas ------------------------------
(***************************************************************************)
(* Facts about numbers, sequences and folds that the proofs of several     *)
(* components need and the library does not have.  Induction has the form  *)
(* "a set of numbers that has 0 and the successors of its elements has all *)
(* numbers", from the library's theorem on least elements, so that no      *)
(* operator is a parameter; with it the recursive function that a fold of  *)
(* the community modules evaluates is shown to exist (FoldExists), and its *)
(* value to be the sum, the concatenation or the selection it stands for.  *)
(* The last sections are about sequences without repetition: what lists    *)
(* the elements of a set, and what deals them to several sequences.        *)
(***************************************************************************)
EXTENDS Integers, SequencesExt, SequenceTheorems, FiniteSetTheorems,
        WellFoundedInduction, TLAPS

-----------------------------------------------------------------------------
(* Induction.                                                              *)

\* The order of the natural numbers is well founded. This is the library's
\* theorem, stated with an order that is a set, so that no operator is a
\* parameter.
LEMMA LessThanWellFounded ==
  \E R : IsWellFoundedOn(R, Nat) /\ \A m, n \in Nat : m < n => <<m, n>> \in R
<1> DEFINE R == {ss \in Nat \X Nat : ss[1] < ss[2]}
<1>1. R = OpToRel(<, Nat)
  BY Zenon DEF OpToRel
<1>2. IsWellFoundedOn(R, Nat)
  BY <1>1, NatLessThanWellFounded, Zenon
<1>3. \A m, n \in Nat : m < n => <<m, n>> \in R
  OBVIOUS
<1> HIDE DEF R
<1> QED BY <1>2, <1>3

\* A nonempty set of natural numbers has a least element.
LEMMA LeastNumber ==
  ASSUME NEW T \in SUBSET Nat, T # {}
  PROVE  \E n \in T : \A m \in T : n <= m
<1>1. PICK R : IsWellFoundedOn(R, Nat) /\ \A m, n \in Nat : m < n => <<m, n>> \in R
  BY LessThanWellFounded
<1>2. IsWellFoundedOn(R, Nat)
  BY <1>1
<1>3. T \subseteq Nat
  OBVIOUS
<1>4. \E n \in T : \A m \in T : ~ (<<m, n>> \in R)
  BY ONLY <1>2, <1>3, WFMin, T # {}
<1>5. PICK n \in T : \A m \in T : ~ (<<m, n>> \in R)
  BY <1>4
<1>6. \A m \in T : ~ (m < n)
  BY <1>1, <1>5
<1> QED BY <1>6

\* A set of natural numbers that has 0 and the successors of its elements has
\* all.
LEMMA Induction ==
  ASSUME NEW T \in SUBSET Nat, 0 \in T, \A n \in T : n + 1 \in T
  PROVE  T = Nat
<1> SUFFICES ASSUME T # Nat PROVE FALSE
  OBVIOUS
<1>1. PICK n \in Nat \ T : \A m \in Nat \ T : n <= m
  BY LeastNumber
<1>2. n # 0 /\ n - 1 \in Nat
  BY <1>1
<1>3. n - 1 \in T
  BY <1>1, <1>2
<1>4. n - 1 + 1 = n
  BY <1>1
<1> QED BY <1>1, <1>3, <1>4

\* Induction up to a bound.
LEMMA InductionTo ==
  ASSUME NEW n \in Nat, NEW T, 0 \in T, \A k \in 0..(n - 1) : k \in T => k + 1 \in T
  PROVE  \A k \in 0..n : k \in T
<1> DEFINE U == {k \in Nat : k <= n => k \in T}
<1>1. 0 \in U
  OBVIOUS
<1>2. \A k \in U : k + 1 \in U
  OBVIOUS
<1>3. U \in SUBSET Nat
  OBVIOUS
<1> HIDE DEF U
<1>4. U = Nat
  BY <1>1, <1>2, <1>3, Induction
<1> QED BY <1>4 DEF U

-----------------------------------------------------------------------------
(* Folds.                                                                  *)

\* The greatest element of a nonempty set of indices is what Max chooses.
LEMMA MaxOfSet ==
  ASSUME NEW n \in Nat, NEW s \in SUBSET (1..n), s # {}
  PROVE  Max(s) \in s /\ \A x \in s : x <= Max(s)
<1> DEFINE T == {k \in 0..n : n - k \in s}
<1>1. \A x \in s : x \in 1..n /\ n - x \in 0..n /\ n - (n - x) = x
  OBVIOUS
<1>2. \A x \in s : n - x \in T
  BY <1>1
<1>3. T \in SUBSET Nat /\ T # {}
  <2>1. PICK x \in s : TRUE
    OBVIOUS
  <2>2. n - x \in T
    BY <1>2
  <2>3. T \subseteq Nat
    OBVIOUS
  <2> HIDE DEF T
  <2> QED BY <2>2, <2>3
<1>4. PICK k \in T : \A m \in T : k <= m
  <2> HIDE DEF T
  <2> QED BY <1>3, LeastNumber
<1>5. n - k \in s /\ k \in 0..n
  OBVIOUS
<1>6. \A x \in s : n - k >= x
  <2> TAKE x \in s
  <2>1. k <= n - x
    BY <1>2, <1>4
  <2> QED BY <1>1, <1>5, <2>1
<1> HIDE DEF T
<1>7. \E m \in s : \A x \in s : m >= x
  BY <1>5, <1>6
<1>8. Max(s) \in s /\ \A x \in s : Max(s) >= x
  BY <1>7, Zenon DEF Max
<1> QED BY <1>1, <1>8

\* The last index is the greatest.
LEMMA MaxAtTheEnd ==
  ASSUME NEW n \in Nat, NEW s \in SUBSET (1..(n + 1)), n + 1 \in s
  PROVE  Max(s) = n + 1
<1>1. Max(s) \in s /\ \A x \in s : x <= Max(s)
  <2>1. n + 1 \in Nat /\ s # {}
    OBVIOUS
  <2> QED BY ONLY <2>1, MaxOfSet, s \in SUBSET (1..(n + 1))
<1>2. Max(s) \in 1..(n + 1) /\ n + 1 <= Max(s)
  BY <1>1
<1> QED BY <1>2

\* g goes through the elements of a set of numbers, the largest last.
Folds(g, n, base, F) ==
  \A s \in SUBSET (1..n) :
    g[s] = IF s = {} THEN base ELSE F[<<Max(s), g[s \ {Max(s)}]>>]

\* The recursive function that FoldLeft evaluates exists.
LEMMA FoldExists ==
  ASSUME NEW n \in Nat, NEW V, NEW base \in V, NEW F \in [(1..n) \X V -> V]
  PROVE  \E g \in [SUBSET (1..n) -> V] : Folds(g, n, base, F)
<1> DEFINE Is(g, k) ==
             \A s \in SUBSET (1..k) :
               g[s] = IF s = {} THEN base ELSE F[<<Max(s), g[s \ {Max(s)}]>>]
           T == {k \in 0..n : \E g \in [SUBSET (1..k) -> V] : Is(g, k)}
<1>1. 0 \in T
  <2> DEFINE g == [s \in SUBSET (1..0) |-> base]
  <2>1. g \in [SUBSET (1..0) -> V]
    OBVIOUS
  <2>2. \A s \in SUBSET (1..0) : s = {} /\ g[s] = base
    OBVIOUS
  <2>3. Is(g, 0)
    <3> HIDE DEF g
    <3> QED BY <2>2
  <2> HIDE DEF g, Is
  <2>4. \E f \in [SUBSET (1..0) -> V] : Is(f, 0)
    BY <2>1, <2>3
  <2>5. 0 \in 0..n
    OBVIOUS
  <2> QED BY <2>4, <2>5
<1>2. ASSUME NEW k \in 0..(n - 1), k \in T
      PROVE  k + 1 \in T
  <2>1. PICK g \in [SUBSET (1..k) -> V] : Is(g, k)
    BY <1>2
  <2> DEFINE h == [s \in SUBSET (1..(k + 1)) |->
                     IF k + 1 \in s THEN F[<<k + 1, g[s \ {k + 1}]>>] ELSE g[s]]
  <2>2. ASSUME NEW s \in SUBSET (1..(k + 1)), k + 1 \in s
        PROVE  /\ h[s] = F[<<Max(s), h[s \ {Max(s)}]>>]
               /\ h[s] \in V
    <3>1. Max(s) = k + 1
      BY <2>2, MaxAtTheEnd
    <3>2. s \ {k + 1} \in SUBSET (1..k)
      OBVIOUS
    <3>3. h[s \ {k + 1}] = g[s \ {k + 1}] /\ g[s \ {k + 1}] \in V
      BY <3>2
    <3>4. h[s] = F[<<k + 1, g[s \ {k + 1}]>>]
      BY <2>2
    <3>5. <<k + 1, g[s \ {k + 1}]>> \in (1..n) \X V
      BY <3>3
    <3> HIDE DEF h
    <3> QED BY <3>1, <3>3, <3>4, <3>5
  <2>3. ASSUME NEW s \in SUBSET (1..(k + 1)), k + 1 \notin s
        PROVE  /\ h[s] = IF s = {} THEN base ELSE F[<<Max(s), h[s \ {Max(s)}]>>]
               /\ h[s] \in V
    <3>1. s \in SUBSET (1..k) /\ s \ {Max(s)} \in SUBSET (1..k)
      <4>1. s \subseteq 1..k
        BY <2>3
      <4> QED BY <4>1
    <3>2. h[s] = g[s] /\ g[s] \in V
      BY <2>3, <3>1
    <3>3. h[s \ {Max(s)}] = g[s \ {Max(s)}]
      BY <2>3, <3>1
    <3> HIDE DEF h
    <3> QED BY <2>1, <3>1, <3>2, <3>3
  <2>4. h \in [SUBSET (1..(k + 1)) -> V]
    BY <2>2, <2>3
  <2>5. Is(h, k + 1)
    <3> HIDE DEF h
    <3> QED BY <2>2, <2>3
  <2> HIDE DEF h, Is
  <2> QED BY <2>4, <2>5
<1> HIDE DEF T
<1>3. \A k \in 0..n : k \in T
  BY <1>1, <1>2, InductionTo
<1>4. n \in T
  BY <1>3
<1> QED BY <1>4, Zenon DEF T, Folds

-----------------------------------------------------------------------------
(* Sums of sequences of integers.                                          *)

\* t is the sum of the elements of d: there are running totals that end in t.
IsTotal(d, t) ==
  \E R \in [0..Len(d) -> Int] :
    /\ R[0] = 0
    /\ \A k \in 1..Len(d) : R[k] = R[k - 1] + d[k]
    /\ t = R[Len(d)]

\* A sequence of integers has a sum ...
LEMMA TotalIsInt ==
  ASSUME NEW d \in Seq(Int), NEW t, IsTotal(d, t)
  PROVE  t \in Int
BY DEF IsTotal

\* ... and only one.
LEMMA TotalUnique ==
  ASSUME NEW d \in Seq(Int), NEW t, NEW u, IsTotal(d, t), IsTotal(d, u)
  PROVE  t = u
<1>1. PICK R \in [0..Len(d) -> Int] :
        R[0] = 0 /\ (\A k \in 1..Len(d) : R[k] = R[k - 1] + d[k]) /\ t = R[Len(d)]
  BY DEF IsTotal
<1>2. PICK Q \in [0..Len(d) -> Int] :
        Q[0] = 0 /\ (\A k \in 1..Len(d) : Q[k] = Q[k - 1] + d[k]) /\ u = Q[Len(d)]
  BY DEF IsTotal
<1> DEFINE T == {k \in 0..Len(d) : R[k] = Q[k]}
<1>3. 0 \in T
  BY <1>1, <1>2
<1>4. ASSUME NEW k \in 0..(Len(d) - 1), k \in T
      PROVE  k + 1 \in T
  <2>1. k + 1 \in 1..Len(d) /\ k + 1 - 1 = k /\ R[k] = Q[k]
    BY <1>4
  <2>2. R[k + 1] = R[k] + d[k + 1] /\ Q[k + 1] = Q[k] + d[k + 1]
    BY <1>1, <1>2, <2>1
  <2> QED BY <2>1, <2>2
<1> HIDE DEF T
<1>5. \A k \in 0..Len(d) : k \in T
  <2>1. Len(d) \in Nat
    OBVIOUS
  <2> QED BY ONLY <1>3, <1>4, <2>1, InductionTo
<1> QED BY <1>1, <1>2, <1>5 DEF T

\* The total of no numbers is 0.
LEMMA TotalOfNone == IsTotal(<<>>, 0)
<1> DEFINE R == [k \in 0..0 |-> 0]
<1>1. R \in [0..Len(<<>>) -> Int] /\ R[0] = 0 /\ 0 = R[Len(<<>>)]
  OBVIOUS
<1>2. \A k \in 1..Len(<<>>) : R[k] = R[k - 1] + (<<>>)[k]
  OBVIOUS
<1> QED BY <1>1, <1>2 DEF IsTotal

\* The total of one number more.
LEMMA TotalOfAppend ==
  ASSUME NEW d \in Seq(Int), NEW x \in Int, NEW t, IsTotal(d, t)
  PROVE  IsTotal(Append(d, x), t + x)
<1>1. PICK R \in [0..Len(d) -> Int] :
        R[0] = 0 /\ (\A k \in 1..Len(d) : R[k] = R[k - 1] + d[k]) /\ t = R[Len(d)]
  BY DEF IsTotal
<1> DEFINE n == Len(d)
           e == Append(d, x)
           Q == [k \in 0..(n + 1) |-> IF k = n + 1 THEN t + x ELSE R[k]]
<1>2. Len(e) = n + 1 /\ n \in Nat /\ e[n + 1] = x /\ \A k \in 1..n : e[k] = d[k]
  OBVIOUS
<1>3. Q \in [0..(n + 1) -> Int] /\ Q[0] = 0 /\ Q[n + 1] = t + x /\ Q[n] = t
  BY <1>1, <1>2
<1>4. \A k \in 1..n : Q[k] = R[k] /\ Q[k - 1] = R[k - 1]
  BY <1>2
<1>5. ASSUME NEW k \in 1..(n + 1) PROVE Q[k] = Q[k - 1] + e[k]
  <2>1. CASE k = n + 1
    BY <2>1, <1>2, <1>3
  <2>2. CASE k \in 1..n
    BY <2>2, <1>1, <1>2, <1>4
  <2> QED BY <2>1, <2>2, <1>2
<1> HIDE DEF Q, e, n
<1> QED BY <1>2, <1>3, <1>5 DEF IsTotal, e

\* The sum of natural numbers is one, and not less than that of a prefix.
LEMMA TotalOfNats ==
  ASSUME NEW d \in Seq(Nat), NEW t, IsTotal(d, t)
  PROVE  t \in Nat
<1>1. PICK R \in [0..Len(d) -> Int] :
        R[0] = 0 /\ (\A k \in 1..Len(d) : R[k] = R[k - 1] + d[k]) /\ t = R[Len(d)]
  BY DEF IsTotal
<1> DEFINE T == {k \in 0..Len(d) : R[k] \in Nat}
<1>2. 0 \in T
  BY <1>1
<1>3. ASSUME NEW k \in 0..(Len(d) - 1), k \in T
      PROVE  k + 1 \in T
  <2>1. k + 1 \in 1..Len(d) /\ k + 1 - 1 = k /\ R[k] \in Nat /\ d[k + 1] \in Nat
    BY <1>3
  <2>2. R[k + 1] = R[k] + d[k + 1]
    BY <1>1, <2>1
  <2> QED BY <2>1, <2>2
<1> HIDE DEF T
<1>4. \A k \in 0..Len(d) : k \in T
  <2>1. Len(d) \in Nat
    OBVIOUS
  <2> QED BY ONLY <1>2, <1>3, <2>1, InductionTo
<1> QED BY <1>1, <1>4 DEF T

\* What the recursive function of FoldLeft returns for a sum.
LEMMA SumByFold ==
  ASSUME NEW d \in Seq(Int), NEW iter,
         \A s \in SUBSET (1..Len(d)) :
           iter[s] = IF s = {} THEN 0 ELSE iter[s \ {Max(s)}] + d[Max(s)]
  PROVE  IsTotal(d, iter[1..Len(d)])
<1> DEFINE n == Len(d)
           T == {k \in 0..n : iter[1..k] \in Int}
           R == [k \in 0..n |-> iter[1..k]]
<1>0. n \in Nat
  OBVIOUS
<1>1. iter[1..0] = 0
  <2>1. 1..0 = {}
    OBVIOUS
  <2> QED BY <2>1
<1>2. ASSUME NEW k \in 1..n
      PROVE  iter[1..k] = iter[1..(k - 1)] + d[k]
  <2>1. k \in 1..k /\ 1..k \in SUBSET (1..n) /\ k - 1 \in Nat /\ k - 1 + 1 = k
    BY <1>0
  <2>2. Max(1..k) = k
    <3>1. (k - 1) + 1 \in 1..k /\ 1..k \in SUBSET (1..((k - 1) + 1))
      BY <2>1
    <3> QED BY <2>1, <3>1, MaxAtTheEnd
  <2>3. 1..k \ {k} = 1..(k - 1)
    BY <2>1
  <2> QED BY <2>1, <2>2, <2>3
<1>3. 0 \in T
  BY <1>0, <1>1
<1>4. ASSUME NEW k \in 0..(n - 1), k \in T
      PROVE  k + 1 \in T
  <2>1. k + 1 \in 1..n /\ k + 1 - 1 = k /\ iter[1..k] \in Int /\ d[k + 1] \in Int
    BY <1>4
  <2>2. iter[1..(k + 1)] = iter[1..k] + d[k + 1]
    BY <1>2, <2>1
  <2> QED BY <2>1, <2>2
<1>5. \A k \in 0..n : k \in T
  <2> HIDE DEF T, n
  <2> QED BY <1>0, <1>3, <1>4, InductionTo
<1>6. R \in [0..n -> Int]
  BY <1>5
<1>7. R[0] = 0 /\ R[n] = iter[1..n]
  BY <1>0, <1>1
<1>8. \A k \in 1..n : R[k] = R[k - 1] + d[k]
  BY <1>2, <1>0
<1> HIDE DEF R
<1> QED BY <1>6, <1>7, <1>8 DEF IsTotal

-----------------------------------------------------------------------------
(* Sequences put together from parts.                                      *)

\* Two neighbouring parts of a sequence make one.
LEMMA JoinParts ==
  ASSUME NEW V, NEW n \in Nat, NEW f \in [1..n -> V], NEW a \in 0..n, NEW b \in 0..n, a <= b
  PROVE  [k \in 1..a |-> f[k]] \o [k \in 1..(b - a) |-> f[a + k]]
         = [k \in 1..b |-> f[k]]
<1> DEFINE s == [k \in 1..a |-> f[k]]
           t == [k \in 1..(b - a) |-> f[a + k]]
<1>1. s \in Seq(V) /\ Len(s) = a
  OBVIOUS
<1>2. t \in Seq(V) /\ Len(t) = b - a
  <2>1. b - a \in Nat /\ \A k \in 1..(b - a) : a + k \in 1..n
    OBVIOUS
  <2>2. \A k \in 1..(b - a) : t[k] \in V
    BY <2>1
  <2> QED BY <2>1, <2>2
<1>3. s \o t \in Seq(V) /\ Len(s \o t) = b
  <2>1. a + (b - a) = b
    OBVIOUS
  <2> HIDE DEF s, t
  <2> QED BY <1>1, <1>2, <2>1
<1>4. \A k \in 1..b : (s \o t)[k] = f[k]
  <2> TAKE k \in 1..b
  <2>1. CASE k <= a
    <3>1. k \in 1..a
      BY <2>1
    <3>2. (s \o t)[k] = s[k]
      <4> HIDE DEF s, t
      <4> QED BY <1>1, <1>2, <3>1
    <3> QED BY <3>1, <3>2
  <2>2. CASE k > a
    <3>1. k - a \in 1..(b - a) /\ a + (k - a) = k
      BY <2>2
    <3>2. (s \o t)[k] = t[k - a]
      <4> HIDE DEF s, t
      <4> QED BY <1>1, <1>2, <2>2, <3>1, a + (b - a) = b
    <3>3. t[k - a] = f[a + (k - a)]
      BY <3>1
    <3> QED BY <3>1, <3>2, <3>3
  <2> QED BY <2>1, <2>2
<1>5. [k \in 1..b |-> f[k]] \in Seq(V) /\ Len([k \in 1..b |-> f[k]]) = b
  OBVIOUS
<1> DEFINE u == [k \in 1..b |-> f[k]]
<1>6. u \in Seq(V) /\ Len(u) = b /\ \A k \in 1..b : (s \o t)[k] = u[k]
  <2>1. \A k \in 1..b : u[k] = f[k]
    OBVIOUS
  <2> HIDE DEF s, t, u
  <2> QED BY <1>4, <1>5, <2>1 DEF u
<1> HIDE DEF s, t, u
<1>7. s \o t = u
  BY <1>3, <1>6, SeqEqual
<1> QED BY <1>7 DEF s, t, u

\* Part i of m is what is after B[i - 1] and up to B[i] of the n elements of f.
CutInto(f, n, parts, m, B) ==
  /\ B \in [0..m -> 0..n] /\ B[0] = 0 /\ B[m] = n
  /\ \A i \in 1..m : B[i - 1] <= B[i]
  /\ parts = [i \in 1..m |-> [k \in 1..(B[i] - B[i - 1]) |-> f[B[i - 1] + k]]]

\* A sequence cut into consecutive parts is put together again.
LEMMA FlattenParts ==
  ASSUME NEW V, NEW n \in Nat, NEW f \in [1..n -> V], NEW m \in Nat \ {0},
         NEW B, NEW parts, CutInto(f, n, parts, m, B)
  PROVE  FlattenSeq(parts) = f
<1>0. /\ B \in [0..m -> 0..n] /\ B[0] = 0 /\ B[m] = n
      /\ \A i \in 1..m : B[i - 1] <= B[i]
      /\ parts = [i \in 1..m |-> [k \in 1..(B[i] - B[i - 1]) |-> f[B[i - 1] + k]]]
  BY DEF CutInto
<1> DEFINE Is(g) == g = [i \in 1..m |-> IF i = 1 THEN parts[i]
                                        ELSE g[i - 1] \o parts[i]]
           c == [i \in 1..m |-> [k \in 1..B[i] |-> f[k]]]
           flatten == CHOOSE g : Is(g)
<1>1. Len(parts) = m /\ m # 0
  BY <1>0
<1>2. ASSUME NEW i \in 1..m
      PROVE  c[i] = IF i = 1 THEN parts[i] ELSE c[i - 1] \o parts[i]
  <2>1. CASE i = 1
    <3>1. i - 1 = 0 /\ B[i] - B[i - 1] = B[i] /\ \A k \in 1..B[i] : B[i - 1] + k = k
      BY <1>0, <2>1
    <3> QED BY <1>0, <2>1, <3>1
  <2>2. CASE i # 1
    <3>1. i - 1 \in 1..m /\ i - 1 \in 0..m
      BY <2>2
    <3> DEFINE a == B[i - 1]
               b == B[i]
    <3>2. a \in 0..n /\ b \in 0..n /\ a <= b
      BY <1>0, <3>1
    <3>3. [k \in 1..a |-> f[k]] \o [k \in 1..(b - a) |-> f[a + k]]
          = [k \in 1..b |-> f[k]]
      <4> HIDE DEF a, b, Is, c, flatten
      <4> QED BY <3>2, JoinParts
    <3>4. c[i - 1] = [k \in 1..B[i - 1] |-> f[k]] /\ c[i] = [k \in 1..B[i] |-> f[k]]
          /\ parts[i] = [k \in 1..(B[i] - B[i - 1]) |-> f[B[i - 1] + k]]
      BY <1>0, <3>1
    <3> HIDE DEF c
    <3> QED BY <2>2, <3>3, <3>4
  <2> QED BY <2>1, <2>2
<1>3. Is(c)
  <2>1. c = [i \in 1..m |-> c[i]]
    OBVIOUS
  <2> HIDE DEF c
  <2> QED BY <1>2, <2>1
<1>4. Is(flatten)
  <2> HIDE DEF Is, c
  <2> QED BY <1>3
<1>5. \A i \in 1..m : flatten[i] = IF i = 1 THEN parts[i] ELSE flatten[i - 1] \o parts[i]
  <2> HIDE DEF flatten
  <2> QED BY <1>4
<1>12. /\ flatten[1] = parts[1] /\ c[1] = parts[1]
      /\ \A k \in 1..(m - 1) : /\ flatten[k + 1] = flatten[k] \o parts[k + 1]
                               /\ c[k + 1] = c[k] \o parts[k + 1]
  <2> HIDE DEF flatten, c
  <2>1. 1 \in 1..m
    OBVIOUS
  <2>2. ASSUME NEW k \in 1..(m - 1)
        PROVE  /\ flatten[k + 1] = flatten[k] \o parts[k + 1]
               /\ c[k + 1] = c[k] \o parts[k + 1]
    <3> DEFINE i == k + 1
    <3>1. i \in 1..m /\ i # 1 /\ i - 1 = k
      OBVIOUS
    <3> HIDE DEF i
    <3>2. flatten[i] = flatten[i - 1] \o parts[i] /\ c[i] = c[i - 1] \o parts[i]
      BY <1>2, <1>5, <3>1
    <3> QED BY <3>1, <3>2 DEF i
  <2> QED BY <1>2, <1>5, <2>1, <2>2
<1> DEFINE T == {k \in 0..m : k = 0 \/ flatten[k] = c[k]}
<1>6. 0 \in T
  OBVIOUS
<1>7. ASSUME NEW k \in 0..(m - 1), k \in T
      PROVE  k + 1 \in T
  <2> HIDE DEF flatten, c
  <2>1. k + 1 \in 1..m /\ k + 1 - 1 = k
    OBVIOUS
  <2>2. flatten[k + 1] = c[k + 1]
    <3>1. CASE k = 0
      BY <1>12, <3>1
    <3>2. CASE k # 0
      <4>1. k \in 1..(m - 1) /\ flatten[k] = c[k]
        BY <1>7, <3>2
      <4> QED BY <1>12, <4>1
    <3> QED BY <3>1, <3>2
  <2> QED BY <2>1, <2>2
<1>8. \A k \in 0..m : k \in T
  <2> HIDE DEF T
  <2> QED BY <1>6, <1>7, InductionTo
<1>9. flatten[m] = c[m]
  <2> HIDE DEF flatten, c
  <2>1. m \in T /\ m # 0
    BY <1>8
  <2> QED BY <2>1
<1>10. c[m] = f
  BY <1>0
<1>11. FlattenSeq(parts) = flatten[m]
  <2> HIDE DEF c, T
  <2> QED BY <1>1, Zenon DEF FlattenSeq
<1> QED BY <1>9, <1>10, <1>11

-----------------------------------------------------------------------------
(* The elements of a sequence that are in a set.                           *)

\* r has the elements of the first n of d that are in the set, in their order.
KeptUpTo(d, n, set, r) ==
  \E e \in [1..Len(r) -> 1..n] :
    /\ \A i \in 1..Len(r) : r[i] = d[e[i]] /\ d[e[i]] \in set
    /\ \A i, j \in 1..Len(r) : i < j => e[i] < e[j]
    /\ \A p \in 1..n : d[p] \in set => \E i \in 1..Len(r) : e[i] = p

\* Nothing is kept of nothing.
LEMMA KeptOfNone ==
  ASSUME NEW d, NEW set
  PROVE  KeptUpTo(d, 0, set, <<>>)
<1>1. Len(<<>>) = 0 /\ 1..0 = {}
  OBVIOUS
<1> DEFINE e == [i \in 1..0 |-> 0]
<1>2. e \in [1..0 -> 1..0]
  OBVIOUS
<1> HIDE DEF e
<1> QED BY <1>1, <1>2 DEF KeptUpTo

\* What is kept of one element more.
LEMMA KeptOneMore ==
  ASSUME NEW V, NEW d \in Seq(V), NEW n \in Nat, n < Len(d), NEW set, NEW r \in Seq(V),
         KeptUpTo(d, n, set, r)
  PROVE  KeptUpTo(d, n + 1, set, IF d[n + 1] \in set THEN Append(r, d[n + 1]) ELSE r)
<1>1. PICK e \in [1..Len(r) -> 1..n] :
        /\ \A i \in 1..Len(r) : r[i] = d[e[i]] /\ d[e[i]] \in set
        /\ \A i, j \in 1..Len(r) : i < j => e[i] < e[j]
        /\ \A p \in 1..n : d[p] \in set => \E i \in 1..Len(r) : e[i] = p
  BY DEF KeptUpTo
<1>2. CASE d[n + 1] \notin set
  <2>1. e \in [1..Len(r) -> 1..(n + 1)]
    OBVIOUS
  <2>2. \A p \in 1..(n + 1) : d[p] \in set => p \in 1..n
    BY <1>2
  <2>3. KeptUpTo(d, n + 1, set, r)
    BY <1>1, <2>1, <2>2 DEF KeptUpTo
  <2> QED BY <1>2, <2>3
<1>3. CASE d[n + 1] \in set
  <2> DEFINE m == Len(r)
             q == Append(r, d[n + 1])
             h == [i \in 1..(m + 1) |-> IF i = m + 1 THEN n + 1 ELSE e[i]]
  <2>1. m \in Nat /\ Len(q) = m + 1 /\ q[m + 1] = d[n + 1] /\ \A i \in 1..m : q[i] = r[i]
    OBVIOUS
  <2>2. h \in [1..(m + 1) -> 1..(n + 1)] /\ h[m + 1] = n + 1 /\ \A i \in 1..m : h[i] = e[i]
    BY <2>1
  <2>3. \A i \in 1..(m + 1) : i = m + 1 \/ i \in 1..m
    BY <2>1
  <2> HIDE DEF m, q, h
  <2>4. \A i \in 1..(m + 1) : q[i] = d[h[i]] /\ d[h[i]] \in set
    BY <1>1, <1>3, <2>1, <2>2, <2>3 DEF m
  <2>5. \A i, j \in 1..(m + 1) : i < j => h[i] < h[j]
    <3> SUFFICES ASSUME NEW i \in 1..(m + 1), NEW j \in 1..(m + 1), i < j
                 PROVE  h[i] < h[j]
      OBVIOUS
    <3>1. i \in 1..m /\ h[i] = e[i] /\ e[i] \in 1..n
      <4>1. i \in 1..m
        BY ONLY <2>1, i \in 1..(m + 1), j \in 1..(m + 1), i < j
      <4>2. h[i] = e[i]
        BY ONLY <2>2, <4>1
      <4>3. e[i] \in 1..n
        BY <1>1, <4>1 DEF m
      <4> QED BY ONLY <4>1, <4>2, <4>3
    <3>2. CASE j = m + 1
      BY <2>2, <3>1, <3>2
    <3>3. CASE j \in 1..m
      BY <1>1, <2>2, <3>1, <3>3 DEF m
    <3> QED BY ONLY <2>3, <3>2, <3>3, j \in 1..(m + 1)
  <2>6. \A p \in 1..(n + 1) : d[p] \in set => \E i \in 1..(m + 1) : h[i] = p
    <3> SUFFICES ASSUME NEW p \in 1..(n + 1), d[p] \in set
                 PROVE  \E i \in 1..(m + 1) : h[i] = p
      OBVIOUS
    <3>1. CASE p = n + 1
      BY <2>1, <2>2, <3>1
    <3>2. CASE p \in 1..n
      <4>1. PICK i \in 1..m : e[i] = p
        BY <1>1, <3>2 DEF m
      <4> QED BY <2>1, <2>2, <4>1
    <3> QED BY <3>1, <3>2
  <2>7. KeptUpTo(d, n + 1, set, q)
    <3>1. 1..(m + 1) = 1..Len(q)
      BY <2>1
    <3>2. h \in [1..Len(q) -> 1..(n + 1)]
      BY <2>2, <3>1
    <3>3. \A i \in 1..Len(q) : q[i] = d[h[i]] /\ d[h[i]] \in set
      BY <2>4, <3>1
    <3>4. \A i, j \in 1..Len(q) : i < j => h[i] < h[j]
      BY <2>5, <3>1
    <3>5. \A p \in 1..(n + 1) : d[p] \in set => \E i \in 1..Len(q) : h[i] = p
      BY <2>6, <3>1
    <3> QED BY <3>2, <3>3, <3>4, <3>5, Zenon DEF KeptUpTo
  <2> QED BY <1>3, <2>7 DEF q
<1> QED BY <1>2, <1>3

\* What the recursive function of FoldLeft returns for a selection.
LEMMA KeptByFold ==
  ASSUME NEW V, NEW d \in Seq(V), NEW set, NEW iter,
         \A s \in SUBSET (1..Len(d)) :
           iter[s] = IF s = {} THEN <<>>
                     ELSE IF d[Max(s)] \in set
                     THEN Append(iter[s \ {Max(s)}], d[Max(s)])
                     ELSE iter[s \ {Max(s)}]
  PROVE  KeptUpTo(d, Len(d), set, iter[1..Len(d)]) /\ iter[1..Len(d)] \in Seq(V)
<1> DEFINE n == Len(d)
           T == {k \in 0..n : KeptUpTo(d, k, set, iter[1..k]) /\ iter[1..k] \in Seq(V)}
<1>0. n \in Nat
  OBVIOUS
<1>1. iter[1..0] = <<>>
  <2>1. 1..0 = {}
    OBVIOUS
  <2> QED BY <2>1
<1>2. ASSUME NEW k \in 1..n
      PROVE  iter[1..k] = IF d[k] \in set THEN Append(iter[1..(k - 1)], d[k])
                                          ELSE iter[1..(k - 1)]
  <2>1. k \in 1..k /\ 1..k \in SUBSET (1..n) /\ k - 1 \in Nat /\ k - 1 + 1 = k
    BY <1>0
  <2>2. Max(1..k) = k
    <3>1. (k - 1) + 1 \in 1..k /\ 1..k \in SUBSET (1..((k - 1) + 1))
      BY <2>1
    <3> QED BY <2>1, <3>1, MaxAtTheEnd
  <2>3. 1..k \ {k} = 1..(k - 1)
    BY <2>1
  <2> QED BY <2>1, <2>2, <2>3
<1>3. 0 \in T
  <2>1. <<>> \in Seq(V)
    OBVIOUS
  <2>2. KeptUpTo(d, 0, set, <<>>)
    BY KeptOfNone
  <2>3. KeptUpTo(d, 0, set, iter[1..0]) /\ iter[1..0] \in Seq(V)
    BY <1>1, <2>1, <2>2
  <2> QED BY <1>0, <2>3
<1>4. ASSUME NEW k \in 0..(n - 1), k \in T
      PROVE  k + 1 \in T
  <2> DEFINE r == iter[1..k]
             x == d[k + 1]
  <2>1. k \in Nat /\ k < Len(d) /\ k + 1 \in 1..n /\ k + 1 - 1 = k /\ x \in V
    BY <1>4
  <2>2. r \in Seq(V) /\ KeptUpTo(d, k, set, r)
    BY <1>4
  <2>3. iter[1..(k + 1)] = IF x \in set THEN Append(r, x) ELSE r
    BY <1>2, <2>1
  <2> HIDE DEF r, n, T
  <2>4. KeptUpTo(d, k + 1, set, iter[1..(k + 1)])
    <3>1. KeptUpTo(d, k + 1, set, IF d[k + 1] \in set THEN Append(r, d[k + 1]) ELSE r)
      BY ONLY <2>1, <2>2, d \in Seq(V), KeptOneMore
    <3> QED BY <2>3, <3>1
  <2>5. iter[1..(k + 1)] \in Seq(V)
    BY <2>1, <2>2, <2>3
  <2> QED BY <2>1, <2>4, <2>5 DEF T
<1>5. \A k \in 0..n : k \in T
  <2> HIDE DEF T, n
  <2> QED BY <1>0, <1>3, <1>4, InductionTo
<1> QED BY <1>0, <1>5

\* h goes through the numbers below d in ascending order.
Enumerates(h, m, d) ==
  /\ h \in [1..m -> 0..(d - 1)]
  /\ \A i, j \in 1..m : i < j => h[i] < h[j]
  /\ \A x \in 0..(d - 1) : \E i \in 1..m : h[i] = x

\* An increasing enumeration of 0..d-1 is the identity, shifted by one.
LEMMA IncreasingOnto ==
  ASSUME NEW d \in Nat, NEW m \in Nat, NEW h, Enumerates(h, m, d)
  PROVE  m = d /\ \A i \in 1..m : h[i] = i - 1
<1>0. /\ h \in [1..m -> 0..(d - 1)]
      /\ \A i, j \in 1..m : i < j => h[i] < h[j]
      /\ \A x \in 0..(d - 1) : \E i \in 1..m : h[i] = x
  BY DEF Enumerates
<1> DEFINE T == {k \in 0..m : k = 0 \/ h[k] = k - 1}
<1>1. 0 \in T
  OBVIOUS
<1>2. ASSUME NEW k \in 0..(m - 1), k \in T
      PROVE  k + 1 \in T
  <2>1. k + 1 \in 1..m /\ h[k + 1] \in 0..(d - 1)
    BY <1>0
  <2>2. h[k + 1] >= k
    <3>1. CASE k = 0
      BY <2>1, <3>1
    <3>2. CASE k # 0
      <4>1. k \in 1..m /\ h[k] = k - 1
        BY <1>2, <3>2
      <4>2. h[k] < h[k + 1]
        BY <1>0, <2>1, <4>1
      <4> QED BY <2>1, <4>1, <4>2
    <3> QED BY <3>1, <3>2
  <2>3. PICK j \in 1..m : h[j] = k
    BY <1>0, <2>1, <2>2
  <2>4. ~ (k + 1 < j)
    <3>1. k + 1 < j => h[k + 1] < h[j]
      BY <1>0, <2>1
    <3> QED BY <2>1, <2>2, <2>3, <3>1
  <2>5. j >= k + 1
    <3>1. CASE k = 0
      BY <3>1
    <3>2. CASE k # 0
      <4>1. k \in 1..m /\ h[k] = k - 1
        BY <1>2, <3>2
      <4>2. j < k => h[j] < h[k]
        BY <1>0, <4>1
      <4> QED BY <2>3, <4>1, <4>2
    <3> QED BY <3>1, <3>2
  <2>6. j = k + 1
    BY <2>4, <2>5
  <2> QED BY <2>1, <2>3, <2>6
<1> HIDE DEF T
<1>3. \A k \in 0..m : k \in T
  BY <1>1, <1>2, InductionTo
<1>4. \A i \in 1..m : h[i] = i - 1
  BY <1>3 DEF T
<1>5. m <= d
  <2>1. CASE m = 0
    BY <2>1
  <2>2. CASE m # 0
    <3>1. m \in 1..m
      BY <2>2
    <3>2. h[m] = m - 1 /\ h[m] \in 0..(d - 1)
      BY <1>0, <1>4, <3>1
    <3> QED BY <3>2
  <2> QED BY <2>1, <2>2
<1>6. d <= m
  <2>1. CASE d = 0
    BY <2>1
  <2>2. CASE d # 0
    <3>1. d - 1 \in 0..(d - 1)
      BY <2>2
    <3>2. PICK i \in 1..m : h[i] = d - 1
      BY <1>0, <3>1
    <3> QED BY <1>4, <3>2
  <2> QED BY <2>1, <2>2
<1> QED BY <1>4, <1>5, <1>6

-----------------------------------------------------------------------------
(* Products and quotients.                                                 *)

\* Multiplication is commutative and associative.
LEMMA Multiply ==
  ASSUME NEW a \in Nat, NEW b \in Nat, NEW c \in Nat
  PROVE  a * b \in Nat /\ a * b = b * a /\ (a * b) * c = a * (b * c)
OBVIOUS

\* Multiplication is monotonic.
LEMMA MultiplyMonotonic ==
  ASSUME NEW a \in Nat, NEW b \in Nat, NEW c \in Nat, a <= b
  PROVE  a * c <= b * c
<1>1. b - a \in Nat /\ b = a + (b - a)
  OBVIOUS
<1>2. (b - a) * c \in Nat
  <2> DEFINE x == b - a
  <2>1. x \in Nat
    BY <1>1
  <2> HIDE DEF x
  <2>2. x * c \in Nat
    BY <2>1
  <2> QED BY <2>2 DEF x
<1>3. b * c = a * c + (b - a) * c
  OBVIOUS
<1>4. a * c \in Nat /\ b * c \in Nat
  OBVIOUS
<1> QED BY <1>2, <1>3, <1>4

\* Multiplication with a positive number is strictly monotonic.
LEMMA MultiplyStrictly ==
  ASSUME NEW a \in Nat, NEW b \in Nat, NEW c \in Nat \ {0}
  PROVE  a * c < b * c <=> a < b
<1>1. a < b => (a + 1) * c <= b * c
  BY MultiplyMonotonic
<1>2. (a + 1) * c = a * c + c
  OBVIOUS
<1>3. a * c \in Nat /\ b * c \in Nat
  OBVIOUS
<1>4. a < b => a * c < b * c
  BY <1>1, <1>2, <1>3
<1>5. b <= a => b * c <= a * c
  BY MultiplyMonotonic
<1> QED BY <1>3, <1>4, <1>5

\* Division with remainder.
LEMMA Division ==
  ASSUME NEW a \in Nat, NEW b \in Nat \ {0}
  PROVE  /\ a \div b \in Nat /\ a % b \in 0..(b - 1)
         /\ a = (a \div b) * b + (a % b)
OBVIOUS

\* The quotient and the remainder are the only ones.
LEMMA DivisionOf ==
  ASSUME NEW q \in Nat, NEW b \in Nat \ {0}, NEW r \in 0..(b - 1)
  PROVE  (q * b + r) \div b = q /\ (q * b + r) % b = r
<1> DEFINE a == q * b + r
           p == a \div b
           s == a % b
<1>1. q * b \in Nat /\ a \in Nat
  OBVIOUS
<1>2. p \in Nat /\ s \in 0..(b - 1) /\ a = p * b + s
  <2> HIDE DEF a
  <2> QED BY <1>1, Division
<1> HIDE DEF p, s
<1>3. ~ (p < q)
  <2> SUFFICES ASSUME p < q PROVE FALSE
    OBVIOUS
  <2>1. (p + 1) * b <= q * b
    BY <1>2, MultiplyMonotonic
  <2>2. (p + 1) * b = p * b + b /\ p * b \in Nat
    BY <1>2
  <2> QED BY <1>1, <1>2, <2>1, <2>2
<1>4. ~ (q < p)
  <2> SUFFICES ASSUME q < p PROVE FALSE
    OBVIOUS
  <2>1. (q + 1) * b <= p * b
    BY <1>2, MultiplyMonotonic
  <2>2. (q + 1) * b = q * b + b /\ p * b \in Nat
    BY <1>2
  <2> QED BY <1>1, <1>2, <2>1, <2>2
<1>5. p = q
  BY <1>2, <1>3, <1>4
<1>6. s = r
  BY <1>1, <1>2, <1>5
<1> QED BY <1>5, <1>6 DEF p, s

-----------------------------------------------------------------------------
(* Folds, step by step *)

\* The values a fold goes through.
IsTrace(st, n, base, F) ==
  st[0] = base /\ \A k \in 1..n : st[k] = F[<<k, st[k - 1]>>]

\* The recursive function that FoldLeft evaluates ...
Recurses(iter, n, base, V, F) ==
  /\ iter[{}] = base
  /\ \A s \in SUBSET (1..n) :
       s # {} /\ iter[s \ {Max(s)}] \in V => iter[s] = F[<<Max(s), iter[s \ {Max(s)}]>>]

\* The last of these values.
Traced(r, n, base, V, F) ==
  \E st \in [0..n -> V] : IsTrace(st, n, base, F) /\ r = st[n]

\* ... goes through them.
LEMMA FoldTrace ==
  ASSUME NEW n \in Nat, NEW V, NEW base \in V, NEW F, F \in [(1..n) \X V -> V], NEW iter,
         Recurses(iter, n, base, V, F)
  PROVE  Traced(iter[1..n], n, base, V, F)
<1>0. /\ iter[{}] = base
      /\ \A s \in SUBSET (1..n) :
           s # {} /\ iter[s \ {Max(s)}] \in V => iter[s] = F[<<Max(s), iter[s \ {Max(s)}]>>]
  BY Zenon DEF Recurses
<1> DEFINE st == [k \in 0..n |-> iter[1..k]]
           T == {k \in 0..n : iter[1..k] \in V}
<1>1. ASSUME NEW k \in 1..n, iter[1..(k - 1)] \in V
      PROVE  iter[1..k] = F[<<k, iter[1..(k - 1)]>>]
  <2>1. /\ k \in 1..k /\ 1..k \in SUBSET (1..n) /\ k - 1 \in Nat /\ (k - 1) + 1 = k
        /\ 1..k # {}
    OBVIOUS
  <2>2. Max(1..k) = k
    <3>1. (k - 1) + 1 \in 1..k /\ 1..k \in SUBSET (1..((k - 1) + 1))
      BY <2>1
    <3> QED BY <2>1, <3>1, MaxAtTheEnd
  <2>3. 1..k \ {k} = 1..(k - 1)
    BY <2>1
  <2> QED BY <1>0, <1>1, <2>1, <2>2, <2>3
<1>2. 1..0 = {}
  OBVIOUS
<1>3. 0 \in T
  BY <1>0, <1>2
<1>4. ASSUME NEW k \in 0..(n - 1), k \in T
      PROVE  k + 1 \in T
  <2>1. k + 1 \in 1..n /\ k + 1 \in 0..n /\ (k + 1) - 1 = k /\ iter[1..k] \in V
    BY <1>4
  <2>2. iter[1..(k + 1)] = F[<<k + 1, iter[1..k]>>]
    BY <1>1, <2>1
  <2>3. <<k + 1, iter[1..k]>> \in (1..n) \X V
    BY <2>1
  <2> QED BY <2>1, <2>2, <2>3
<1>5. \A k \in 0..n : k \in T
  <2> HIDE DEF T
  <2> QED BY <1>3, <1>4, InductionTo
<1>6. st \in [0..n -> V]
  BY <1>5
<1>7. st[0] = base /\ st[n] = iter[1..n]
  BY <1>0, <1>2
<1>8. \A k \in 1..n : st[k] = F[<<k, st[k - 1]>>]
  <2> TAKE k \in 1..n
  <2>1. k \in 0..n /\ k - 1 \in 0..n /\ k - 1 \in T
    BY <1>5
  <2> QED BY <1>1, <2>1
<1> HIDE DEF st
<1> QED BY <1>6, <1>7, <1>8 DEF IsTrace, Traced

-----------------------------------------------------------------------------
(* Sequences of sequences, put together *)

\* B counts the elements of the first parts.
PartOffsets(B, parts) ==
  /\ B \in [0..Len(parts) -> Nat] /\ B[0] = 0
  /\ \A i \in 1..Len(parts) : B[i] = B[i - 1] + Len(parts[i])

\* flat is the parts one after the other.
Joined(flat, parts, B) ==
  /\ Len(flat) = B[Len(parts)]
  /\ \A i \in 1..Len(parts) : \A k \in 1..Len(parts[i]) : flat[B[i - 1] + k] = parts[i][k]

\* The counts grow.
LEMMA OffsetsGrow ==
  ASSUME NEW V, NEW parts \in Seq(Seq(V)), NEW B, PartOffsets(B, parts)
  PROVE  \A i, j \in 0..Len(parts) : i <= j => B[i] <= B[j]
<1> DEFINE m == Len(parts)
           T == {j \in 0..m : \A i \in 0..j : B[i] <= B[j]}
<1>1. m \in Nat /\ B \in [0..m -> Nat] /\ \A i \in 1..m : B[i - 1] <= B[i]
  <2>1. m \in Nat /\ \A i \in 1..m : Len(parts[i]) \in Nat /\ i \in 0..m /\ i - 1 \in 0..m
    OBVIOUS
  <2>2. B \in [0..m -> Nat] /\ \A i \in 1..m : B[i] = B[i - 1] + Len(parts[i])
    BY DEF PartOffsets
  <2> HIDE DEF m
  <2>3. ASSUME NEW i \in 1..m PROVE B[i - 1] <= B[i]
    <3>1. B[i - 1] \in Nat /\ B[i] \in Nat /\ Len(parts[i]) \in Nat
      BY <2>1, <2>2
    <3>2. B[i] = B[i - 1] + Len(parts[i])
      BY <2>2
    <3> QED BY <3>1, <3>2
  <2> QED BY <2>1, <2>2, <2>3
<1> HIDE DEF m
<1>2. 0 \in T
  BY <1>1
<1>3. ASSUME NEW k \in 0..(m - 1), k \in T PROVE k + 1 \in T
  <2>1. k + 1 \in 1..m /\ (k + 1) - 1 = k /\ B[k] <= B[k + 1] /\ k \in 0..m /\ k + 1 \in 0..m
    <3>1. k + 1 \in 1..m /\ (k + 1) - 1 = k /\ k \in 0..m /\ k + 1 \in 0..m
      BY <1>1
    <3> QED BY <1>1, <3>1
  <2>2. ASSUME NEW i \in 0..(k + 1) PROVE B[i] <= B[k + 1]
    <3>1. CASE i = k + 1
      BY <1>1, <2>1, <3>1
    <3>2. CASE i # k + 1
      <4>1. i \in 0..k /\ i \in 0..m
        BY <1>1, <3>2
      <4>2. B[i] <= B[k]
        BY <1>3, <4>1
      <4>3. B[i] \in Nat /\ B[k] \in Nat /\ B[k + 1] \in Nat
        BY <1>1, <2>1, <4>1
      <4> QED BY <2>1, <4>2, <4>3
    <3> QED BY <3>1, <3>2
  <2> QED BY <2>1, <2>2
<1>4. \A j \in 0..m : j \in T
  <2> HIDE DEF T
  <2> QED BY <1>1, <1>2, <1>3, InductionTo
<1> SUFFICES ASSUME NEW i \in 0..m, NEW j \in 0..m, i <= j PROVE B[i] <= B[j]
  BY DEF m
<1>5. j \in T /\ i \in 0..j
  BY <1>4
<1> QED BY <1>5

\* Every position is one of a part.
LEMMA PositionInPart ==
  ASSUME NEW V, NEW parts \in Seq(Seq(V)), NEW B, PartOffsets(B, parts),
         NEW p \in 1..B[Len(parts)]
  PROVE  \E i \in 1..Len(parts) : \E k \in 1..Len(parts[i]) : p = B[i - 1] + k
<1> DEFINE m == Len(parts)
           T == {i \in 0..m : p <= B[i]}
<1>1. /\ m \in Nat /\ B \in [0..m -> Nat] /\ B[0] = 0 /\ m \in T /\ T \in SUBSET Nat
      /\ \A i \in 1..m : B[i] = B[i - 1] + Len(parts[i]) /\ Len(parts[i]) \in Nat
  <2>1. m \in Nat /\ m \in 0..m /\ \A i \in 1..m : Len(parts[i]) \in Nat
    OBVIOUS
  <2> HIDE DEF m
  <2> QED BY <2>1 DEF PartOffsets, m
<1>2. PICK i \in T : \A j \in T : i <= j
  <2>1. T # {}
    BY <1>1
  <2> HIDE DEF T
  <2> QED BY <1>1, <2>1, LeastNumber
<1> HIDE DEF m
<1>3. i \in 0..m /\ p <= B[i] /\ p \in Nat /\ p >= 1
  BY <1>1
<1>4. i # 0
  BY <1>1, <1>3
<1>5. i \in 1..m /\ i - 1 \in 0..m /\ i - 1 \in Nat /\ i \in Nat
  BY <1>1, <1>3, <1>4
<1>6. B[i - 1] \in Nat /\ ~ (p <= B[i - 1])
  <2>1. i - 1 \notin T
    <3> HIDE DEF T
    <3> QED BY <1>2, <1>5
  <2> QED BY <1>1, <1>5, <2>1
<1> DEFINE k == p - B[i - 1]
<1>7. k \in 1..Len(parts[i]) /\ p = B[i - 1] + k
  <2>1. B[i] = B[i - 1] + Len(parts[i]) /\ Len(parts[i]) \in Nat
    BY <1>1, <1>5
  <2> QED BY ONLY <1>3, <1>6, <2>1
<1> QED BY <1>5, <1>7 DEF m

\* And of no other.
LEMMA PartOfPosition ==
  ASSUME NEW V, NEW parts \in Seq(Seq(V)), NEW B, PartOffsets(B, parts),
         NEW i \in 1..Len(parts), NEW j \in 1..Len(parts),
         NEW k \in 1..Len(parts[i]), NEW l \in 1..Len(parts[j]),
         B[i - 1] + k = B[j - 1] + l
  PROVE  i = j /\ k = l
<1>0. Len(parts) \in Nat
  OBVIOUS
<1>1. /\ i - 1 \in 0..Len(parts) /\ j - 1 \in 0..Len(parts) /\ i \in 0..Len(parts) /\ j \in 0..Len(parts)
      /\ i \in Nat /\ j \in Nat
  BY <1>0
<1>2. B[i - 1] \in Nat /\ B[j - 1] \in Nat /\ B[i] \in Nat /\ B[j] \in Nat
  BY <1>1 DEF PartOffsets
<1>3. B[i] = B[i - 1] + Len(parts[i]) /\ B[j] = B[j - 1] + Len(parts[j])
  BY DEF PartOffsets
<1>4. Len(parts[i]) \in Nat /\ Len(parts[j]) \in Nat
  OBVIOUS
<1>5. (i <= j - 1 => B[i] <= B[j - 1]) /\ (j <= i - 1 => B[j] <= B[i - 1])
  BY <1>1, OffsetsGrow
<1>6. ~ (i <= j - 1) /\ ~ (j <= i - 1)
  <2>1. /\ k \in Nat /\ k >= 1 /\ k <= Len(parts[i])
        /\ l \in Nat /\ l >= 1 /\ l <= Len(parts[j])
    BY <1>4
  <2> DEFINE a == B[i - 1]
             b == B[j - 1]
             c == B[i]
             d == B[j]
             x == Len(parts[i])
             y == Len(parts[j])
  <2>2. /\ a \in Nat /\ b \in Nat /\ c \in Nat /\ d \in Nat /\ x \in Nat /\ y \in Nat
        /\ c = a + x /\ d = b + y /\ a + k = b + l
        /\ k \in Nat /\ k >= 1 /\ k <= x /\ l \in Nat /\ l >= 1 /\ l <= y
    BY <1>2, <1>3, <1>4, <2>1
  <2>3. (i <= j - 1 => c <= b) /\ (j <= i - 1 => d <= a)
    BY <1>5
  <2> HIDE DEF a, b, c, d, x, y
  <2>4. ~ (c <= b) /\ ~ (d <= a)
    BY ONLY <2>2
  <2> QED BY ONLY <2>3, <2>4
<1>7. i = j
  BY <1>1, <1>6
<1> QED BY <1>2, <1>7

\* Sequences put together are a sequence, the parts at their offsets.
LEMMA Flattened ==
  ASSUME NEW V, NEW parts \in Seq(Seq(V))
  PROVE  /\ FlattenSeq(parts) \in Seq(V)
         /\ \E B : PartOffsets(B, parts) /\ Joined(FlattenSeq(parts), parts, B)
<1> DEFINE m == Len(parts)
           Upto(j, f, B) ==
             /\ f \in Seq(V) /\ B \in [0..j -> Nat] /\ B[0] = 0 /\ Len(f) = B[j]
             /\ \A i \in 1..j : /\ B[i] = B[i - 1] + Len(parts[i])
                                /\ \A k \in 1..Len(parts[i]) : f[B[i - 1] + k] = parts[i][k]
                                /\ B[i] <= B[j]
           T == {j \in 0..m : \E f, B : Upto(j, f, B)}
<1>1. m \in Nat /\ \A i \in 1..m : parts[i] \in Seq(V) /\ Len(parts[i]) \in Nat
  OBVIOUS
<1>2. 0 \in T
  <2> DEFINE B == [i \in 0..0 |-> 0]
  <2>1. B \in [0..0 -> Nat] /\ B[0] = 0 /\ <<>> \in Seq(V) /\ Len(<<>>) = 0
    OBVIOUS
  <2>2. Upto(0, <<>>, B)
    <3> HIDE DEF B
    <3> QED BY <2>1
  <2>3. 0 \in 0..m
    BY <1>1
  <2> HIDE DEF Upto, B
  <2> QED BY <2>2, <2>3
<1>3. ASSUME NEW j \in 0..(m - 1), j \in T PROVE j + 1 \in T
  <2>1. PICK f, B : Upto(j, f, B)
    BY <1>3
  <2>2. j + 1 \in 1..m /\ j + 1 \in 0..m /\ (j + 1) - 1 = j /\ j \in Nat
    BY <1>1
  <2> DEFINE p == parts[j + 1]
             g == f \o p
             C == [i \in 0..(j + 1) |-> IF i = j + 1 THEN B[j] + Len(p) ELSE B[i]]
  <2>3. p \in Seq(V) /\ Len(p) \in Nat /\ f \in Seq(V) /\ B[j] \in Nat /\ Len(f) = B[j]
    <3> HIDE DEF m
    <3> QED BY <1>1, <2>1, <2>2
  <2> HIDE DEF p, m
  <2>4. /\ g \in Seq(V) /\ Len(g) = B[j] + Len(p)
        /\ \A i \in 1..B[j] : g[i] = f[i]
        /\ \A k \in 1..Len(p) : g[B[j] + k] = p[k]
    <3> DEFINE b == B[j]
    <3>1. b \in Nat /\ Len(f) = b
      BY <2>3
    <3> HIDE DEF b
    <3>2. Len(g) = b + Len(p) /\ g \in Seq(V)
      BY ONLY <2>3, <3>1, ConcatProperties
    <3>3. \A i \in 1..b : g[i] = f[i]
      BY ONLY <2>3, <3>1, ConcatProperties
    <3>4. \A k \in 1..Len(p) : g[b + k] = p[k]
      <4> TAKE k \in 1..Len(p)
      <4>1. b + k \in 1..(Len(f) + Len(p)) /\ b + k > Len(f) /\ (b + k) - Len(f) = k
        BY ONLY <2>3, <3>1
      <4> QED BY ONLY <2>3, <4>1, ConcatProperties
    <3> QED BY <3>2, <3>3, <3>4 DEF b
  <2> HIDE DEF g
  <2>5. C \in [0..(j + 1) -> Nat] /\ C[0] = 0 /\ C[j + 1] = B[j] + Len(p)
        /\ \A i \in 0..j : C[i] = B[i]
    BY <2>1, <2>2, <2>3
  <2> HIDE DEF C
  <2>6. ASSUME NEW i \in 1..(j + 1)
        PROVE  /\ C[i] = C[i - 1] + Len(parts[i])
               /\ \A k \in 1..Len(parts[i]) : g[C[i - 1] + k] = parts[i][k]
               /\ C[i] <= C[j + 1]
    <3>1. CASE i = j + 1
      <4>1. i - 1 \in 0..j /\ i - 1 = j
        BY <2>2, <3>1
      <4>2. C[i - 1] = B[j] /\ C[i] = B[j] + Len(p) /\ parts[i] = p
        BY <2>5, <3>1, <4>1 DEF p
      <4>3. C[i] <= C[j + 1]
        BY <2>3, <2>5, <3>1
      <4> QED BY <2>4, <4>2, <4>3
    <3>2. CASE i # j + 1
      <4>1. i \in 1..j /\ i \in 0..j /\ i - 1 \in 0..j /\ i \in 1..m /\ j \in 0..j
        BY <1>1, <2>2, <3>2
      <4>2. C[i - 1] = B[i - 1] /\ C[i] = B[i] /\ C[j + 1] = B[j] + Len(p)
        BY <2>5, <4>1
      <4>3. /\ B[i] = B[i - 1] + Len(parts[i]) /\ B[i] <= B[j]
            /\ \A k \in 1..Len(parts[i]) : f[B[i - 1] + k] = parts[i][k]
            /\ B[i] \in Nat /\ B[i - 1] \in Nat
        BY <2>1, <4>1
      <4>4. Len(parts[i]) \in Nat
        BY <1>1, <4>1
      <4>5. ASSUME NEW k \in 1..Len(parts[i]) PROVE g[C[i - 1] + k] = parts[i][k]
        <5>1. B[i - 1] + k \in 1..B[j]
          <6>1. k \in Nat /\ k >= 1 /\ k <= Len(parts[i])
            BY <4>4
          <6> DEFINE a == B[i - 1]
                     b == B[i]
                     c == B[j]
                     x == Len(parts[i])
          <6>2. /\ a \in Nat /\ b \in Nat /\ c \in Nat /\ x \in Nat
                /\ b = a + x /\ b <= c /\ k \in Nat /\ k >= 1 /\ k <= x
            BY <2>3, <4>3, <4>4, <6>1
          <6> HIDE DEF a, b, c, x
          <6>3. a + k \in 1..c
            BY ONLY <6>2
          <6> QED BY <6>3 DEF a, c
        <5> QED BY <2>4, <4>2, <4>3, <5>1
      <4>6. C[i] <= C[j + 1]
        BY <2>3, <4>2, <4>3
      <4> QED BY <4>2, <4>3, <4>5, <4>6
    <3> QED BY <3>1, <3>2
  <2>7. Upto(j + 1, g, C)
    BY <2>4, <2>5, <2>6
  <2> HIDE DEF Upto
  <2> QED BY <2>2, <2>7
<1>4. \A j \in 0..m : j \in T
  <2> HIDE DEF T, m
  <2> QED BY <1>1, <1>2, <1>3, InductionTo
<1>5. PICK f, B : Upto(m, f, B)
  <2>1. m \in T
    <3> HIDE DEF T
    <3> QED BY <1>1, <1>4
  <2> QED BY <2>1
<1>6. PartOffsets(B, parts) /\ Joined(f, parts, B)
  BY <1>5 DEF PartOffsets, Joined
<1>7. CASE m = 0
  <2>1. parts = <<>> /\ FlattenSeq(parts) = <<>>
    BY <1>7 DEF FlattenSeq
  <2>2. f = <<>>
    <3>1. Len(f) = 0 /\ f \in Seq(V)
      BY <1>5, <1>7
    <3> QED BY <3>1
  <2> QED BY <1>5, <1>6, <2>1, <2>2
<1>8. CASE m # 0
  <2> DEFINE n == B[m]
  <2>1. n \in Nat /\ f \in [1..n -> V] /\ f \in Seq(V)
    BY <1>1, <1>5
  <2>2. B \in [0..m -> 0..n]
    <3>1. \A i \in 0..m : B[i] \in 0..n
      <4> TAKE i \in 0..m
      <4>1. CASE i = 0
        BY <1>5, <2>1, <4>1
      <4>2. CASE i # 0
        <5>1. i \in 1..m
          BY <1>1, <4>2
        <5> QED BY <1>1, <1>5, <2>1, <5>1
      <4> QED BY <4>1, <4>2
    <3>2. DOMAIN B = 0..m /\ B = [i \in 0..m |-> B[i]]
      BY <1>5
    <3> HIDE DEF Upto, n, m
    <3> QED BY <3>1, <3>2
  <2>3. ASSUME NEW i \in 1..m
        PROVE  B[i - 1] <= B[i] /\ parts[i] = [k \in 1..(B[i] - B[i - 1]) |-> f[B[i - 1] + k]]
    <3>1. B[i] \in Nat /\ B[i - 1] \in Nat /\ Len(parts[i]) \in Nat /\ parts[i] \in Seq(V)
      <4>1. i \in 0..m /\ i - 1 \in 0..m
        BY <1>1
      <4> QED BY <1>1, <1>5, <4>1
    <3>2. B[i] = B[i - 1] + Len(parts[i]) /\ \A k \in 1..Len(parts[i]) : f[B[i - 1] + k] = parts[i][k]
      BY <1>5
    <3>3. B[i] - B[i - 1] = Len(parts[i])
      BY <3>1, <3>2
    <3>4. parts[i] = [k \in 1..Len(parts[i]) |-> parts[i][k]]
      BY <3>1
    <3>5. parts[i] = [k \in 1..Len(parts[i]) |-> f[B[i - 1] + k]]
      BY ONLY <3>2, <3>4
    <3>6. B[i - 1] <= B[i]
      BY ONLY <3>1, <3>2
    <3> QED BY ONLY <3>3, <3>5, <3>6
  <2>4. parts = [i \in 1..m |-> [k \in 1..(B[i] - B[i - 1]) |-> f[B[i - 1] + k]]]
    <3>1. parts = [i \in 1..m |-> parts[i]]
      BY <1>1
    <3> QED BY <2>3, <3>1
  <2>5. CutInto(f, n, parts, m, B)
    <3>1. B[0] = 0 /\ \A i \in 1..m : B[i - 1] <= B[i]
      BY <1>5, <2>3
    <3> HIDE DEF Upto, m
    <3> QED BY <2>2, <2>4, <3>1 DEF CutInto
  <2>6. FlattenSeq(parts) = f
    <3>1. m \in Nat \ {0}
      BY <1>1, <1>8
    <3> HIDE DEF Upto, m, n
    <3> QED BY <2>1, <2>5, <3>1, FlattenParts
  <2> QED BY <1>6, <2>1, <2>6
<1> QED BY <1>7, <1>8

-----------------------------------------------------------------------------
(* Sequences with an element more or less *)

IsConcat(u, V, s, t, p, q) ==
  /\ u \in Seq(V) /\ Len(u) = p + q
  /\ \A j \in 1..p : u[j] = s[j]
  /\ \A j \in 1..q : u[p + j] = t[j]

\* Two sequences, one after the other.
LEMMA ConcatAt ==
  ASSUME NEW V, NEW s \in Seq(V), NEW t \in Seq(V), NEW p \in Nat, NEW q \in Nat,
         Len(s) = p, Len(t) = q
  PROVE  IsConcat(s \o t, V, s, t, p, q)
<1>1. /\ s \o t \in Seq(V) /\ Len(s \o t) = p + q
      /\ \A j \in 1..(p + q) : (s \o t)[j] = IF j <= p THEN s[j] ELSE t[j - p]
  BY ConcatProperties
<1>2. \A j \in 1..p : j \in 1..(p + q) /\ j <= p
  OBVIOUS
<1>3. \A j \in 1..q : p + j \in 1..(p + q) /\ ~ (p + j <= p) /\ (p + j) - p = j
  OBVIOUS
<1> QED BY <1>1, <1>2, <1>3 DEF IsConcat

\* s without its element k.
LEMMA Removed ==
  ASSUME NEW V, NEW s \in Seq(V), NEW k \in 1..Len(s)
  PROVE  /\ RemoveAt(s, k) \in Seq(V) /\ Len(RemoveAt(s, k)) = Len(s) - 1
         /\ \A j \in 1..(Len(s) - 1) : RemoveAt(s, k)[j] = IF j < k THEN s[j] ELSE s[j + 1]
<1> DEFINE n == Len(s)
           a == SubSeq(s, 1, k - 1)
           b == SubSeq(s, k + 1, n)
<1>1. n \in Nat /\ k \in 1..n /\ k \in Nat /\ \A i \in 1..n : s[i] \in V
  OBVIOUS
<1> HIDE DEF n
<1>2. /\ a \in Seq(V) /\ Len(a) = k - 1
      /\ \A i \in 1..(k - 1) : a[i] = s[i]
  <2>1. 1 \in Int /\ k - 1 \in Int /\ \A i \in 1..(k - 1) : s[i] \in V
    BY <1>1
  <2>2. /\ a \in Seq(V) /\ Len(a) = (IF 1 <= k - 1 THEN (k - 1) - 1 + 1 ELSE 0)
        /\ \A i \in 1..((k - 1) - 1 + 1) : a[i] = s[1 + i - 1]
    BY ONLY <2>1, SubSeqProperties
  <2>3. (k - 1) - 1 + 1 = k - 1 /\ \A i \in 1..(k - 1) : 1 + i - 1 = i
    BY <1>1
  <2> QED BY <1>1, <2>2, <2>3
<1>3. /\ b \in Seq(V) /\ Len(b) = n - k
      /\ \A i \in 1..(n - k) : b[i] = s[k + i]
  <2>1. k + 1 \in Int /\ n \in Int /\ \A i \in (k + 1)..n : s[i] \in V
    BY <1>1
  <2>2. /\ b \in Seq(V) /\ Len(b) = (IF k + 1 <= n THEN n - (k + 1) + 1 ELSE 0)
        /\ \A i \in 1..(n - (k + 1) + 1) : b[i] = s[(k + 1) + i - 1]
    BY ONLY <2>1, SubSeqProperties
  <2>3. n - (k + 1) + 1 = n - k /\ \A i \in 1..(n - k) : (k + 1) + i - 1 = k + i
    BY <1>1
  <2> QED BY <1>1, <2>2, <2>3
<1> HIDE DEF a, b
<1> DEFINE p == k - 1
           q == n - k
<1>40. p \in Nat /\ q \in Nat /\ p + q = n - 1 /\ p + 1 = k
  BY <1>1
<1>41. a \in Seq(V) /\ b \in Seq(V) /\ Len(a) = p /\ Len(b) = q
  BY <1>2, <1>3
<1> HIDE DEF p, q
<1>4. /\ a \o b \in Seq(V) /\ Len(a \o b) = p + q
      /\ \A j \in 1..p : (a \o b)[j] = a[j]
      /\ \A j \in 1..q : (a \o b)[p + j] = b[j]
  <2>1. IsConcat(a \o b, V, a, b, p, q)
    BY ONLY <1>40, <1>41, ConcatAt
  <2> QED BY <2>1, Zenon DEF IsConcat
<1>5. RemoveAt(s, k) = a \o b
  BY DEF RemoveAt, a, b, n
<1>6. \A j \in 1..(n - 1) : (a \o b)[j] = IF j < k THEN s[j] ELSE s[j + 1]
  <2> TAKE j \in 1..(n - 1)
  <2>2. CASE j < k
    <3>1. j \in 1..p /\ j \in 1..(k - 1)
      BY <1>1, <1>40, <2>2
    <3> QED BY <1>2, <1>4, <2>2, <3>1
  <2>3. CASE ~ (j < k)
    <3> DEFINE i == j - p
    <3>1. i \in 1..q /\ p + i = j /\ k + i = j + 1 /\ q = n - k
      BY <1>1, <1>40, <2>3 DEF q
    <3> HIDE DEF i
    <3>2. (a \o b)[j] = b[i]
      BY <1>4, <3>1
    <3> QED BY <1>3, <2>3, <3>1, <3>2
  <2> QED BY <2>2, <2>3
<1> QED BY <1>1, <1>4, <1>40, <1>5, <1>6 DEF n

\* s with x at place k.
LEMMA Inserted ==
  ASSUME NEW V, NEW s \in Seq(V), NEW x \in V, NEW k \in 1..(Len(s) + 1)
  PROVE  /\ InsertAt(s, k, x) \in Seq(V) /\ Len(InsertAt(s, k, x)) = Len(s) + 1
         /\ \A j \in 1..(Len(s) + 1) :
              InsertAt(s, k, x)[j] = IF j < k THEN s[j] ELSE IF j = k THEN x ELSE s[j - 1]
<1> DEFINE n == Len(s)
           a == SubSeq(s, 1, k - 1)
           b == SubSeq(s, k, n)
           c == a \o <<x>>
<1>1. n \in Nat /\ k \in 1..(n + 1) /\ k \in Nat /\ \A i \in 1..n : s[i] \in V
  OBVIOUS
<1> HIDE DEF n
<1>2. /\ a \in Seq(V) /\ Len(a) = k - 1
      /\ \A i \in 1..(k - 1) : a[i] = s[i]
  <2>1. 1 \in Int /\ k - 1 \in Int /\ \A i \in 1..(k - 1) : s[i] \in V
    BY <1>1
  <2>2. /\ a \in Seq(V) /\ Len(a) = (IF 1 <= k - 1 THEN (k - 1) - 1 + 1 ELSE 0)
        /\ \A i \in 1..((k - 1) - 1 + 1) : a[i] = s[1 + i - 1]
    BY ONLY <2>1, SubSeqProperties
  <2>3. (k - 1) - 1 + 1 = k - 1 /\ \A i \in 1..(k - 1) : 1 + i - 1 = i
    BY <1>1
  <2> QED BY <1>1, <2>2, <2>3
<1>3. /\ b \in Seq(V) /\ Len(b) = (n + 1) - k
      /\ \A i \in 1..((n + 1) - k) : b[i] = s[(k + i) - 1]
  <2>1. k \in Int /\ n \in Int /\ \A i \in k..n : s[i] \in V
    BY <1>1
  <2>2. /\ b \in Seq(V) /\ Len(b) = (IF k <= n THEN n - k + 1 ELSE 0)
        /\ \A i \in 1..(n - k + 1) : b[i] = s[k + i - 1]
    BY ONLY <2>1, SubSeqProperties
  <2>3. n - k + 1 = (n + 1) - k /\ \A i \in 1..((n + 1) - k) : k + i - 1 = (k + i) - 1
    BY <1>1
  <2> QED BY <1>1, <2>2, <2>3
<1>4. <<x>> \in Seq(V) /\ Len(<<x>>) = 1 /\ (<<x>>)[1] = x
  OBVIOUS
<1> HIDE DEF a, b
<1>5. /\ c \in Seq(V) /\ Len(c) = (k - 1) + 1
      /\ \A j \in 1..((k - 1) + 1) : c[j] = IF j <= k - 1 THEN a[j] ELSE (<<x>>)[j - (k - 1)]
  BY ONLY <1>2, <1>4, ConcatProperties
<1>6. Len(c) = k /\ c[k] = x /\ \A j \in 1..(k - 1) : c[j] = s[j]
  <2>1. (k - 1) + 1 = k /\ k \in 1..((k - 1) + 1) /\ ~ (k <= k - 1) /\ k - (k - 1) = 1
        /\ \A j \in 1..(k - 1) : j \in 1..((k - 1) + 1) /\ j <= k - 1
    BY <1>1
  <2> HIDE DEF c
  <2> QED BY <1>2, <1>4, <1>5, <2>1
<1>7. InsertAt(s, k, x) = c \o b
  BY DEF InsertAt, a, b, n
<1>51. c \in Seq(V)
  BY <1>5
<1> HIDE DEF c
<1> DEFINE q == (n + 1) - k
<1>70. q \in Nat /\ k + q = n + 1
  BY <1>1
<1>71. c \in Seq(V) /\ b \in Seq(V) /\ Len(c) = k /\ Len(b) = q /\ k \in Nat
  BY <1>1, <1>3, <1>51, <1>6
<1> HIDE DEF q
<1>8. /\ c \o b \in Seq(V) /\ Len(c \o b) = k + q
      /\ \A j \in 1..k : (c \o b)[j] = c[j]
      /\ \A j \in 1..q : (c \o b)[k + j] = b[j]
  <2>1. IsConcat(c \o b, V, c, b, k, q)
    BY ONLY <1>70, <1>71, ConcatAt
  <2> QED BY <2>1, Zenon DEF IsConcat
<1>9. \A j \in 1..(n + 1) : (c \o b)[j] = IF j < k THEN s[j] ELSE IF j = k THEN x ELSE s[j - 1]
  <2> TAKE j \in 1..(n + 1)
  <2>1. j \in Nat /\ k \in 1..k
    BY <1>1
  <2>2. CASE j < k
    <3>1. j \in 1..(k - 1) /\ j \in 1..k
      BY <1>1, <2>1, <2>2
    <3>2. (c \o b)[j] = c[j] /\ c[j] = s[j]
      BY ONLY <1>6, <1>8, <3>1
    <3> QED BY <2>2, <3>2
  <2>3. CASE j = k
    <3>1. j <= k /\ ~ (j < k)
      BY <1>1, <2>3
    <3> QED BY <1>6, <1>8, <2>1, <2>3, <3>1
  <2>4. CASE j > k
    <3> DEFINE i == j - k
    <3>1. /\ i \in 1..q /\ i \in 1..((n + 1) - k) /\ k + i = j /\ (k + i) - 1 = j - 1
          /\ ~ (j < k) /\ j # k
      BY <1>1, <2>1, <2>4 DEF q
    <3> HIDE DEF i
    <3>2. (c \o b)[j] = b[i]
      BY <1>8, <3>1
    <3>3. b[i] = s[(k + i) - 1]
      BY ONLY <1>3, <3>1
    <3>4. (c \o b)[j] = s[j - 1]
      BY ONLY <3>1, <3>2, <3>3
    <3>5. ~ (j < k) /\ j # k
      BY <3>1
    <3> QED BY ONLY <3>4, <3>5
  <2>5. j < k \/ j = k \/ j > k
    BY <1>1, <2>1
  <2> QED BY ONLY <2>2, <2>3, <2>4, <2>5
<1> QED BY <1>7, <1>70, <1>8, <1>9 DEF n

\* s without its last element.
LEMMA FrontOf ==
  ASSUME NEW V, NEW s \in Seq(V), s # <<>>
  PROVE  /\ Len(s) \in Nat /\ Len(s) >= 1 /\ Last(s) = s[Len(s)] /\ Last(s) \in V
         /\ Front(s) \in Seq(V) /\ Len(Front(s)) = Len(s) - 1
         /\ \A j \in 1..(Len(s) - 1) : Front(s)[j] = s[j]
         /\ s = Append(Front(s), Last(s))
<1> DEFINE n == Len(s)
<1>1. n \in Nat /\ n >= 1 /\ \A i \in 1..n : s[i] \in V
  BY EmptySeq
<1> HIDE DEF n
<1>2. 1 \in Int /\ n - 1 \in Int /\ \A i \in 1..(n - 1) : s[i] \in V
  BY <1>1
<1>3. /\ SubSeq(s, 1, n - 1) \in Seq(V)
      /\ Len(SubSeq(s, 1, n - 1)) = (IF 1 <= n - 1 THEN (n - 1) - 1 + 1 ELSE 0)
      /\ \A i \in 1..((n - 1) - 1 + 1) : SubSeq(s, 1, n - 1)[i] = s[1 + i - 1]
  BY ONLY <1>2, SubSeqProperties
<1>4. (n - 1) - 1 + 1 = n - 1 /\ \A i \in 1..(n - 1) : 1 + i - 1 = i
  BY <1>1
<1>5. Front(s) = SubSeq(s, 1, n - 1) /\ Last(s) = s[n] /\ s[n] \in V
  BY <1>1 DEF Front, Last, n
<1>6. /\ Front(s) \in Seq(V) /\ Len(Front(s)) = n - 1
      /\ \A j \in 1..(n - 1) : Front(s)[j] = s[j]
  BY <1>1, <1>3, <1>4, <1>5
<1> DEFINE f == Front(s)
           x == Last(s)
<1>7. f \in Seq(V) /\ x \in V /\ Len(f) = n - 1 /\ x = s[n] /\ \A j \in 1..(n - 1) : f[j] = s[j]
  BY <1>5, <1>6
<1> HIDE DEF f, x
<1>8. s = Append(f, x)
  <2>1. /\ Append(f, x) \in Seq(V) /\ Len(Append(f, x)) = (n - 1) + 1
        /\ \A i \in 1..(n - 1) : Append(f, x)[i] = f[i]
        /\ Append(f, x)[(n - 1) + 1] = x
    BY ONLY <1>7, AppendProperties
  <2>2. (n - 1) + 1 = n /\ \A i \in 1..n : i \in 1..(n - 1) \/ i = n
    BY <1>1
  <2>3. Len(s) = Len(Append(f, x)) /\ \A i \in 1..Len(s) : s[i] = Append(f, x)[i]
    BY <1>7, <2>1, <2>2 DEF n
  <2> QED BY ONLY <2>1, <2>3, s \in Seq(V), SeqEqual
<1> QED BY <1>1, <1>5, <1>6, <1>8 DEF n, f, x

-----------------------------------------------------------------------------
(* Sequences that list the elements of a set *)

\* s has each element of S once, and no others.
Lists(s, S) ==
  /\ s \in Seq(S)
  /\ \A k, l \in 1..Len(s) : s[k] = s[l] => k = l
  /\ \A x \in S : \E k \in 1..Len(s) : s[k] = x

\* What it means, with n for the length.
Listed(s, S, n) ==
  /\ s \in Seq(S) /\ n \in Nat /\ Len(s) = n /\ s \in [1..n -> S]
  /\ \A k, l \in 1..n : s[k] = s[l] => k = l
  /\ \A x \in S : \E k \in 1..n : s[k] = x
  /\ \A k \in 1..n : s[k] \in S

\* The definition opened.
LEMMA ListsOpen ==
  ASSUME NEW s, NEW S, Lists(s, S), NEW n, n = Len(s)
  PROVE  Listed(s, S, n)
<1>1. s \in Seq(S)
  BY DEF Lists
<1>2. n \in Nat /\ s \in [1..n -> S] /\ \A k \in 1..n : s[k] \in S
  BY <1>1
<1>3. (\A k, l \in 1..n : s[k] = s[l] => k = l) /\ \A x \in S : \E k \in 1..n : s[k] = x
  BY DEF Lists
<1> QED BY <1>1, <1>2, <1>3 DEF Listed

\* The empty sequence.
LEMMA ListsNone == Lists(<<>>, {})
<1>1. <<>> \in Seq({}) /\ Len(<<>>) = 0
  OBVIOUS
<1> QED BY <1>1 DEF Lists

\* A single element.
LEMMA ListsOne ==
  ASSUME NEW x
  PROVE  Lists(<<x>>, {x})
<1>1. <<x>> \in Seq({x}) /\ Len(<<x>>) = 1 /\ (<<x>>)[1] = x
  OBVIOUS
<1> QED BY <1>1 DEF Lists

\* One element more.
LEMMA ListsAppend ==
  ASSUME NEW s, NEW S, Lists(s, S), NEW x, x \notin S
  PROVE  Lists(Append(s, x), S \cup {x})
<1> DEFINE T == S \cup {x}
           n == Len(s)
           t == Append(s, x)
<1>1. /\ s \in Seq(S) /\ n \in Nat
      /\ \A k, l \in 1..n : s[k] = s[l] => k = l
      /\ \A y \in S : \E k \in 1..n : s[k] = y
  <2>1. s \in Seq(S)
    BY Zenon DEF Lists
  <2>2. n \in Nat
    BY ONLY <2>1
  <2> QED BY <2>1, <2>2, Zenon DEF Lists
<1>2. s \in Seq(T)
  <2>1. S \subseteq T
    OBVIOUS
  <2> QED BY ONLY <1>1, <2>1, SeqMonotonic
<1>3. x \in T
  OBVIOUS
<1> HIDE DEF T
<1>4. t \in Seq(T) /\ Len(t) = n + 1 /\ t[n + 1] = x /\ \A k \in 1..n : t[k] = s[k]
  BY ONLY <1>2, <1>3, AppendProperties DEF n, t
<1>41. \A k \in 1..n : s[k] \in S
  BY <1>1
<1> HIDE DEF n, t
<1>42. \A k \in 1..(n + 1) : k \in 1..n \/ k = n + 1
  BY <1>1
<1>5. ASSUME NEW k \in 1..(n + 1), NEW l \in 1..(n + 1), t[k] = t[l] PROVE k = l
  <2>1. CASE k \in 1..n /\ l \in 1..n
    BY <1>1, <1>4, <1>5, <2>1
  <2>2. CASE k \in 1..n /\ l = n + 1
    BY <1>4, <1>41, <1>5, <2>2
  <2>3. CASE k = n + 1 /\ l \in 1..n
    BY <1>4, <1>41, <1>5, <2>3
  <2> QED BY <1>42, <2>1, <2>2, <2>3
<1>6. ASSUME NEW y \in T PROVE \E k \in 1..(n + 1) : t[k] = y
  <2>1. CASE y = x
    <3>1. n + 1 \in 1..(n + 1)
      BY <1>1
    <3> QED BY <1>4, <2>1, <3>1
  <2>2. CASE y \in S
    <3>1. PICK k \in 1..n : s[k] = y
      BY <1>1, <2>2
    <3>2. k \in 1..(n + 1) /\ t[k] = y
      BY <1>1, <1>4, <3>1
    <3> QED BY <3>2
  <2> QED BY <2>1, <2>2 DEF T
<1>7. Lists(t, T)
  BY <1>4, <1>5, <1>6 DEF Lists
<1> QED BY <1>7 DEF t, T

\* One element less.
LEMMA ListsRemoved ==
  ASSUME NEW s, NEW S, Lists(s, S), NEW k \in 1..Len(s)
  PROVE  s[k] \in S /\ Lists(RemoveAt(s, k), S \ {s[k]}) /\ Len(RemoveAt(s, k)) = Len(s) - 1
<1> DEFINE T == S \ {s[k]}
           n == Len(s)
           t == RemoveAt(s, k)
           m == n - 1
           at(j) == IF j < k THEN j ELSE j + 1
<1>1. /\ s \in Seq(S) /\ n \in Nat /\ k \in 1..n
      /\ \A i, l \in 1..n : s[i] = s[l] => i = l
      /\ \A y \in S : \E i \in 1..n : s[i] = y
      /\ \A i \in 1..n : s[i] \in S
  BY DEF Lists
<1>2. t \in Seq(S) /\ Len(t) = n - 1 /\ \A j \in 1..(n - 1) : t[j] = IF j < k THEN s[j] ELSE s[j + 1]
  BY ONLY <1>1, Removed DEF n, t
<1> HIDE DEF n, t
<1>3. m \in Nat /\ m = n - 1
  BY <1>1
<1> HIDE DEF m
<1>4. \A j \in 1..m : /\ at(j) \in 1..n /\ at(j) # k /\ t[j] = s[at(j)]
  <2> TAKE j \in 1..m
  <2>1. t[j] = s[at(j)]
    BY <1>2, <1>3
  <2>2. at(j) \in 1..n /\ at(j) # k
    BY <1>1, <1>3
  <2> QED BY <2>1, <2>2
<1>5. \A i, j \in 1..m : at(i) = at(j) => i = j
  BY <1>1, <1>3
<1>6. \A i \in 1..n : i # k => \E j \in 1..m : at(j) = i
  <2> SUFFICES ASSUME NEW i \in 1..n, i # k PROVE \E j \in 1..m : at(j) = i
    OBVIOUS
  <2>1. CASE i < k
    <3>1. i \in 1..m /\ at(i) = i
      BY <1>1, <1>3, <2>1
    <3> QED BY <3>1
  <2>2. CASE i > k
    <3>1. i - 1 \in 1..m /\ at(i - 1) = i
      BY <1>1, <1>3, <2>2
    <3> QED BY <3>1
  <2> QED BY <1>1, <2>1, <2>2
<1> HIDE DEF at
<1>7. \A j \in 1..m : t[j] \in T
  BY <1>1, <1>4
<1>8. t \in Seq(T)
  <2>1. t = [j \in 1..m |-> t[j]]
    BY <1>2, <1>3
  <2> HIDE DEF T
  <2> QED BY <1>3, <1>7, <2>1
<1>9. ASSUME NEW i \in 1..m, NEW j \in 1..m, t[i] = t[j] PROVE i = j
  <2>1. at(i) \in 1..n /\ at(j) \in 1..n /\ s[at(i)] = s[at(j)]
    BY <1>4, <1>9
  <2>2. at(i) = at(j)
    BY <1>1, <2>1
  <2> QED BY <1>5, <2>2
<1>10. ASSUME NEW y \in T PROVE \E j \in 1..m : t[j] = y
  <2>1. PICK i \in 1..n : s[i] = y
    BY <1>1
  <2>2. i # k
    BY <2>1
  <2>3. PICK j \in 1..m : at(j) = i
    BY <1>6, <2>2
  <2> QED BY <1>4, <2>1, <2>3
<1> HIDE DEF T
<1>11. Lists(t, T)
  <2>1. Len(t) = m
    BY <1>2, <1>3
  <2> QED BY <1>8, <1>9, <1>10, <2>1 DEF Lists
<1> QED BY <1>1, <1>2, <1>11 DEF t, T, n

\* A sequence and its first element.
LEMMA ListsTail ==
  ASSUME NEW s, NEW S, Lists(s, S), s # <<>>
  PROVE  Head(s) \in S /\ Lists(Tail(s), S \ {Head(s)}) /\ Len(Tail(s)) = Len(s) - 1
<1>1. s \in Seq(S) /\ Len(s) \in Nat /\ Len(s) >= 1 /\ Head(s) = s[1]
  BY EmptySeq DEF Lists
<1>2. 1 \in 1..Len(s)
  BY <1>1
<1>3. RemoveAt(s, 1) = Tail(s)
  <2>1. /\ RemoveAt(s, 1) \in Seq(S) /\ Len(RemoveAt(s, 1)) = Len(s) - 1
        /\ \A j \in 1..(Len(s) - 1) : RemoveAt(s, 1)[j] = IF j < 1 THEN s[j] ELSE s[j + 1]
    BY ONLY <1>1, <1>2, Removed
  <2>2. Tail(s) \in Seq(S) /\ Len(Tail(s)) = Len(s) - 1 /\ \A j \in 1..Len(Tail(s)) : Tail(s)[j] = s[j + 1]
    BY ONLY <1>1, s # <<>>, HeadTailProperties
  <2>3. Len(RemoveAt(s, 1)) = Len(Tail(s)) /\ \A j \in 1..Len(RemoveAt(s, 1)) : RemoveAt(s, 1)[j] = Tail(s)[j]
    BY <1>1, <2>1, <2>2
  <2> QED BY ONLY <2>1, <2>2, <2>3, SeqEqual
<1>4. s[1] \in S /\ Lists(RemoveAt(s, 1), S \ {s[1]}) /\ Len(RemoveAt(s, 1)) = Len(s) - 1
  BY <1>2, ListsRemoved
<1> QED BY <1>1, <1>3, <1>4

\* A sequence and its last element.
LEMMA ListsFront ==
  ASSUME NEW s, NEW S, Lists(s, S), s # <<>>
  PROVE  Last(s) \in S /\ Lists(Front(s), S \ {Last(s)}) /\ Len(Front(s)) = Len(s) - 1
<1>1. s \in Seq(S)
  BY DEF Lists
<1>2. /\ Len(s) \in Nat /\ Len(s) >= 1 /\ Last(s) = s[Len(s)]
      /\ Front(s) \in Seq(S) /\ Len(Front(s)) = Len(s) - 1
      /\ \A j \in 1..(Len(s) - 1) : Front(s)[j] = s[j]
  BY ONLY <1>1, s # <<>>, FrontOf
<1>3. Len(s) \in 1..Len(s)
  BY <1>2
<1>4. /\ RemoveAt(s, Len(s)) \in Seq(S) /\ Len(RemoveAt(s, Len(s))) = Len(s) - 1
      /\ \A j \in 1..(Len(s) - 1) : RemoveAt(s, Len(s))[j] = IF j < Len(s) THEN s[j] ELSE s[j + 1]
  BY ONLY <1>1, <1>3, Removed
<1>5. RemoveAt(s, Len(s)) = Front(s)
  <2>1. \A j \in 1..(Len(s) - 1) : j < Len(s)
    BY <1>2
  <2>2. Len(RemoveAt(s, Len(s))) = Len(Front(s)) /\ \A j \in 1..Len(RemoveAt(s, Len(s))) : RemoveAt(s, Len(s))[j] = Front(s)[j]
    BY <1>2, <1>4, <2>1
  <2> QED BY ONLY <1>2, <1>4, <2>2, SeqEqual
<1>6. s[Len(s)] \in S /\ Lists(RemoveAt(s, Len(s)), S \ {s[Len(s)]})
  BY ONLY <1>3, Lists(s, S), ListsRemoved
<1> QED BY <1>2, <1>5, <1>6

\* Two sequences without an element in common.
LEMMA ListsConcat ==
  ASSUME NEW s, NEW S, Lists(s, S), NEW t, NEW T, Lists(t, T), S \cap T = {}
  PROVE  Lists(s \o t, S \cup T)
<1> DEFINE V == S \cup T
           n == Len(s)
           m == Len(t)
           u == s \o t
<1>1. /\ s \in Seq(S) /\ n \in Nat
      /\ \A k, l \in 1..n : s[k] = s[l] => k = l
      /\ \A y \in S : \E k \in 1..n : s[k] = y
      /\ \A k \in 1..n : s[k] \in S
  <2>1. Listed(s, S, n)
    BY ListsOpen
  <2> QED BY <2>1, Zenon DEF Listed
<1>2. /\ t \in Seq(T) /\ m \in Nat
      /\ \A k, l \in 1..m : t[k] = t[l] => k = l
      /\ \A y \in T : \E k \in 1..m : t[k] = y
      /\ \A k \in 1..m : t[k] \in T
  <2>1. Listed(t, T, m)
    BY ListsOpen
  <2> QED BY <2>1, Zenon DEF Listed
<1>3. s \in Seq(V) /\ t \in Seq(V)
  <2>1. S \subseteq V /\ T \subseteq V
    OBVIOUS
  <2> QED BY ONLY <1>1, <1>2, <2>1, SeqMonotonic
<1>4. IsConcat(u, V, s, t, n, m)
  <2>1. Len(s) = n /\ Len(t) = m
    OBVIOUS
  <2> HIDE DEF n, m, V
  <2> QED BY ONLY <1>1, <1>2, <1>3, <2>1, ConcatAt DEF u
<1> HIDE DEF n, m, u
<1>5. /\ u \in Seq(V) /\ Len(u) = n + m
      /\ \A j \in 1..n : u[j] = s[j]
      /\ \A j \in 1..m : u[n + j] = t[j]
  BY <1>4, Zenon DEF IsConcat
<1>6. ASSUME NEW k \in 1..(n + m)
      PROVE  (k \in 1..n /\ u[k] = s[k]) \/ \E j \in 1..m : k = n + j /\ u[k] = t[j]
  <2>1. CASE k <= n
    BY <1>1, <1>2, <1>5, <2>1
  <2>2. CASE k > n
    <3> DEFINE j == k - n
    <3>1. j \in 1..m /\ k = n + j
      BY <1>1, <1>2, <2>2
    <3> QED BY <1>5, <3>1
  <2> QED BY <1>1, <1>2, <2>1, <2>2
<1>7. ASSUME NEW k \in 1..(n + m), NEW l \in 1..(n + m), u[k] = u[l] PROVE k = l
  <2>1. (k \in 1..n /\ u[k] = s[k]) \/ \E j \in 1..m : k = n + j /\ u[k] = t[j]
    BY <1>6
  <2>2. (l \in 1..n /\ u[l] = s[l]) \/ \E j \in 1..m : l = n + j /\ u[l] = t[j]
    BY <1>6
  <2>3. \A i \in 1..n : \A j \in 1..m : s[i] # t[j]
    BY <1>1, <1>2
  <2> QED BY ONLY <2>1, <2>2, <2>3, <1>1, <1>2, <1>7
<1>8. ASSUME NEW y \in V PROVE \E k \in 1..(n + m) : u[k] = y
  <2>1. CASE y \in S
    <3>1. PICK k \in 1..n : s[k] = y
      BY <1>1, <2>1
    <3>2. k \in 1..(n + m)
      BY <1>1, <1>2
    <3> QED BY <1>5, <3>1, <3>2
  <2>2. CASE y \in T
    <3>1. PICK j \in 1..m : t[j] = y
      BY <1>2, <2>2
    <3>2. n + j \in 1..(n + m)
      BY <1>1, <1>2
    <3> QED BY <1>5, <3>1, <3>2
  <2> QED BY <2>1, <2>2
<1> HIDE DEF V
<1>9. Lists(u, V)
  BY <1>5, <1>7, <1>8 DEF Lists
<1> QED BY <1>9 DEF u, V

\* As many as the set has.
LEMMA ListsCount ==
  ASSUME NEW s, NEW S, Lists(s, S)
  PROVE  IsFiniteSet(S) /\ Len(s) = Cardinality(S) /\ Len(s) \in Nat
<1> DEFINE n == Len(s)
<1>1. /\ s \in Seq(S) /\ n \in Nat /\ s \in [1..n -> S]
      /\ \A k, l \in 1..n : s[k] = s[l] => k = l
      /\ \A y \in S : \E k \in 1..n : s[k] = y
  BY DEF Lists
<1> DEFINE I == 1..n
<1>2. IsFiniteSet(I) /\ Cardinality(I) = n
  <2>1. 1 \in Int /\ n \in Int
    BY <1>1
  <2>2. IsFiniteSet(1..n) /\ Cardinality(1..n) = IF 1 > n THEN 0 ELSE n - 1 + 1
    BY ONLY <2>1, FS_Interval
  <2>3. n = IF 1 > n THEN 0 ELSE n - 1 + 1
    BY <1>1
  <2> QED BY <2>2, <2>3
<1>3. s \in [I -> S] /\ (\A k, l \in I : s[k] = s[l] => k = l) /\ \A y \in S : \E k \in I : s[k] = y
  BY <1>1
<1> HIDE DEF I
<1>4. s \in Bijection(I, S)
  <2>1. DOMAIN s = I
    BY <1>3
  <2>2. IsInjective(s)
    BY <1>3, <2>1 DEF IsInjective
  <2>3. s \in Injection(I, S) /\ s \in Surjection(I, S)
    BY <1>3, <2>2 DEF Injection, Surjection
  <2> QED BY <2>3 DEF Bijection
<1>5. ExistsBijection(I, S)
  BY <1>4 DEF ExistsBijection
<1>6. IsFiniteSet(S) /\ Cardinality(S) = Cardinality(I)
  BY <1>2, <1>5, FS_Bijection
<1> QED BY <1>1, <1>2, <1>6

\* A sequence of the elements of a listed set, listed by their places.
LEMMA ListsThrough ==
  ASSUME NEW s, NEW S, Lists(s, S), NEW p, Lists(p, 1..Len(s)), NEW t,
         t = [k \in 1..Len(p) |-> s[p[k]]]
  PROVE  Lists(t, S) /\ Len(t) = Len(s)
<1> DEFINE n == Len(s)
           m == Len(p)
<1>1. /\ s \in Seq(S) /\ n \in Nat /\ \A k \in 1..n : s[k] \in S
      /\ \A k, l \in 1..n : s[k] = s[l] => k = l
      /\ \A y \in S : \E k \in 1..n : s[k] = y
  BY DEF Lists
<1>2. /\ p \in Seq(1..n) /\ m \in Nat
      /\ \A k, l \in 1..m : p[k] = p[l] => k = l
      /\ \A y \in 1..n : \E k \in 1..m : p[k] = y
      /\ \A k \in 1..m : p[k] \in 1..n
  <2>1. Listed(p, 1..n, m)
    BY ListsOpen
  <2> QED BY <2>1, Zenon DEF Listed
<1>3. m = n
  <2>1. m = Cardinality(1..n)
    BY ListsCount
  <2>2. 1 \in Int /\ n \in Int /\ n = IF 1 > n THEN 0 ELSE n - 1 + 1
    BY <1>1
  <2>3. Cardinality(1..n) = IF 1 > n THEN 0 ELSE n - 1 + 1
    BY ONLY <2>2, FS_Interval
  <2> QED BY ONLY <2>1, <2>2, <2>3
<1> HIDE DEF n
<1>31. m \in Nat
  BY <1>2
<1> HIDE DEF m
<1>4. t = [k \in 1..m |-> s[p[k]]]
  BY DEF m
<1>5. \A k \in 1..m : t[k] = s[p[k]] /\ t[k] \in S
  BY <1>1, <1>2, <1>4
<1>6. t \in Seq(S) /\ Len(t) = m
  <2>1. t \in [1..m -> S]
    <3>1. t = [k \in 1..m |-> t[k]]
      BY <1>4
    <3> QED BY ONLY <1>5, <3>1
  <2> QED BY ONLY <1>31, <2>1
<1>7. ASSUME NEW y \in S PROVE \E k \in 1..m : t[k] = y
  <2>1. PICK j \in 1..n : s[j] = y
    BY <1>1
  <2>2. PICK k \in 1..m : p[k] = j
    BY <1>2
  <2> QED BY <1>5, <2>1, <2>2
<1>8. ASSUME NEW k \in 1..m, NEW l \in 1..m, t[k] = t[l] PROVE k = l
  <2>1. p[k] \in 1..n /\ p[l] \in 1..n /\ s[p[k]] = s[p[l]]
    BY <1>2, <1>5, <1>8
  <2>2. p[k] = p[l]
    BY <1>1, <2>1
  <2> QED BY <1>2, <2>2
<1>9. Len(t) = m /\ m = Len(s)
  BY <1>3, <1>6 DEF n
<1>10. Lists(t, S)
  <2>1. \A k, l \in 1..Len(t) : t[k] = t[l] => k = l
    BY ONLY <1>8, <1>9
  <2>2. \A y \in S : \E k \in 1..Len(t) : t[k] = y
    BY ONLY <1>7, <1>9
  <2> QED BY ONLY <1>6, <2>1, <2>2, Zenon DEF Lists
<1> QED BY ONLY <1>9, <1>10

-----------------------------------------------------------------------------
(* Sequences of sequences that share out the elements of a set *)

\* Part b of parts lists the elements of A[b].
DealsAs(parts, A, S) ==
  /\ parts \in Seq(Seq(S)) /\ A \in [1..Len(parts) -> SUBSET S]
  /\ \A b \in 1..Len(parts) : Lists(parts[b], A[b])
  /\ \A b, c \in 1..Len(parts) : b # c => A[b] \cap A[c] = {}
  /\ \A x \in S : \E b \in 1..Len(parts) : x \in A[b]

\* Each element of S is once in one of the parts, and nothing else is.
Deals(parts, S) == \E A : DealsAs(parts, A, S)

\* What it means, with n for the number of parts.
Dealt(parts, A, S, n) ==
  /\ parts \in Seq(Seq(S)) /\ n \in Nat /\ Len(parts) = n
  /\ \A b \in 1..n : Lists(parts[b], A[b]) /\ A[b] \subseteq S
  /\ \A b, c \in 1..n : b # c => A[b] \cap A[c] = {}
  /\ \A x \in S : \E b \in 1..n : x \in A[b]

\* The definition opened.
LEMMA DealsOpen ==
  ASSUME NEW parts, NEW A, NEW S, DealsAs(parts, A, S), NEW n, n = Len(parts)
  PROVE  Dealt(parts, A, S, n)
<1>1. parts \in Seq(Seq(S)) /\ n \in Nat
  BY DEF DealsAs
<1>2. \A b \in 1..n : Lists(parts[b], A[b]) /\ A[b] \subseteq S
  <2> TAKE b \in 1..n
  <2>1. Lists(parts[b], A[b]) /\ A \in [1..n -> SUBSET S]
    BY DEF DealsAs
  <2> QED BY <2>1
<1>3. (\A b, c \in 1..n : b # c => A[b] \cap A[c] = {}) /\ \A x \in S : \E b \in 1..n : x \in A[b]
  BY DEF DealsAs
<1> QED BY <1>1, <1>2, <1>3 DEF Dealt

\* And put together.
LEMMA DealsClose ==
  ASSUME NEW V, NEW parts \in Seq(V), NEW n, n = Len(parts), NEW A, NEW S,
         \A b \in 1..n : Lists(parts[b], A[b]) /\ A[b] \subseteq S,
         \A b, c \in 1..n : b # c => A[b] \cap A[c] = {},
         \A x \in S : \E b \in 1..n : x \in A[b]
  PROVE  Deals(parts, S)
<1> DEFINE B == [b \in 1..n |-> A[b]]
<1>1. n \in Nat
  OBVIOUS
<1>2. \A b \in 1..n : parts[b] \in Seq(S)
  <2> TAKE b \in 1..n
  <2>1. parts[b] \in Seq(A[b]) /\ A[b] \subseteq S
    BY DEF Lists
  <2> QED BY ONLY <2>1, SeqMonotonic
<1>3. parts \in Seq(Seq(S))
  <2> HIDE DEF B
  <2>1. parts = [b \in 1..n |-> parts[b]]
    OBVIOUS
  <2> QED BY ONLY <1>1, <1>2, <2>1
<1>4. B \in [1..n -> SUBSET S] /\ \A b \in 1..n : B[b] = A[b]
  OBVIOUS
<1> HIDE DEF B
<1>5. \A b \in 1..n : Lists(parts[b], B[b])
  BY <1>4
<1>6. \A b, c \in 1..n : b # c => B[b] \cap B[c] = {}
  BY <1>4
<1>7. \A x \in S : \E b \in 1..n : x \in B[b]
  BY <1>4
<1>8. DealsAs(parts, B, S)
  BY <1>3, <1>4, <1>5, <1>6, <1>7 DEF DealsAs
<1> QED BY <1>8 DEF Deals

\* No parts.
LEMMA DealsNone == Deals(<<>>, {})
<1>1. <<>> \in Seq({}) /\ Len(<<>>) = 0
  OBVIOUS
<1> DEFINE A == [b \in {} |-> {}]
           n == 0
           p == <<>>
<1>2. p \in Seq({}) /\ n = Len(p) /\ 1..n = {}
  OBVIOUS
<1> HIDE DEF A, n, p
<1>3. Deals(p, {})
  <2>1. \A b \in 1..n : Lists(p[b], A[b]) /\ A[b] \subseteq {}
    BY <1>2
  <2>2. \A b, c \in 1..n : b # c => A[b] \cap A[c] = {}
    BY <1>2
  <2>3. \A x \in {} : \E b \in 1..n : x \in A[b]
    OBVIOUS
  <2> QED BY ONLY <1>2, <2>1, <2>2, <2>3, DealsClose
<1> QED BY <1>3 DEF p

\* r is s with t at place k.
WithOne(r, s, k, t) ==
  /\ Len(r) = Len(s) + 1 /\ k \in 1..(Len(s) + 1)
  /\ \A j \in 1..(Len(s) + 1) : r[j] = IF j < k THEN s[j] ELSE IF j = k THEN t ELSE s[j - 1]

\* One part more.
LEMMA DealsWithOne ==
  ASSUME NEW parts, NEW S, Deals(parts, S), NEW s, NEW T, Lists(s, T), S \cap T = {},
         NEW V, NEW r \in Seq(V), NEW k, WithOne(r, parts, k, s)
  PROVE  Deals(r, S \cup T)
<1>1. PICK A : DealsAs(parts, A, S)
  BY DEF Deals
<1> DEFINE n == Len(parts)
           m == n + 1
           B == [j \in 1..m |-> IF j < k THEN A[j] ELSE IF j = k THEN T ELSE A[j - 1]]
           W == S \cup T
<1>2. /\ parts \in Seq(Seq(S)) /\ n \in Nat
      /\ \A b \in 1..n : Lists(parts[b], A[b]) /\ A[b] \subseteq S
      /\ \A b, c \in 1..n : b # c => A[b] \cap A[c] = {}
      /\ \A x \in S : \E b \in 1..n : x \in A[b]
  <2>1. Dealt(parts, A, S, n)
    BY <1>1, DealsOpen
  <2> QED BY <2>1, Zenon DEF Dealt
<1>3. /\ Len(r) = m /\ k \in 1..m
      /\ \A j \in 1..m : r[j] = IF j < k THEN parts[j] ELSE IF j = k THEN s ELSE parts[j - 1]
  BY DEF WithOne
<1> HIDE DEF n
<1>4. m = n + 1 /\ m \in Nat
  BY <1>2
<1> HIDE DEF m
<1>5. ASSUME NEW j \in 1..m
      PROVE  \/ j = k /\ r[j] = s /\ B[j] = T
             \/ j < k /\ j \in 1..n /\ r[j] = parts[j] /\ B[j] = A[j]
             \/ j > k /\ j - 1 \in 1..n /\ r[j] = parts[j - 1] /\ B[j] = A[j - 1]
  <2>1. r[j] = (IF j < k THEN parts[j] ELSE IF j = k THEN s ELSE parts[j - 1])
        /\ B[j] = (IF j < k THEN A[j] ELSE IF j = k THEN T ELSE A[j - 1])
    BY <1>3
  <2>2. j \in Nat /\ k \in Nat /\ j <= m /\ k <= m /\ j >= 1 /\ k >= 1
    BY <1>3, <1>4
  <2> HIDE DEF B
  <2>3. CASE j < k
    BY <1>2, <1>4, <2>1, <2>2, <2>3
  <2>4. CASE j = k
    <3>1. ~ (j < k)
      BY <2>2, <2>4
    <3> QED BY <2>1, <2>4, <3>1
  <2>5. CASE j > k
    <3>1. ~ (j < k) /\ j # k /\ j - 1 \in 1..n
      BY <1>2, <1>4, <2>2, <2>5
    <3> QED BY <2>1, <2>5, <3>1
  <2> QED BY <2>2, <2>3, <2>4, <2>5
<1> HIDE DEF B
<1>6. \A j \in 1..m : Lists(r[j], B[j]) /\ B[j] \subseteq W
  <2> TAKE j \in 1..m
  <2> QED BY <1>2, <1>5
<1>7. ASSUME NEW i \in 1..m, NEW j \in 1..m, i # j PROVE B[i] \cap B[j] = {}
  <2>1. \/ i = k /\ B[i] = T
        \/ i < k /\ i \in 1..n /\ B[i] = A[i]
        \/ i > k /\ i - 1 \in 1..n /\ B[i] = A[i - 1]
    BY <1>5
  <2>2. \/ j = k /\ B[j] = T
        \/ j < k /\ j \in 1..n /\ B[j] = A[j]
        \/ j > k /\ j - 1 \in 1..n /\ B[j] = A[j - 1]
    BY <1>5
  <2>3. \A b \in 1..n : A[b] \cap T = {} /\ T \cap A[b] = {}
    BY <1>2
  <2>4. i \in Nat /\ j \in Nat /\ k \in Nat
    BY <1>3, <1>4
  <2>5. CASE i = k
    <3>1. j # k
      BY <1>7, <2>5
    <3> QED BY <2>1, <2>2, <2>3, <2>4, <2>5, <3>1
  <2>6. CASE i # k /\ j = k
    BY <2>1, <2>2, <2>3, <2>4, <2>6
  <2>7. CASE i # k /\ j # k
    <3>1. \E b \in 1..n : B[i] = A[b] /\ b = IF i < k THEN i ELSE i - 1
      BY <2>1, <2>4, <2>7
    <3>2. \E c \in 1..n : B[j] = A[c] /\ c = IF j < k THEN j ELSE j - 1
      BY <2>2, <2>4, <2>7
    <3>3. PICK b \in 1..n : B[i] = A[b] /\ b = IF i < k THEN i ELSE i - 1
      BY <3>1
    <3>4. PICK c \in 1..n : B[j] = A[c] /\ c = IF j < k THEN j ELSE j - 1
      BY <3>2
    <3>5. b # c
      BY <1>7, <2>4, <2>7, <3>3, <3>4
    <3> QED BY <1>2, <3>3, <3>4, <3>5
  <2> QED BY <2>5, <2>6, <2>7
<1>8. ASSUME NEW x \in W PROVE \E j \in 1..m : x \in B[j]
  <2>1. CASE x \in T
    <3>1. B[k] = T
      BY <1>3, <1>5
    <3> QED BY <1>3, <2>1, <3>1
  <2>2. CASE x \in S
    <3>1. PICK b \in 1..n : x \in A[b]
      BY <1>2, <2>2
    <3>2. CASE b < k
      <4>1. b \in 1..m
        BY <1>2, <1>4
      <4>2. B[b] = A[b]
        BY <1>3, <1>4, <1>5, <3>2, <4>1
      <4> QED BY <3>1, <4>1, <4>2
    <3>3. CASE ~ (b < k)
      <4>1. b + 1 \in 1..m /\ b + 1 > k /\ (b + 1) - 1 = b
        BY <1>2, <1>3, <1>4, <3>3
      <4> DEFINE j == b + 1
      <4>2. j \in 1..m /\ j > k /\ j - 1 = b
        BY <4>1
      <4> HIDE DEF j
      <4>3. k \in Nat /\ j \in Nat
        BY <1>3, <1>4, <4>2
      <4>4. ~ (j = k) /\ ~ (j < k)
        BY <4>2, <4>3
      <4>5. B[j] = A[j - 1]
        BY <1>5, <4>2, <4>4
      <4> QED BY <3>1, <4>2, <4>5
    <3> QED BY <3>2, <3>3
  <2> QED BY <2>1, <2>2
<1> HIDE DEF W
<1>9. Deals(r, W)
  BY ONLY <1>3, <1>6, <1>7, <1>8, r \in Seq(V), DealsClose
<1> QED BY <1>9 DEF W

\* A part replaced by another.
LEMMA DealsReplaced ==
  ASSUME NEW parts, NEW A, NEW S, DealsAs(parts, A, S), NEW b \in 1..Len(parts),
         NEW s, NEW T, Lists(s, T), T \cap (S \ A[b]) = {}
  PROVE  Deals([parts EXCEPT ![b] = s], (S \ A[b]) \cup T)
<1> DEFINE n == Len(parts)
           W == (S \ A[b]) \cup T
           r == [parts EXCEPT ![b] = s]
           B == [A EXCEPT ![b] = T]
<1>1. /\ parts \in Seq(Seq(S)) /\ n \in Nat
      /\ \A c \in 1..n : Lists(parts[c], A[c]) /\ A[c] \subseteq S
      /\ \A c, d \in 1..n : c # d => A[c] \cap A[d] = {}
      /\ \A x \in S : \E c \in 1..n : x \in A[c]
  <2>1. Dealt(parts, A, S, n)
    BY DealsOpen
  <2> QED BY <2>1, Zenon DEF Dealt
<1>2. b \in 1..n /\ DOMAIN A = 1..n
  BY DEF DealsAs
<1>3. r \in Seq(Seq(S \cup T)) /\ Len(r) = n /\ r[b] = s /\ \A c \in 1..n : c # b => r[c] = parts[c]
  <2>1. S \subseteq (S \cup T) /\ T \subseteq (S \cup T)
    OBVIOUS
  <2>2. \A c \in 1..n : parts[c] \in Seq(S \cup T)
    <3> TAKE c \in 1..n
    <3>1. parts[c] \in Seq(S)
      BY <1>1
    <3> QED BY ONLY <2>1, <3>1, SeqMonotonic
  <2>3. s \in Seq(S \cup T)
    <3>1. s \in Seq(T)
      BY DEF Lists
    <3> QED BY ONLY <2>1, <3>1, SeqMonotonic
  <2>4. parts \in Seq(Seq(S \cup T))
    <3>1. parts = [c \in 1..n |-> parts[c]]
      BY <1>1
    <3> HIDE DEF n
    <3> QED BY ONLY <1>1, <2>2, <3>1
  <2> QED BY ONLY <2>3, <2>4, b \in 1..Len(parts), ExceptSeq DEF n, r
<1>4. B[b] = T /\ \A c \in 1..n : c # b => B[c] = A[c]
  BY <1>2
<1> HIDE DEF r, B, n
<1>5. \A c \in 1..n : Lists(r[c], B[c]) /\ B[c] \subseteq W
  <2> TAKE c \in 1..n
  <2>1. CASE c = b
    BY <1>3, <1>4, <2>1
  <2>2. CASE c # b
    <3>1. A[c] \cap A[b] = {} /\ A[c] \subseteq S
      BY <1>1, <1>2, <2>2
    <3> QED BY <1>1, <1>3, <1>4, <2>2, <3>1
  <2> QED BY <2>1, <2>2
<1>6. ASSUME NEW c \in 1..n, NEW d \in 1..n, c # d PROVE B[c] \cap B[d] = {}
  <2>1. \A e \in 1..n : e # b => A[e] \cap T = {} /\ T \cap A[e] = {}
    BY <1>1, <1>2
  <2>2. CASE c = b
    BY ONLY <1>4, <1>6, <2>1, <2>2, c \in 1..n, d \in 1..n
  <2>3. CASE d = b
    BY ONLY <1>4, <1>6, <2>1, <2>3, c \in 1..n, d \in 1..n
  <2>4. CASE c # b /\ d # b
    <3>1. A[c] \cap A[d] = {}
      BY <1>1, <1>2, <1>6
    <3>2. B[c] = A[c] /\ B[d] = A[d]
      BY <1>4, <2>4
    <3> QED BY ONLY <3>1, <3>2
  <2> QED BY <2>2, <2>3, <2>4
<1>7. ASSUME NEW x \in W PROVE \E c \in 1..n : x \in B[c]
  <2>1. CASE x \in T
    BY <1>2, <1>4, <2>1
  <2>2. CASE x \notin T
    <3>1. x \in S /\ x \notin A[b]
      BY <1>7, <2>2
    <3>2. PICK c \in 1..n : x \in A[c]
      BY <1>1, <3>1
    <3>3. c # b
      BY <3>1, <3>2
    <3> QED BY <1>4, <3>2, <3>3
  <2> QED BY <2>1, <2>2
<1> HIDE DEF W
<1>8. Deals(r, W)
  <2> DEFINE V == Seq(S \cup T)
  <2>1. r \in Seq(V) /\ n = Len(r)
    BY <1>3
  <2> HIDE DEF V
  <2> QED BY ONLY <2>1, <1>5, <1>6, <1>7, DealsClose
<1> QED BY <1>8 DEF r, W

\* At the end.
LEMMA DealsAppend ==
  ASSUME NEW parts, NEW S, Deals(parts, S), NEW s, NEW T, Lists(s, T), S \cap T = {},
         NEW V, parts \in Seq(V), s \in V
  PROVE  Deals(Append(parts, s), S \cup T)
<1> DEFINE r == Append(parts, s)
           n == Len(parts)
           k == n + 1
<1>1. n \in Nat /\ r \in Seq(V) /\ Len(r) = n + 1 /\ r[n + 1] = s /\ \A j \in 1..n : r[j] = parts[j]
  BY ONLY parts \in Seq(V), s \in V, AppendProperties
<1> HIDE DEF r, n
<1>2. k = n + 1 /\ k \in 1..(n + 1)
  BY <1>1
<1> HIDE DEF k
<1>3. \A j \in 1..(n + 1) : r[j] = IF j < k THEN parts[j] ELSE IF j = k THEN s ELSE parts[j - 1]
  <2> TAKE j \in 1..(n + 1)
  <2>1. CASE j = n + 1
    <3>1. j = k /\ ~ (j < k)
      BY <1>1, <1>2, <2>1
    <3> QED BY ONLY <1>1, <2>1, <3>1
  <2>2. CASE j # n + 1
    <3>1. j \in 1..n /\ j < k
      BY <1>1, <1>2, <2>2
    <3> QED BY ONLY <1>1, <3>1
  <2> QED BY <2>1, <2>2
<1>4. WithOne(r, parts, k, s)
  BY <1>1, <1>2, <1>3 DEF WithOne, n
<1>5. Deals(r, S \cup T)
  BY <1>1, <1>4, DealsWithOne
<1> QED BY <1>5 DEF r

\* At any place.
LEMMA DealsInserted ==
  ASSUME NEW parts, NEW S, Deals(parts, S), NEW s, NEW T, Lists(s, T), S \cap T = {},
         NEW V, parts \in Seq(V), s \in V, NEW k \in 1..(Len(parts) + 1)
  PROVE  Deals(InsertAt(parts, k, s), S \cup T)
<1> DEFINE r == InsertAt(parts, k, s)
<1>1. /\ r \in Seq(V) /\ Len(r) = Len(parts) + 1
      /\ \A j \in 1..(Len(parts) + 1) : r[j] = IF j < k THEN parts[j] ELSE IF j = k THEN s ELSE parts[j - 1]
  BY ONLY parts \in Seq(V), s \in V, k \in 1..(Len(parts) + 1), Inserted
<1> HIDE DEF r
<1>2. WithOne(r, parts, k, s)
  BY <1>1 DEF WithOne
<1>3. Deals(r, S \cup T)
  BY <1>1, <1>2, DealsWithOne
<1> QED BY <1>3 DEF r

\* At the front.
LEMMA DealsFirst ==
  ASSUME NEW parts, NEW S, Deals(parts, S), NEW s, NEW T, Lists(s, T), S \cap T = {},
         NEW V, parts \in Seq(V), s \in V
  PROVE  /\ Deals(<<s>> \o parts, S \cup T)
         /\ WithOne(<<s>> \o parts, parts, 1, s)
<1> DEFINE n == Len(parts)
           one == <<s>>
           r == one \o parts
<1>1. n \in Nat /\ one \in Seq(V) /\ Len(one) = 1 /\ one[1] = s
  OBVIOUS
<1> HIDE DEF one
<1>2. IsConcat(r, V, one, parts, 1, n)
  <2>1. 1 \in Nat /\ Len(parts) = n
    OBVIOUS
  <2> HIDE DEF n
  <2> QED BY ONLY <1>1, <2>1, parts \in Seq(V), ConcatAt DEF r
<1> HIDE DEF r, n
<1>3. /\ r \in Seq(V) /\ Len(r) = 1 + n
      /\ \A j \in 1..1 : r[j] = one[j]
      /\ \A j \in 1..n : r[1 + j] = parts[j]
  BY <1>2, Zenon DEF IsConcat
<1>4. \A j \in 1..(n + 1) : r[j] = IF j < 1 THEN parts[j] ELSE IF j = 1 THEN s ELSE parts[j - 1]
  <2> TAKE j \in 1..(n + 1)
  <2>1. CASE j = 1
    <3>1. j \in 1..1 /\ ~ (j < 1)
      BY <2>1
    <3> QED BY <1>1, <1>3, <2>1, <3>1
  <2>2. CASE j # 1
    <3> DEFINE i == j - 1
    <3>1. i \in 1..n /\ 1 + i = j /\ ~ (j < 1)
      BY <1>1, <2>2
    <3> HIDE DEF i
    <3>2. r[j] = parts[i]
      BY <1>3, <3>1
    <3> QED BY <2>2, <3>1, <3>2 DEF i
  <2> QED BY <2>1, <2>2
<1>5. WithOne(r, parts, 1, s)
  <2>1. Len(r) = n + 1 /\ 1 \in 1..(n + 1)
    BY <1>1, <1>3
  <2> QED BY <1>4, <2>1 DEF WithOne, n
<1>6. Deals(r, S \cup T)
  BY <1>3, <1>5, DealsWithOne
<1> QED BY <1>5, <1>6 DEF r, one

\* One element more, at the end of a part.
LEMMA DealsOneMore ==
  ASSUME NEW parts, NEW S, Deals(parts, S), NEW b \in 1..Len(parts), NEW x, x \notin S
  PROVE  Deals([parts EXCEPT ![b] = Append(parts[b], x)], S \cup {x})
<1>1. PICK A : DealsAs(parts, A, S)
  BY DEF Deals
<1>2. Lists(parts[b], A[b]) /\ A[b] \subseteq S
  <2>1. Dealt(parts, A, S, Len(parts))
    BY <1>1, DealsOpen
  <2> QED BY <2>1 DEF Dealt
<1> DEFINE T == A[b] \cup {x}
           s == Append(parts[b], x)
<1>3. Lists(s, T)
  BY <1>2, ListsAppend
<1>4. T \cap (S \ A[b]) = {} /\ (S \ A[b]) \cup T = S \cup {x}
  BY <1>2
<1> HIDE DEF s, T
<1>5. Deals([parts EXCEPT ![b] = s], (S \ A[b]) \cup T)
  BY <1>1, <1>3, <1>4, DealsReplaced
<1> QED BY <1>4, <1>5 DEF s

\* The last element of a part taken away.
LEMMA DealsOneLess ==
  ASSUME NEW parts, NEW S, Deals(parts, S), NEW b \in 1..Len(parts), parts[b] # <<>>
  PROVE  Last(parts[b]) \in S /\ Deals([parts EXCEPT ![b] = Front(parts[b])], S \ {Last(parts[b])})
<1>1. PICK A : DealsAs(parts, A, S)
  BY DEF Deals
<1>2. Lists(parts[b], A[b]) /\ A[b] \subseteq S
  <2>1. Dealt(parts, A, S, Len(parts))
    BY <1>1, DealsOpen
  <2> QED BY <2>1 DEF Dealt
<1> DEFINE x == Last(parts[b])
           T == A[b] \ {x}
           s == Front(parts[b])
<1>3. x \in A[b] /\ Lists(s, T)
  BY <1>2, ListsFront
<1>4. T \cap (S \ A[b]) = {} /\ (S \ A[b]) \cup T = S \ {x}
  BY <1>2, <1>3
<1> HIDE DEF s, T
<1>5. Deals([parts EXCEPT ![b] = s], (S \ A[b]) \cup T)
  BY <1>1, <1>3, <1>4, DealsReplaced
<1> QED BY <1>2, <1>3, <1>4, <1>5 DEF s

\* The first part taken away.
LEMMA DealsTail ==
  ASSUME NEW parts, NEW S, Deals(parts, S), parts # <<>>
  PROVE  \E T \in SUBSET S : Lists(Head(parts), T) /\ Deals(Tail(parts), S \ T)
<1>1. PICK A : DealsAs(parts, A, S)
  BY DEF Deals
<1> DEFINE n == Len(parts)
           t == Tail(parts)
           m == n - 1
           T == A[1]
           B == [b \in 1..m |-> A[b + 1]]
           W == S \ T
<1>2. /\ parts \in Seq(Seq(S)) /\ n \in Nat
      /\ \A c \in 1..n : Lists(parts[c], A[c]) /\ A[c] \subseteq S
      /\ \A c, d \in 1..n : c # d => A[c] \cap A[d] = {}
      /\ \A x \in S : \E c \in 1..n : x \in A[c]
  <2>1. Dealt(parts, A, S, n)
    BY <1>1, DealsOpen
  <2> QED BY <2>1, Zenon DEF Dealt
<1>3. n >= 1 /\ Head(parts) = parts[1] /\ 1 \in 1..n
  BY <1>2, EmptySeq
<1>4. t \in Seq(Seq(S)) /\ Len(t) = m /\ \A b \in 1..m : t[b] = parts[b + 1]
  <2>1. t \in Seq(Seq(S)) /\ Len(t) = n - 1 /\ \A b \in 1..Len(t) : t[b] = parts[b + 1]
    BY ONLY <1>2, parts # <<>>, HeadTailProperties DEF n, t
  <2> QED BY <2>1
<1> HIDE DEF t, n
<1>5. m \in Nat /\ \A b \in 1..m : b + 1 \in 1..n /\ b + 1 # 1
  BY <1>2, <1>3
<1>50. \A b \in 2..n : b - 1 \in 1..m /\ (b - 1) + 1 = b
  BY <1>2, <1>3
<1>51. \A b, c \in 1..m : b # c => b + 1 # c + 1
  BY <1>5
<1> HIDE DEF m
<1>6. \A b \in 1..m : B[b] = A[b + 1]
  OBVIOUS
<1> HIDE DEF B
<1>7. \A b \in 1..m : Lists(t[b], B[b]) /\ B[b] \subseteq W
  <2> TAKE b \in 1..m
  <2> DEFINE c == b + 1
  <2>1. c \in 1..n /\ c # 1 /\ B[b] = A[c] /\ t[b] = parts[c]
    BY <1>4, <1>5, <1>6
  <2> HIDE DEF c
  <2>2. A[c] \cap A[1] = {} /\ A[c] \subseteq S /\ Lists(parts[c], A[c])
    BY <1>2, <1>3, <2>1
  <2> QED BY <2>1, <2>2
<1>8. ASSUME NEW b \in 1..m, NEW d \in 1..m, b # d PROVE B[b] \cap B[d] = {}
  <2> DEFINE c == b + 1
             e == d + 1
  <2>1. c \in 1..n /\ e \in 1..n /\ c # e /\ B[b] = A[c] /\ B[d] = A[e]
    BY <1>5, <1>51, <1>6, <1>8
  <2> HIDE DEF c, e
  <2> QED BY <1>2, <2>1
<1>9. ASSUME NEW x \in W PROVE \E b \in 1..m : x \in B[b]
  <2>1. PICK c \in 1..n : x \in A[c]
    BY <1>2
  <2>2. c # 1
    BY <2>1
  <2>3. c \in 2..n
    BY <1>2, <2>2
  <2> DEFINE b == c - 1
  <2>4. b \in 1..m /\ b + 1 = c
    BY <1>50, <2>3
  <2> HIDE DEF b
  <2> QED BY <1>6, <2>1, <2>4
<1> HIDE DEF W
<1>10. Deals(t, W)
  <2>1. m = Len(t)
    BY <1>4
  <2> QED BY ONLY <1>4, <2>1, <1>7, <1>8, <1>9, DealsClose
<1>11. T \in SUBSET S /\ Lists(Head(parts), T)
  BY <1>2, <1>3
<1> QED BY <1>10, <1>11 DEF t, W

\* Two sequences of parts without an element in common.
LEMMA DealsConcat ==
  ASSUME NEW parts, NEW S, Deals(parts, S), NEW more, NEW T, Deals(more, T), S \cap T = {}
  PROVE  Deals(parts \o more, S \cup T)
<1>1. PICK A : DealsAs(parts, A, S)
  BY DEF Deals
<1>2. PICK C : DealsAs(more, C, T)
  BY DEF Deals
<1> DEFINE n == Len(parts)
           m == Len(more)
           W == S \cup T
           V == Seq(W)
           r == parts \o more
           B == [j \in 1..(n + m) |-> IF j <= n THEN A[j] ELSE C[j - n]]
<1>3. /\ parts \in Seq(Seq(S)) /\ n \in Nat
      /\ \A c \in 1..n : Lists(parts[c], A[c]) /\ A[c] \subseteq S
      /\ \A c, d \in 1..n : c # d => A[c] \cap A[d] = {}
      /\ \A x \in S : \E c \in 1..n : x \in A[c]
  <2>1. Dealt(parts, A, S, n)
    BY <1>1, DealsOpen
  <2> QED BY <2>1, Zenon DEF Dealt
<1>4. /\ more \in Seq(Seq(T)) /\ m \in Nat
      /\ \A c \in 1..m : Lists(more[c], C[c]) /\ C[c] \subseteq T
      /\ \A c, d \in 1..m : c # d => C[c] \cap C[d] = {}
      /\ \A x \in T : \E c \in 1..m : x \in C[c]
  <2>1. Dealt(more, C, T, m)
    BY <1>2, DealsOpen
  <2> QED BY <2>1, Zenon DEF Dealt
<1>5. Seq(S) \subseteq V /\ Seq(T) \subseteq V
  <2>1. S \subseteq W /\ T \subseteq W
    OBVIOUS
  <2>2. ASSUME NEW q \in Seq(S) PROVE q \in V
    BY ONLY <2>1, q \in Seq(S), SeqMonotonic
  <2>3. ASSUME NEW q \in Seq(T) PROVE q \in V
    BY ONLY <2>1, q \in Seq(T), SeqMonotonic
  <2> QED BY <2>2, <2>3
<1> HIDE DEF V
<1>6. parts \in Seq(V) /\ more \in Seq(V)
  BY ONLY <1>3, <1>4, <1>5, SeqMonotonic
<1>7. IsConcat(r, V, parts, more, n, m)
  <2>1. Len(parts) = n /\ Len(more) = m
    OBVIOUS
  <2> HIDE DEF n, m
  <2> QED BY ONLY <1>3, <1>4, <1>6, <2>1, ConcatAt DEF r
<1> HIDE DEF n, m, r
<1>8. /\ r \in Seq(V) /\ Len(r) = n + m
      /\ \A j \in 1..n : r[j] = parts[j]
      /\ \A j \in 1..m : r[n + j] = more[j]
  BY <1>7, Zenon DEF IsConcat
<1>9. /\ \A j \in 1..n : j \in 1..(n + m) /\ j <= n
      /\ \A j \in 1..m : n + j \in 1..(n + m) /\ ~ (n + j <= n) /\ (n + j) - n = j
      /\ \A j \in 1..(n + m) : j \in 1..n \/ \E i \in 1..m : j = n + i
  <2>1. ASSUME NEW j \in 1..(n + m) PROVE j \in 1..n \/ \E i \in 1..m : j = n + i
    <3>1. CASE j <= n
      BY <1>3, <1>4, <3>1
    <3>2. CASE j > n
      <4>1. j - n \in 1..m /\ j = n + (j - n)
        BY <1>3, <1>4, <3>2
      <4> QED BY <4>1
    <3> QED BY <1>3, <1>4, <3>1, <3>2
  <2> QED BY <1>3, <1>4, <2>1
<1>10. (\A j \in 1..n : B[j] = A[j]) /\ \A j \in 1..m : B[n + j] = C[j]
  BY <1>9
<1> HIDE DEF B
<1>11. ASSUME NEW j \in 1..(n + m) PROVE Lists(r[j], B[j]) /\ B[j] \subseteq W
  <2>1. CASE j \in 1..n
    BY <1>3, <1>8, <1>10, <2>1
  <2>2. CASE \E i \in 1..m : j = n + i
    <3>1. PICK i \in 1..m : j = n + i
      BY <2>2
    <3> QED BY <1>4, <1>8, <1>10, <3>1
  <2> QED BY <1>9, <2>1, <2>2
<1>12. ASSUME NEW i \in 1..(n + m), NEW j \in 1..(n + m), i # j PROVE B[i] \cap B[j] = {}
  <2>1. \A a \in 1..n : \A b \in 1..m : A[a] \cap C[b] = {} /\ C[b] \cap A[a] = {}
    <3> TAKE a \in 1..n
    <3> TAKE b \in 1..m
    <3>1. A[a] \subseteq S /\ C[b] \subseteq T
      BY <1>3, <1>4
    <3> QED BY <3>1
  <2>2. CASE i \in 1..n /\ j \in 1..n
    BY <1>3, <1>10, <1>12, <2>2
  <2>3. CASE i \in 1..n /\ \E b \in 1..m : j = n + b
    BY <1>10, <2>1, <2>3
  <2>4. CASE j \in 1..n /\ \E b \in 1..m : i = n + b
    BY <1>10, <2>1, <2>4
  <2>5. CASE (\E b \in 1..m : i = n + b) /\ \E b \in 1..m : j = n + b
    <3>1. PICK a \in 1..m : i = n + a
      BY <2>5
    <3>2. PICK b \in 1..m : j = n + b
      BY <2>5
    <3>3. a # b
      BY <1>12, <3>1, <3>2
    <3> QED BY <1>4, <1>10, <3>1, <3>2, <3>3
  <2> QED BY <1>9, <2>2, <2>3, <2>4, <2>5
<1>13. ASSUME NEW x \in W PROVE \E j \in 1..(n + m) : x \in B[j]
  <2>1. CASE x \in S
    BY <1>3, <1>9, <1>10, <2>1
  <2>2. CASE x \in T
    <3>1. PICK b \in 1..m : x \in C[b]
      BY <1>4, <2>2
    <3>2. n + b \in 1..(n + m) /\ B[n + b] = C[b]
      BY <1>9, <1>10
    <3> QED BY <3>1, <3>2
  <2> QED BY <2>1, <2>2
<1> HIDE DEF W
<1> DEFINE t == n + m
<1>14. t = Len(r)
  BY <1>8
<1>15. /\ \A j \in 1..t : Lists(r[j], B[j]) /\ B[j] \subseteq W
       /\ \A i, j \in 1..t : i # j => B[i] \cap B[j] = {}
       /\ \A x \in W : \E j \in 1..t : x \in B[j]
  BY <1>11, <1>12, <1>13
<1> HIDE DEF t
<1>16. Deals(r, W)
  BY ONLY <1>8, <1>14, <1>15, DealsClose
<1> QED BY <1>16 DEF r, W

\* Where an element of a part is in the whole.
LEMMA PlaceOfPart ==
  ASSUME NEW V, NEW parts \in Seq(Seq(V)), NEW B, PartOffsets(B, parts),
         NEW i \in 1..Len(parts), NEW k \in 1..Len(parts[i])
  PROVE  B[i - 1] + k \in 1..B[Len(parts)]
<1> DEFINE a == B[i - 1]
           b == B[i]
           c == B[Len(parts)]
           x == Len(parts[i])
<1>1. i \in 0..Len(parts) /\ i - 1 \in 0..Len(parts) /\ Len(parts) \in 0..Len(parts) /\ i <= Len(parts)
  <2>1. Len(parts) \in Nat
    OBVIOUS
  <2> QED BY <2>1
<1>2. a \in Nat /\ b \in Nat /\ c \in Nat /\ b = a + x
  BY <1>1 DEF PartOffsets
<1>3. b <= c
  BY <1>1, OffsetsGrow
<1>4. x \in Nat
  OBVIOUS
<1>5. k \in Nat /\ k >= 1 /\ k <= x
  BY <1>4
<1> HIDE DEF a, b, c, x
<1>6. a + k \in 1..c
  BY ONLY <1>2, <1>3, <1>4, <1>5
<1> QED BY <1>6 DEF a, c

\* The parts put together list all.
LEMMA DealsFlat ==
  ASSUME NEW parts, NEW S, Deals(parts, S)
  PROVE  Lists(FlattenSeq(parts), S)
<1>1. PICK A : DealsAs(parts, A, S)
  BY DEF Deals
<1> DEFINE n == Len(parts)
           f == FlattenSeq(parts)
<1>2. /\ parts \in Seq(Seq(S)) /\ n \in Nat
      /\ \A c \in 1..n : Lists(parts[c], A[c]) /\ A[c] \subseteq S
      /\ \A c, d \in 1..n : c # d => A[c] \cap A[d] = {}
      /\ \A x \in S : \E c \in 1..n : x \in A[c]
  <2>1. Dealt(parts, A, S, n)
    BY <1>1, DealsOpen
  <2> QED BY <2>1, Zenon DEF Dealt
<1>3. f \in Seq(S) /\ \E B : PartOffsets(B, parts) /\ Joined(f, parts, B)
  BY ONLY <1>2, Flattened DEF f
<1>4. PICK B : PartOffsets(B, parts) /\ Joined(f, parts, B)
  BY <1>3
<1> HIDE DEF f, n
<1>5. Len(f) = B[n] /\ \A i \in 1..n : \A k \in 1..Len(parts[i]) : f[B[i - 1] + k] = parts[i][k]
  BY <1>4 DEF Joined, n
<1>6. ASSUME NEW p \in 1..Len(f)
      PROVE  \E i \in 1..n : \E k \in 1..Len(parts[i]) :
               p = B[i - 1] + k /\ f[p] = parts[i][k] /\ f[p] \in A[i]
  <2>1. PICK i \in 1..n : \E k \in 1..Len(parts[i]) : p = B[i - 1] + k
    <3>1. p \in 1..B[Len(parts)]
      BY <1>5 DEF n
    <3>2. parts \in Seq(Seq(S)) /\ PartOffsets(B, parts)
      BY <1>2, <1>4
    <3>3. \E i \in 1..Len(parts) : \E k \in 1..Len(parts[i]) : p = B[i - 1] + k
      BY ONLY <3>1, <3>2, PositionInPart
    <3> QED BY <3>3 DEF n
  <2>2. PICK k \in 1..Len(parts[i]) : p = B[i - 1] + k
    BY <2>1
  <2>3. parts[i][k] \in A[i]
    <3>1. parts[i] \in Seq(A[i])
      BY <1>2 DEF Lists
    <3> QED BY ONLY <3>1, k \in 1..Len(parts[i]), ElementOfSeq
  <2> QED BY <1>5, <2>2, <2>3
<1>7. ASSUME NEW p \in 1..Len(f), NEW q \in 1..Len(f), f[p] = f[q] PROVE p = q
  <2>1. PICK i \in 1..n : \E k \in 1..Len(parts[i]) :
               p = B[i - 1] + k /\ f[p] = parts[i][k] /\ f[p] \in A[i]
    BY <1>6
  <2>2. PICK k \in 1..Len(parts[i]) : p = B[i - 1] + k /\ f[p] = parts[i][k] /\ f[p] \in A[i]
    BY <2>1
  <2>3. PICK j \in 1..n : \E l \in 1..Len(parts[j]) :
               q = B[j - 1] + l /\ f[q] = parts[j][l] /\ f[q] \in A[j]
    BY <1>6
  <2>4. PICK l \in 1..Len(parts[j]) : q = B[j - 1] + l /\ f[q] = parts[j][l] /\ f[q] \in A[j]
    BY <2>3
  <2>5. i = j
    BY <1>2, <1>7, <2>2, <2>4
  <2>6. \A a, b \in 1..Len(parts[i]) : parts[i][a] = parts[i][b] => a = b
    BY <1>2 DEF Lists
  <2>7. k = l
    BY <1>7, <2>2, <2>4, <2>5, <2>6
  <2> QED BY <2>2, <2>4, <2>5, <2>7
<1>8. ASSUME NEW x \in S PROVE \E p \in 1..Len(f) : f[p] = x
  <2>1. PICK i \in 1..n : x \in A[i]
    BY <1>2
  <2>2. PICK k \in 1..Len(parts[i]) : parts[i][k] = x
    BY <1>2, <2>1 DEF Lists
  <2>3. B[i - 1] + k \in 1..Len(f)
    <3>1. B[i - 1] + k \in 1..B[Len(parts)]
      BY ONLY <1>2, <1>4, i \in 1..n, k \in 1..Len(parts[i]), PlaceOfPart DEF n
    <3> QED BY <1>5, <3>1 DEF n
  <2> QED BY <1>5, <2>2, <2>3
<1> QED BY <1>3, <1>7, <1>8 DEF Lists, f

\* As many parts as elements at most, if none is empty, and if none has more
\* than one, as many elements as parts at most.
LEMMA DealsCount ==
  ASSUME NEW parts, NEW S, Deals(parts, S), \A b \in 1..Len(parts) : parts[b] # <<>>
  PROVE  /\ IsFiniteSet(S) /\ Cardinality(S) \in Nat /\ Len(parts) \in Nat
         /\ Len(parts) <= Cardinality(S)
         /\ (\A b \in 1..Len(parts) : ~ (Len(parts[b]) > 1)) => Cardinality(S) <= Len(parts)
<1>1. PICK A : DealsAs(parts, A, S)
  BY DEF Deals
<1> DEFINE n == Len(parts)
           I == 1..n
           f == [b \in I |-> parts[b][1]]
<1>2. /\ parts \in Seq(Seq(S)) /\ n \in Nat
      /\ \A c \in 1..n : Lists(parts[c], A[c]) /\ A[c] \subseteq S
      /\ \A c, d \in 1..n : c # d => A[c] \cap A[d] = {}
      /\ \A x \in S : \E c \in 1..n : x \in A[c]
  <2>1. Dealt(parts, A, S, n)
    BY <1>1, DealsOpen
  <2> QED BY <2>1, Zenon DEF Dealt
<1>3. \A b \in I : f[b] = parts[b][1] /\ f[b] \in A[b] /\ f[b] \in S /\ 1 \in 1..Len(parts[b])
  <2> TAKE b \in I
  <2>1. parts[b] \in Seq(A[b]) /\ parts[b] # <<>>
    BY <1>2 DEF Lists
  <2>2. Len(parts[b]) \in Nat \ {0}
    BY ONLY <2>1, EmptySeq
  <2>3. 1 \in 1..Len(parts[b])
    BY <2>2
  <2> QED BY <1>2, <2>1, <2>3
<1>4. IsFiniteSet(I) /\ Cardinality(I) = n
  <2>1. 1 \in Int /\ n \in Int
    BY <1>2
  <2>2. IsFiniteSet(1..n) /\ Cardinality(1..n) = IF 1 > n THEN 0 ELSE n - 1 + 1
    BY ONLY <2>1, FS_Interval
  <2>3. n = IF 1 > n THEN 0 ELSE n - 1 + 1
    BY <1>2
  <2> QED BY <2>2, <2>3
<1>5. IsFiniteSet(S) /\ Cardinality(S) \in Nat
  <2>1. Lists(FlattenSeq(parts), S)
    BY DealsFlat
  <2>2. IsFiniteSet(S)
    BY ONLY <2>1, ListsCount
  <2> QED BY <2>2, FS_CardinalityType
<1>6. \A b, c \in I : b # c => A[b] \cap A[c] = {}
  BY <1>2
<1> HIDE DEF I
<1>7. f \in [I -> S]
  <2>1. f = [b \in I |-> f[b]]
    OBVIOUS
  <2> HIDE DEF f
  <2> QED BY <1>3, <2>1
<1> HIDE DEF f
<1>8. n <= Cardinality(S)
  <2>1. \A b, c \in I : f[b] = f[c] => b = c
    BY <1>3, <1>6
  <2>2. DOMAIN f = I
    BY <1>7
  <2>3. IsInjective(f)
    BY <2>1, <2>2 DEF IsInjective
  <2>4. f \in Injection(I, S)
    BY <1>7, <2>3 DEF Injection
  <2>5. Cardinality(I) <= Cardinality(S)
    BY ONLY <1>5, <2>4, FS_Injection
  <2> QED BY <1>4, <2>5
<1>9. ASSUME \A b \in I : ~ (Len(parts[b]) > 1) PROVE Cardinality(S) <= n
  <2>1. \A x \in S : \E b \in I : f[b] = x
    <3> TAKE x \in S
    <3>1. PICK b \in I : x \in A[b]
      BY <1>2 DEF I
    <3>2. Lists(parts[b], A[b])
      BY <1>2 DEF I
    <3>3. PICK k \in 1..Len(parts[b]) : parts[b][k] = x
      BY <3>1, <3>2 DEF Lists
    <3>4. Len(parts[b]) \in Nat
      BY <3>2 DEF Lists
    <3>5. k = 1
      BY <1>9, <3>4
    <3> QED BY <1>3, <3>3, <3>5
  <2>2. f \in Surjection(I, S)
    BY <1>7, <2>1 DEF Surjection
  <2>3. Cardinality(S) <= Cardinality(I)
    BY ONLY <1>4, <2>2, FS_Surjection
  <2> QED BY <1>4, <2>3
<1> QED BY <1>2, <1>5, <1>8, <1>9 DEF I

==============================================================================
