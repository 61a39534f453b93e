--------------------------- MODULE Rollouts_proofs ---------------------------
(***************************************************************************)
(* For every batch, limit, layout of the workers and answer of the         *)
(* environments: a rollout keeps the conversations of its samples apart,   *)
(* cuts them at max_seq_len and nowhere else, and ends each for a reason.  *)
(*                                                                         *)
(* The argument has two halves.  The operators that carry a batch through  *)
(* generation and rewards (shards for the data parallel workers, grouping  *)
(* by environment) bring each answer back to the place of its question     *)
(* (GenerateAligned, RewardsAligned): sharding cuts the batch into         *)
(* consecutive pieces, and joining them undoes it.  Given that, each       *)
(* sample's log stays one conversation (Conversation, Sound), and those of *)
(* the active samples are the ones that have not ended (GoingOn, HasEnded),*)
(* sample by sample, in the loop over turns (BatchInv) as in the tasks of  *)
(* an asynchronous rollout (AsyncInv).                                     *)
(***************************************************************************)
EXTENDS Rollouts, SequenceLemmas, FiniteSetTheorems, TLAPS

-----------------------------------------------------------------------------
(* Operators of the model that are folds.                                  *)

\* Kept keeps the elements in the set, and their order.
LEMMA KeptIsKept ==
  ASSUME NEW V, NEW d \in Seq(V), NEW set
  PROVE  Kept(d, set) \in Seq(V) /\ KeptUpTo(d, Len(d), set, Kept(d, set))
<1> DEFINE n == Len(d)
           Is(g) == g = [s \in SUBSET DOMAIN d |->
                           IF s = {} THEN <<>>
                           ELSE IF d[Max(s)] \in set
                                THEN Append(g[s \ {Max(s)}], d[Max(s)])
                                ELSE g[s \ {Max(s)}]]
           F == [p \in (1..n) \X Seq(V) |->
                   IF d[p[1]] \in set THEN Append(p[2], d[p[1]]) ELSE p[2]]
<1>1. n \in Nat /\ DOMAIN d = 1..n /\ \A k \in 1..n : d[k] \in V
  OBVIOUS
<1>2. F \in [(1..n) \X Seq(V) -> Seq(V)]
  <2> HIDE DEF n
  <2>1. \A k \in 1..n : \A r \in Seq(V) : Append(r, d[k]) \in Seq(V)
    BY <1>1
  <2> QED BY <2>1
<1>3. PICK g \in [SUBSET (1..n) -> Seq(V)] : Folds(g, n, <<>>, F)
  <2>1. <<>> \in Seq(V)
    OBVIOUS
  <2> HIDE DEF F, n
  <2> QED BY <1>1, <1>2, <2>1, FoldExists, Zenon
<1>4. ASSUME NEW s \in SUBSET (1..n), s # {}
      PROVE  F[<<Max(s), g[s \ {Max(s)}]>>]
             = IF d[Max(s)] \in set THEN Append(g[s \ {Max(s)}], d[Max(s)])
                                    ELSE g[s \ {Max(s)}]
  <2>1. Max(s) \in 1..n
    <3> HIDE DEF n
    <3> QED BY <1>1, <1>4, MaxOfSet
  <2>2. g[s \ {Max(s)}] \in Seq(V)
    OBVIOUS
  <2> HIDE DEF n
  <2> QED BY <2>1, <2>2
<1>5. Is(g)
  <2> HIDE DEF F, n
  <2> QED BY <1>1, <1>3, <1>4 DEF Folds
<1> DEFINE iter == CHOOSE h : Is(h)
<1>6. Is(iter)
  <2> HIDE DEF Is
  <2> QED BY <1>5
<1>7. Kept(d, set) = iter[DOMAIN d]
  BY Zenon DEF Kept, FoldLeft, MapThenFoldSet
<1>8. \A s \in SUBSET (1..n) :
        iter[s] = IF s = {} THEN <<>>
                  ELSE IF d[Max(s)] \in set
                  THEN Append(iter[s \ {Max(s)}], d[Max(s)])
                  ELSE iter[s \ {Max(s)}]
  <2> HIDE DEF iter
  <2> QED BY <1>1, <1>6
<1> HIDE DEF iter, Is
<1>9. KeptUpTo(d, Len(d), set, iter[1..Len(d)]) /\ iter[1..Len(d)] \in Seq(V)
  BY ONLY <1>8, KeptByFold, d \in Seq(V)
<1> QED BY <1>1, <1>7, <1>9

\* Length adds up.

\* A sequence of messages, as far as their lengths go.
Tokens(s) == [k \in 1..Len(s) |-> s[k].tokens]

\* The length of a conversation is the sum of the tokens of its messages.
LEMMA LengthTotal ==
  ASSUME NEW V, NEW s \in Seq(V), \A k \in 1..Len(s) : s[k].tokens \in Nat
  PROVE  Tokens(s) \in Seq(Nat) /\ IsTotal(Tokens(s), Length(s))
<1> DEFINE d == Tokens(s)
           n == Len(d)
           Is(g) == g = [x \in SUBSET DOMAIN s |->
                           IF x = {} THEN 0 ELSE g[x \ {Max(x)}] + s[Max(x)].tokens]
           F == [p \in (1..n) \X Int |-> p[2] + d[p[1]]]
<1>1. d \in Seq(Nat) /\ n = Len(s) /\ n \in Nat /\ \A k \in 1..n : d[k] = s[k].tokens /\ d[k] \in Nat
  BY DEF Tokens
<1>2. DOMAIN s = 1..n
  BY <1>1
<1>20. F \in [(1..n) \X Int -> Int]
  <2> HIDE DEF d, n
  <2> QED BY <1>1
<1>3. PICK g \in [SUBSET (1..n) -> Int] : Folds(g, n, 0, F)
  <2>1. 0 \in Int
    OBVIOUS
  <2> HIDE DEF F, n
  <2> QED BY <1>1, <1>20, <2>1, FoldExists, Zenon
<1>4. ASSUME NEW x \in SUBSET (1..n), x # {}
      PROVE  F[<<Max(x), g[x \ {Max(x)}]>>] = g[x \ {Max(x)}] + s[Max(x)].tokens
  <2>1. Max(x) \in 1..n
    <3> HIDE DEF n
    <3> QED BY <1>1, <1>4, MaxOfSet
  <2>2. g[x \ {Max(x)}] \in Int
    OBVIOUS
  <2> HIDE DEF n, d
  <2> QED BY <1>1, <2>1, <2>2
<1>5. Is(g)
  <2> HIDE DEF F, n
  <2> QED BY <1>2, <1>3, <1>4 DEF Folds
<1> DEFINE iter == CHOOSE h : Is(h)
<1>6. Is(iter)
  <2> HIDE DEF Is
  <2> QED BY <1>5
<1>7. Length(s) = iter[DOMAIN s]
  BY Zenon DEF Length, FoldLeft, MapThenFoldSet
<1>8. \A x \in SUBSET (1..n) :
        iter[x] = IF x = {} THEN 0 ELSE iter[x \ {Max(x)}] + d[Max(x)]
  <2> TAKE x \in SUBSET (1..n)
  <2>1. x # {} => d[Max(x)] = s[Max(x)].tokens
    <3> HIDE DEF d, n
    <3> QED BY <1>1, MaxOfSet
  <2> HIDE DEF iter, d, n
  <2> QED BY <1>2, <1>6, <2>1
<1> HIDE DEF iter, Is
<1>9. IsTotal(d, iter[1..Len(d)])
  <2>1. d \in Seq(Int)
    BY <1>1
  <2> HIDE DEF d
  <2> QED BY ONLY <1>8, <2>1, SumByFold
<1> QED BY <1>1, <1>2, <1>7, <1>9

\* The length of a conversation with one more message.
LEMMA LengthOfAppend ==
  ASSUME NEW V, NEW s \in Seq(V), \A k \in 1..Len(s) : s[k].tokens \in Nat,
         NEW m \in V, m.tokens \in Nat
  PROVE  Length(s) \in Nat /\ Length(Append(s, m)) = Length(s) + m.tokens
<1> DEFINE t == Append(s, m)
           x == m.tokens
<1>1. t \in Seq(V) /\ Len(t) = Len(s) + 1 /\ t[Len(s) + 1] = m
      /\ \A k \in 1..Len(s) : t[k] = s[k]
  OBVIOUS
<1>2. \A k \in 1..Len(t) : t[k].tokens \in Nat
  <2> TAKE k \in 1..Len(t)
  <2>1. k \in 1..Len(s) \/ k = Len(s) + 1
    BY <1>1
  <2> HIDE DEF t
  <2> QED BY <1>1, <2>1
<1> HIDE DEF t
<1>3. Tokens(s) \in Seq(Nat) /\ IsTotal(Tokens(s), Length(s))
  BY LengthTotal
<1>4. Tokens(t) \in Seq(Nat) /\ IsTotal(Tokens(t), Length(t))
  BY <1>1, <1>2, LengthTotal
<1>5. Tokens(t) = Append(Tokens(s), x)
  <2>1. Len(Tokens(s)) = Len(s) /\ Len(Tokens(t)) = Len(s) + 1 /\ Len(s) \in Nat
    BY <1>1 DEF Tokens
  <2>2. Append(Tokens(s), x) \in Seq(Nat) /\ Len(Append(Tokens(s), x)) = Len(s) + 1
    BY <1>3, <2>1
  <2>3. \A k \in 1..(Len(s) + 1) : Tokens(t)[k] = Append(Tokens(s), x)[k]
    <3> TAKE k \in 1..(Len(s) + 1)
    <3>1. Tokens(t)[k] = t[k].tokens
      BY <1>1 DEF Tokens
    <3>2. CASE k = Len(s) + 1
      BY <1>1, <1>3, <2>1, <3>1, <3>2
    <3>3. CASE k \in 1..Len(s)
      <4>1. Append(Tokens(s), x)[k] = Tokens(s)[k]
        BY <1>3, <2>1, <3>3
      <4>2. Tokens(s)[k] = s[k].tokens
        BY <3>3 DEF Tokens
      <4> QED BY <1>1, <3>1, <3>3, <4>1, <4>2
    <3> QED BY <2>1, <3>2, <3>3
  <2> QED BY ONLY <1>4, <2>1, <2>2, <2>3, SeqEqual
<1>6. Tokens(s) \in Seq(Int) /\ x \in Int
  BY <1>3
<1>7. IsTotal(Append(Tokens(s), x), Length(s) + x)
  BY <1>3, <1>6, TotalOfAppend
<1>8. Length(t) = Length(s) + x
  <2>1. Append(Tokens(s), x) \in Seq(Int)
    BY <1>6
  <2> QED BY <1>4, <1>5, <1>7, <2>1, TotalUnique
<1>9. Length(s) \in Nat
  BY <1>3, TotalOfNats
<1> QED BY <1>8, <1>9 DEF t

\* The length of one message is its tokens.
LEMMA LengthOfOne ==
  ASSUME NEW m, m.tokens \in Nat
  PROVE  Length(<<m>>) = m.tokens
<1> DEFINE V == {m}
           s == <<>>
<1>1. s \in Seq(V) /\ Len(s) = 0 /\ m \in V /\ Append(s, m) = <<m>>
  OBVIOUS
<1>2. Tokens(s) = <<>>
  BY DEF Tokens
<1>3. IsTotal(Tokens(s), Length(s)) /\ Tokens(s) \in Seq(Nat)
  <2>1. \A k \in 1..Len(s) : s[k].tokens \in Nat
    OBVIOUS
  <2> HIDE DEF s
  <2> QED BY <1>1, <2>1, LengthTotal
<1>4. Length(s) = 0
  <2>1. <<>> \in Seq(Int) /\ IsTotal(<<>>, 0)
    BY TotalOfNone
  <2> HIDE DEF s
  <2> QED BY ONLY <1>2, <1>3, <2>1, TotalUnique
<1>5. Length(Append(s, m)) = Length(s) + m.tokens
  <2>1. \A k \in 1..Len(s) : s[k].tokens \in Nat
    OBVIOUS
  <2> HIDE DEF s, V
  <2> QED BY <1>1, <2>1, LengthOfAppend
<1> HIDE DEF s
<1> QED BY <1>1, <1>4, <1>5

-----------------------------------------------------------------------------
(* The layout of the workers.                                              *)

\* The axes of the workers' layout are positive and different, data
\* parallelism is the first.
LEMMA Layout ==
  /\ Len(Axes) \in Nat /\ Len(Axes) > 0 /\ Axes[1] = DP
  /\ \A i \in 1..Len(Axes) : AxisSize[Axes[i]] \in Nat \ {0}
  /\ \A i, j \in 1..Len(Axes) : Axes[i] = Axes[j] => i = j
  /\ DPSize \in Nat \ {0}
<1>1. Axes \in Seq(DOMAIN AxisSize) /\ AxisSize \in [DOMAIN AxisSize -> Nat \ {0}]
      /\ Len(Axes) > 0 /\ Axes[1] = DP
  BY RolloutAssumption DEF DP
<1>2. \A i \in 1..Len(Axes) : Axes[i] \in DOMAIN AxisSize
  BY <1>1
<1>3. \A i \in 1..Len(Axes) : AxisSize[Axes[i]] \in Nat \ {0}
  BY <1>1, <1>2
<1>4. DPSize \in Nat \ {0}
  <2>1. 1 \in 1..Len(Axes)
    BY <1>1
  <2> QED BY <1>1, <1>3, <2>1 DEF DPSize
<1>5. \A i, j \in 1..Len(Axes) : Axes[i] = Axes[j] => i = j
  BY RolloutAssumption
<1> QED BY <1>1, <1>3, <1>4, <1>5

\* Neighbours along an axis are as far apart as the workers inside it are many.
LEMMA Strides ==
  /\ Stride \in [0..Len(Axes) -> Nat \ {0}]
  /\ Stride[Len(Axes)] = 1
  /\ \A i \in 1..Len(Axes) : Stride[i - 1] = AxisSize[Axes[i]] * Stride[i]
<1> DEFINE n == Len(Axes)
           Size(i) == AxisSize[Axes[i + 1]]
           Is(g, k) == /\ g[n] = 1
                       /\ \A i \in k..(n - 1) : g[i] = Size(i) * g[i + 1]
           T == {k \in 0..n : \E g \in [(n - k)..n -> Nat \ {0}] : Is(g, n - k)}
<1>1. n \in Nat /\ \A i \in 0..(n - 1) : Size(i) \in Nat \ {0}
  <2>1. \A i \in 0..(n - 1) : i + 1 \in 1..n
    OBVIOUS
  <2> QED BY <2>1, Layout
<1>2. \A a, b \in Nat \ {0} : a * b \in Nat \ {0}
  OBVIOUS
<1> HIDE DEF n, Size
<1>3. 0 \in T
  <2> DEFINE g == [i \in (n - 0)..n |-> 1]
  <2>1. g \in [(n - 0)..n -> Nat \ {0}] /\ g[n] = 1 /\ (n - 0)..(n - 1) = {}
    BY <1>1
  <2> HIDE DEF g
  <2>2. Is(g, n - 0)
    BY <2>1
  <2>3. 0 \in 0..n
    BY <1>1
  <2> QED BY <2>1, <2>2, <2>3
<1>4. ASSUME NEW k \in 0..(n - 1), k \in T
      PROVE  k + 1 \in T
  <2> DEFINE j == n - k
             l == n - (k + 1)
  <2>1. j \in Nat /\ l \in Nat /\ j = l + 1 /\ j \in 1..n /\ l \in 0..(n - 1)
    BY <1>1
  <2>2. PICK g \in [j..n -> Nat \ {0}] : Is(g, j)
    BY <1>4
  <2> DEFINE h == [i \in l..n |-> IF i = l THEN Size(l) * g[j] ELSE g[i]]
  <2> HIDE DEF j, l
  <2>3. Size(l) * g[j] \in Nat \ {0}
    <3>1. g[j] \in Nat \ {0}
      BY <2>1, <2>2
    <3> QED BY <1>1, <1>2, <2>1, <3>1
  <2>4. h \in [l..n -> Nat \ {0}]
    <3>1. \A i \in l..n : i = l \/ i \in j..n
      BY <2>1
    <3> HIDE DEF Is
    <3> QED BY <2>2, <2>3, <3>1
  <2>5. h[l] = Size(l) * g[j] /\ \A i \in j..n : h[i] = g[i]
    <3>1. l \in l..n /\ \A i \in j..n : i \in l..n /\ i # l
      BY <1>1, <2>1
    <3> QED BY <3>1
  <2>6. Is(h, l)
    <3> HIDE DEF h
    <3>1. h[n] = 1
      BY <1>1, <2>1, <2>2, <2>5
    <3>2. ASSUME NEW i \in l..(n - 1)
          PROVE  h[i] = Size(i) * h[i + 1]
      <4>1. CASE i = l
        <5>1. i + 1 = j /\ j \in j..n
          BY <2>1, <4>1
        <5> QED BY <2>5, <4>1, <5>1
      <4>2. CASE i # l
        <5>1. i \in j..(n - 1) /\ i \in j..n /\ i + 1 \in j..n
          BY <1>1, <2>1, <4>2
        <5>2. g[i] = Size(i) * g[i + 1]
          BY <2>2, <5>1
        <5> QED BY <2>5, <5>1, <5>2
      <4> QED BY <4>1, <4>2
    <3> QED BY <3>1, <3>2
  <2>7. k + 1 \in 0..n
    BY <1>1
  <2> HIDE DEF h, Is
  <2> QED BY <2>4, <2>6, <2>7 DEF l
<1>5. \A k \in 0..n : k \in T
  <2> HIDE DEF T
  <2> QED BY <1>1, <1>3, <1>4, InductionTo
<1>6. PICK g \in [0..n -> Nat \ {0}] : Is(g, 0)
  <2>1. n \in T /\ n - n = 0
    BY <1>1, <1>5
  <2> QED BY <2>1
<1> DEFINE Rec(f) == f = [i \in 0..n |-> IF i = n THEN 1 ELSE Size(i) * f[i + 1]]
<1>7. Rec(g)
  <2>1. \A i \in 0..n : g[i] = IF i = n THEN 1 ELSE Size(i) * g[i + 1]
    BY <1>1, <1>6
  <2>2. g = [i \in 0..n |-> g[i]]
    BY <1>6
  <2> HIDE DEF Is
  <2> QED BY <2>1, <2>2
<1>8. Rec(Stride)
  <2>1. Stride = CHOOSE f : Rec(f)
    BY Zenon DEF Stride, n, Size
  <2> HIDE DEF Rec
  <2> QED BY <1>7, <2>1
<1>9. \A i \in 0..n : Stride[i] = IF i = n THEN 1 ELSE Size(i) * Stride[i + 1]
  BY <1>8
<1>10. DOMAIN Stride = 0..n /\ Stride = [i \in 0..n |-> Stride[i]]
  BY <1>8
<1> DEFINE U == {k \in 0..n : Stride[n - k] \in Nat \ {0}}
<1>11. 0 \in U
  BY <1>1, <1>9
<1>12. ASSUME NEW k \in 0..(n - 1), k \in U
       PROVE  k + 1 \in U
  <2> DEFINE l == n - (k + 1)
  <2>1. l \in 0..(n - 1) /\ l \in 0..n /\ l # n /\ l + 1 = n - k /\ k + 1 \in 0..n
    BY <1>1
  <2>2. Stride[l + 1] \in Nat \ {0}
    BY <1>12, <2>1
  <2> HIDE DEF l
  <2>3. Stride[l] = Size(l) * Stride[l + 1]
    BY <1>9, <2>1
  <2>4. Stride[l] \in Nat \ {0}
    BY <1>1, <1>2, <2>1, <2>2, <2>3
  <2> QED BY <2>1, <2>4 DEF l
<1>13. \A k \in 0..n : k \in U
  <2> HIDE DEF U
  <2> QED BY <1>1, <1>11, <1>12, InductionTo
<1>14. \A i \in 0..n : Stride[i] \in Nat \ {0}
  <2> TAKE i \in 0..n
  <2>1. n - i \in 0..n /\ n - (n - i) = i
    BY <1>1
  <2>2. n - i \in U
    BY <1>13, <2>1
  <2> QED BY <2>1, <2>2
<1>15. \A i \in 1..n : Stride[i - 1] = AxisSize[Axes[i]] * Stride[i]
  <2> TAKE i \in 1..n
  <2>1. i - 1 \in 0..n /\ i - 1 # n /\ i - 1 + 1 = i
    BY <1>1
  <2> QED BY <1>9, <2>1 DEF Size
<1>16. Stride[n] = 1
  BY <1>1, <1>9
<1> QED BY <1>10, <1>14, <1>15, <1>16 DEF n

\* The coordinate of a worker along an axis.
LEMMA CoordAlong ==
  ASSUME NEW w, NEW i \in 1..Len(Axes)
  PROVE  Coord(w, Axes[i]) = (w \div Stride[i]) % AxisSize[Axes[i]]
<1>1. \A j \in 1..Len(Axes) : Axes[j] = Axes[i] <=> j = i
  BY Layout
<1>2. (CHOOSE j \in 1..Len(Axes) : Axes[j] = Axes[i]) = i
  BY <1>1
<1> QED BY <1>2 DEF Coord

\* The workers whose answers are returned: one for each data-parallel rank.
LEMMA CalledOnce ==
  ASSUME NEW w
  PROVE  w \in Called({DP}, {}) <=> \E c \in 0..(DPSize - 1) : w = c * Stride[1]
<1> DEFINE n == Len(Axes)
           Size(i) == AxisSize[Axes[i]]
<1>1. /\ n \in Nat /\ n > 0 /\ Size(1) = DPSize
      /\ \A i \in 1..n : Size(i) \in Nat \ {0}
      /\ \A i \in 0..n : Stride[i] \in Nat \ {0}
      /\ \A i \in 1..n : Stride[i - 1] = Size(i) * Stride[i]
      /\ Stride[n] = 1
  BY Layout, Strides DEF DPSize
<1>2. Stride[0] = DPSize * Stride[1] /\ Stride[1] \in Nat \ {0} /\ DPSize \in Nat \ {0}
  <2>1. 1 \in 1..n /\ 1 - 1 = 0 /\ 1 \in 0..n
    BY <1>1
  <2> HIDE DEF n, Size
  <2> QED BY <1>1, <2>1
<1>3. w \in Called({DP}, {}) <=>
        /\ w \in Workers
        /\ \A i \in 2..n : (w \div Stride[i]) % Size(i) = 0
  <2>1. \A i \in 1..n : Axes[i] = DP <=> i = 1
    <3>1. 1 \in 1..n
      BY <1>1
    <3> QED BY <3>1, Layout
  <2>2. \A i \in 1..n : Coord(w, Axes[i]) = (w \div Stride[i]) % Size(i)
    BY CoordAlong
  <2>3. \A i : i \in 2..n <=> i \in 1..n /\ i # 1
    BY <1>1
  <2>4. w \in Called({DP}, {}) <=>
          w \in Workers /\ \A i \in 1..n : Axes[i] = DP \/ Coord(w, Axes[i]) = 0
    BY DEF Called
  <2> HIDE DEF n, Size
  <2> QED BY <2>1, <2>2, <2>3, <2>4
<1> HIDE DEF n, Size
<1>4. ASSUME w \in Workers, \A i \in 2..n : (w \div Stride[i]) % Size(i) = 0
      PROVE  \E c \in 0..(DPSize - 1) : w = c * Stride[1]
  <2>0. w \in Nat /\ w < Stride[0]
    <3>1. w \in 0..(Stride[0] - 1) /\ Stride[0] \in Nat
      <4>1. 0 \in 0..n
        BY <1>1
      <4> QED BY <1>1, <1>4, <4>1 DEF Workers
    <3> QED BY <3>1
  <2> DEFINE T == {k \in 0..(n - 1) : \E q \in Nat : w = q * Stride[n - k]}
  <2>1. 0 \in T
    <3>1. w = w * 1 /\ n - 0 = n /\ 0 \in 0..(n - 1)
      BY <1>1, <2>0
    <3> QED BY <1>1, <2>0, <3>1
  <2>2. ASSUME NEW k \in 0..(n - 1 - 1), k \in T
        PROVE  k + 1 \in T
    <3> DEFINE i == n - k
    <3>1. i \in 2..n /\ i \in 1..n /\ i \in 0..n /\ i - 1 = n - (k + 1) /\ k + 1 \in 0..(n - 1)
      BY <1>1
    <3>2. PICK q \in Nat : w = q * Stride[i]
      BY <2>2
    <3> HIDE DEF i
    <3> DEFINE s == Stride[i]
               z == Size(i)
    <3>3. s \in Nat \ {0} /\ z \in Nat \ {0} /\ Stride[i - 1] = z * s
      BY <1>1, <3>1
    <3>4. (w \div s) % z = 0
      BY <1>4, <3>1
    <3> HIDE DEF s, z
    <3>5. w \div s = q
      <4>1. 0 \in 0..(s - 1) /\ q * s + 0 = w
        BY <2>0, <3>2, <3>3 DEF s
      <4> QED BY <3>3, <4>1, DivisionOf
    <3> DEFINE r == q \div z
    <3>6. r \in Nat /\ q = r * z
      <4>1. r \in Nat /\ q = r * z + (q % z)
        BY <3>3, Division
      <4>2. q % z = 0
        BY <3>4, <3>5
      <4>3. r * z \in Nat
        BY <3>3, <4>1, Multiply
      <4> HIDE DEF r
      <4> QED BY <4>1, <4>2, <4>3
    <3> HIDE DEF r
    <3>7. w = r * Stride[i - 1]
      <4>1. (r * z) * s = r * (z * s)
        BY <3>3, <3>6, Multiply
      <4> QED BY <3>2, <3>3, <3>6, <4>1 DEF s
    <3>8. w = r * Stride[n - (k + 1)] /\ r \in Nat
      BY <3>1, <3>6, <3>7
    <3> QED BY <3>1, <3>8
  <2>3. \A k \in 0..(n - 1) : k \in T
    <3> HIDE DEF T
    <3>1. n - 1 \in Nat
      BY <1>1
    <3> QED BY ONLY <2>1, <2>2, <3>1, InductionTo
  <2>4. PICK c \in Nat : w = c * Stride[1]
    <3>1. n - 1 \in T /\ n - (n - 1) = 1
      BY <1>1, <2>3
    <3> QED BY <3>1
  <2>5. c < DPSize
    BY <1>2, <2>0, <2>4, MultiplyStrictly
  <2> QED BY <1>2, <2>4, <2>5
<1>5. ASSUME NEW c \in 0..(DPSize - 1), w = c * Stride[1]
      PROVE  /\ w \in Workers
             /\ \A i \in 2..n : (w \div Stride[i]) % Size(i) = 0
  <2>1. w \in Nat /\ w < Stride[0]
    <3>1. c \in Nat /\ c < DPSize
      BY <1>2
    <3>2. c * Stride[1] < DPSize * Stride[1]
      BY <1>2, <3>1, MultiplyStrictly
    <3>3. c * Stride[1] \in Nat
      BY <1>2, <3>1, Multiply
    <3> QED BY <1>2, <1>5, <3>2, <3>3
  <2>2. w \in Workers
    <3>1. Stride[0] \in Nat
      <4>1. 0 \in 0..n
        BY <1>1
      <4> QED BY <1>1, <4>1
    <3> QED BY <2>1, <3>1 DEF Workers
  <2> DEFINE T == {k \in 0..(n - 1) : \E q \in Nat : w = q * Stride[k + 1]}
  <2>3. 0 \in T
    <3>1. 0 + 1 = 1 /\ 0 \in 0..(n - 1) /\ c \in Nat
      BY <1>1, <1>2
    <3> QED BY <1>5, <3>1
  <2>4. ASSUME NEW k \in 0..(n - 1 - 1), k \in T
        PROVE  /\ (w \div Stride[k + 2]) % Size(k + 2) = 0
               /\ k + 1 \in T
    <3> DEFINE i == k + 2
    <3>1. i \in 2..n /\ i \in 1..n /\ i \in 0..n /\ i - 1 = k + 1 /\ k + 1 \in 0..(n - 1)
          /\ k + 1 + 1 = i
      BY <1>1
    <3>2. PICK q \in Nat : w = q * Stride[i - 1]
      BY <2>4, <3>1
    <3> HIDE DEF i
    <3> DEFINE s == Stride[i]
               z == Size(i)
    <3>3. s \in Nat \ {0} /\ z \in Nat \ {0} /\ Stride[i - 1] = z * s
      BY <1>1, <3>1
    <3> HIDE DEF s, z
    <3>4. w = (q * z) * s /\ q * z \in Nat
      BY <3>2, <3>3, Multiply
    <3>5. w \div s = q * z
      <4> DEFINE a == q * z
      <4>1. 0 \in 0..(s - 1) /\ a * s + 0 = w /\ a \in Nat
        BY <2>1, <3>3, <3>4
      <4> HIDE DEF a
      <4>2. w \div s = a
        BY <3>3, <4>1, DivisionOf
      <4> QED BY <4>2 DEF a
    <3>6. (q * z) % z = 0
      <4>1. 0 \in 0..(z - 1) /\ q * z + 0 = q * z
        BY <3>3, <3>4
      <4>2. (q * z + 0) % z = 0
        BY <3>3, <4>1, DivisionOf
      <4> QED BY <4>1, <4>2
    <3>7. (w \div Stride[i]) % Size(i) = 0
      BY <3>5, <3>6 DEF s, z
    <3>8. \E a \in Nat : w = a * Stride[i]
      BY <3>4 DEF s
    <3>9. k + 1 \in T
      BY <3>1, <3>8
    <3> QED BY <3>7, <3>9 DEF i
  <2>5. \A k \in 0..(n - 1) : k \in T
    <3> HIDE DEF T
    <3>1. n - 1 \in Nat
      BY <1>1
    <3> QED BY ONLY <2>3, <2>4, <3>1, InductionTo
  <2>6. \A i \in 2..n : (w \div Stride[i]) % Size(i) = 0
    <3> TAKE i \in 2..n
    <3>1. i - 2 \in 0..(n - 1 - 1) /\ i - 2 \in 0..(n - 1) /\ (i - 2) + 2 = i
      BY <1>1
    <3> HIDE DEF T
    <3>2. i - 2 \in T
      BY <2>5, <3>1
    <3> DEFINE k == i - 2
    <3> HIDE DEF k
    <3>3. (w \div Stride[k + 2]) % Size(k + 2) = 0
      BY <2>4, <3>1, <3>2 DEF k
    <3> QED BY <3>1, <3>3 DEF k
  <2> QED BY <2>2, <2>6
<1> QED BY <1>3, <1>4, <1>5

\* The leaders are the workers that stand first in each data parallel rank, in
\* the order of the ranks.
LEMMA LeadersInOrder ==
  /\ Len(Leaders) = DPSize
  /\ \A i \in 1..DPSize : Leaders[i] \in Workers /\ Coord(Leaders[i], DP) = i - 1
<1> DEFINE S == Stride[1]
           N == Stride[0]
           d == [p \in 1..N |-> p - 1]
           C == Called({DP}, {})
           r == Leaders
           m == Len(r)
<1>1. S \in Nat \ {0} /\ N \in Nat \ {0} /\ DPSize \in Nat \ {0} /\ N = DPSize * S
  <2>1. 0 \in 0..Len(Axes) /\ 1 \in 0..Len(Axes) /\ 1 \in 1..Len(Axes) /\ 1 - 1 = 0
    BY Layout
  <2> QED BY <2>1, Layout, Strides DEF DPSize
<1>2. \A w : w \in C <=> \E c \in 0..(DPSize - 1) : w = c * S
  BY CalledOnce
<1>3. C \subseteq 0..(N - 1) /\ Workers = 0..(N - 1)
  BY DEF Called, Workers
<1>4. d \in Seq(Nat) /\ Len(d) = N /\ \A p \in 1..N : d[p] = p - 1
  <2> HIDE DEF N
  <2>1. \A p \in 1..N : p - 1 \in Nat
    BY <1>1
  <2> QED BY <1>1, <2>1
<1>5. Leaders = Kept(d, C)
  <2>1. {w \in Called({DP}, {}) : \A a \in {} : Coord(w, a) = 0} = C
    OBVIOUS
  <2> HIDE DEF C
  <2> QED BY <2>1 DEF Leaders, Returning
<1> HIDE DEF S, N, d, C
<1>6. r \in Seq(Nat) /\ KeptUpTo(d, N, C, r)
  BY <1>4, <1>5, KeptIsKept
<1>7. PICK e \in [1..m -> 1..N] :
        /\ \A i \in 1..m : r[i] = d[e[i]] /\ d[e[i]] \in C
        /\ \A i, j \in 1..m : i < j => e[i] < e[j]
        /\ \A p \in 1..N : d[p] \in C => \E i \in 1..m : e[i] = p
  BY <1>6 DEF KeptUpTo
<1>8. \A i \in 1..m : r[i] = e[i] - 1 /\ r[i] \in C
  BY <1>4, <1>7
<1> DEFINE h == [i \in 1..m |-> CHOOSE c \in 0..(DPSize - 1) : r[i] = c * S]
<1>9. \A i \in 1..m : h[i] \in 0..(DPSize - 1) /\ r[i] = h[i] * S
  <2> TAKE i \in 1..m
  <2>1. \E c \in 0..(DPSize - 1) : r[i] = c * S
    BY <1>2, <1>8
  <2> QED BY <2>1
<1>10. h \in [1..m -> 0..(DPSize - 1)]
  <2>1. h = [i \in 1..m |-> h[i]]
    OBVIOUS
  <2> HIDE DEF h, m
  <2> QED BY <1>9, <2>1
<1> HIDE DEF h
<1>11. \A i, j \in 1..m : i < j => h[i] < h[j]
  <2> SUFFICES ASSUME NEW i \in 1..m, NEW j \in 1..m, i < j
               PROVE  h[i] < h[j]
    OBVIOUS
  <2>1. r[i] < r[j]
    <3>1. e[i] < e[j] /\ e[i] \in 1..N /\ e[j] \in 1..N
      BY <1>7
    <3> HIDE DEF m, r
    <3> QED BY <1>1, <1>8, <3>1
  <2>2. h[i] * S < h[j] * S /\ h[i] \in Nat /\ h[j] \in Nat
    BY <1>1, <1>9, <2>1
  <2> QED BY <1>1, <2>2, MultiplyStrictly
<1>12. \A x \in 0..(DPSize - 1) : \E i \in 1..m : h[i] = x
  <2> TAKE x \in 0..(DPSize - 1)
  <2> DEFINE w == x * S
  <2>1. w \in C /\ x \in Nat
    BY <1>1, <1>2
  <2>2. w \in 0..(N - 1)
    BY <1>3, <2>1
  <2> HIDE DEF w
  <2>3. w + 1 \in 1..N /\ d[w + 1] = w
    <3>1. w + 1 \in 1..N /\ (w + 1) - 1 = w
      BY <1>1, <2>2
    <3> QED BY <1>4, <3>1
  <2>4. PICK i \in 1..m : e[i] = w + 1
    BY <1>7, <2>1, <2>3
  <2>5. r[i] = w
    BY <1>8, <2>2, <2>4
  <2>6. h[i] * S = x * S /\ h[i] \in Nat
    BY <1>1, <1>9, <2>5 DEF w
  <2>7. h[i] = x
    <3>1. ~ (h[i] < x) /\ ~ (x < h[i])
      <4>1. ~ (h[i] * S < x * S) /\ ~ (x * S < h[i] * S)
        <5>1. h[i] * S \in Nat
          BY <1>1, <2>6, Multiply
        <5> QED BY <2>6, <5>1
      <4> QED BY <1>1, <2>1, <2>6, <4>1, MultiplyStrictly
    <3> QED BY <2>1, <2>6, <3>1
  <2> QED BY <2>7
<1>13. m \in Nat
  BY <1>6
<1>14. m = DPSize /\ \A i \in 1..m : h[i] = i - 1
  <2>1. DPSize \in Nat
    BY <1>1
  <2>2. Enumerates(h, m, DPSize)
    BY <1>10, <1>11, <1>12 DEF Enumerates
  <2> HIDE DEF m
  <2> QED BY <1>13, <2>1, <2>2, IncreasingOnto
<1>15. ASSUME NEW i \in 1..DPSize
       PROVE  Leaders[i] \in Workers /\ Coord(Leaders[i], DP) = i - 1
  <2> DEFINE c == i - 1
             w == Leaders[i]
  <2>1. w = c * S /\ w \in C /\ c \in Nat /\ c < DPSize
    <3>1. i \in 1..m /\ h[i] = c
      BY <1>14
    <3>2. r[i] = h[i] * S /\ r[i] \in C
      BY <1>8, <1>9, <3>1
    <3>3. c \in Nat /\ c < DPSize
      BY <1>1
    <3> QED BY <3>1, <3>2, <3>3
  <2>2. w \in Workers
    BY <1>3, <2>1
  <2>3. Coord(w, DP) = (w \div S) % DPSize
    <3>1. 1 \in 1..Len(Axes) /\ Axes[1] = DP
      BY Layout
    <3> QED BY <3>1, CoordAlong DEF S, DPSize
  <2> HIDE DEF c, w
  <2>4. w \div S = c
    <3>1. w = c * S + 0 /\ 0 \in 0..(S - 1)
      <4>1. c * S \in Nat
        BY <1>1, <2>1, Multiply
      <4> QED BY <1>1, <2>1, <4>1
    <3> QED BY <1>1, <2>1, <3>1, DivisionOf
  <2>5. c % DPSize = c
    BY <1>1, <2>1
  <2> QED BY <2>2, <2>3, <2>4, <2>5 DEF c, w
<1> QED BY <1>14, <1>15

-----------------------------------------------------------------------------
(* Generation for a whole batch.                                           *)

\* Where the rows of the shards end.
Bound(n, s) == LET size == (n + DPSize - 1) \div DPSize
               IN  IF s * size < n THEN s * size ELSE n

\* The shards cut a batch into consecutive pieces that cover it.
LEMMA Bounded ==
  ASSUME NEW n \in Nat
  PROVE  /\ \A s \in 0..DPSize : Bound(n, s) \in 0..n
         /\ Bound(n, 0) = 0 /\ Bound(n, DPSize) = n
         /\ \A s, t \in 0..DPSize : s <= t => Bound(n, s) <= Bound(n, t)
<1> DEFINE size == (n + DPSize - 1) \div DPSize
           a == n + DPSize - 1
<1>1. DPSize \in Nat \ {0}
  BY Layout
<1>2. size \in Nat /\ a = size * DPSize + (a % DPSize) /\ a % DPSize \in 0..(DPSize - 1)
  <2>1. a \in Nat
    BY <1>1
  <2> QED BY <1>1, <2>1, Division
<1> HIDE DEF size
<1>3. \A s \in 0..DPSize : s * size \in Nat
  BY <1>1, <1>2, Multiply
<1>4. \A s : Bound(n, s) = IF s * size < n THEN s * size ELSE n
  BY DEF Bound, size
<1>5. 0 * size = 0 /\ DPSize * size >= n
  <2>1. size * DPSize = DPSize * size /\ size * DPSize \in Nat
    BY <1>1, <1>2, Multiply
  <2> QED BY <1>1, <1>2, <2>1
<1>6. \A s \in 0..DPSize : Bound(n, s) \in 0..n
  BY <1>3, <1>4
<1>7. Bound(n, 0) = 0 /\ Bound(n, DPSize) = n
  <2>1. 0 \in 0..DPSize /\ DPSize \in 0..DPSize
    BY <1>1
  <2>2. DPSize * size \in Nat
    BY <1>3, <2>1
  <2> QED BY <1>4, <1>5, <2>2
<1>8. ASSUME NEW s \in 0..DPSize, NEW t \in 0..DPSize, s <= t
      PROVE  Bound(n, s) <= Bound(n, t)
  <2>1. s * size <= t * size
    BY <1>1, <1>2, <1>8, MultiplyMonotonic
  <2> QED BY <1>3, <1>4, <2>1
<1> QED BY <1>6, <1>7, <1>8

\* The rows of a shard.
LEMMA RowsOfShard ==
  ASSUME NEW lens, Len(lens) \in Nat, NEW s \in 1..DPSize
  PROVE  LET n == Len(lens)
         IN  ShardUneven(lens, DPSize)[s]
             = [k \in 1..(Bound(n, s) - Bound(n, s - 1)) |-> Bound(n, s - 1) + k]
<1> DEFINE n == Len(lens)
           a == Bound(n, s - 1)
           b == Bound(n, s)
<1>1. DPSize \in Nat \ {0}
  BY Layout
<1>2. s \in 0..DPSize /\ s - 1 \in 0..DPSize /\ s - 1 <= s
  BY <1>1
<1>3. a \in 0..n /\ b \in 0..n /\ a <= b
  BY <1>2, Bounded
<1>4. ShardUneven(lens, DPSize)[s] = SubSeq(Indices(lens), a + 1, b)
  BY DEF ShardUneven, Bound
<1> DEFINE i == Indices(lens)
<1>5. i \in Seq(Nat) /\ Len(i) = n /\ n \in Nat /\ \A k \in 1..n : i[k] = k
  <2>1. n \in Nat
    OBVIOUS
  <2>2. i = [k \in 1..n |-> k]
    BY DEF Indices
  <2> HIDE DEF n, i
  <2> QED BY <2>1, <2>2
<1> HIDE DEF i, a, b, n
<1>6. SubSeq(i, a + 1, b) = [k \in 1..(b - a) |-> a + k]
  <2> DEFINE u == SubSeq(i, a + 1, b)
             v == [k \in 1..(b - a) |-> a + k]
  <2>1. a \in Nat /\ b \in Nat /\ b - a \in Nat
    BY <1>3, <1>5
  <2>2. u \in Seq(Nat) /\ Len(u) = b - a
    BY <1>3, <1>5
  <2>3. \A k \in 1..(b - a) : u[k] = a + k
    <3> TAKE k \in 1..(b - a)
    <3>1. (a + 1) + k - 1 = a + k /\ a + k \in 1..n
      BY <1>3, <1>5
    <3>2. u[k] = i[(a + 1) + k - 1]
      BY <1>3, <1>5
    <3> QED BY <1>5, <3>1, <3>2
  <2>4. v \in Seq(Nat) /\ Len(v) = b - a /\ \A k \in 1..(b - a) : v[k] = a + k
    BY <2>1
  <2> HIDE DEF u, v
  <2>5. u = v
    BY <2>2, <2>3, <2>4, SeqEqual
  <2> QED BY <2>5 DEF u, v
<1> QED BY <1>4, <1>6 DEF i, a, b, n

\* What Generate returns: the answers of the workers, each at its prompt's
\* place.  with are the stop strings each was generated with.
Answered(prompts, tokens, with, answers) ==
  /\ answers = [k \in 1..Len(prompts) |->
                  Message("assistant", prompts[k].to, tokens[k], with[k])]
  /\ \A k \in 1..Len(prompts) :
       /\ with[k] \subseteq {prompts[j].stops : j \in 1..Len(prompts)} \ {None}
       /\ setup.backend = "sglang" => with[k] = {prompts[k].stops} \ {None}

\* Each prompt gets an answer made from it, in its place, whichever back end
\* generates.
LEMMA GenerateAligned ==
  ASSUME NEW prompts, Len(prompts) \in Nat, NEW tokens
  PROVE  \E with : Answered(prompts, tokens, with, Generate(prompts, tokens))
<1> DEFINE n == Len(prompts)
           lens == [j \in 1..n |-> prompts[j].tokens]
           rows == ShardUneven(lens, DPSize)
           B == [s \in 0..DPSize |-> Bound(n, s)]
           In(s, k) == B[s - 1] < k /\ k <= B[s]
           Of(k) == CHOOSE s \in 1..DPSize : In(s, k)
           W == [k \in 1..n |-> MergedStops(prompts, rows[Of(k)], k - B[Of(k) - 1])]
           f == [k \in 1..n |-> Message("assistant", prompts[k].to, tokens[k], W[k])]
           parts == [s \in 1..DPSize |->
                       [k \in 1..(B[s] - B[s - 1]) |-> f[B[s - 1] + k]]]
<1>1. DPSize \in Nat \ {0} /\ n \in Nat /\ Len(lens) = n
  BY Layout
<1>2. B \in [0..DPSize -> 0..n] /\ B[0] = 0 /\ B[DPSize] = n
      /\ \A s, t \in 0..DPSize : s <= t => B[s] <= B[t]
  <2>1. 0 \in 0..DPSize /\ DPSize \in 0..DPSize
    BY <1>1
  <2> HIDE DEF n
  <2> QED BY <1>1, <2>1, Bounded
<1>3. \A s \in 1..DPSize : /\ s \in 0..DPSize /\ s - 1 \in 0..DPSize /\ s - 1 <= s
                           /\ B[s - 1] \in 0..n /\ B[s] \in 0..n /\ B[s - 1] <= B[s]
  <2> TAKE s \in 1..DPSize
  <2>1. s \in 0..DPSize /\ s - 1 \in 0..DPSize /\ s - 1 <= s
    BY <1>1
  <2> HIDE DEF B
  <2> QED BY <1>2, <2>1
<1>4. ASSUME NEW s \in 1..DPSize
      PROVE  rows[s] = [k \in 1..(B[s] - B[s - 1]) |-> B[s - 1] + k]
  <2>1. B[s] = Bound(n, s) /\ B[s - 1] = Bound(n, s - 1)
    BY <1>3
  <2> HIDE DEF lens, B, n
  <2> QED BY <1>1, <2>1, RowsOfShard
<1>5. ASSUME NEW s \in 1..DPSize, NEW k \in 1..(B[s] - B[s - 1])
      PROVE  B[s - 1] + k \in 1..n /\ Of(B[s - 1] + k) = s
  <2> DEFINE p == B[s - 1] + k
  <2>1. p \in 1..n /\ In(s, p)
    <3> HIDE DEF B, n
    <3>1. B[s - 1] \in 0..n /\ B[s] \in 0..n /\ B[s - 1] <= B[s] /\ n \in Nat
      BY <1>1, <1>3
    <3> QED BY <3>1
  <2> HIDE DEF p
  <2>2. ASSUME NEW t \in 1..DPSize, In(t, p)
        PROVE  t = s
    <3> HIDE DEF B, n
    <3>1. ~ (t < s)
      <4> SUFFICES ASSUME t < s PROVE FALSE
        OBVIOUS
      <4>1. t <= s - 1
        BY <1>1
      <4>2. B[t] <= B[s - 1]
        BY <1>2, <1>3, <4>1
      <4> QED BY <1>3, <2>1, <2>2, <4>2
    <3>2. ~ (s < t)
      <4> SUFFICES ASSUME s < t PROVE FALSE
        OBVIOUS
      <4>1. s <= t - 1
        BY <1>1
      <4>2. B[s] <= B[t - 1]
        BY <1>2, <1>3, <4>1
      <4> QED BY <1>3, <2>1, <2>2, <4>2
    <3> QED BY <1>1, <3>1, <3>2
  <2>3. Of(p) = s
    <3> HIDE DEF In
    <3> QED BY <2>1, <2>2
  <2> QED BY <2>1, <2>3 DEF p
<1>6. ASSUME NEW s \in 1..DPSize
      PROVE  WorkerGenerate(prompts, rows[s], tokens) = parts[s]
  <2> DEFINE m == B[s] - B[s - 1]
  <2>1. m \in Nat
    <3> HIDE DEF B, n
    <3> QED BY <1>3
  <2>2. Len(rows[s]) = m /\ \A k \in 1..m : rows[s][k] = B[s - 1] + k
    <3> HIDE DEF rows, B, m
    <3>1. rows[s] = [k \in 1..m |-> B[s - 1] + k]
      BY <1>4 DEF m
    <3> QED BY <2>1, <3>1
  <2>3. ASSUME NEW k \in 1..m
        PROVE  Message("assistant", prompts[rows[s][k]].to, tokens[rows[s][k]],
                       MergedStops(prompts, rows[s], k)) = f[B[s - 1] + k]
    <3> DEFINE p == B[s - 1] + k
    <3>1. p \in 1..n /\ Of(p) = s /\ rows[s][k] = p
      BY <1>5, <2>2
    <3>2. p - B[s - 1] = k
      <4> HIDE DEF B, n
      <4> QED BY <1>3
    <3> HIDE DEF p, B, rows, n, Of
    <3>3. W[p] = MergedStops(prompts, rows[s], k)
      BY <3>1, <3>2
    <3>4. f[p] = Message("assistant", prompts[p].to, tokens[p], W[p])
      BY <3>1
    <3> HIDE DEF f, W
    <3> QED BY <3>1, <3>3, <3>4 DEF p
  <2>4. parts[s] = [k \in 1..m |-> f[B[s - 1] + k]]
    OBVIOUS
  <2> HIDE DEF rows, f, B, parts, m
  <2> QED BY <2>2, <2>3, <2>4 DEF WorkerGenerate
<1>7. Generate(prompts, tokens) = FlattenSeq(parts)
  <2> DEFINE results == [w \in Workers |->
                           WorkerGenerate(prompts, rows[Coord(w, DP) + 1], tokens)]
  <2>1. Generate(prompts, tokens)
        = FlattenSeq([i \in 1..Len(Leaders) |-> results[Leaders[i]]])
    BY DEF Generate, Gathered
  <2>2. ASSUME NEW i \in 1..DPSize
        PROVE  results[Leaders[i]] = parts[i]
    <3>1. Leaders[i] \in Workers /\ Coord(Leaders[i], DP) + 1 = i
      BY <1>1, LeadersInOrder
    <3> HIDE DEF rows, parts
    <3> QED BY <1>6, <3>1
  <2>3. parts = [i \in 1..DPSize |-> parts[i]]
    OBVIOUS
  <2> HIDE DEF results, parts
  <2>4. [i \in 1..Len(Leaders) |-> results[Leaders[i]]] = parts
    BY <2>2, <2>3, LeadersInOrder
  <2> QED BY <2>1, <2>4
<1>8. FlattenSeq(parts) = f
  <2> DEFINE V == {f[k] : k \in 1..n}
  <2>1. f \in [1..n -> V]
    OBVIOUS
  <2>2. CutInto(f, n, parts, DPSize, B)
    <3>1. parts = [i \in 1..DPSize |-> [k \in 1..(B[i] - B[i - 1]) |-> f[B[i - 1] + k]]]
      OBVIOUS
    <3> HIDE DEF f, B, parts, n
    <3> QED BY <1>2, <1>3, <3>1, Zenon DEF CutInto
  <2> HIDE DEF f, V, B, parts, n
  <2> QED BY <1>1, <2>1, <2>2, FlattenParts
<1>9. ASSUME NEW k \in 1..n
      PROVE  /\ W[k] \subseteq {prompts[j].stops : j \in 1..n} \ {None}
             /\ setup.backend = "sglang" => W[k] = {prompts[k].stops} \ {None}
  <2> DEFINE T == {s \in 0..DPSize : k > B[s]}
  <2>1. PICK s \in 1..DPSize : In(s, k)
    <3>0. k \in 1..n /\ n \in Nat
      BY <1>1
    <3> DEFINE L == {s \in Nat : s \in 0..DPSize /\ k <= B[s]}
    <3>1. DPSize \in L
      BY <1>1, <1>2
    <3> HIDE DEF B
    <3>2. L \in SUBSET Nat /\ L # {}
      BY <3>1
    <3>3. PICK s \in L : \A t \in L : s <= t
      <4> HIDE DEF L
      <4> QED BY <3>2, LeastNumber
    <3>4. s # 0 /\ s \in 1..DPSize
      BY <1>1, <1>2, <3>3
    <3>5. s - 1 \notin L /\ s - 1 \in 0..DPSize /\ s - 1 \in Nat
      <4>1. s - 1 \in Nat /\ s - 1 \in 0..DPSize /\ s - 1 < s
        BY <1>1, <3>4
      <4> HIDE DEF L
      <4>2. s - 1 \in L => s <= s - 1
        BY <3>3
      <4> QED BY <3>4, <4>1, <4>2
    <3>6. B[s - 1] < k
      BY <1>1, <1>2, <3>5
    <3> QED BY <3>3, <3>4, <3>6
  <2> DEFINE i == k - B[s - 1]
             m == B[s] - B[s - 1]
  <2>2. i \in 1..m /\ B[s - 1] + i = k
    <3> HIDE DEF B, n
    <3> QED BY <1>1, <1>3, <2>1
  <2>3. Of(k) = s
    <3> HIDE DEF B, n, Of
    <3> QED BY <1>5, <2>2
  <2>4. Len(rows[s]) = m /\ (\A j \in 1..m : rows[s][j] = B[s - 1] + j) /\ rows[s][i] = k
    <3>1. m \in Nat
      <4> HIDE DEF B, n
      <4> QED BY <1>3
    <3> HIDE DEF rows, B, m, i
    <3>2. rows[s] = [j \in 1..m |-> B[s - 1] + j]
      BY <1>4 DEF m
    <3>3. Len(rows[s]) = m /\ \A j \in 1..m : rows[s][j] = B[s - 1] + j
      BY <3>1, <3>2
    <3> QED BY <2>2, <3>3
  <2>5. \A j \in 1..m : rows[s][j] \in 1..n
    <3> HIDE DEF B, rows, Of
    <3> QED BY <1>5, <2>4
  <2>6. W[k] = MergedStops(prompts, rows[s], i)
    <3> HIDE DEF B, rows, Of, n
    <3> QED BY <2>3
  <2> HIDE DEF W, B, rows, n, i, m
  <2>7. setup.backend = "sglang" => W[k] = {prompts[k].stops} \ {None}
    BY <2>4, <2>6 DEF MergedStops
  <2>8. setup.backend # "sglang" => W[k] \subseteq {prompts[j].stops : j \in 1..n} \ {None}
    <3> SUFFICES ASSUME setup.backend # "sglang", NEW x \in W[k]
                 PROVE  x \in {prompts[j].stops : j \in 1..n} \ {None}
      OBVIOUS
    <3>1. W[k] = UNION {{prompts[rows[s][j]].stops} \ {None} : j \in 1..m}
      BY <2>4, <2>6 DEF MergedStops
    <3>2. PICK j \in 1..m : x \in {prompts[rows[s][j]].stops} \ {None}
      BY <3>1
    <3> QED BY <2>5, <3>2
  <2> QED BY <2>7, <2>8
<1> HIDE DEF W, parts
<1>10. Answered(prompts, tokens, W, Generate(prompts, tokens))
  BY <1>7, <1>8, <1>9 DEF Answered
<1> QED BY <1>10

-----------------------------------------------------------------------------
(* The replies of the environments.                                        *)

\* Each item has a place of its own.
LEMMA PlacesDiffer ==
  ASSUME NEW items, Len(items) \in Nat
  PROVE  /\ \A k \in 1..Len(items) : Grouped(items)[k] \in 1..Len(items)
         /\ \A j, k \in 1..Len(items) : Grouped(items)[j] = Grouped(items)[k] => j = k
<1> DEFINE n == Len(items)
           Leads(j, k) == items[j].task = items[k].task /\
                          \A l \in 1..(j - 1) : items[l].task # items[k].task
           First(k) == CHOOSE j \in 1..k : Leads(j, k)
           Before(j, k) == First(j) < First(k) \/ (First(j) = First(k) /\ j <= k)
           S(k) == {j \in 1..n : Before(j, k)}
<1>1. Grouped(items) = [k \in 1..n |-> Cardinality(S(k))]
  BY DEF Grouped
<1>2. ASSUME NEW k \in 1..n
      PROVE  First(k) \in Nat
  <2> DEFINE T == {j \in 1..k : items[j].task = items[k].task}
  <2>1. T \in SUBSET Nat /\ k \in T
    OBVIOUS
  <2>2. PICK j \in T : \A l \in T : j <= l
    <3> HIDE DEF T
    <3> QED BY <2>1, LeastNumber
  <2>3. \A l \in 1..(j - 1) : l \in 1..k /\ ~ (j <= l)
    BY <2>2
  <2>4. Leads(j, k)
    BY <2>2, <2>3
  <2>5. First(k) \in 1..k
    <3> HIDE DEF Leads
    <3> QED BY <2>2, <2>4
  <2> HIDE DEF First
  <2> QED BY <2>5
<1> HIDE DEF First
<1>3. ASSUME NEW k \in 1..n
      PROVE  IsFiniteSet(S(k)) /\ Cardinality(S(k)) \in 1..n
  <2>1. IsFiniteSet(1..n) /\ Cardinality(1..n) = n
    <3>1. 1 \in Int /\ n \in Int /\ (IF 1 > n THEN 0 ELSE n - 1 + 1) = n
      OBVIOUS
    <3> QED BY <3>1, FS_Interval
  <2>2. S(k) \subseteq 1..n
    OBVIOUS
  <2>3. IsFiniteSet(S(k)) /\ Cardinality(S(k)) <= n
    <3> HIDE DEF S
    <3> QED BY <2>1, <2>2, FS_Subset
  <2>4. k \in S(k)
    BY <1>2
  <2>5. Cardinality(S(k)) \in Nat /\ Cardinality(S(k)) # 0
    <3> HIDE DEF S
    <3> QED BY <2>3, <2>4, FS_CardinalityType, FS_EmptySet
  <2> HIDE DEF S
  <2> QED BY <2>3, <2>5
<1>4. ASSUME NEW j \in 1..n, NEW k \in 1..n, Before(j, k), j # k
      PROVE  Cardinality(S(j)) < Cardinality(S(k))
  <2>1. \A l \in S(j) : l \in S(k)
    <3> TAKE l \in S(j)
    <3>1. l \in 1..n /\ Before(l, j)
      OBVIOUS
    <3>2. First(l) \in Nat /\ First(j) \in Nat /\ First(k) \in Nat
      BY <1>2, <3>1
    <3>3. Before(l, k)
      BY <1>4, <3>1, <3>2
    <3> QED BY <3>1, <3>3
  <2>2. k \in S(k) /\ k \notin S(j)
    <3>1. First(j) \in Nat /\ First(k) \in Nat
      BY <1>2
    <3> QED BY <1>4, <3>1
  <2>3. S(j) \subseteq S(k) /\ S(j) # S(k)
    BY <2>1, <2>2
  <2> HIDE DEF S
  <2> QED BY <1>3, <2>3, FS_Subset
<1>5. ASSUME NEW j \in 1..n, NEW k \in 1..n, Cardinality(S(j)) = Cardinality(S(k))
      PROVE  j = k
  <2> SUFFICES ASSUME j # k PROVE FALSE
    OBVIOUS
  <2>1. Before(j, k) \/ Before(k, j)
    <3>1. First(j) \in Nat /\ First(k) \in Nat
      BY <1>2
    <3> QED BY <3>1
  <2>2. Cardinality(S(j)) < Cardinality(S(k)) \/ Cardinality(S(k)) < Cardinality(S(j))
    <3> HIDE DEF S, Before
    <3> QED BY <1>4, <2>1
  <2> HIDE DEF S
  <2>3. Cardinality(S(j)) \in Nat /\ Cardinality(S(k)) \in Nat
    BY <1>3
  <2> QED BY <1>5, <2>2, <2>3
<1> HIDE DEF S
<1> QED BY <1>1, <1>3, <1>5

\* Every item gets its own reply, whatever the order of the tasks.
LEMMA RewardsAligned ==
  ASSUME NEW items, Len(items) \in Nat, NEW outcomes
  PROVE  /\ CalculateRewards(items, outcomes)
            = [j \in 1..Len(items) |-> Reply(items[j], outcomes[j])]
         /\ \A j \in 1..Len(items) :
              CalculateRewards(items, outcomes)[j] = Reply(items[j], outcomes[j])
<1> DEFINE n == Len(items)
           place == Grouped(items)
           At(p) == CHOOSE k \in 1..n : place[k] = p
           replies == Replies(items, outcomes, place)
<1>1. /\ \A k \in 1..n : place[k] \in 1..n
      /\ \A j, k \in 1..n : place[j] = place[k] => j = k
  BY PlacesDiffer
<1>2. CalculateRewards(items, outcomes) = [j \in 1..n |-> replies[place[j]]]
  BY DEF CalculateRewards
<1>3. replies = [p \in 1..n |-> Reply(items[At(p)], outcomes[At(p)])]
  BY DEF Replies
<1> HIDE DEF place, replies
<1>4. \A j \in 1..n : At(place[j]) = j
  BY <1>1
<1> HIDE DEF At
<1>5. \A j \in 1..n : replies[place[j]] = Reply(items[j], outcomes[j])
  BY <1>1, <1>3, <1>4
<1>6. \A j \in 1..n : CalculateRewards(items, outcomes)[j] = Reply(items[j], outcomes[j])
  BY <1>2, <1>5
<1> QED BY <1>2, <1>5, <1>6

-----------------------------------------------------------------------------
(* Conversations.                                                          *)

Refs == Nat \X Nat
Messages == [role   : {"user", "assistant", "environment"},
             to     : Refs,
             tokens : Nat,
             with   : {None} \cup Refs \cup SUBSET Refs,
             leaves : {None} \cup Refs,
             ends   : BOOLEAN]

\* The role of the message at position k.
RoleAt(k) == CASE k = 1 -> "user"
               [] k % 2 = 0 -> "assistant"
               [] OTHER -> "environment"

\* extra_env_info when the message at position k of the conversation s of
\* sample i was answered.
InfoIn(i, s, k) ==
  LET set == {j \in 1..(k - 1) : s[j].leaves # None}
  IN  IF set = {} THEN <<i, 0>>
      ELSE s[CHOOSE j \in set : \A l \in set : l <= j].leaves

InPlace(own, i, s, k) ==
  /\ s[k].to = <<i, k - 1>>
  /\ s[k].role = RoleAt(k)
  /\ s[k].role = "environment" => s[k].with = InfoIn(i, s, k)
  /\ s[k].role = "assistant" /\ own =>
       \A stop \in s[k].with : stop[1] = i

\* A conversation of sample i, whose responses were cut at its own stop strings
\* if so the back end does.
Conversation(own, i, s) ==
  /\ s \in Seq(Messages) /\ Len(s) > 0
  /\ Length(s) <= MaxSeqLen
  /\ \A k \in 1..Len(s) : InPlace(own, i, s, k)

\* The message at position k ends the conversation.
EndsAt(s, k) ==
  s[k].ends \/ (s[k].role = "environment" /\ Length(SubSeq(s, 1, k)) = MaxSeqLen)
Quiet(s) == \A k \in 1..Len(s) : ~ EndsAt(s, k)
LastWord(s) == \A k \in 1..Len(s) : EndsAt(s, k) => k = Len(s)

RewardsOf(i, s) == [n \in 1..((Len(s) - 1) \div 2) |-> <<i, 2 * n>>]

\* The facts about the constants that the proofs use.
LEMMA Limits ==
  /\ MaxSeqLen \in Nat /\ MaxNewTokens \in Nat /\ MaxTurns \in Nat /\ MaxTurns > 0
  /\ Outcomes \subseteq [tokens : Nat, done : BOOLEAN, meta : BOOLEAN, stops : BOOLEAN]
BY RolloutAssumption

\* A message added changes nothing before it.
LEMMA Before ==
  ASSUME NEW s \in Seq(Messages), NEW m \in Messages, NEW k \in 1..Len(s)
  PROVE  /\ Append(s, m)[k] = s[k]
         /\ SubSeq(Append(s, m), 1, k) = SubSeq(s, 1, k)
         /\ EndsAt(Append(s, m), k) <=> EndsAt(s, k)
<1> DEFINE t == Append(s, m)
<1>1. t \in Seq(Messages) /\ Len(t) = Len(s) + 1 /\ \A j \in 1..Len(s) : t[j] = s[j]
  OBVIOUS
<1>2. SubSeq(t, 1, k) = SubSeq(s, 1, k)
  <2> HIDE DEF t
  <2>1. k \in Int /\ 1 \in Int /\ 1 <= k /\ k - 1 + 1 = k
        /\ \A j \in 1..k : j \in 1..Len(s) /\ 1 + j - 1 = j
    OBVIOUS
  <2>2. \A j \in 1..k : t[j] \in Messages /\ s[j] \in Messages
    BY <1>1, <2>1
  <2> DEFINE u == SubSeq(t, 1, k)
             v == SubSeq(s, 1, k)
  <2>3. u \in Seq(Messages) /\ Len(u) = k /\ \A j \in 1..k : u[j] = t[j]
    <3> USE <2>1
    <3> QED BY <2>2, SubSeqProperties
  <2>4. v \in Seq(Messages) /\ Len(v) = k /\ \A j \in 1..k : v[j] = s[j]
    <3> USE <2>1
    <3> QED BY <2>2, SubSeqProperties
  <2> HIDE DEF u, v
  <2>5. \A j \in 1..k : u[j] = v[j]
    BY <1>1, <2>1, <2>3, <2>4
  <2>6. u = v
    BY <2>3, <2>4, <2>5, SeqEqual
  <2> QED BY <2>6 DEF u, v
<1>3. t[k] = s[k]
  BY <1>1
<1> HIDE DEF t
<1>4. EndsAt(t, k) <=> EndsAt(s, k)
  BY <1>2, <1>3 DEF EndsAt
<1> QED BY <1>2, <1>3, <1>4 DEF t

\* What was left in the environment up to a message.
LEMMA InfoGoesOn ==
  ASSUME NEW i, NEW s \in Seq(Messages), NEW m \in Messages
  PROVE  /\ \A k \in 1..(Len(s) + 1) : InfoIn(i, Append(s, m), k) = InfoIn(i, s, k)
         /\ InfoIn(i, Append(s, m), Len(s) + 2)
            = IF m.leaves # None THEN m.leaves ELSE InfoIn(i, s, Len(s) + 1)
<1> DEFINE t == Append(s, m)
           n == Len(s)
           Left(r, k) == {j \in 1..(k - 1) : r[j].leaves # None}
<1>1. n \in Nat /\ t[n + 1] = m /\ \A j \in 1..n : t[j] = s[j]
  OBVIOUS
<1> HIDE DEF t, n
<1>2. ASSUME NEW k \in 1..(n + 1)
      PROVE  InfoIn(i, t, k) = InfoIn(i, s, k)
  <2>1. \A j \in 1..(k - 1) : t[j] = s[j]
    BY <1>1
  <2>2. Left(t, k) = Left(s, k)
    BY <2>1
  <2>3. \A j \in Left(s, k) : t[j] = s[j]
    BY <2>1
  <2> DEFINE S == Left(s, k)
             j == CHOOSE j \in S : \A l \in S : l <= j
  <2>4. S # {} => \E x \in S : \A l \in S : l <= x
    <3> SUFFICES ASSUME S # {} PROVE \E x \in S : \A l \in S : l <= x
      OBVIOUS
    <3>1. S \in SUBSET (1..(k - 1)) /\ k - 1 \in Nat
      OBVIOUS
    <3> HIDE DEF S
    <3> QED BY <3>1, MaxOfSet
  <2>5. S # {} => j \in S
    <3> HIDE DEF S
    <3> QED BY <2>4
  <2>6. S # {} => t[j] = s[j]
    <3> HIDE DEF j
    <3> QED BY <2>3, <2>5
  <2>7. InfoIn(i, t, k) = IF S = {} THEN <<i, 0>> ELSE t[j].leaves
    <3>1. InfoIn(i, t, k) = IF Left(t, k) = {} THEN <<i, 0>>
            ELSE t[CHOOSE x \in Left(t, k) : \A l \in Left(t, k) : l <= x].leaves
      BY DEF InfoIn
    <3> HIDE DEF Left
    <3> QED BY <2>2, <3>1
  <2>8. InfoIn(i, s, k) = IF S = {} THEN <<i, 0>> ELSE s[j].leaves
    BY DEF InfoIn
  <2> HIDE DEF S, j
  <2> QED BY <2>6, <2>7, <2>8
<1>3. CASE m.leaves # None
  <2> DEFINE S == Left(t, n + 2)
  <2>1. n + 1 \in S /\ \A l \in S : l <= n + 1 /\ l \in Nat
    BY <1>1, <1>3
  <2>2. (CHOOSE j \in S : \A l \in S : l <= j) = n + 1
    <3> HIDE DEF S
    <3>1. \A j \in S : (\A l \in S : l <= j) => j = n + 1
      BY <1>1, <2>1
    <3> QED BY <2>1, <3>1
  <2>3. InfoIn(i, t, n + 2)
        = IF S = {} THEN <<i, 0>> ELSE t[CHOOSE j \in S : \A l \in S : l <= j].leaves
    BY DEF InfoIn
  <2> HIDE DEF S
  <2>4. InfoIn(i, t, n + 2) = m.leaves
    BY <1>1, <2>1, <2>2, <2>3
  <2> QED BY <1>2, <1>3, <2>4 DEF t, n
<1>4. CASE m.leaves = None
  <2>1. Left(t, n + 2) = Left(t, n + 1)
    <3>1. \A j \in 1..(n + 2 - 1) : j \in 1..(n + 1 - 1) \/ j = n + 1
      BY <1>1
    <3>2. \A j \in 1..(n + 1 - 1) : j \in 1..(n + 2 - 1)
      BY <1>1
    <3> QED BY <1>1, <1>4, <3>1, <3>2
  <2>2. InfoIn(i, t, n + 2) = InfoIn(i, t, n + 1)
    <3>1. \A k : InfoIn(i, t, k) = IF Left(t, k) = {} THEN <<i, 0>>
            ELSE t[CHOOSE x \in Left(t, k) : \A l \in Left(t, k) : l <= x].leaves
      BY DEF InfoIn
    <3> HIDE DEF Left
    <3> QED BY <2>1, <3>1
  <2>3. InfoIn(i, t, n + 1) = InfoIn(i, s, n + 1)
    BY <1>1, <1>2
  <2> QED BY <1>2, <1>4, <2>2, <2>3 DEF t, n
<1> QED BY <1>3, <1>4

\* A message in its place continues a conversation.
LEMMA Continues ==
  ASSUME NEW own \in BOOLEAN, NEW i \in Nat, NEW s, Conversation(own, i, s), NEW m \in Messages,
         m.to = <<i, Len(s)>>, m.role = RoleAt(Len(s) + 1),
         m.role = "environment" => m.with = InfoIn(i, s, Len(s) + 1),
         m.role = "assistant" /\ own =>
           \A stop \in m.with : stop[1] = i,
         Length(s) + m.tokens <= MaxSeqLen
  PROVE  /\ Conversation(own, i, Append(s, m))
         /\ Length(Append(s, m)) = Length(s) + m.tokens /\ Length(s) \in Nat
         /\ Len(Append(s, m)) = Len(s) + 1 /\ Append(s, m)[Len(s) + 1] = m
         /\ Last(Append(s, m)) = m
         /\ Quiet(s) => LastWord(Append(s, m))
         /\ Quiet(s) /\ ~ m.ends
              /\ ~ (m.role = "environment" /\ Length(Append(s, m)) = MaxSeqLen)
            => Quiet(Append(s, m))
<1> DEFINE t == Append(s, m)
           n == Len(s)
<1>1. s \in Seq(Messages) /\ n \in Nat /\ n > 0 /\ Length(s) <= MaxSeqLen
      /\ \A k \in 1..n : InPlace(own, i, s, k)
  BY DEF Conversation
<1>2. t \in Seq(Messages) /\ Len(t) = n + 1 /\ t[n + 1] = m /\ \A k \in 1..n : t[k] = s[k]
  BY <1>1
<1>3. Length(t) = Length(s) + m.tokens /\ Length(s) \in Nat
  <2>1. m.tokens \in Nat
    BY DEF Messages
  <2>2. \A k \in 1..n : s[k].tokens \in Nat
    <3>1. \A k \in 1..n : s[k] \in Messages
      BY <1>1
    <3> QED BY <3>1 DEF Messages
  <2> QED BY <1>1, <2>1, <2>2, LengthOfAppend
<1>4. \A k \in 1..(n + 1) : k \in 1..n \/ k = n + 1
  BY <1>1
<1>5. \A k \in 1..(n + 1) : InfoIn(i, t, k) = InfoIn(i, s, k)
  BY <1>1, InfoGoesOn
<1>6. \A k \in 1..n : EndsAt(t, k) <=> EndsAt(s, k)
  BY <1>1, Before
<1>7. EndsAt(t, n + 1) <=> m.ends \/ (m.role = "environment" /\ Length(t) = MaxSeqLen)
  <2>1. SubSeq(t, 1, n + 1) = t
    BY <1>2, SubSeqFull
  <2> HIDE DEF t, n
  <2> QED BY <1>2, <2>1 DEF EndsAt
<1>8. Last(t) = m
  <2> HIDE DEF t
  <2> QED BY <1>2 DEF Last
<1> HIDE DEF t
<1>9. \A k \in 1..(n + 1) : InPlace(own, i, t, k)
  <2> TAKE k \in 1..(n + 1)
  <2>1. CASE k \in 1..n
    <3>1. InPlace(own, i, s, k) /\ t[k] = s[k] /\ InfoIn(i, t, k) = InfoIn(i, s, k)
      BY <1>1, <1>2, <1>5, <2>1
    <3> HIDE DEF n
    <3> QED BY <3>1 DEF InPlace
  <2>2. CASE k = n + 1
    <3>1. t[k] = m /\ InfoIn(i, t, k) = InfoIn(i, s, n + 1) /\ k - 1 = n
      BY <1>1, <1>2, <1>5, <2>2
    <3> QED BY <2>2, <3>1 DEF InPlace
  <2> QED BY <1>4, <2>1, <2>2
<1>10. Conversation(own, i, t)
  BY <1>1, <1>2, <1>3, <1>9 DEF Conversation
<1>11. Quiet(s) => LastWord(t)
  BY <1>2, <1>4, <1>6 DEF Quiet, LastWord
<1>12. Quiet(s) /\ ~ m.ends /\ ~ (m.role = "environment" /\ Length(t) = MaxSeqLen)
       => Quiet(t)
  BY <1>2, <1>4, <1>6, <1>7 DEF Quiet
<1> QED BY <1>2, <1>3, <1>8, <1>10, <1>11, <1>12 DEF t

\* A response of the policy.
Response(own, i, s, m) ==
  \E tokens \in Nat, cuts \in SUBSET Refs :
    /\ m = Message("assistant", <<i, Len(s)>>, tokens, cuts)
    /\ Length(s) + tokens <= MaxSeqLen
    /\ own => \A stop \in cuts : stop[1] = i

\* A conversation and a response to it are a conversation that waits for its
\* environment.
LEMMA ResponseContinues ==
  ASSUME NEW own \in BOOLEAN, NEW i \in Nat, NEW s, Conversation(own, i, s), Len(s) % 2 = 1, NEW m,
         Response(own, i, s, m)
  PROVE  /\ Conversation(own, i, Append(s, m))
         /\ Len(Append(s, m)) = Len(s) + 1
         /\ Last(Append(s, m)).role = "assistant"
         /\ Quiet(s) => Quiet(Append(s, m))
         /\ InfoIn(i, Append(s, m), Len(s) + 2) = InfoIn(i, s, Len(s) + 1)
         /\ RewardsOf(i, Append(s, m)) = RewardsOf(i, s)
<1> DEFINE t == Append(s, m)
           n == Len(s)
<1>1. PICK tokens \in Nat, cuts \in SUBSET Refs :
        /\ m = Message("assistant", <<i, n>>, tokens, cuts)
        /\ Length(s) + tokens <= MaxSeqLen
        /\ own => \A stop \in cuts : stop[1] = i
  BY DEF Response
<1>2. s \in Seq(Messages) /\ n \in Nat /\ n > 0
  BY DEF Conversation
<1>3. /\ m.role = "assistant" /\ m.to = <<i, n>> /\ m.tokens = tokens
      /\ m.with = cuts /\ m.leaves = None /\ m.ends = FALSE
  BY <1>1 DEF Message
<1>4. m \in Messages
  <2>1. <<i, n>> \in Refs
    BY <1>2 DEF Refs
  <2> HIDE DEF n
  <2> QED BY <1>1, <2>1 DEF Message, Messages
<1>5. m.role = RoleAt(n + 1) /\ m.role # "environment"
  <2>1. n + 1 # 1 /\ (n + 1) % 2 = 0
    BY <1>2
  <2> HIDE DEF n
  <2> QED BY <1>3, <2>1 DEF RoleAt
<1>6. InfoIn(i, t, n + 2) = InfoIn(i, s, n + 1)
  BY <1>2, <1>3, <1>4, InfoGoesOn
<1>7. RewardsOf(i, t) = RewardsOf(i, s)
  <2>1. Len(t) = n + 1 /\ (n + 1 - 1) \div 2 = (n - 1) \div 2
    BY <1>2
  <2> HIDE DEF t
  <2> QED BY <2>1 DEF RewardsOf
<1>8. /\ Conversation(own, i, t) /\ Len(t) = n + 1 /\ Last(t) = m
      /\ Quiet(s) => Quiet(t)
  <2>1. m.role = "assistant" /\ own => \A stop \in m.with : stop[1] = i
    BY <1>1, <1>3
  <2>2. Length(s) + m.tokens <= MaxSeqLen
    BY <1>1, <1>3
  <2> HIDE DEF n, t
  <2> QED BY <1>3, <1>4, <1>5, <2>1, <2>2, Continues DEF n, t
<1> QED BY <1>3, <1>6, <1>7, <1>8

\* What the environment of sample i is shown.
Shown(i, s, item) ==
  item.to = <<i, Len(s)>> /\ item.info = InfoIn(i, s, Len(s) + 1)

\* What the environment is given comes from an earlier reply, or is empty.
LEMMA InfoIsRef ==
  ASSUME NEW own \in BOOLEAN, NEW i \in Nat, NEW s, Conversation(own, i, s), NEW k \in 1..(Len(s) + 1)
  PROVE  InfoIn(i, s, k) \in Refs
<1> DEFINE S == {j \in 1..(k - 1) : s[j].leaves # None}
           j == CHOOSE j \in S : \A l \in S : l <= j
<1>1. s \in Seq(Messages)
  BY DEF Conversation
<1>2. S # {} => j \in S
  <2>1. S \in SUBSET (1..(k - 1)) /\ k - 1 \in Nat
    OBVIOUS
  <2> HIDE DEF S
  <2>2. S # {} => \E x \in S : \A l \in S : l <= x
    BY <2>1, MaxOfSet
  <2> QED BY <2>2
<1>3. S # {} => s[j].leaves \in Refs
  <2> SUFFICES ASSUME S # {} PROVE s[j].leaves \in Refs
    OBVIOUS
  <2>1. j \in 1..Len(s) /\ s[j].leaves # None
    <3>1. j \in S
      BY <1>2
    <3> HIDE DEF j
    <3> QED BY <3>1, <1>1
  <2>2. s[j] \in Messages
    BY <1>1, <2>1
  <2> HIDE DEF j, S
  <2> QED BY <2>1, <2>2 DEF Messages
<1>4. <<i, 0>> \in Refs
  BY DEF Refs
<1>5. InfoIn(i, s, k) = IF S = {} THEN <<i, 0>> ELSE s[j].leaves
  BY DEF InfoIn
<1> HIDE DEF S, j
<1> QED BY <1>3, <1>4, <1>5

\* A conversation and the reply to it, cut to the limit, are a conversation
\* that has ended or waits for the next response.
LEMMA ReplyContinues ==
  ASSUME NEW own \in BOOLEAN, NEW i \in Nat, NEW s, Conversation(own, i, s), Len(s) % 2 = 0, Quiet(s),
         NEW item, Shown(i, s, item), NEW outcome \in Outcomes
  PROVE  LET reply == Reply(item, outcome)
             m == Observation(s, reply)
             t == Append(s, m)
         IN  /\ Conversation(own, i, t) /\ LastWord(t)
             /\ Len(t) = Len(s) + 1
             /\ Last(t).role = "environment"
             /\ Overflows(s, reply) <=> Length(t) = MaxSeqLen
             /\ ~ Overflows(s, reply) /\ ~ reply.ends => Quiet(t)
             /\ reply.ends \in BOOLEAN
             /\ InfoIn(i, t, Len(s) + 2)
                = IF reply.leaves # None THEN reply.leaves ELSE InfoIn(i, s, Len(s) + 1)
             /\ RewardsOf(i, t) = Append(RewardsOf(i, s), reply.to)
             /\ reply.stops \in {None, <<i, Len(s)>>}
<1> DEFINE reply == Reply(item, outcome)
           m == Observation(s, reply)
           t == Append(s, m)
           n == Len(s)
<1>1. s \in Seq(Messages) /\ n \in Nat /\ n > 1 /\ Length(s) <= MaxSeqLen
  BY DEF Conversation
<1>2. Length(s) \in Nat
  <2>1. \A k \in 1..n : s[k].tokens \in Nat
    <3>1. \A k \in 1..n : s[k] \in Messages
      BY <1>1
    <3> QED BY <3>1 DEF Messages
  <2>2. s[1] \in Messages /\ s[1].tokens \in Nat
    <3>1. 1 \in 1..n
      BY <1>1
    <3> QED BY <1>1, <2>1, <3>1
  <2> HIDE DEF n
  <2> QED BY <1>1, <2>1, <2>2, LengthOfAppend DEF n
<1>3. outcome.tokens \in Nat /\ outcome.done \in BOOLEAN /\ MaxSeqLen \in Nat
  BY Limits
<1>4. /\ reply.role = "environment" /\ reply.to = <<i, n>> /\ reply.tokens = outcome.tokens
      /\ reply.with = InfoIn(i, s, n + 1) /\ reply.ends = outcome.done
      /\ reply.leaves \in {None, <<i, n>>} /\ reply.stops \in {None, <<i, n>>}
  BY DEF Reply, Shown
<1> DEFINE over == Overflows(s, reply)
           left == MaxSeqLen - Length(s)
<1>5. over <=> Length(s) + outcome.tokens >= MaxSeqLen
  BY <1>4 DEF Overflows
<1> HIDE DEF reply
<1>6. /\ m.role = "environment" /\ m.to = <<i, n>> /\ m.with = InfoIn(i, s, n + 1)
      /\ m.leaves = reply.leaves /\ m.ends = outcome.done
      /\ m.tokens = IF over THEN (IF left > 0 THEN left ELSE 0) ELSE outcome.tokens
  BY <1>4 DEF Observation
<1>7. m.tokens \in Nat /\ Length(s) + m.tokens <= MaxSeqLen
      /\ (over <=> Length(s) + m.tokens = MaxSeqLen)
  <2> DEFINE L == Length(s)
             o == outcome.tokens
             k == m.tokens
  <2>1. L \in Nat /\ L <= MaxSeqLen /\ o \in Nat /\ MaxSeqLen \in Nat
    BY <1>1, <1>2, <1>3
  <2>2. over <=> L + o >= MaxSeqLen
    BY <1>5
  <2>3. over => k = MaxSeqLen - L
    <3>1. left >= 0 /\ (left > 0 \/ left = 0)
      BY <2>1
    <3> HIDE DEF m, over
    <3> QED BY <1>6, <3>1
  <2>4. ~ over => k = o
    <3> HIDE DEF m, over
    <3> QED BY <1>6
  <2> HIDE DEF L, o, k, over
  <2>5. k \in Nat /\ L + k <= MaxSeqLen /\ (over <=> L + k = MaxSeqLen)
    <3>1. CASE over
      BY <2>1, <2>3, <3>1
    <3>2. CASE ~ over
      BY <2>1, <2>2, <2>4, <3>2
    <3> QED BY <3>1, <3>2
  <2> QED BY <2>5 DEF L, k
<1>8. m \in Messages
  <2>1. <<i, n>> \in Refs
    BY <1>1 DEF Refs
  <2>2. InfoIn(i, s, n + 1) \in Refs
    BY <1>1, InfoIsRef
  <2>3. m = [role |-> m.role, to |-> m.to, tokens |-> m.tokens, with |-> m.with,
             leaves |-> m.leaves, ends |-> m.ends]
    BY DEF Observation
  <2> HIDE DEF m, n
  <2> QED BY <1>3, <1>4, <1>6, <1>7, <2>1, <2>2, <2>3 DEF Messages
<1> HIDE DEF m, over
<1>9. m.role = RoleAt(n + 1) /\ m.role # "assistant"
  <2>1. n + 1 # 1 /\ (n + 1) % 2 # 0
    BY <1>1
  <2> HIDE DEF n
  <2> QED BY <1>6, <2>1 DEF RoleAt
<1>10. /\ Conversation(own, i, t) /\ LastWord(t) /\ Len(t) = n + 1 /\ Last(t) = m
       /\ Length(t) = Length(s) + m.tokens
       /\ ~ m.ends /\ Length(t) # MaxSeqLen => Quiet(t)
  <2>1. m.to = <<i, Len(s)>> /\ m.role = RoleAt(Len(s) + 1)
    BY <1>6, <1>9
  <2>2. m.role = "environment" => m.with = InfoIn(i, s, Len(s) + 1)
    BY <1>6
  <2>3. m.role = "assistant" /\ own => \A stop \in m.with : stop[1] = i
    BY <1>9
  <2>4. Length(s) + m.tokens <= MaxSeqLen
    BY <1>7
  <2> HIDE DEF n, t
  <2>5. /\ Conversation(own, i, Append(s, m))
        /\ Length(Append(s, m)) = Length(s) + m.tokens
        /\ Len(Append(s, m)) = Len(s) + 1
        /\ Last(Append(s, m)) = m
        /\ LastWord(Append(s, m))
        /\ ~ m.ends /\ ~ (m.role = "environment" /\ Length(Append(s, m)) = MaxSeqLen)
             => Quiet(Append(s, m))
    BY <1>8, <2>1, <2>2, <2>3, <2>4, Continues
  <2> QED BY <2>5 DEF n, t
<1>11. InfoIn(i, t, n + 2)
       = IF reply.leaves # None THEN reply.leaves ELSE InfoIn(i, s, n + 1)
  BY <1>1, <1>6, <1>8, InfoGoesOn
<1>12. RewardsOf(i, t) = Append(RewardsOf(i, s), reply.to)
  <2> DEFINE k == n \div 2
             a == RewardsOf(i, s)
             b == RewardsOf(i, t)
  <2>1. k \in Nat /\ k > 0 /\ n = 2 * k /\ (n - 1) \div 2 = k - 1 /\ (n + 1 - 1) \div 2 = k
    BY <1>1
  <2> HIDE DEF k, n, t
  <2>2. a = [x \in 1..(k - 1) |-> <<i, 2 * x>>]
    BY <2>1 DEF RewardsOf, n
  <2>3. b = [x \in 1..k |-> <<i, 2 * x>>]
    BY <1>10, <2>1 DEF RewardsOf
  <2>4. \A x \in Nat : <<i, 2 * x>> \in Refs
    BY DEF Refs
  <2>5. a \in Seq(Refs) /\ Len(a) = k - 1
    BY <2>1, <2>2, <2>4
  <2>6. b \in Seq(Refs) /\ Len(b) = k
    BY <2>1, <2>3, <2>4
  <2>7. reply.to = <<i, 2 * k>>
    BY <1>4, <2>1
  <2> DEFINE c == Append(a, reply.to)
  <2>8. c \in Seq(Refs) /\ Len(c) = k /\ c[k] = reply.to /\ \A x \in 1..(k - 1) : c[x] = a[x]
    <3>1. reply.to \in Refs /\ k - 1 + 1 = k
      BY <2>1, <2>4, <2>7
    <3> HIDE DEF a
    <3> QED BY <2>5, <3>1, AppendProperties
  <2> HIDE DEF a, b, c
  <2>9. \A x \in 1..k : b[x] = c[x]
    <3> TAKE x \in 1..k
    <3>1. b[x] = <<i, 2 * x>>
      BY <2>3
    <3>2. CASE x = k
      BY <2>7, <2>8, <3>1, <3>2
    <3>3. CASE x \in 1..(k - 1)
      BY <2>2, <2>8, <3>1, <3>3
    <3> QED BY <2>1, <3>2, <3>3
  <2>10. b = c
    BY <2>6, <2>8, <2>9, SeqEqual
  <2> QED BY <2>10 DEF a, b, c
<1>13. reply.ends \in BOOLEAN /\ m.ends = reply.ends
  BY <1>3, <1>4, <1>6
<1>14. over <=> Length(t) = MaxSeqLen
  BY <1>7, <1>10
<1>15. ~ over /\ ~ reply.ends => Quiet(t)
  BY <1>10, <1>13, <1>14
<1> HIDE DEF t, n
<1> QED BY <1>4, <1>6, <1>10, <1>11, <1>12, <1>13, <1>14, <1>15 DEF t, n, m, over, reply

-----------------------------------------------------------------------------
(* The inductive invariant. *)

Own == setup.backend # "vllm"

Types ==
  /\ setup \in Setups
  /\ log \in [Samples -> Seq(Messages)]
  /\ DOMAIN rewards = Samples
  /\ info \in [Samples -> Refs]
  /\ stops \in [Samples -> {None} \cup Refs]
  /\ terminated \in [Samples -> BOOLEAN]
  /\ truncated \in [Samples -> BOOLEAN]
  /\ turns \in [Samples -> Nat]
  /\ active \in Seq(Samples)
  /\ pc \in [Samples -> {"batch", "start", "waiting", "done"}]
  /\ DOMAIN queue = Samples /\ DOMAIN collected = Samples
  /\ finished \in [Samples -> BOOLEAN]
  /\ lost \in [Samples -> {"no", "error", "timeout"}]
  /\ phase \in {"running", "returned", "raised"}

\* What is true of a sample at any time.
Sound(i) ==
  /\ Conversation(Own, i, log[i])
  /\ LastWord(log[i])
  /\ rewards[i] = RewardsOf(i, log[i])
  /\ RoleAt(Len(log[i])) = "environment" =>
       (truncated[i] <=> Length(log[i]) = MaxSeqLen)
  /\ stops[i] # None => stops[i][1] = i

\* A sample whose conversation may go on.
GoingOn(i) ==
  /\ ~ terminated[i] /\ ~ truncated[i]
  /\ Quiet(log[i])
  /\ info[i] = InfoIn(i, log[i], Len(log[i]) + 1)

\* A sample whose conversation has ended.
HasEnded(i) ==
  /\ RoleAt(Len(log[i])) = "environment"
  /\ terminated[i] \/ truncated[i]

OutOfTurns(i) ==
  RoleAt(Len(log[i])) = "environment" /\ turns[i] = MaxTurns

\* The active samples of the batch are all in the same turn.
InStep(i) ==
  \/ Len(log[i]) = 2 * turns[i] + 1
  \/ Len(log[i]) = 2 * turns[i] + 2 /\ turns[i] < MaxTurns

Active(i) == \E k \in 1..Len(active) : active[k] = i

BatchInv ==
  /\ \A i \in Samples : lost[i] = "no"
  /\ \A i \in Samples : ~ Active(i) => HasEnded(i)
  /\ \A i \in Samples : Active(i) => GoingOn(i) /\ InStep(i)
  /\ \A i, j \in Samples : Active(i) /\ Active(j) => turns[i] = turns[j]

\* What the coroutine of sample i and its worker have between them.
Sample(m) == [type |-> "sample", item |-> m]
Error == [type |-> "error", item |-> None]
WorkerDone == [type |-> "worker_done", item |-> None]

Stream(i) ==
  \/ queue[i] = <<>> /\ collected[i] = <<>> /\ ~ finished[i]
  \/ queue[i] = <<Error, WorkerDone>> /\ collected[i] = <<>> /\ finished[i]
  \/ \E m : /\ Response(Own, i, log[i], m)
            /\ \/ queue[i] = <<Sample(m)>> /\ collected[i] = <<>> /\ ~ finished[i]
               \/ queue[i] = <<>> /\ collected[i] = <<m>> /\ ~ finished[i]
               \/ /\ queue[i] \in {<<WorkerDone>>, <<Error, WorkerDone>>}
                  /\ collected[i] = <<m>> /\ finished[i]

Coroutine(i) ==
  /\ pc[i] # "batch"
  /\ pc[i] = "start" => Len(log[i]) = 1 /\ turns[i] = 0 /\ GoingOn(i)
  /\ pc[i] = "waiting" /\ phase = "running" =>
       /\ GoingOn(i)
       /\ turns[i] \in 1..MaxTurns /\ Len(log[i]) = 2 * turns[i] - 1
       /\ Stream(i)
  /\ pc[i] = "done" => lost[i] # "no" \/ HasEnded(i) \/ OutOfTurns(i)

AsyncInv == \A i \in Samples : Coroutine(i)

ReturnedInv ==
  phase = "returned" =>
    \A i \in Samples : lost[i] # "no" \/ HasEnded(i) \/ OutOfTurns(i)

RolloutInv ==
  /\ Types
  /\ \A i \in Samples : Sound(i)
  /\ Async => AsyncInv
  /\ ~ Async => BatchInv
  /\ ReturnedInv

\* Whose turn it is, from the length of the conversation.
LEMMA LastRole ==
  ASSUME NEW own, NEW i, NEW s, Conversation(own, i, s)
  PROVE  /\ Len(s) \in Nat /\ Len(s) > 0
         /\ Last(s).role = RoleAt(Len(s))
         /\ RoleAt(Len(s)) = "assistant" <=> Len(s) % 2 = 0
         /\ RoleAt(Len(s)) = "environment" <=> Len(s) % 2 = 1 /\ Len(s) > 1
<1> DEFINE n == Len(s)
<1>1. n \in Nat /\ n > 0 /\ \A k \in 1..n : InPlace(own, i, s, k)
  BY DEF Conversation
<1>2. s[n].role = RoleAt(n)
  <2>1. InPlace(own, i, s, n)
    BY <1>1
  <2> HIDE DEF n
  <2> QED BY <2>1 DEF InPlace
<1>3. (n = 1 \/ n > 1) /\ n % 2 \in {0, 1} /\ (n = 1 => n % 2 = 1)
  <2>1. n \in Nat /\ n > 0
    BY <1>1
  <2> HIDE DEF n
  <2> QED BY <2>1
<1>4. RoleAt(n) = IF n = 1 THEN "user" ELSE IF n % 2 = 0 THEN "assistant" ELSE "environment"
  <2> HIDE DEF n
  <2> QED BY <1>3 DEF RoleAt
<1> HIDE DEF n
<1>5. RoleAt(n) = "assistant" <=> n % 2 = 0
  BY <1>3, <1>4
<1>6. RoleAt(n) = "environment" <=> n % 2 = 1 /\ n > 1
  BY <1>3, <1>4
<1> QED BY <1>1, <1>2, <1>5, <1>6 DEF Last, n

\* The engines generate no more than max_seq_len allows.
LEMMA GeneratedFits ==
  ASSUME NEW len \in Nat, len <= MaxSeqLen, NEW x \in Generated(len)
  PROVE  x \in Nat /\ len + x <= MaxSeqLen /\ x <= MaxNewTokens
<1>1. MaxSeqLen \in Nat /\ MaxNewTokens \in Nat
  BY Limits
<1>2. VllmAllows(len) \in Nat /\ len + VllmAllows(len) <= MaxSeqLen
      /\ VllmAllows(len) <= MaxNewTokens
  BY <1>1 DEF VllmAllows
<1>3. SGLangAllows(len) \in Nat /\ len + SGLangAllows(len) <= MaxSeqLen
      /\ SGLangAllows(len) <= MaxNewTokens
  <2> DEFINE r == MaxSeqLen - len - 1
             room == IF r > 0 THEN r ELSE 0
  <2>1. room \in Nat /\ len + room <= MaxSeqLen
    BY <1>1
  <2>2. SGLangAllows(len) = IF room < MaxNewTokens THEN room ELSE MaxNewTokens
    BY DEF SGLangAllows
  <2> HIDE DEF room
  <2> QED BY <1>1, <2>1, <2>2
<1>4. Allowed(len) \in Nat /\ len + Allowed(len) <= MaxSeqLen
      /\ Allowed(len) <= MaxNewTokens
  BY <1>2, <1>3 DEF Allowed
<1>5. (x = 0 /\ Allowed(len) = 0) \/ (Allowed(len) # 0 /\ (x = 1 \/ x = Allowed(len)))
  BY DEF Generated
<1> QED BY <1>1, <1>4, <1>5

\* The samples of a configuration.
LEMMA TheSamples ==
  ASSUME setup \in Setups
  PROVE  /\ Len(setup.prompts) \in Nat /\ Samples = 1..Len(setup.prompts)
         /\ \A i \in Samples : i \in Nat /\ setup.prompts[i] \in 0..MaxSeqLen
         /\ setup.prompts \in Seq(Nat)
         /\ setup.backend \in {"vllm", "sglang", "vllm_async"}
<1>1. setup.prompts \in Seq(0..MaxSeqLen)
      /\ setup.backend \in {"vllm", "sglang", "vllm_async"}
  BY RolloutAssumption
<1>2. MaxSeqLen \in Nat
  BY Limits
<1>3. setup.prompts \in Seq(Nat)
  BY <1>1, <1>2
<1>4. Len(setup.prompts) \in Nat
      /\ \A i \in 1..Len(setup.prompts) : i \in Nat /\ setup.prompts[i] \in 0..MaxSeqLen
  <2> DEFINE p == setup.prompts
             V == 0..MaxSeqLen
  <2>1. p \in Seq(V)
    BY <1>1
  <2> HIDE DEF p, V
  <2>2. Len(p) \in Nat /\ \A i \in 1..Len(p) : i \in Nat /\ p[i] \in V
    BY <2>1
  <2> QED BY <2>2 DEF p, V
<1> QED BY <1>1, <1>3, <1>4 DEF Samples

\* A prompt is a conversation that may go on.
LEMMA PromptBegins ==
  ASSUME NEW own \in BOOLEAN, NEW i \in Nat, NEW p \in 0..MaxSeqLen,
         NEW s, s = <<Message("user", <<i, 0>>, p, None)>>
  PROVE  /\ Conversation(own, i, s) /\ Len(s) = 1 /\ Quiet(s)
         /\ InfoIn(i, s, 2) = <<i, 0>>
         /\ RewardsOf(i, s) = <<>>
<1> DEFINE m == Message("user", <<i, 0>>, p, None)
<1>1. /\ m.role = "user" /\ m.to = <<i, 0>> /\ m.tokens = p /\ m.with = None
      /\ m.leaves = None /\ m.ends = FALSE
  BY DEF Message
<1>2. p \in Nat /\ p <= MaxSeqLen
  BY Limits
<1>3. m \in Messages
  <2>1. <<i, 0>> \in Refs
    BY DEF Refs
  <2> QED BY <1>2, <2>1 DEF Message, Messages
<1> HIDE DEF m
<1>4. s \in Seq(Messages) /\ Len(s) = 1 /\ s[1] = m /\ s = <<m>>
  BY <1>3 DEF m
<1>5. Length(s) = p
  BY <1>1, <1>2, <1>4, LengthOfOne
<1>6. InPlace(own, i, s, 1)
  <2>1. RoleAt(1) = "user"
    BY DEF RoleAt
  <2>2. 1 - 1 = 0
    OBVIOUS
  <2> QED BY <1>1, <1>4, <2>1, <2>2 DEF InPlace
<1>7. \A k \in 1..Len(s) : k = 1
  BY <1>4
<1>8. Conversation(own, i, s)
  BY <1>2, <1>4, <1>5, <1>6, <1>7 DEF Conversation
<1>9. Quiet(s)
  <2>1. ~ EndsAt(s, 1)
    BY <1>1, <1>4 DEF EndsAt
  <2> QED BY <1>7, <2>1 DEF Quiet
<1>10. InfoIn(i, s, 2) = <<i, 0>>
  <2>1. {j \in 1..(2 - 1) : s[j].leaves # None} = {}
    BY <1>1, <1>4
  <2> QED BY <2>1 DEF InfoIn
<1>11. RewardsOf(i, s) = <<>>
  <2>1. (1 - 1) \div 2 = 0
    OBVIOUS
  <2>2. RewardsOf(i, s) = [n \in 1..0 |-> <<i, 2 * n>>]
    BY <1>4, <2>1 DEF RewardsOf
  <2> QED BY <2>2
<1> QED BY <1>4, <1>8, <1>9, <1>10, <1>11

\* The invariant holds at the start.
LEMMA InitInv == Init => RolloutInv
<1> SUFFICES ASSUME Init PROVE RolloutInv
  OBVIOUS
<1>1. setup \in Setups
  BY DEF Init
<1>2. /\ Len(setup.prompts) \in Nat /\ Samples = 1..Len(setup.prompts)
      /\ \A i \in Samples : i \in Nat /\ setup.prompts[i] \in 0..MaxSeqLen
      /\ setup.prompts \in Seq(Nat)
  BY <1>1, TheSamples
<1>3. \A i \in Samples :
        /\ Conversation(Own, i, log[i]) /\ Len(log[i]) = 1 /\ Quiet(log[i])
        /\ InfoIn(i, log[i], 2) = <<i, 0>>
        /\ RewardsOf(i, log[i]) = <<>>
  <2> TAKE i \in Samples
  <2>1. log[i] = <<Message("user", <<i, 0>>, setup.prompts[i], None)>>
    BY DEF Init
  <2>2. i \in Nat /\ setup.prompts[i] \in 0..MaxSeqLen /\ Own \in BOOLEAN
    BY <1>2 DEF Own
  <2> QED BY <2>1, <2>2, PromptBegins
<1>4. \A i \in Samples : log[i] \in Seq(Messages)
  BY <1>3 DEF Conversation
<1>5. Types
  <2>1. log \in [Samples -> Seq(Messages)]
    BY <1>4 DEF Init
  <2>2. info \in [Samples -> Refs]
    <3>1. \A i \in Samples : <<i, 0>> \in Refs
      BY <1>2 DEF Refs
    <3> QED BY <3>1 DEF Init
  <2>3. active \in Seq(Samples)
    <3>1. Indices(setup.prompts) = [k \in 1..Len(setup.prompts) |-> k]
      BY <1>2 DEF Indices
    <3>2. Indices(setup.prompts) \in Seq(Samples)
      BY <1>2, <3>1
    <3>3. <<>> \in Seq(Samples)
      OBVIOUS
    <3> QED BY <3>2, <3>3 DEF Init
  <2>4. /\ DOMAIN rewards = Samples /\ DOMAIN queue = Samples /\ DOMAIN collected = Samples
        /\ stops \in [Samples -> {None} \cup Refs]
        /\ terminated \in [Samples -> BOOLEAN] /\ truncated \in [Samples -> BOOLEAN]
        /\ finished \in [Samples -> BOOLEAN]
    BY DEF Init
  <2>5. /\ turns \in [Samples -> Nat]
        /\ pc \in [Samples -> {"batch", "start", "waiting", "done"}]
        /\ lost \in [Samples -> {"no", "error", "timeout"}]
        /\ phase \in {"running", "returned", "raised"}
    BY DEF Init
  <2> QED BY <1>1, <2>1, <2>2, <2>3, <2>4, <2>5 DEF Types
<1>6. ASSUME NEW i \in Samples
      PROVE  Sound(i) /\ GoingOn(i)
  <2>1. RoleAt(Len(log[i])) # "environment"
    BY <1>3 DEF RoleAt
  <2>2. LastWord(log[i])
    BY <1>3 DEF LastWord, Quiet
  <2>3. rewards[i] = <<>> /\ stops[i] = None /\ ~ terminated[i] /\ ~ truncated[i]
        /\ info[i] = <<i, 0>>
    BY DEF Init
  <2>4. Len(log[i]) = 1 /\ 1 + 1 = 2
    BY <1>3
  <2> QED BY <1>3, <2>1, <2>2, <2>3, <2>4 DEF Sound, GoingOn
<1>7. Async => AsyncInv
  <2> SUFFICES ASSUME Async, NEW i \in Samples PROVE Coroutine(i)
    BY DEF AsyncInv
  <2>1. pc[i] = "start" /\ turns[i] = 0
    BY DEF Init
  <2> QED BY <1>3, <1>6, <2>1 DEF Coroutine
<1>8. ~ Async => BatchInv
  <2> SUFFICES ASSUME ~ Async PROVE BatchInv
    OBVIOUS
  <2>1. active = [k \in 1..Len(setup.prompts) |-> k]
    BY <1>2 DEF Init, Indices
  <2>2. Len(active) = Len(setup.prompts) /\ \A k \in Samples : active[k] = k
        /\ 1..Len(active) = Samples
    BY <1>2, <2>1
  <2>3. \A i \in Samples : lost[i] = "no" /\ turns[i] = 0
    BY DEF Init
  <2>4. \A i \in Samples : InStep(i)
    <3>1. 1 = 2 * 0 + 1
      OBVIOUS
    <3> QED BY <1>3, <2>3, <3>1 DEF InStep
  <2>5. \A i \in Samples : Active(i)
    BY <2>2 DEF Active
  <2> QED BY <1>6, <2>3, <2>4, <2>5 DEF BatchInv
<1>9. ReturnedInv
  BY DEF Init, ReturnedInv
<1> QED BY <1>5, <1>6, <1>7, <1>8, <1>9 DEF RolloutInv

\* A conversation is never longer than the limit.
LEMMA LengthIsNat ==
  ASSUME NEW own, NEW i, NEW s, Conversation(own, i, s)
  PROVE  Length(s) \in Nat /\ Length(s) <= MaxSeqLen
<1>1. s \in Seq(Messages) /\ Len(s) \in Nat /\ Len(s) > 0 /\ Length(s) <= MaxSeqLen
  BY DEF Conversation
<1>2. \A k \in 1..Len(s) : s[k].tokens \in Nat
  <2>1. \A k \in 1..Len(s) : s[k] \in Messages
    BY <1>1
  <2> QED BY <2>1 DEF Messages
<1>3. s[1] \in Messages /\ s[1].tokens \in Nat
  <2>1. 1 \in 1..Len(s)
    BY <1>1
  <2> QED BY <1>1, <1>2, <2>1
<1> QED BY <1>1, <1>2, <1>3, LengthOfAppend

\* The environment of sample i has replied to the conversation s.
Replied(i, s, item, outcome) ==
  LET reply == Reply(item, outcome)
  IN  /\ log'[i] = Append(s, Observation(s, reply))
      /\ rewards'[i] = Append(rewards[i], reply.to)
      /\ truncated'[i] = Overflows(s, reply)
      /\ terminated'[i] \in {reply.ends, reply.ends \/ Overflows(s, reply)}
      /\ stops'[i] \in {stops[i], reply.stops}
      /\ info'[i] = IF GoesOn(i) /\ reply.leaves # None THEN reply.leaves ELSE info[i]

\* A sample that got its own reply is sound, and goes on or has ended for a
\* reason.
LEMMA RepliedInv ==
  ASSUME NEW i \in Nat, NEW s, NEW item, NEW outcome \in Outcomes,
         Conversation(Own, i, s), Quiet(s), Len(s) % 2 = 0,
         rewards[i] = RewardsOf(i, s),
         stops[i] \in {None} \cup Refs, stops[i] # None => stops[i][1] = i,
         info[i] = InfoIn(i, s, Len(s) + 1),
         Shown(i, s, item), Replied(i, s, item, outcome), setup' = setup
  PROVE  /\ Sound(i)' /\ Len(log'[i]) = Len(s) + 1
         /\ GoesOn(i) => GoingOn(i)'
         /\ ~ GoesOn(i) => HasEnded(i)'
         /\ (RoleAt(Len(log[i])) = "environment")'
         /\ log'[i] \in Seq(Messages) /\ info'[i] \in Refs
         /\ stops'[i] \in {None} \cup Refs
         /\ truncated'[i] \in BOOLEAN /\ terminated'[i] \in BOOLEAN
<1> DEFINE reply == Reply(item, outcome)
           over == Overflows(s, reply)
           m == Observation(s, reply)
           t == Append(s, m)
           n == Len(s)
<1>1. Own \in BOOLEAN
  BY DEF Own
<1>2. /\ Conversation(Own, i, t) /\ LastWord(t)
      /\ Len(t) = n + 1 /\ Last(t).role = "environment"
      /\ over <=> Length(t) = MaxSeqLen
      /\ ~ over /\ ~ reply.ends => Quiet(t)
      /\ reply.ends \in BOOLEAN
      /\ InfoIn(i, t, n + 2)
         = IF reply.leaves # None THEN reply.leaves ELSE InfoIn(i, s, n + 1)
      /\ RewardsOf(i, t) = Append(RewardsOf(i, s), reply.to)
      /\ reply.stops \in {None, <<i, n>>}
  BY <1>1, ReplyContinues
<1>3. /\ log'[i] = t
      /\ rewards'[i] = Append(rewards[i], reply.to)
      /\ truncated'[i] = over
      /\ terminated'[i] \in {reply.ends, reply.ends \/ over}
      /\ stops'[i] \in {stops[i], reply.stops}
      /\ info'[i] = IF GoesOn(i) /\ reply.leaves # None THEN reply.leaves ELSE info[i]
  BY DEF Replied
<1>4. over \in BOOLEAN
  BY DEF Overflows
<1>5. n \in Nat
  BY DEF Conversation
<1>6. reply.leaves \in {None} \cup Refs
  <2>1. <<i, n>> \in Refs
    BY <1>5 DEF Refs
  <2>2. reply.leaves \in {None, item.to} /\ item.to = <<i, n>>
    BY DEF Reply, Shown
  <2> QED BY <2>1, <2>2
<1>7. InfoIn(i, s, n + 1) \in Refs
  <2>1. n + 1 \in 1..(n + 1)
    BY <1>5
  <2> QED BY <1>1, <2>1, InfoIsRef
<1> HIDE DEF t, over, reply
<1>8. Own' = Own
  BY DEF Own
<1>9. RoleAt(Len(t)) = "environment"
  BY <1>2, LastRole
<1>10. Sound(i)'
  <2>1. Conversation(Own, i, log[i])' /\ LastWord(log[i])'
    BY <1>2, <1>3, <1>8
  <2>2. (rewards[i] = RewardsOf(i, log[i]))'
    BY <1>2, <1>3
  <2>3. (truncated[i] <=> Length(log[i]) = MaxSeqLen)'
    BY <1>2, <1>3
  <2>4. (stops[i] # None => stops[i][1] = i)'
    BY <1>2, <1>3
  <2> QED BY <2>1, <2>2, <2>3, <2>4 DEF Sound
<1>11. terminated'[i] \in BOOLEAN /\ truncated'[i] \in BOOLEAN
  BY <1>2, <1>3, <1>4
<1>12. GoesOn(i) => GoingOn(i)'
  <2> SUFFICES ASSUME GoesOn(i) PROVE GoingOn(i)'
    OBVIOUS
  <2>1. ~ terminated'[i] /\ ~ truncated'[i]
    BY DEF GoesOn
  <2>2. ~ over /\ ~ reply.ends
    BY <1>2, <1>3, <1>4, <2>1
  <2>3. Quiet(log[i])'
    BY <1>2, <1>3, <2>2
  <2>4. n + 1 + 1 = n + 2
    BY <1>5
  <2>5. (info[i] = InfoIn(i, log[i], Len(log[i]) + 1))'
    BY <1>2, <1>3, <2>4
  <2> QED BY <2>1, <2>3, <2>5 DEF GoingOn
<1>13. ~ GoesOn(i) => HasEnded(i)'
  BY <1>3, <1>9 DEF GoesOn, HasEnded
<1>14. t \in Seq(Messages)
  BY <1>2 DEF Conversation
<1>15. stops'[i] \in {None} \cup Refs
  <2>1. <<i, n>> \in Refs
    BY <1>5 DEF Refs
  <2> QED BY <1>2, <1>3, <2>1
<1>16. info'[i] \in Refs
  BY <1>3, <1>6, <1>7
<1> QED BY <1>2, <1>3, <1>9, <1>10, <1>11, <1>12, <1>13, <1>14, <1>15, <1>16

\* A sample the step does not concern.
LEMMA SoundStays ==
  ASSUME NEW i, Sound(i), setup' = setup, log'[i] = log[i], rewards'[i] = rewards[i],
         truncated'[i] = truncated[i], stops'[i] = stops[i]
  PROVE  Sound(i)'
BY DEF Sound, Own

\* A turn of generation for the whole batch.
LEMMA GenerateTurnInv ==
  ASSUME RolloutInv, GenerateTurn
  PROVE  RolloutInv'
<1> DEFINE n == Len(active)
           prompts == [k \in 1..n |-> Prompt(active[k])]
           At(i) == CHOOSE k \in 1..n : active[k] = i
<1>1. Types /\ \A i \in Samples : Sound(i)
  BY DEF RolloutInv
<1>2. /\ ~ Async /\ phase = "running" /\ Turn < MaxTurns /\ active # <<>>
      /\ \A k \in 1..n : Last(log[active[k]]).role # "assistant"
      /\ UNCHANGED <<setup, rewards, info, stops, terminated, truncated, turns,
                     active, pc, stream, shard, lost, phase>>
  BY DEF GenerateTurn
<1>3. BatchInv
  BY <1>2 DEF RolloutInv
<1>4. n \in Nat /\ \A k \in 1..n : active[k] \in Samples
  <2>1. active \in Seq(Samples)
    BY <1>1 DEF Types
  <2> QED BY <2>1
<1>5. PICK tokens \in [1..n -> 0..MaxNewTokens] :
        /\ \A k \in 1..n : tokens[k] \in Generated(prompts[k].tokens)
        /\ log' = [i \in Samples |->
                     IF Active(i) THEN Append(log[i], Generate(prompts, tokens)[At(i)])
                                  ELSE log[i]]
  BY Zenon DEF GenerateTurn, Active
<1>6. PICK with : Answered(prompts, tokens, with, Generate(prompts, tokens))
  <2>1. Len(prompts) = n
    BY <1>4
  <2> HIDE DEF prompts, n
  <2> QED BY <1>4, <2>1, GenerateAligned
<1> DEFINE responses == Generate(prompts, tokens)
<1>7. setup \in Setups
  BY <1>1 DEF Types
<1>8. \A i \in Samples : i \in Nat
  BY <1>7, TheSamples
<1>9. setup.backend # "sglang" => ~ Own
  BY <1>2, <1>7, TheSamples DEF Async, Own
<1>10. ASSUME NEW k \in 1..n
       PROVE  /\ Response(Own, active[k], log[active[k]], responses[k])
              /\ Len(log[active[k]]) % 2 = 1
  <2> DEFINE i == active[k]
             s == log[i]
  <2>1. i \in Samples /\ i \in Nat /\ Conversation(Own, i, s)
        /\ (stops[i] # None => stops[i][1] = i)
    BY <1>1, <1>4, <1>8 DEF Sound
  <2>2. responses = [j \in 1..Len(prompts) |->
                       Message("assistant", prompts[j].to, tokens[j], with[j])]
        /\ with[k] \subseteq {prompts[j].stops : j \in 1..Len(prompts)} \ {None}
        /\ (setup.backend = "sglang" => with[k] = {prompts[k].stops} \ {None})
    BY <1>4, <1>6 DEF Answered
  <2>3. prompts[k] = Prompt(i) /\ Len(prompts) = n
        /\ \A j \in 1..n : prompts[j].stops = stops[active[j]]
    BY <1>4 DEF Prompt
  <2>4. Prompt(i).to = <<i, Len(s)>> /\ Prompt(i).tokens = Length(s)
        /\ Prompt(i).stops = stops[i]
    BY DEF Prompt
  <2>5. Length(s) \in Nat /\ Length(s) <= MaxSeqLen
    BY <2>1, LengthIsNat
  <2>6. tokens[k] \in Nat /\ Length(s) + tokens[k] <= MaxSeqLen
    <3>1. tokens[k] \in Generated(Length(s))
      BY <1>5, <2>3, <2>4
    <3> HIDE DEF s
    <3> QED BY <2>5, <3>1, GeneratedFits
  <2>7. stops \in [Samples -> {None} \cup Refs]
    BY <1>1 DEF Types
  <2>8. with[k] \in SUBSET Refs
    <3>1. \A j \in 1..n : prompts[j].stops \in {None} \cup Refs
      BY <1>4, <2>3, <2>7
    <3> HIDE DEF prompts, responses, n
    <3> QED BY <2>2, <2>3, <3>1
  <2>9. Own => \A stop \in with[k] : stop[1] = i
    <3> HIDE DEF prompts, responses, n
    <3> QED BY <1>9, <2>1, <2>2, <2>3, <2>4
  <2>10. responses[k] = Message("assistant", <<i, Len(s)>>, tokens[k], with[k])
    <3> HIDE DEF prompts, responses, n
    <3> QED BY <2>2, <2>3, <2>4
  <2>11. Len(s) % 2 = 1
    <3>1. Last(s).role # "assistant"
      BY <1>2
    <3>2. Len(s) \in Nat /\ Last(s).role = RoleAt(Len(s))
          /\ (RoleAt(Len(s)) = "assistant" <=> Len(s) % 2 = 0)
      BY <2>1, LastRole
    <3>3. \A x \in Nat : x % 2 # 0 => x % 2 = 1
      OBVIOUS
    <3> HIDE DEF s
    <3> QED BY <3>1, <3>2, <3>3
  <2> HIDE DEF responses
  <2> QED BY <2>6, <2>8, <2>9, <2>10, <2>11 DEF Response
<1>11. ASSUME NEW i \in Samples, Active(i)
       PROVE  \E m : /\ Response(Own, i, log[i], m) /\ Len(log[i]) % 2 = 1
                     /\ log'[i] = Append(log[i], m)
  <2>1. At(i) \in 1..n /\ active[At(i)] = i
    BY <1>11 DEF Active
  <2>2. log'[i] = Append(log[i], responses[At(i)])
    BY <1>5, <1>11
  <2> HIDE DEF At, responses, n
  <2> QED BY <1>10, <2>1, <2>2
<1>12. \A i \in Samples : ~ Active(i) => log'[i] = log[i]
  BY <1>5
<1>13. DOMAIN log' = Samples
  BY <1>5
<1> HIDE DEF responses, prompts, At
<1>14. Samples' = Samples /\ Own' = Own /\ Async' = Async
  BY <1>2 DEF Samples, Own, Async
<1>15. ASSUME NEW i \in Samples, Active(i)
       PROVE  /\ Sound(i)' /\ log'[i] \in Seq(Messages)
              /\ GoingOn(i) => GoingOn(i)'
              /\ Len(log'[i]) = Len(log[i]) + 1 /\ Len(log[i]) % 2 = 1
  <2>1. PICK m : /\ Response(Own, i, log[i], m) /\ Len(log[i]) % 2 = 1
                 /\ log'[i] = Append(log[i], m)
    BY <1>11, <1>15
  <2>2. Sound(i) /\ Conversation(Own, i, log[i]) /\ i \in Nat /\ Own \in BOOLEAN
    BY <1>1, <1>8 DEF Sound, Own
  <2> DEFINE t == Append(log[i], m)
             l == Len(log[i])
  <2>3. /\ Conversation(Own, i, t) /\ Len(t) = l + 1
        /\ Last(t).role = "assistant"
        /\ Quiet(log[i]) => Quiet(t)
        /\ InfoIn(i, t, l + 2) = InfoIn(i, log[i], l + 1)
        /\ RewardsOf(i, t) = RewardsOf(i, log[i])
    <3> DEFINE s == log[i]
    <3>1. Conversation(Own, i, s) /\ Response(Own, i, s, m) /\ Len(s) % 2 = 1
      BY <2>1, <2>2
    <3> HIDE DEF s
    <3>2. /\ Conversation(Own, i, Append(s, m)) /\ Len(Append(s, m)) = Len(s) + 1
          /\ Last(Append(s, m)).role = "assistant"
          /\ Quiet(s) => Quiet(Append(s, m))
          /\ InfoIn(i, Append(s, m), Len(s) + 2) = InfoIn(i, s, Len(s) + 1)
          /\ RewardsOf(i, Append(s, m)) = RewardsOf(i, s)
      BY <2>2, <3>1, ResponseContinues
    <3> QED BY <3>2 DEF s
  <2>4. l \in Nat
    BY <2>2, LastRole
  <2>5. RoleAt(Len(t)) = "assistant"
    BY <2>3, LastRole
  <2>6. LastWord(t)
    <3>1. /\ GoingOn(i)
      BY <1>3, <1>15 DEF BatchInv
    <3>2. Quiet(t)
      BY <2>3, <3>1 DEF GoingOn
    <3> QED BY <3>2 DEF Quiet, LastWord
  <2> HIDE DEF t
  <2>7. Sound(i)'
    <3>1. Conversation(Own, i, log[i])' /\ LastWord(log[i])'
          /\ (RoleAt(Len(log[i])) # "environment")'
      BY <1>14, <2>1, <2>3, <2>5, <2>6 DEF t
    <3>2. (rewards[i] = RewardsOf(i, log[i]))' /\ (stops[i] # None => stops[i][1] = i)'
      BY <1>2, <2>1, <2>2, <2>3 DEF t, Sound
    <3> QED BY <3>1, <3>2 DEF Sound
  <2>8. GoingOn(i) => GoingOn(i)'
    <3>1. l + 1 + 1 = l + 2
      BY <2>4
    <3> QED BY <1>2, <2>1, <2>3, <3>1 DEF t, GoingOn
  <2>9. t \in Seq(Messages)
    BY <2>3 DEF Conversation
  <2> QED BY <2>1, <2>3, <2>7, <2>8, <2>9 DEF t
<1>16. \A i \in Samples : Sound(i)'
  <2> TAKE i \in Samples
  <2>1. CASE Active(i)
    BY <1>15, <2>1
  <2>2. CASE ~ Active(i)
    <3>1. log'[i] = log[i] /\ Sound(i)
      BY <1>1, <1>12, <2>2
    <3> QED BY <1>2, <3>1, SoundStays
  <2> QED BY <2>1, <2>2
<1>17. Types'
  <2>1. log' \in [Samples -> Seq(Messages)]
    <3>1. \A i \in Samples : log'[i] \in Seq(Messages)
      <4>1. \A i \in Samples : log[i] \in Seq(Messages)
        BY <1>1 DEF Types
      <4> QED BY <1>12, <1>15, <4>1
    <3>2. log' = [i \in Samples |-> log'[i]]
      BY <1>5
    <3> QED BY <3>1, <3>2
  <2> QED BY <1>1, <1>2, <1>14, <2>1 DEF Types, stream
<1>18. ASSUME NEW i \in Samples
       PROVE  /\ Active(i)' <=> Active(i)
              /\ (lost[i] = "no")' /\ turns'[i] = turns[i]
              /\ ~ Active(i) => HasEnded(i)'
              /\ Active(i) => GoingOn(i)' /\ InStep(i)'
  <2>1. Active(i)' <=> Active(i)
    BY <1>2 DEF Active
  <2>2. (lost[i] = "no")' /\ turns'[i] = turns[i]
    BY <1>2, <1>3 DEF BatchInv
  <2>3. ~ Active(i) => HasEnded(i)'
    BY <1>2, <1>3, <1>12 DEF BatchInv, HasEnded
  <2>4. ASSUME Active(i) PROVE GoingOn(i)' /\ InStep(i)'
    <3> DEFINE l == Len(log[i])
    <3>1. GoingOn(i) /\ InStep(i)
      BY <1>3, <2>4 DEF BatchInv
    <3>2. GoingOn(i)' /\ Len(log'[i]) = l + 1 /\ l % 2 = 1
      BY <1>15, <2>4, <3>1
    <3>3. turns[i] \in Nat /\ turns[i] < MaxTurns
      <4>1. turns[i] \in Nat
        BY <1>1 DEF Types
      <4>2. active[1] \in Samples /\ Active(active[1])
        <5>1. 1 \in 1..n
          BY <1>4, <2>4 DEF Active
        <5> QED BY <1>4, <5>1 DEF Active
      <4>3. turns[i] = turns[active[1]]
        BY <1>3, <2>4, <4>2 DEF BatchInv
      <4> QED BY <1>2, <4>1, <4>3 DEF Turn
    <3>4. l = 2 * turns[i] + 1
      <4>1. l = 2 * turns[i] + 1 \/ l = 2 * turns[i] + 2
        BY <3>1 DEF InStep
      <4> HIDE DEF l
      <4> QED BY <3>2, <3>3, <4>1
    <3>5. Len(log'[i]) = 2 * turns[i] + 2
      <4> HIDE DEF l
      <4> QED BY <3>2, <3>3, <3>4
    <3>6. InStep(i)'
      BY <2>2, <3>3, <3>5 DEF InStep
    <3> QED BY <3>2, <3>6
  <2> QED BY <2>1, <2>2, <2>3, <2>4
<1>19. BatchInv'
  BY <1>3, <1>14, <1>18 DEF BatchInv
<1> QED BY <1>2, <1>14, <1>16, <1>17, <1>19 DEF RolloutInv, ReturnedInv

\* The samples kept active are those of the set.
LEMMA WhoGoesOn ==
  ASSUME NEW set, active \in Seq(Samples), setup' = setup, active' = Kept(active, set)
  PROVE  active' \in Seq(Samples) /\ \A i : Active(i)' <=> Active(i) /\ i \in set
<1>1. Kept(active, set) \in Seq(Samples)
      /\ KeptUpTo(active, Len(active), set, Kept(active, set))
  BY KeptIsKept
<1>2. PICK e \in [1..Len(active') -> 1..Len(active)] :
        /\ \A i \in 1..Len(active') : active'[i] = active[e[i]] /\ active[e[i]] \in set
        /\ \A p \in 1..Len(active) : active[p] \in set =>
             \E i \in 1..Len(active') : e[i] = p
  BY <1>1 DEF KeptUpTo
<1>3. \A i : Active(i)' => Active(i) /\ i \in set
  BY <1>2 DEF Active
<1>4. \A i : Active(i) /\ i \in set => Active(i)'
  BY <1>2 DEF Active
<1> QED BY <1>1, <1>3, <1>4

\* A turn of the environments for the whole batch.
LEMMA EnvironmentTurnInv ==
  ASSUME RolloutInv, EnvironmentTurn
  PROVE  RolloutInv'
<1> DEFINE n == Len(active)
           items == [k \in 1..n |-> Item(active[k], log[active[k]])]
           At(i) == CHOOSE k \in 1..n : active[k] = i
<1>1. Types /\ \A i \in Samples : Sound(i)
  BY DEF RolloutInv
<1>2. /\ ~ Async /\ phase = "running"
      /\ \A k \in 1..n : Last(log[active[k]]).role = "assistant"
      /\ UNCHANGED <<setup, pc, stream, shard, lost>>
  BY DEF EnvironmentTurn
<1>3. BatchInv
  BY <1>2 DEF RolloutInv
<1>4. active \in Seq(Samples) /\ n \in Nat /\ \A k \in 1..n : active[k] \in Samples
  <2>1. active \in Seq(Samples)
    BY <1>1 DEF Types
  <2> QED BY <2>1
<1>5. Samples' = Samples /\ Own' = Own /\ Async' = Async
  BY <1>2 DEF Samples, Own, Async
<1>6. setup \in Setups /\ \A i \in Samples : i \in Nat
  BY <1>1, TheSamples DEF Types
<1>7. CASE Unknown(items) # {}
  <2>1. /\ phase' = "raised"
        /\ UNCHANGED <<log, rewards, info, stops, terminated, truncated, turns, active>>
    BY <1>7, Zenon DEF EnvironmentTurn
  <2>2. Types'
    BY <1>1, <1>2, <1>5, <2>1 DEF Types, stream
  <2>3. \A i \in Samples : Sound(i)'
    BY <1>1, <1>2, <2>1, SoundStays
  <2>4. BatchInv'
    BY <1>2, <1>3, <1>5, <2>1 DEF BatchInv, Active, HasEnded, GoingOn, InStep
  <2> QED BY <1>2, <1>5, <2>1, <2>2, <2>3, <2>4 DEF RolloutInv, ReturnedInv
<1>8. CASE Unknown(items) = {}
  <2>1. PICK outcomes \in [1..n -> Outcomes] :
          phase' = phase /\ TakeReplies(CalculateRewards(items, outcomes))
    BY <1>8 DEF EnvironmentTurn
  <2> DEFINE replies == CalculateRewards(items, outcomes)
             Of(i)   == replies[At(i)]
  <2>2. /\ rewards' = [i \in Samples |->
              IF Active(i) THEN Append(rewards[i], Of(i).to) ELSE rewards[i]]
         /\ log' = [i \in Samples |->
              IF Active(i) THEN Append(log[i], Observation(log[i], Of(i)))
                           ELSE log[i]]
         /\ truncated' = [i \in Samples |->
              truncated[i] \/ (Active(i) /\ Overflows(log[i], Of(i)))]
         /\ terminated' = [i \in Samples |->
              terminated[i]
                \/ (Active(i) /\ (Of(i).ends \/ Overflows(log[i], Of(i))))]
         /\ turns' = [i \in Samples |-> IF Active(i) THEN turns[i] + 1 ELSE turns[i]]
         /\ active' = Kept(active, {i \in Samples : GoesOn(i)})
         /\ stops' = [i \in Samples |->
              IF Active(i) /\ GoesOn(i) THEN Of(i).stops ELSE stops[i]]
         /\ info' = [i \in Samples |->
              IF Active(i) /\ GoesOn(i) /\ Of(i).leaves # None
              THEN Of(i).leaves ELSE info[i]]
    BY <2>1, Zenon DEF TakeReplies, Active
  <2>3. replies = [j \in 1..n |-> Reply(items[j], outcomes[j])]
    <3>1. Len(items) = n
      BY <1>4
    <3> HIDE DEF items, n
    <3> QED BY <1>4, <2>1, <3>1, RewardsAligned
  <2>4. ASSUME NEW i \in Samples, ~ Active(i)
        PROVE  /\ log'[i] = log[i] /\ rewards'[i] = rewards[i]
               /\ truncated'[i] = truncated[i] /\ terminated'[i] = terminated[i]
               /\ stops'[i] = stops[i] /\ info'[i] = info[i]
    <3> HIDE DEF replies, At
    <3>1. truncated[i] \in BOOLEAN /\ terminated[i] \in BOOLEAN
      BY <1>1 DEF Types
    <3>2. truncated'[i] = (truncated[i] \/ (Active(i) /\ Overflows(log[i], Of(i))))
          /\ terminated'[i] = (terminated[i]
               \/ (Active(i) /\ (Of(i).ends \/ Overflows(log[i], Of(i)))))
      BY <2>2
    <3>3. truncated'[i] = truncated[i] /\ terminated'[i] = terminated[i]
      BY <2>4, <3>1, <3>2
    <3> QED BY <2>2, <2>4, <3>3
  <2>5. ASSUME NEW i \in Samples, Active(i)
        PROVE  \E item, outcome : /\ outcome \in Outcomes /\ Shown(i, log[i], item)
                                  /\ Replied(i, log[i], item, outcome)
    <3> DEFINE k == At(i)
               item == items[k]
               outcome == outcomes[k]
               reply == Reply(item, outcome)
    <3>1. k \in 1..n /\ active[k] = i
      BY <2>5 DEF Active
    <3>2. item = Item(i, log[i]) /\ outcome \in Outcomes /\ Of(i) = reply
      <4> HIDE DEF k
      <4>1. items[k] = Item(i, log[i])
        BY <3>1
      <4>2. outcome \in Outcomes
        BY <2>1, <3>1
      <4> HIDE DEF items
      <4>3. replies[k] = Reply(items[k], outcomes[k])
        BY <2>3, <3>1
      <4> QED BY <4>1, <4>2, <4>3 DEF k
    <3>3. GoingOn(i)
      BY <1>3, <2>5 DEF BatchInv
    <3>4. Shown(i, log[i], item)
      <4> HIDE DEF item
      <4> QED BY <3>2, <3>3 DEF Shown, Item, GoingOn
    <3>5. truncated[i] = FALSE /\ terminated[i] = FALSE
      BY <1>1, <3>3 DEF GoingOn, Types
    <3> HIDE DEF replies, At, items, outcome, item
    <3>6. /\ rewards'[i] = Append(rewards[i], reply.to)
          /\ log'[i] = Append(log[i], Observation(log[i], reply))
          /\ stops'[i] \in {stops[i], reply.stops}
          /\ info'[i] = IF GoesOn(i) /\ reply.leaves # None THEN reply.leaves ELSE info[i]
      <4> HIDE DEF reply
      <4>1. /\ rewards'[i] = Append(rewards[i], Of(i).to)
            /\ log'[i] = Append(log[i], Observation(log[i], Of(i)))
            /\ stops'[i] = IF GoesOn(i) THEN Of(i).stops ELSE stops[i]
            /\ info'[i] = IF GoesOn(i) /\ Of(i).leaves # None THEN Of(i).leaves ELSE info[i]
        BY <2>2, <2>5
      <4> QED BY <3>2, <4>1
    <3>7. truncated'[i] = Overflows(log[i], reply)
          /\ terminated'[i] = (reply.ends \/ Overflows(log[i], reply))
      <4> HIDE DEF reply
      <4>1. truncated'[i] = (truncated[i] \/ (Active(i) /\ Overflows(log[i], Of(i))))
            /\ terminated'[i] = (terminated[i]
                 \/ (Active(i) /\ (Of(i).ends \/ Overflows(log[i], Of(i)))))
        BY <2>2
      <4>2. Overflows(log[i], Of(i)) \in BOOLEAN
        BY DEF Overflows
      <4> QED BY <2>5, <3>2, <3>5, <4>1, <4>2
    <3>8. Replied(i, log[i], item, outcome)
      BY <3>6, <3>7 DEF Replied
    <3>9. outcome \in Outcomes
      BY <3>2
    <3> HIDE DEF reply
    <3> QED BY <3>4, <3>8, <3>9
  <2>6. ASSUME NEW i \in Samples, Active(i)
        PROVE  Len(log[i]) % 2 = 0
    <3>1. PICK k \in 1..n : active[k] = i
      BY <2>6 DEF Active
    <3>2. Last(log[i]).role = "assistant"
      BY <1>2, <3>1
    <3>3. Conversation(Own, i, log[i])
      BY <1>1 DEF Sound
    <3> QED BY <3>2, <3>3, LastRole
  <2>7. DOMAIN log' = Samples /\ DOMAIN rewards' = Samples /\ phase' = phase
        /\ active' = Kept(active, {i \in Samples : GoesOn(i)})
        /\ \A i \in Samples : turns'[i] = IF Active(i) THEN turns[i] + 1 ELSE turns[i]
    BY <2>1, <2>2
  <2>8. /\ log' = [i \in Samples |-> log'[i]] /\ info' = [i \in Samples |-> info'[i]]
        /\ stops' = [i \in Samples |-> stops'[i]]
        /\ truncated' = [i \in Samples |-> truncated'[i]]
        /\ terminated' = [i \in Samples |-> terminated'[i]]
        /\ turns' = [i \in Samples |-> turns'[i]]
    <3> HIDE DEF replies, At
    <3> QED BY <2>2
  <2> HIDE DEF replies, At, items
  <2>9. ASSUME NEW i \in Samples, Active(i)
        PROVE  /\ Sound(i)' /\ Len(log'[i]) = Len(log[i]) + 1
               /\ GoesOn(i) => GoingOn(i)'
               /\ ~ GoesOn(i) => HasEnded(i)'
               /\ log'[i] \in Seq(Messages) /\ info'[i] \in Refs
               /\ stops'[i] \in {None} \cup Refs
               /\ truncated'[i] \in BOOLEAN /\ terminated'[i] \in BOOLEAN
    <3> DEFINE s == log[i]
    <3>1. PICK item, outcome : /\ outcome \in Outcomes /\ Shown(i, s, item)
                               /\ Replied(i, s, item, outcome)
      BY <2>5, <2>9
    <3>2. Sound(i) /\ GoingOn(i) /\ i \in Nat /\ setup' = setup
      BY <1>1, <1>2, <1>3, <1>6, <2>9 DEF BatchInv
    <3>3. Conversation(Own, i, s) /\ Quiet(s) /\ Len(s) % 2 = 0
          /\ rewards[i] = RewardsOf(i, s) /\ info[i] = InfoIn(i, s, Len(s) + 1)
          /\ (stops[i] # None => stops[i][1] = i)
      BY <2>6, <2>9, <3>2 DEF Sound, GoingOn
    <3>4. stops[i] \in {None} \cup Refs
      BY <1>1 DEF Types
    <3> HIDE DEF s
    <3>5. /\ Sound(i)' /\ Len(log'[i]) = Len(s) + 1
          /\ GoesOn(i) => GoingOn(i)'
          /\ ~ GoesOn(i) => HasEnded(i)'
          /\ log'[i] \in Seq(Messages) /\ info'[i] \in Refs
          /\ stops'[i] \in {None} \cup Refs
          /\ truncated'[i] \in BOOLEAN /\ terminated'[i] \in BOOLEAN
      BY <3>1, <3>2, <3>3, <3>4, RepliedInv
    <3> QED BY <3>5 DEF s
  <2>10. \A i \in Samples : Sound(i)'
    <3> TAKE i \in Samples
    <3>1. CASE Active(i)
      BY <2>9, <3>1
    <3>2. CASE ~ Active(i)
      BY <1>1, <1>2, <2>4, <3>2, SoundStays
    <3> QED BY <3>1, <3>2
  <2>11. active' \in Seq(Samples)
         /\ \A i \in Samples : Active(i)' <=> Active(i) /\ GoesOn(i)
    <3> DEFINE set == {i \in Samples : GoesOn(i)}
    <3>1. active' = Kept(active, set) /\ setup' = setup
      BY <1>2, <2>7
    <3>2. \A i \in Samples : i \in set <=> GoesOn(i)
      OBVIOUS
    <3> HIDE DEF set
    <3>3. active' \in Seq(Samples) /\ \A i : Active(i)' <=> Active(i) /\ i \in set
      BY <1>4, <3>1, WhoGoesOn
    <3> QED BY <3>2, <3>3
  <2>12. Types'
    <3>1. \A i \in Samples :
            /\ log'[i] \in Seq(Messages) /\ info'[i] \in Refs
            /\ stops'[i] \in {None} \cup Refs
            /\ truncated'[i] \in BOOLEAN /\ terminated'[i] \in BOOLEAN
      <4> TAKE i \in Samples
      <4>1. CASE Active(i)
        BY <2>9, <4>1
      <4>2. CASE ~ Active(i)
        BY <1>1, <2>4, <4>2 DEF Types
      <4> QED BY <4>1, <4>2
    <3>2. \A i \in Samples : turns'[i] \in Nat
      <4> TAKE i \in Samples
      <4>1. turns[i] \in Nat
        BY <1>1 DEF Types
      <4>2. turns'[i] = turns[i] + 1 \/ turns'[i] = turns[i]
        BY <2>7
      <4> QED BY <4>1, <4>2
    <3>3. /\ log' \in [Samples -> Seq(Messages)] /\ info' \in [Samples -> Refs]
          /\ stops' \in [Samples -> {None} \cup Refs]
      BY <2>8, <3>1
    <3>4. /\ truncated' \in [Samples -> BOOLEAN] /\ terminated' \in [Samples -> BOOLEAN]
          /\ turns' \in [Samples -> Nat]
      BY <2>8, <3>1, <3>2
    <3> QED BY <1>1, <1>2, <1>5, <2>7, <2>11, <3>3, <3>4 DEF Types, stream
  <2>13. ASSUME NEW i \in Samples
         PROVE  /\ (lost[i] = "no")'
                /\ ~ Active(i)' => HasEnded(i)'
                /\ Active(i)' => GoingOn(i)' /\ InStep(i)'
    <3>1. (lost[i] = "no")'
      BY <1>2, <1>3 DEF BatchInv
    <3>2. ~ Active(i)' => HasEnded(i)'
      <4>1. CASE Active(i)
        BY <2>9, <2>11, <4>1
      <4>2. CASE ~ Active(i)
        <5>1. HasEnded(i)
          BY <1>3, <4>2 DEF BatchInv
        <5> QED BY <2>4, <4>2, <5>1 DEF HasEnded
      <4> QED BY <4>1, <4>2
    <3>3. Active(i)' => GoingOn(i)' /\ InStep(i)'
      <4> SUFFICES ASSUME Active(i)' PROVE GoingOn(i)' /\ InStep(i)'
        OBVIOUS
      <4> DEFINE l == Len(log[i])
                 t == turns[i]
      <4>1. Active(i) /\ GoesOn(i)
        BY <2>11
      <4>2. GoingOn(i)' /\ Len(log'[i]) = l + 1
        BY <2>9, <4>1
      <4>3. l % 2 = 0 /\ (l = 2 * t + 1 \/ l = 2 * t + 2) /\ t \in Nat /\ turns'[i] = t + 1
        BY <1>1, <1>3, <2>6, <2>7, <4>1 DEF BatchInv, InStep, Types
      <4> HIDE DEF l, t
      <4>4. l + 1 = 2 * (t + 1) + 1
        BY <4>3
      <4>5. InStep(i)'
        BY <4>2, <4>3, <4>4 DEF InStep
      <4> QED BY <4>2, <4>5
    <3> QED BY <3>1, <3>2, <3>3
  <2>14. ASSUME NEW i \in Samples, NEW j \in Samples, Active(i)', Active(j)'
         PROVE  turns'[i] = turns'[j]
    <3>1. Active(i) /\ Active(j)
      BY <2>11, <2>14
    <3>2. turns[i] = turns[j]
      BY <1>3, <3>1 DEF BatchInv
    <3> QED BY <2>7, <3>1, <3>2
  <2>15. BatchInv'
    BY <1>5, <2>13, <2>14 DEF BatchInv
  <2>16. ReturnedInv'
    BY <1>2, <2>7 DEF ReturnedInv
  <2> QED BY <1>2, <1>5, <2>10, <2>12, <2>15, <2>16 DEF RolloutInv
<1> QED BY <1>7, <1>8

\* Returning the batch keeps the invariant.
LEMMA ReturnBatchInv ==
  ASSUME RolloutInv, ReturnBatch
  PROVE  RolloutInv'
<1>1. /\ Types /\ (\A i \in Samples : Sound(i)) /\ BatchInv
      /\ ~ Async /\ (active = <<>> \/ Turn = MaxTurns) /\ phase' = "returned"
      /\ UNCHANGED <<setup, log, rewards, info, stops, terminated, truncated,
                     turns, active, pc, stream, shard, lost>>
  BY DEF RolloutInv, ReturnBatch
<1>2. Samples' = Samples /\ Async' = Async
  BY <1>1 DEF Samples, Async
<1>3. ASSUME NEW i \in Samples
      PROVE  HasEnded(i) \/ OutOfTurns(i)
  <2>1. CASE ~ Active(i)
    BY <1>1, <2>1 DEF BatchInv
  <2>2. CASE Active(i)
    <3> DEFINE l == Len(log[i])
    <3>1. active \in Seq(Samples) /\ Len(active) \in Nat /\ 1 \in 1..Len(active)
          /\ active # <<>>
      BY <1>1, <2>2 DEF Types, Active
    <3>2. active[1] \in Samples /\ Active(active[1])
      BY <3>1 DEF Active
    <3>3. turns[i] = MaxTurns
      BY <1>1, <2>2, <3>1, <3>2 DEF BatchInv, Turn
    <3>4. InStep(i) /\ MaxTurns \in Nat /\ MaxTurns > 0
      BY <1>1, <2>2, Limits DEF BatchInv
    <3>5. l = 2 * MaxTurns + 1
      BY <3>3, <3>4 DEF InStep
    <3>6. RoleAt(l) = "environment" <=> l % 2 = 1 /\ l > 1
      BY <1>1, LastRole DEF Sound
    <3> HIDE DEF l
    <3>7. l % 2 = 1 /\ l > 1
      BY <3>4, <3>5
    <3> QED BY <3>3, <3>6, <3>7 DEF OutOfTurns, l
  <2> QED BY <2>1, <2>2
<1>4. Types'
  BY <1>1, <1>2 DEF Types, stream
<1>5. \A i \in Samples : Sound(i)'
  BY <1>1, SoundStays
<1>6. BatchInv'
  BY <1>1, <1>2 DEF BatchInv, Active, HasEnded, GoingOn, InStep
<1>7. ReturnedInv'
  BY <1>1, <1>2, <1>3 DEF ReturnedInv, HasEnded, OutOfTurns
<1> QED BY <1>1, <1>2, <1>4, <1>5, <1>6, <1>7 DEF RolloutInv

\* So does gathering the results of the samples' tasks.
LEMMA GatherSamplesInv ==
  ASSUME RolloutInv, GatherSamples
  PROVE  RolloutInv'
<1>1. /\ Types /\ (\A i \in Samples : Sound(i)) /\ AsyncInv
      /\ Async /\ (\A i \in Samples : pc[i] = "done") /\ phase' = "returned"
      /\ UNCHANGED <<setup, log, rewards, info, stops, terminated, truncated,
                     turns, active, pc, stream, shard, lost>>
  BY DEF RolloutInv, GatherSamples
<1>2. Samples' = Samples /\ Async' = Async
  BY <1>1 DEF Samples, Async
<1>3. \A i \in Samples : lost[i] # "no" \/ HasEnded(i) \/ OutOfTurns(i)
  BY <1>1 DEF AsyncInv, Coroutine
<1>4. Types'
  BY <1>1, <1>2 DEF Types, stream
<1>5. \A i \in Samples : Sound(i)'
  BY <1>1, SoundStays
<1>6. ReturnedInv'
  BY <1>1, <1>2, <1>3 DEF ReturnedInv, HasEnded, OutOfTurns
<1>7. AsyncInv'
  <2> SUFFICES ASSUME NEW i \in Samples PROVE Coroutine(i)'
    BY <1>2 DEF AsyncInv
  <2>1. (pc[i] = "done")'
    BY <1>1
  <2>2. (lost[i] # "no" \/ HasEnded(i) \/ OutOfTurns(i))'
    BY <1>1, <1>3 DEF HasEnded, OutOfTurns
  <2> QED BY <2>1, <2>2 DEF Coroutine
<1> QED BY <1>1, <1>2, <1>4, <1>5, <1>6, <1>7 DEF RolloutInv

-----------------------------------------------------------------------------
(* The coroutines of the samples. *)

Unmoved(j) ==
  /\ log'[j] = log[j] /\ rewards'[j] = rewards[j] /\ info'[j] = info[j]
  /\ stops'[j] = stops[j]
  /\ terminated'[j] = terminated[j] /\ truncated'[j] = truncated[j]
  /\ turns'[j] = turns[j] /\ pc'[j] = pc[j]
  /\ queue'[j] = queue[j] /\ finished'[j] = finished[j]
  /\ collected'[j] = collected[j] /\ lost'[j] = lost[j]

\* A step of sample i leaves the other samples as they are.
LEMMA StepOfOne ==
  ASSUME RolloutInv, Async, phase = "running", NEW i \in Samples, setup' = setup,
         phase' \in {"running", "raised"},
         \A j \in Samples \ {i} : Unmoved(j),
         Types', Sound(i)', Coroutine(i)'
  PROVE  RolloutInv'
<1>1. Samples' = Samples /\ Async' = Async /\ Own' = Own
  BY DEF Samples, Async, Own
<1>2. (\A j \in Samples : Sound(j)) /\ (\A j \in Samples : Coroutine(j))
  BY DEF RolloutInv, AsyncInv
<1>3. ASSUME NEW j \in Samples \ {i}
      PROVE  Sound(j)' /\ Coroutine(j)'
  <2>1. Unmoved(j)
    BY <1>3
  <2>2. Sound(j)'
    BY <1>2, <2>1, SoundStays DEF Unmoved
  <2>3. Stream(j) => Stream(j)'
    BY <1>1, <2>1 DEF Unmoved, Stream
  <2>4. GoingOn(j) => GoingOn(j)'
    BY <2>1 DEF Unmoved, GoingOn
  <2>5. (HasEnded(j) => HasEnded(j)') /\ (OutOfTurns(j) => OutOfTurns(j)')
    BY <2>1 DEF Unmoved, HasEnded, OutOfTurns
  <2>6. Coroutine(j)
    BY <1>2
  <2>7. Coroutine(j)'
    BY <2>1, <2>3, <2>4, <2>5, <2>6 DEF Unmoved, Coroutine
  <2> QED BY <2>2, <2>7
<1>4. \A j \in Samples : Sound(j)' /\ Coroutine(j)'
  BY <1>3
<1>5. AsyncInv'
  BY <1>1, <1>4 DEF AsyncInv
<1>6. ReturnedInv'
  BY DEF ReturnedInv
<1> QED BY <1>1, <1>4, <1>5, <1>6 DEF RolloutInv

\* A step of sample i that leaves its conversation as it is.
LEMMA StepBetweenTurns ==
  ASSUME RolloutInv, Async, phase = "running", NEW i \in Samples,
         UNCHANGED <<setup, log, rewards, info, stops, terminated, truncated, active, phase>>,
         \A j \in Samples \ {i} : Unmoved(j),
         Types', Coroutine(i)'
  PROVE  RolloutInv'
<1>1. Sound(i)
  BY DEF RolloutInv
<1>2. Sound(i)'
  BY <1>1, SoundStays
<1> QED BY <1>2, StepOfOne

\* Submitting a request keeps the types.
LEMMA SubmitTypes ==
  ASSUME Types, NEW i \in Samples, Submit(i), setup' = setup,
         log' \in [Samples -> Seq(Messages)], DOMAIN rewards' = Samples,
         info' \in [Samples -> Refs], stops' \in [Samples -> {None} \cup Refs],
         terminated' \in [Samples -> BOOLEAN], truncated' \in [Samples -> BOOLEAN],
         UNCHANGED <<active, lost, phase>>
  PROVE  Types'
<1>1. /\ turns \in [Samples -> Nat]
      /\ pc \in [Samples -> {"batch", "start", "waiting", "done"}]
      /\ DOMAIN queue = Samples /\ DOMAIN collected = Samples
      /\ finished \in [Samples -> BOOLEAN]
  BY DEF Types
<1>2. /\ turns' = [turns EXCEPT ![i] = @ + 1]
      /\ pc' = [pc EXCEPT ![i] = "waiting"]
      /\ queue' = [queue EXCEPT ![i] = <<>>]
      /\ finished' = [finished EXCEPT ![i] = FALSE]
      /\ collected' = [collected EXCEPT ![i] = <<>>]
  BY DEF Submit
<1>3. turns' \in [Samples -> Nat]
  BY <1>1, <1>2
<1>4. /\ pc' \in [Samples -> {"batch", "start", "waiting", "done"}]
      /\ finished' \in [Samples -> BOOLEAN]
      /\ DOMAIN queue' = Samples /\ DOMAIN collected' = Samples
  BY <1>1, <1>2
<1>5. Samples' = Samples
  BY DEF Samples
<1> QED BY <1>3, <1>4, <1>5 DEF Types

\* The start of a sample's task keeps the invariant.
LEMMA StartInv ==
  ASSUME RolloutInv, NEW i \in Samples, Start(i)
  PROVE  RolloutInv'
<1>1. /\ Types /\ Async /\ Coroutine(i) /\ phase = "running" /\ pc[i] = "start"
      /\ Submit(i)
      /\ UNCHANGED <<setup, log, rewards, info, stops, terminated, truncated,
                     active, lost, phase>>
  BY DEF RolloutInv, AsyncInv, Start
<1>2. Types'
  <2>1. /\ log' \in [Samples -> Seq(Messages)] /\ DOMAIN rewards' = Samples
        /\ info' \in [Samples -> Refs] /\ stops' \in [Samples -> {None} \cup Refs]
        /\ terminated' \in [Samples -> BOOLEAN] /\ truncated' \in [Samples -> BOOLEAN]
    BY <1>1 DEF Types
  <2> QED BY <1>1, <2>1, SubmitTypes
<1>3. \A j \in Samples \ {i} : Unmoved(j)
  BY <1>1 DEF Types, Submit, Unmoved
<1>4. /\ turns'[i] = 1 /\ pc'[i] = "waiting"
      /\ queue'[i] = <<>> /\ finished'[i] = FALSE /\ collected'[i] = <<>>
  BY <1>1 DEF Types, Submit, Coroutine
<1>5. /\ GoingOn(i) /\ Len(log[i]) = 1
  BY <1>1 DEF Coroutine
<1>6. GoingOn(i)'
  BY <1>1, <1>5 DEF GoingOn
<1>7. Stream(i)'
  BY <1>4 DEF Stream
<1>8. 1 \in 1..MaxTurns /\ 1 = 2 * 1 - 1
  BY Limits
<1>9. Coroutine(i)'
  BY <1>1, <1>4, <1>5, <1>6, <1>7, <1>8 DEF Coroutine
<1> QED BY <1>1, <1>2, <1>3, <1>9, StepBetweenTurns

\* What is known of a sample whose coroutine waits.
LEMMA WhileWaiting ==
  ASSUME RolloutInv, NEW i \in Samples, Waiting(i)
  PROVE  /\ Types /\ Async /\ phase = "running" /\ pc[i] = "waiting"
         /\ Sound(i) /\ GoingOn(i) /\ Stream(i) /\ i \in Nat
         /\ turns[i] \in 1..MaxTurns /\ Len(log[i]) = 2 * turns[i] - 1
<1>1. Types /\ Async /\ phase = "running" /\ pc[i] = "waiting" /\ Sound(i) /\ Coroutine(i)
  BY DEF Waiting, RolloutInv, AsyncInv
<1>2. i \in Nat
  BY <1>1, TheSamples DEF Types
<1> QED BY <1>1, <1>2 DEF Coroutine

\* A step of the worker or of the coroutine that moves the stream of sample i.
LEMMA StreamMoves ==
  ASSUME RolloutInv, NEW i \in Samples, Waiting(i),
         UNCHANGED <<setup, log, rewards, info, stops, terminated, truncated,
                     turns, active, pc, shard, lost, phase>>,
         \A j \in Samples \ {i} : queue'[j] = queue[j] /\ finished'[j] = finished[j]
                                  /\ collected'[j] = collected[j],
         DOMAIN queue' = Samples, DOMAIN collected' = Samples,
         finished' \in [Samples -> BOOLEAN], Stream(i)'
  PROVE  RolloutInv'
<1>1. /\ Types /\ Async /\ phase = "running" /\ pc[i] = "waiting"
      /\ Sound(i) /\ GoingOn(i) /\ Stream(i)
      /\ turns[i] \in 1..MaxTurns /\ Len(log[i]) = 2 * turns[i] - 1
  BY WhileWaiting
<1>2. Types'
  BY <1>1 DEF Types, Samples
<1>3. \A j \in Samples \ {i} : Unmoved(j)
  BY DEF Unmoved
<1>4. GoingOn(i)'
  BY <1>1 DEF GoingOn
<1>5. Coroutine(i)'
  BY <1>1, <1>4 DEF Coroutine
<1> QED BY <1>1, <1>2, <1>3, <1>5, StepBetweenTurns

\* Taking a sample from the generator keeps the invariant.
LEMMA ConsumeSampleInv ==
  ASSUME RolloutInv, NEW i \in Samples, ConsumeSample(i)
  PROVE  RolloutInv'
<1> DEFINE s == log[i]
<1>1. /\ Types /\ Async /\ Sound(i) /\ Stream(i) /\ i \in Nat
      /\ Waiting(i) /\ ~ finished[i] /\ queue[i] = <<>> /\ collected[i] = <<>>
      /\ UNCHANGED <<setup, log, rewards, info, stops, terminated, truncated,
                     turns, active, pc, finished, collected, shard, lost, phase>>
  BY WhileWaiting DEF ConsumeSample
<1>2. PICK tokens \in Generated(Prompt(i).tokens) :
        queue' = [queue EXCEPT ![i] =
          <<[type |-> "sample",
             item |-> WorkerGenerate(<<Prompt(i)>>, <<1>>, <<tokens>>)[1]]>>]
  BY DEF ConsumeSample
<1> DEFINE m == WorkerGenerate(<<Prompt(i)>>, <<1>>, <<tokens>>)[1]
           cuts == MergedStops(<<Prompt(i)>>, <<1>>, 1)
<1>3. Prompt(i).to = <<i, Len(s)>> /\ Prompt(i).tokens = Length(s)
      /\ Prompt(i).stops = stops[i]
  BY DEF Prompt
<1>4. m = Message("assistant", <<i, Len(s)>>, tokens, cuts)
  <2> DEFINE p == Prompt(i)
  <2>1. p.to = <<i, Len(s)>>
    BY <1>3
  <2> HIDE DEF p
  <2>2. Len(<<1>>) = 1 /\ <<1>>[1] = 1 /\ <<p>>[1] = p /\ <<tokens>>[1] = tokens
    OBVIOUS
  <2>3. WorkerGenerate(<<p>>, <<1>>, <<tokens>>)
        = [k \in 1..1 |-> Message("assistant", p.to, tokens, MergedStops(<<p>>, <<1>>, k))]
    <3>1. WorkerGenerate(<<p>>, <<1>>, <<tokens>>)
          = [k \in 1..Len(<<1>>) |->
               Message("assistant", <<p>>[<<1>>[k]].to, <<tokens>>[<<1>>[k]],
                       MergedStops(<<p>>, <<1>>, k))]
      BY DEF WorkerGenerate
    <3>2. \A k \in 1..1 : <<1>>[k] = 1
      OBVIOUS
    <3> QED BY <2>2, <3>1, <3>2
  <2> QED BY <2>1, <2>3 DEF p
<1>5. cuts = {stops[i]} \ {None}
  <2> DEFINE p == Prompt(i)
  <2>1. p.stops = stops[i]
    BY <1>3
  <2> HIDE DEF p
  <2>2. Len(<<1>>) = 1 /\ <<1>>[1] = 1 /\ <<p>>[1] = p
    OBVIOUS
  <2>3. MergedStops(<<p>>, <<1>>, 1) = {p.stops} \ {None}
    BY <2>2 DEF MergedStops
  <2> QED BY <2>1, <2>3 DEF p
<1>6. tokens \in Nat /\ Length(s) + tokens <= MaxSeqLen
  <2>1. Length(s) \in Nat /\ Length(s) <= MaxSeqLen
    BY <1>1, LengthIsNat DEF Sound
  <2> HIDE DEF s
  <2> QED BY <1>2, <1>3, <2>1, GeneratedFits
<1>7. stops[i] \in {None} \cup Refs /\ (stops[i] # None => stops[i][1] = i)
  BY <1>1 DEF Types, Sound
<1>8. Response(Own, i, s, m)
  <2>1. cuts \in SUBSET Refs /\ (Own => \A stop \in cuts : stop[1] = i)
    BY <1>5, <1>7
  <2> HIDE DEF m, cuts, s
  <2> QED BY <1>4, <1>6, <2>1 DEF Response
<1> HIDE DEF m, cuts
<1>9. DOMAIN queue = Samples /\ DOMAIN collected = Samples /\ finished \in [Samples -> BOOLEAN]
  BY <1>1 DEF Types
<1>10. /\ queue'[i] = <<Sample(m)>> /\ DOMAIN queue' = Samples
       /\ \A j \in Samples \ {i} : queue'[j] = queue[j]
  BY <1>2, <1>9 DEF Sample, m
<1>11. Own' = Own
  BY <1>1 DEF Own
<1>12. Stream(i)'
  BY <1>1, <1>8, <1>10, <1>11 DEF Stream
<1> QED BY <1>1, <1>9, <1>10, <1>12, StreamMoves

\* So does the end of the generator.
LEMMA ConsumeEndInv ==
  ASSUME RolloutInv, NEW i \in Samples, ConsumeEnd(i)
  PROVE  RolloutInv'
<1>1. /\ Types /\ Stream(i) /\ Waiting(i)
      /\ ~ finished[i] /\ queue[i] = <<>> /\ collected[i] # <<>>
      /\ finished' = [finished EXCEPT ![i] = TRUE]
      /\ queue' = [queue EXCEPT ![i] = <<WorkerDone>>]
      /\ UNCHANGED <<setup, log, rewards, info, stops, terminated, truncated,
                     turns, active, pc, collected, shard, lost, phase>>
  BY WhileWaiting DEF ConsumeEnd, WorkerDone
<1>2. PICK m : Response(Own, i, log[i], m) /\ collected[i] = <<m>>
  BY <1>1 DEF Stream
<1>3. DOMAIN queue = Samples /\ DOMAIN collected = Samples /\ finished \in [Samples -> BOOLEAN]
  BY <1>1 DEF Types
<1>4. /\ queue'[i] = <<WorkerDone>> /\ finished'[i] = TRUE
      /\ DOMAIN queue' = Samples /\ finished' \in [Samples -> BOOLEAN]
      /\ \A j \in Samples \ {i} : queue'[j] = queue[j] /\ finished'[j] = finished[j]
  BY <1>1, <1>3
<1>5. Own' = Own
  BY <1>1 DEF Own
<1>6. Stream(i)'
  BY <1>1, <1>2, <1>4, <1>5 DEF Stream
<1> QED BY <1>1, <1>3, <1>4, <1>6, StreamMoves

\* So does an error from the generator.
LEMMA ConsumeErrorInv ==
  ASSUME RolloutInv, NEW i \in Samples, ConsumeError(i)
  PROVE  RolloutInv'
<1>1. /\ Types /\ Stream(i) /\ Waiting(i)
      /\ ~ finished[i] /\ queue[i] = <<>>
      /\ finished' = [finished EXCEPT ![i] = TRUE]
      /\ queue' = [queue EXCEPT ![i] = <<Error, WorkerDone>>]
      /\ UNCHANGED <<setup, log, rewards, info, stops, terminated, truncated,
                     turns, active, pc, collected, shard, lost, phase>>
  BY WhileWaiting DEF ConsumeError, Error, WorkerDone
<1>2. DOMAIN queue = Samples /\ DOMAIN collected = Samples /\ finished \in [Samples -> BOOLEAN]
  BY <1>1 DEF Types
<1>3. /\ queue'[i] = <<Error, WorkerDone>> /\ finished'[i] = TRUE
      /\ DOMAIN queue' = Samples /\ finished' \in [Samples -> BOOLEAN]
      /\ \A j \in Samples \ {i} : queue'[j] = queue[j] /\ finished'[j] = finished[j]
  BY <1>1, <1>2
<1>4. Own' = Own
  BY <1>1 DEF Own
<1>5. collected[i] = <<>> \/ \E m : Response(Own, i, log[i], m) /\ collected[i] = <<m>>
  BY <1>1 DEF Stream
<1>6. Stream(i)'
  BY <1>1, <1>3, <1>4, <1>5 DEF Stream
<1> QED BY <1>1, <1>2, <1>3, <1>6, StreamMoves

\* The messages of a stream.
LEMMA MessageTypes ==
  /\ \A m : Sample(m).type = "sample" /\ Sample(m).item = m
  /\ Error.type = "error" /\ WorkerDone.type = "worker_done"
  /\ \A a : Head(<<a>>) = a /\ Tail(<<a>>) = <<>> /\ <<a>> # <<>>
  /\ \A a, b : Head(<<a, b>>) = a /\ <<a, b>> # <<>>
BY DEF Sample, Error, WorkerDone

\* Taking a sample's reply keeps the invariant.
LEMMA TakeSampleInv ==
  ASSUME RolloutInv, NEW i \in Samples, TakeSample(i)
  PROVE  RolloutInv'
<1>1. /\ Types /\ Stream(i) /\ Waiting(i)
      /\ queue[i] # <<>> /\ Head(queue[i]).type = "sample"
      /\ collected' = [collected EXCEPT ![i] = Append(@, Head(queue[i]).item)]
      /\ queue' = [queue EXCEPT ![i] = Tail(@)]
      /\ UNCHANGED <<setup, log, rewards, info, stops, terminated, truncated,
                     turns, active, pc, finished, shard, lost, phase>>
  BY WhileWaiting DEF TakeSample
<1>2. PICK m : /\ Response(Own, i, log[i], m)
               /\ queue[i] = <<Sample(m)>> /\ collected[i] = <<>> /\ ~ finished[i]
  BY <1>1, MessageTypes, Zenon DEF Stream
<1>3. DOMAIN queue = Samples /\ DOMAIN collected = Samples /\ finished \in [Samples -> BOOLEAN]
  BY <1>1 DEF Types
<1>4. Head(queue[i]).item = m /\ Tail(queue[i]) = <<>> /\ Append(collected[i], m) = <<m>>
  BY <1>2, MessageTypes
<1>5. /\ queue'[i] = <<>> /\ collected'[i] = <<m>>
      /\ DOMAIN queue' = Samples /\ DOMAIN collected' = Samples
      /\ \A j \in Samples \ {i} : queue'[j] = queue[j] /\ collected'[j] = collected[j]
  BY <1>1, <1>3, <1>4
<1>6. Own' = Own
  BY <1>1 DEF Own
<1>7. Stream(i)'
  BY <1>1, <1>2, <1>5, <1>6 DEF Stream
<1> QED BY <1>1, <1>3, <1>5, <1>7, StreamMoves

\* A worker that failed, or the time limit.
LEMMA BreakOffInv ==
  ASSUME RolloutInv, NEW i \in Samples, Waiting(i), NEW why \in {"error", "timeout"},
         BreakOff(i, why)
  PROVE  RolloutInv'
<1>1. /\ Types /\ Async /\ phase = "running" /\ pc[i] = "waiting"
  BY WhileWaiting
<1>2. /\ pc' = [pc EXCEPT ![i] = "done"] /\ lost' = [lost EXCEPT ![i] = why]
      /\ UNCHANGED <<setup, log, rewards, info, stops, terminated, truncated,
                     turns, active, stream, shard, phase>>
  BY DEF BreakOff
<1>3. /\ pc' \in [Samples -> {"batch", "start", "waiting", "done"}] /\ pc'[i] = "done"
      /\ lost' \in [Samples -> {"no", "error", "timeout"}] /\ lost'[i] # "no"
  BY <1>1, <1>2 DEF Types
<1>4. Types'
  BY <1>1, <1>2, <1>3 DEF Types, Samples, stream
<1>5. \A j \in Samples \ {i} : Unmoved(j)
  BY <1>1, <1>2 DEF Types, stream, Unmoved
<1>6. Coroutine(i)'
  BY <1>3 DEF Coroutine
<1> QED BY <1>1, <1>2, <1>4, <1>5, <1>6, StepBetweenTurns

\* The rewards of a batch of one are the reply to that one.
LEMMA OneReply ==
  ASSUME NEW item, NEW outcome
  PROVE  CalculateRewards(<<item>>, <<outcome>>)[1] = Reply(item, outcome)
<1> DEFINE items == <<item>>
           outcomes == <<outcome>>
<1>1. Len(items) = 1 /\ Len(items) \in Nat /\ items[1] = item /\ outcomes[1] = outcome
  OBVIOUS
<1> HIDE DEF items, outcomes
<1>2. CalculateRewards(items, outcomes)[1] = Reply(items[1], outcomes[1])
  <2>1. 1 \in 1..Len(items)
    BY <1>1
  <2> QED BY ONLY <1>1, <2>1, RewardsAligned
<1> QED BY <1>1, <1>2 DEF items, outcomes

\* The response and the reply of the environment, and the next turn or the end.
LEMMA TakeDoneInv ==
  ASSUME RolloutInv, NEW i \in Samples, TakeDone(i)
  PROVE  RolloutInv'
<1> DEFINE s == log[i]
           l == Len(s)
           t == turns[i]
<1>1. /\ Waiting(i) /\ queue[i] # <<>> /\ Head(queue[i]).type = "worker_done"
      /\ finished[i]
  BY DEF TakeDone
<1>2. /\ Types /\ Async /\ phase = "running" /\ pc[i] = "waiting"
      /\ Sound(i) /\ GoingOn(i) /\ Stream(i) /\ i \in Nat
      /\ t \in 1..MaxTurns /\ l = 2 * t - 1
  BY <1>1, WhileWaiting
<1>3. PICK m : Response(Own, i, s, m) /\ collected[i] = <<m>>
  <2>1. Head(<<Error, WorkerDone>>).type = "error"
    BY MessageTypes
  <2> HIDE DEF s
  <2> QED BY <1>1, <1>2, <2>1, Zenon DEF Stream, s
<1> DEFINE answered == Append(s, m)
           item == Item(i, answered)
<1>4. collected[i][1] = m /\ collected[i] # <<>>
  BY <1>3
<1>5. /\ Conversation(Own, i, s) /\ Own \in BOOLEAN /\ l \in Nat /\ l % 2 = 1
      /\ MaxTurns \in Nat
  <2>1. Conversation(Own, i, s) /\ Own \in BOOLEAN /\ l \in Nat /\ MaxTurns \in Nat
    BY <1>2, LastRole, Limits DEF Sound, Own
  <2> HIDE DEF l, t
  <2>2. l % 2 = 1
    BY <1>2, <2>1
  <2> QED BY <2>1, <2>2
<1>6. /\ Conversation(Own, i, answered) /\ Len(answered) = l + 1
      /\ Last(answered).role = "assistant" /\ Quiet(answered)
      /\ InfoIn(i, answered, l + 2) = InfoIn(i, s, l + 1)
      /\ RewardsOf(i, answered) = RewardsOf(i, s)
  <2>1. Quiet(s)
    BY <1>2 DEF GoingOn
  <2>2. Conversation(Own, i, s) /\ Response(Own, i, s, m) /\ Len(s) % 2 = 1
    BY <1>3, <1>5
  <2> HIDE DEF s, l
  <2>3. /\ Conversation(Own, i, Append(s, m)) /\ Len(Append(s, m)) = Len(s) + 1
        /\ Last(Append(s, m)).role = "assistant" /\ Quiet(Append(s, m))
        /\ InfoIn(i, Append(s, m), Len(s) + 2) = InfoIn(i, s, Len(s) + 1)
        /\ RewardsOf(i, Append(s, m)) = RewardsOf(i, s)
    BY <1>2, <1>5, <2>1, <2>2, ResponseContinues
  <2> QED BY <2>3 DEF l
<1>7. /\ info[i] = InfoIn(i, answered, Len(answered) + 1)
      /\ rewards[i] = RewardsOf(i, answered)
      /\ stops[i] # None => stops[i][1] = i
      /\ stops[i] \in {None} \cup Refs
  <2>1. l + 1 + 1 = l + 2
    BY <1>5
  <2>2. info[i] = InfoIn(i, s, l + 1)
    BY <1>2 DEF GoingOn
  <2>3. rewards[i] = RewardsOf(i, s) /\ (stops[i] # None => stops[i][1] = i)
    BY <1>2 DEF Sound
  <2>4. stops[i] \in {None} \cup Refs
    BY <1>2 DEF Types
  <2> HIDE DEF s, l, answered
  <2> QED BY <1>6, <2>1, <2>2, <2>3, <2>4
<1>8. Len(answered) % 2 = 0
  <2> HIDE DEF s, l, answered
  <2> QED BY <1>5, <1>6
<1>9. Shown(i, answered, item)
  <2> HIDE DEF answered
  <2> QED BY <1>7 DEF Shown, Item
<1>10. CASE Unknown(<<item>>) # {}
  <2>1. /\ phase' = "raised" /\ log' = [log EXCEPT ![i] = answered]
        /\ UNCHANGED <<setup, rewards, info, stops, terminated, truncated, turns,
                       active, pc, stream, shard, lost>>
    BY <1>4, <1>10, Zenon DEF TakeDone
  <2> HIDE DEF s, l, t, item, answered
  <2>2. answered \in Seq(Messages)
    BY <1>6 DEF Conversation
  <2>3. log' \in [Samples -> Seq(Messages)] /\ log'[i] = answered
        /\ \A j \in Samples \ {i} : log'[j] = log[j]
    BY <1>2, <2>1, <2>2 DEF Types
  <2>4. Types'
    BY <1>2, <2>1, <2>3 DEF Types, Samples, stream
  <2>5. \A j \in Samples \ {i} : Unmoved(j)
    BY <2>1, <2>3 DEF Unmoved, stream
  <2>6. Own' = Own
    BY <2>1 DEF Own
  <2>7. RoleAt(Len(answered)) # "environment"
    BY <1>6, LastRole
  <2>8. LastWord(answered)
    BY <1>6 DEF Quiet, LastWord
  <2>9. Sound(i)'
    BY <1>6, <1>7, <2>1, <2>3, <2>6, <2>7, <2>8 DEF Sound
  <2>10. Coroutine(i)'
    BY <1>2, <2>1 DEF Coroutine
  <2> QED BY <1>2, <2>1, <2>4, <2>5, <2>9, <2>10, StepOfOne
<1>11. CASE Unknown(<<item>>) = {}
  <2>1. PICK outcome \in Outcomes :
          LET reply == CalculateRewards(<<item>>, <<outcome>>)[1]
          IN  /\ log' = [log EXCEPT ![i] =
                   Append(answered, Observation(answered, reply))]
              /\ rewards' = [rewards EXCEPT ![i] = Append(@, reply.to)]
              /\ terminated' = [terminated EXCEPT ![i] = reply.ends]
              /\ truncated' = [truncated EXCEPT ![i] = Overflows(answered, reply)]
              /\ stops' = [stops EXCEPT ![i] =
                   IF GoesOn(i) /\ reply.stops # None THEN reply.stops ELSE @]
              /\ info' = [info EXCEPT ![i] =
                   IF GoesOn(i) /\ reply.leaves # None THEN reply.leaves ELSE @]
              /\ IF GoesOn(i) /\ turns[i] < MaxTurns
                 THEN Submit(i)
                 ELSE /\ pc' = [pc EXCEPT ![i] = "done"]
                      /\ UNCHANGED <<turns, stream, shard>>
              /\ UNCHANGED <<setup, active, lost, phase>>
    BY <1>4, <1>11, Zenon DEF TakeDone
  <2> DEFINE reply == Reply(item, outcome)
  <2>2. CalculateRewards(<<item>>, <<outcome>>)[1] = reply
    BY OneReply
  <2> HIDE DEF s, l, t, item, answered, reply
  <2>3. /\ log' = [log EXCEPT ![i] = Append(answered, Observation(answered, reply))]
        /\ rewards' = [rewards EXCEPT ![i] = Append(@, reply.to)]
        /\ terminated' = [terminated EXCEPT ![i] = reply.ends]
        /\ truncated' = [truncated EXCEPT ![i] = Overflows(answered, reply)]
        /\ stops' = [stops EXCEPT ![i] =
             IF GoesOn(i) /\ reply.stops # None THEN reply.stops ELSE @]
        /\ info' = [info EXCEPT ![i] =
             IF GoesOn(i) /\ reply.leaves # None THEN reply.leaves ELSE @]
    BY <2>1, <2>2
  <2>4. /\ IF GoesOn(i) /\ turns[i] < MaxTurns
           THEN Submit(i)
           ELSE /\ pc' = [pc EXCEPT ![i] = "done"]
                /\ UNCHANGED <<turns, stream, shard>>
        /\ UNCHANGED <<setup, active, lost, phase>>
    BY <2>1
  <2>5. /\ log \in [Samples -> Seq(Messages)] /\ DOMAIN rewards = Samples
        /\ info \in [Samples -> Refs] /\ stops \in [Samples -> {None} \cup Refs]
        /\ terminated \in [Samples -> BOOLEAN] /\ truncated \in [Samples -> BOOLEAN]
    BY <1>2 DEF Types
  <2>6. /\ log'[i] = Append(answered, Observation(answered, reply))
        /\ rewards'[i] = Append(rewards[i], reply.to)
        /\ terminated'[i] = reply.ends /\ truncated'[i] = Overflows(answered, reply)
        /\ stops'[i] \in {stops[i], reply.stops}
        /\ info'[i] = IF GoesOn(i) /\ reply.leaves # None THEN reply.leaves ELSE info[i]
    BY <2>3, <2>5
  <2>7. Replied(i, answered, item, outcome)
    BY <2>6 DEF Replied, reply
  <2>8. /\ Sound(i)' /\ Len(log'[i]) = Len(answered) + 1
        /\ GoesOn(i) => GoingOn(i)'
        /\ ~ GoesOn(i) => HasEnded(i)'
        /\ (RoleAt(Len(log[i])) = "environment")'
        /\ log'[i] \in Seq(Messages) /\ info'[i] \in Refs
        /\ stops'[i] \in {None} \cup Refs
        /\ truncated'[i] \in BOOLEAN /\ terminated'[i] \in BOOLEAN
    BY <1>2, <1>6, <1>7, <1>8, <1>9, <2>4, <2>7, RepliedInv
  <2>9. \A j \in Samples \ {i} :
          /\ log'[j] = log[j] /\ rewards'[j] = rewards[j] /\ info'[j] = info[j]
          /\ stops'[j] = stops[j]
          /\ terminated'[j] = terminated[j] /\ truncated'[j] = truncated[j]
    BY <2>3, <2>5
  <2>10. /\ log' = [j \in Samples |-> log'[j]] /\ info' = [j \in Samples |-> info'[j]]
         /\ stops' = [j \in Samples |-> stops'[j]]
         /\ terminated' = [j \in Samples |-> terminated'[j]]
         /\ truncated' = [j \in Samples |-> truncated'[j]]
         /\ DOMAIN rewards' = Samples
    BY <2>3, <2>5
  <2>11. /\ log' \in [Samples -> Seq(Messages)] /\ info' \in [Samples -> Refs]
         /\ stops' \in [Samples -> {None} \cup Refs]
    <3>1. \A j \in Samples : /\ log'[j] \in Seq(Messages) /\ info'[j] \in Refs
                             /\ stops'[j] \in {None} \cup Refs
      BY <2>5, <2>8, <2>9
    <3> QED BY <2>10, <3>1
  <2>12. /\ terminated' \in [Samples -> BOOLEAN] /\ truncated' \in [Samples -> BOOLEAN]
    <3>1. \A j \in Samples : terminated'[j] \in BOOLEAN /\ truncated'[j] \in BOOLEAN
      BY <2>5, <2>8, <2>9
    <3> QED BY <2>10, <3>1
  <2>13. CASE GoesOn(i) /\ turns[i] < MaxTurns
    <3>1. Submit(i)
      BY <2>4, <2>13
    <3>2. Types'
      BY <1>2, <2>4, <2>10, <2>11, <2>12, <3>1, SubmitTypes
    <3>3. \A j \in Samples \ {i} : Unmoved(j)
      BY <1>2, <2>4, <2>9, <3>1 DEF Types, Submit, Unmoved
    <3>4. /\ turns'[i] = t + 1 /\ pc'[i] = "waiting"
          /\ queue'[i] = <<>> /\ finished'[i] = FALSE /\ collected'[i] = <<>>
      BY <1>2, <3>1 DEF Types, Submit, t
    <3>5. Stream(i)'
      BY <3>4 DEF Stream
    <3>6. t + 1 \in 1..MaxTurns /\ Len(log'[i]) = 2 * (t + 1) - 1
      <4>1. t < MaxTurns
        BY <2>13 DEF t
      <4> QED BY <1>2, <1>5, <1>6, <2>8, <4>1
    <3>7. Coroutine(i)'
      BY <2>8, <2>13, <3>4, <3>5, <3>6 DEF Coroutine
    <3> QED BY <1>2, <2>4, <2>8, <3>2, <3>3, <3>7, StepOfOne
  <2>14. CASE ~ (GoesOn(i) /\ turns[i] < MaxTurns)
    <3>1. pc' = [pc EXCEPT ![i] = "done"] /\ UNCHANGED <<turns, stream, shard>>
      BY <2>4, <2>14
    <3>2. /\ pc' \in [Samples -> {"batch", "start", "waiting", "done"}]
          /\ pc'[i] = "done" /\ \A j \in Samples \ {i} : pc'[j] = pc[j]
      BY <1>2, <3>1 DEF Types
    <3>3. Types'
      BY <1>2, <2>4, <2>10, <2>11, <2>12, <3>1, <3>2 DEF Types, Samples, stream
    <3>4. \A j \in Samples \ {i} : Unmoved(j)
      BY <2>4, <2>9, <3>1, <3>2 DEF Unmoved, stream
    <3>5. HasEnded(i)' \/ OutOfTurns(i)'
      <4>1. CASE ~ GoesOn(i)
        BY <2>8, <4>1
      <4>2. CASE ~ (turns[i] < MaxTurns)
        <5>1. turns'[i] = MaxTurns
          BY <1>2, <1>5, <3>1, <4>2 DEF t
        <5> QED BY <2>8, <5>1 DEF OutOfTurns
      <4> QED BY <2>14, <4>1, <4>2
    <3>6. Coroutine(i)'
      BY <3>2, <3>5 DEF Coroutine
    <3> QED BY <1>2, <2>4, <2>8, <3>3, <3>4, <3>6, StepOfOne
  <2> QED BY <2>13, <2>14
<1> QED BY <1>10, <1>11

\* Every step keeps the invariant.
LEMMA NextInv ==
  ASSUME RolloutInv, [Next]_vars
  PROVE  RolloutInv'
<1>1. CASE BatchStep
  <2>1. CASE GenerateTurn
    BY <2>1, GenerateTurnInv
  <2>2. CASE EnvironmentTurn
    BY <2>2, EnvironmentTurnInv
  <2>3. CASE ReturnBatch
    BY <2>3, ReturnBatchInv
  <2>4. CASE GatherSamples
    BY <2>4, GatherSamplesInv
  <2> QED BY <1>1, <2>1, <2>2, <2>3, <2>4 DEF BatchStep
<1>2. ASSUME NEW i \in Samples, SampleStep(i)
      PROVE  RolloutInv'
  <2>1. CASE Start(i)
    BY <2>1, StartInv
  <2>2. CASE TakeSample(i)
    BY <2>2, TakeSampleInv
  <2>3. CASE TakeError(i)
    <3>1. Waiting(i) /\ BreakOff(i, "error") /\ "error" \in {"error", "timeout"}
      BY <2>3 DEF TakeError
    <3> QED BY <3>1, BreakOffInv
  <2>4. CASE TakeDone(i)
    BY <2>4, TakeDoneInv
  <2> QED BY <1>2, <2>1, <2>2, <2>3, <2>4 DEF SampleStep
<1>3. ASSUME NEW i \in Samples, WorkerStep(i)
      PROVE  RolloutInv'
  <2>1. CASE ConsumeSample(i)
    BY <2>1, ConsumeSampleInv
  <2>2. CASE ConsumeEnd(i)
    BY <2>2, ConsumeEndInv
  <2>3. CASE ConsumeError(i)
    BY <2>3, ConsumeErrorInv
  <2> QED BY <1>3, <2>1, <2>2, <2>3 DEF WorkerStep
<1>4. ASSUME NEW i \in Samples, TimesOut(i)
      PROVE  RolloutInv'
  <2>1. Waiting(i) /\ BreakOff(i, "timeout") /\ "timeout" \in {"error", "timeout"}
    BY <1>4 DEF TimesOut
  <2> QED BY <2>1, BreakOffInv
<1>5. CASE UNCHANGED vars
  <2>1. UNCHANGED <<setup, log, rewards, info, stops, terminated, truncated, turns,
                    active, pc, queue, finished, collected, shard, lost, phase>>
    BY <1>5 DEF vars
  <2>2. Samples' = Samples /\ Async' = Async /\ Own' = Own
    BY <2>1 DEF Samples, Async, Own
  <2>3. /\ Types /\ (\A i \in Samples : Sound(i)) /\ (Async => AsyncInv)
        /\ (~ Async => BatchInv) /\ ReturnedInv
    BY DEF RolloutInv
  <2>4. Types'
    BY <2>1, <2>2, <2>3 DEF Types
  <2>5. \A i \in Samples : Sound(i)'
    BY <2>1, <2>3, SoundStays
  <2>6. \A i \in Samples : /\ GoingOn(i)' <=> GoingOn(i)
                           /\ HasEnded(i)' <=> HasEnded(i)
                           /\ OutOfTurns(i)' <=> OutOfTurns(i)
                           /\ Stream(i)' <=> Stream(i)
    BY <2>1, <2>2 DEF GoingOn, HasEnded, OutOfTurns, Stream
  <2>7. AsyncInv' <=> AsyncInv
    BY <2>1, <2>2, <2>6 DEF AsyncInv, Coroutine
  <2>8. BatchInv' <=> BatchInv
    BY <2>1, <2>2, <2>6 DEF BatchInv, Active, InStep
  <2>9. ReturnedInv'
    BY <2>1, <2>2, <2>3, <2>6 DEF ReturnedInv
  <2> QED BY <2>2, <2>3, <2>4, <2>5, <2>7, <2>8, <2>9 DEF RolloutInv
<1> QED BY <1>1, <1>2, <1>3, <1>4, <1>5 DEF Next

-----------------------------------------------------------------------------
(* The theorems. *)

\* The invariant holds in every reachable state, whatever the environments
\* answer, for every batch, every back end and both kinds of rollout.
THEOREM RolloutInvariant == Spec => []RolloutInv
<1>1. RolloutInv /\ [Next]_vars => RolloutInv'
  BY NextInv
<1> QED BY InitInv, <1>1, PTL DEF Spec

\* Every conversation is its sample's own: every message continues it, every
\* environment was given the state it left there, the reward is the sum of the
\* replies in it, and no response was cut at another sample's stop strings.
THEOREM ConversationsAreOwn == Spec => []OwnConversation
<1>1. RolloutInv => OwnConversation
  <2> SUFFICES ASSUME RolloutInv, NEW i \in Samples
               PROVE  /\ \A k \in 1..Len(log[i]) :
                           /\ log[i][k].to = <<i, k - 1>>
                           /\ log[i][k].role = (CASE k = 1 -> "user"
                                                  [] k % 2 = 0 -> "assistant"
                                                  [] OTHER -> "environment")
                           /\ log[i][k].role = "environment" =>
                                log[i][k].with = InfoBefore(i, k)
                           /\ log[i][k].role = "assistant" /\ setup.backend # "vllm" =>
                                \A stop \in log[i][k].with : stop[1] = i
                      /\ rewards[i] = [n \in 1..((Len(log[i]) - 1) \div 2) |-> <<i, 2 * n>>]
    BY Zenon DEF OwnConversation
  <2>1. Sound(i)
    BY DEF RolloutInv
  <2>2. \A k \in 1..Len(log[i]) : InPlace(Own, i, log[i], k)
    BY <2>1 DEF Sound, Conversation
  <2>3. \A k : InfoBefore(i, k) = InfoIn(i, log[i], k)
    BY DEF InfoBefore, InfoIn
  <2>4. ASSUME NEW k \in 1..Len(log[i])
        PROVE  /\ log[i][k].to = <<i, k - 1>>
               /\ log[i][k].role = RoleAt(k)
               /\ log[i][k].role = "environment" => log[i][k].with = InfoBefore(i, k)
               /\ log[i][k].role = "assistant" /\ setup.backend # "vllm" =>
                    \A stop \in log[i][k].with : stop[1] = i
    BY <2>2, <2>3 DEF InPlace, Own
  <2>5. rewards[i] = RewardsOf(i, log[i])
    BY <2>1 DEF Sound
  <2> QED BY <2>4, <2>5, Zenon DEF RoleAt, RewardsOf
<1> QED BY RolloutInvariant, <1>1, PTL

\* No conversation outgrows max_seq_len, and the truncated ones are those that
\* have reached it.
THEOREM TruncationIsRight == Spec => []TruncatedAtTheLimit
<1>1. RolloutInv => TruncatedAtTheLimit
  <2> SUFFICES ASSUME RolloutInv, NEW i \in Samples
               PROVE  /\ Length(log[i]) <= MaxSeqLen
                      /\ Last(log[i]).role = "environment" =>
                           (truncated[i] <=> Length(log[i]) = MaxSeqLen)
    BY DEF TruncatedAtTheLimit
  <2>1. Sound(i)
    BY DEF RolloutInv
  <2>2. Conversation(Own, i, log[i])
    BY <2>1 DEF Sound
  <2>3. Length(log[i]) <= MaxSeqLen /\ Last(log[i]).role = RoleAt(Len(log[i]))
    BY <2>2, LengthIsNat, LastRole
  <2> QED BY <2>1, <2>3 DEF Sound
<1> QED BY RolloutInvariant, <1>1, PTL

\* A rollout returns a conversation because it has ended, has had all its turns
\* or was broken off by a worker or the time limit, and nothing is said after
\* its end.
THEOREM ConversationsEndForAReason == Spec => []EndsForAReason
<1>1. RolloutInv => EndsForAReason
  <2> SUFFICES ASSUME RolloutInv, NEW i \in Samples
               PROVE  /\ phase = "returned" =>
                           \/ /\ Last(log[i]).role = "environment"
                              /\ terminated[i] \/ truncated[i] \/ turns[i] = MaxTurns
                           \/ lost[i] \in {"error", "timeout"}
                      /\ \A k \in 1..Len(log[i]) :
                           log[i][k].ends
                             \/ (log[i][k].role = "environment"
                                 /\ Length(SubSeq(log[i], 1, k)) = MaxSeqLen)
                             => k = Len(log[i])
    BY Zenon DEF EndsForAReason
  <2>1. Types /\ Sound(i) /\ ReturnedInv
    BY DEF RolloutInv
  <2>2. lost[i] \in {"no", "error", "timeout"}
    BY <2>1 DEF Types
  <2>3. Last(log[i]).role = RoleAt(Len(log[i]))
    BY <2>1, LastRole DEF Sound
  <2>4. LastWord(log[i])
    BY <2>1 DEF Sound
  <2>5. phase = "returned" => lost[i] # "no" \/ HasEnded(i) \/ OutOfTurns(i)
    BY <2>1 DEF ReturnedInv
  <2>6. \A k \in 1..Len(log[i]) :
          log[i][k].ends
            \/ (log[i][k].role = "environment"
                /\ Length(SubSeq(log[i], 1, k)) = MaxSeqLen)
            => k = Len(log[i])
    BY <2>4 DEF LastWord, EndsAt
  <2> QED BY <2>2, <2>3, <2>5, <2>6 DEF HasEnded, OutOfTurns
<1> QED BY RolloutInvariant, <1>1, PTL

=============================================================================
